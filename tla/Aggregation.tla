------------------------------ MODULE Aggregation ------------------------------
(***************************************************************************)
(* The arithmetic of a federated round (learning/federated.py): how the    *)
(* updates of the agents are compressed, summed, and made robust.          *)
(* An update is one sequence of whole numbers; where the code divides, the *)
(* result here carries its denominator or is compared before dividing.     *)
(***************************************************************************)
EXTENDS Calls

CONSTANTS
  Changes,      \* how far a parameter may change, up or down
  Updaters,     \* the number of agents of a robust aggregation
  Faulty,       \* krum_f
  ClipNorm,     \* dp_l2_clip
  SlotCount     \* slots of a ciphertext

ASSUME AggregationAssumption ==
  /\ Changes \subseteq Nat /\ 0 \in Changes
  /\ Updaters \in Nat \ {0} /\ Faulty \in Nat
  /\ ClipNorm \in Nat \ {0} /\ SlotCount \in Nat \ {0}

Gradients == Changes \cup {-c : c \in Changes}

Abs(n) == AbsDiff(n, 0)
Total(values) == SumFunction(values)

\* round(n / d) of Python and torch: ties go to the even neighbour.
RoundHalfEven(n, d) ==
  LET low == n \div d  rest == n % d IN
  IF 2 * rest > d \/ (2 * rest = d /\ low % 2 = 1) THEN low + 1 ELSE low

------------------------------------------------------------------------------
\* Robust aggregation.  updates is a sequence of updates of one length.

Column(updates, i) == [n \in DOMAIN updates |-> updates[n][i]]

\* [sum, of]: the mean of each parameter, before the division.
FedAvg(updates) ==
  [sum |-> [i \in DOMAIN updates[1] |-> Total(Column(updates, i))], of |-> Len(updates)]

SquaredDistance(u, v) == Total([i \in DOMAIN u |-> (u[i] - v[i]) * (u[i] - v[i])])

\* sorted: the k-th has k - 1 before it; of equals the one that came first.
Precedes(a, b) == a.value < b.value \/ (a.value = b.value /\ a.place < b.place)
Ascending(seq) ==
  LET entries == {[value |-> seq[i], place |-> i] : i \in DOMAIN seq}
  IN  [k \in DOMAIN seq |->
         (CHOOSE e \in entries : Cardinality({d \in entries : Precedes(d, e)}) = k - 1).value]

\* The nearest k others of the n-th update; the first of the sorted row is its own zero.
KrumScore(updates, n, k) ==
  LET row == Ascending([j \in DOMAIN updates |-> SquaredDistance(updates[n], updates[j])])
  IN  Total(SubSeq(row, 2, k + 1))

\* Fault: the farthest update is chosen.
KrumWinnerLast(updates, f) ==
  LET score == [n \in DOMAIN updates |-> KrumScore(updates, n, Len(updates) - f - 2)] IN
  Min({n \in DOMAIN updates : \A j \in DOMAIN updates : score[n] >= score[j]})

\* argmin: the first of the smallest.
KrumWinner(updates, f) ==
  LET score == [n \in DOMAIN updates |-> KrumScore(updates, n, Len(updates) - f - 2)] IN
  Min({n \in DOMAIN updates : \A j \in DOMAIN updates : score[n] <= score[j]})

Krum(updates, f) ==
  IF Len(updates) < 2 * f + 3 THEN FedAvg(updates)
  ELSE [sum |-> updates[KrumWinner(updates, f)], of |-> 1]

\* Fault: only the largest values are cut off.
TrimTopOnly(values, k) == SubSeq(Ascending(values), 1, Len(values) - 2 * k)

Trim(values, k) == SubSeq(Ascending(values), k + 1, Len(values) - k)

\* k = int(n / 5), the default fraction of 0.2.
TrimmedMean(updates) ==
  LET k == Len(updates) \div 5 IN
  [sum |-> [i \in DOMAIN updates[1] |-> Total(Trim(Column(updates, i), k))],
   of |-> Len(updates) - 2 * k]

\* An agent that is barred sends zeros and is counted.
Collect(deltas, blocked) ==
  [n \in DOMAIN deltas |->
     IF n \in blocked THEN [i \in DOMAIN deltas[n] |-> 0] ELSE deltas[n]]

CallRobust ==
  /\ Calling("robust")
  /\ \E deltas \in [1..Updaters -> [1..1 -> Gradients]] :
     \E blocked \in {{}} \cup {{n} : n \in 1..Updaters} :
       LET updates == Collect(deltas, blocked) IN
       Answer("robust", [deltas |-> deltas, blocked |-> blocked],
              [krum |-> Krum(updates, Faulty), trimmed |-> TrimmedMean(updates)])

\* However far a minority pulls: if all updates but f agree, krum answers with what they
\* agree on, the zero of a barred agent among the possible deviators.
KrumFollowsTheMajority ==
  Answered("robust") =>
    LET in == call.in
        sent == Collect(in.deltas, in.blocked)
    IN  \A v \in Gradients :
          /\ Updaters >= 2 * Faulty + 3
          /\ Cardinality({n \in 1..Updaters : sent[n] # <<v>>}) <= Faulty
          => call.out.krum = [sum |-> <<v>>, of |-> 1]

\* The trimmed mean stays between the smallest and the largest update of the others,
\* whichever k of the agents are taken to be false.
TrimmedMeanWithinTheHonest ==
  Answered("robust") =>
    LET in == call.in  out == call.out.trimmed
        sent == Collect(in.deltas, in.blocked)
        k == Updaters \div 5
    IN  \A liars \in {S \in SUBSET (1..Updaters) : Cardinality(S) = k} :
          LET honest == {sent[n][1] : n \in (1..Updaters) \ liars} IN
          out.of * Min(honest) <= out.sum[1] /\ out.sum[1] <= out.of * Max(honest)

------------------------------------------------------------------------------
\* Compression, for updates as they go over the wire.

\* The k largest in magnitude stay; which of equals, the library chooses.
TopK(update, k) ==
  {[i \in DOMAIN update |-> IF i \in kept THEN update[i] ELSE 0] :
     kept \in {S \in SUBSET DOMAIN update :
                 /\ Cardinality(S) = k
                 /\ \A i \in S, j \in DOMAIN update \ S : Abs(update[i]) >= Abs(update[j])}}

\* A fraction of zero keeps nothing, and nothing else keeps fewer than one.
Kept(n, num, den) ==
  IF num = 0 THEN 0 ELSE Smaller(n, Larger(1, RoundHalfEven(n * num, den)))

Levels == 127

\* [q, max]: each value is q * max / 127.
\* Fault: the scale is taken from the largest value, not the largest magnitude.
QuantizeByTop(update) ==
  LET top == Larger(1, Max({update[i] : i \in DOMAIN update})) IN
  [q |-> [i \in DOMAIN update |-> Clamp(RoundHalfEven(update[i] * Levels, top), -Levels, Levels)],
   max |-> top]

Quantize(update) ==
  LET top == Larger(1, Max({Abs(update[i]) : i \in DOMAIN update})) IN
  [q |-> [i \in DOMAIN update |-> Clamp(RoundHalfEven(update[i] * Levels, top), -Levels, Levels)],
   max |-> top]

NonZeros(update) == Cardinality({i \in DOMAIN update : update[i] # 0})

\* Fault: an index costs one byte.
WireBytesThinIndex(update, topk, quant) ==
  CASE topk -> NonZeros(update) + (IF quant THEN NonZeros(update) + 8 ELSE 4 * NonZeros(update))
    [] ~topk /\ quant -> Len(update) + 8
    [] OTHER -> 4 * Len(update)

\* Four bytes per number, four per index, one per quantised number and eight for a scale.
WireBytes(update, topk, quant) ==
  CASE topk -> 4 * NonZeros(update) + (IF quant THEN NonZeros(update) + 8 ELSE 4 * NonZeros(update))
    [] ~topk /\ quant -> Len(update) + 8
    [] OTHER -> 4 * Len(update)

CallCompress ==
  /\ Calling("compress")
  /\ \E update \in [1..4 -> {-7, 0, 2, 3}], den \in 1..4 : \E num \in 0..den :
     LET topk == 0 < num /\ num < den IN
     \E sparse \in IF topk THEN TopK(update, Kept(4, num, den)) ELSE {update} :
       Answer("compress", [update |-> update, num |-> num, den |-> den],
              [sparse |-> sparse, small |-> Quantize(sparse),
               bytes |-> WireBytes(sparse, topk, FALSE), small_bytes |-> WireBytes(sparse, topk, TRUE)])

\* A sparse update is the closest one with so few changes, and quantising moves no value by
\* more than half a step: the order of the values and the largest change survive.
CompressionClosest ==
  Answered("compress") =>
    LET in == call.in  s == call.out.sparse  z == call.out.small
        Gap(u) == SquaredDistance(in.update, u)
    IN  /\ \A kept \in SUBSET (1..4) :
             Cardinality(kept) <= NonZeros(s) =>
               Gap([i \in 1..4 |-> IF i \in kept THEN in.update[i] ELSE 0]) >= Gap(s)
        /\ \A i \in 1..4 : 2 * Abs(z.q[i] * z.max - s[i] * Levels) <= z.max

\* With each index sent beside its value, a sparse update is smaller on the wire than the
\* whole one only if it keeps less than half of the values: more, and it is larger.
SparseSmallerBelowHalf ==
  Answered("compress") =>
    LET in == call.in  out == call.out IN
    0 < in.num /\ in.num < in.den =>
      /\ out.bytes < 4 * 4 <=> NonZeros(out.sparse) < 2
      /\ out.bytes > 4 * 4 <=> NonZeros(out.sparse) > 2
      /\ Kept(4, in.num, in.den) <= 2 => out.bytes <= 4 * 4

------------------------------------------------------------------------------
\* The encrypted sum: updates are cut into chunks of one ciphertext, added and put together.

Chunks(n) == (n + SlotCount - 1) \div SlotCount
Chunk(flat, c) == SubSeq(flat, (c - 1) * SlotCount + 1, Smaller(c * SlotCount, Len(flat)))

\* The c-th ciphertexts of all agents, added and decrypted.
ChunkSum(flats, c) ==
  [i \in DOMAIN Chunk(flats[1], c) |-> Total([a \in DOMAIN flats |-> Chunk(flats[a], c)[i]])]

\* The first so many of them, one after the other.
SumOfChunks(flats, count) ==
  LET upTo[c \in 0..count] == IF c = 0 THEN <<>> ELSE upTo[c - 1] \o ChunkSum(flats, c)
  IN  upTo[count]

\* Fault: the last, partial chunk is left out.
EncryptedSumWhole(flats) == SumOfChunks(flats, Len(flats[1]) \div SlotCount)

EncryptedSum(flats) == SumOfChunks(flats, Chunks(Len(flats[1])))

\* The parameters get their slices back, in order.
Unflatten(flat, sizes) ==
  LET next[p \in 0..Len(sizes)] ==
        IF p = 0 THEN [parts |-> <<>>, at |-> 0]
        ELSE [parts |-> Append(next[p - 1].parts,
                          SubSeq(flat, next[p - 1].at + 1, Smaller(next[p - 1].at + sizes[p], Len(flat)))),
              at |-> next[p - 1].at + sizes[p]]
  IN  next[Len(sizes)].parts

CallCkksSum ==
  /\ Calling("ckks_sum")
  /\ \E sizes \in {<<1, 2>>, <<3, 1, 1>>, <<2, 2>>, <<1>>} :
     \E first \in [1..Total(sizes) -> {0, 1}], second \in [1..Total(sizes) -> {0, 2}] :
       Answer("ckks_sum", [sizes |-> sizes, flats |-> <<first, second>>],
              Unflatten(EncryptedSum(<<first, second>>), sizes))

\* Whatever the number of slots, each parameter gets the sum of its own changes over all
\* agents, in its own shape, and no value is lost between two ciphertexts.
EncryptedSumExact ==
  Answered("ckks_sum") =>
    LET in == call.in IN
    /\ Len(call.out) = Len(in.sizes)
    /\ \A p \in DOMAIN in.sizes :
         call.out[p] = [i \in 1..in.sizes[p] |->
                          LET at == Total(SubSeq(in.sizes, 1, p - 1)) + i
                          IN  in.flats[1][at] + in.flats[2][at]]

------------------------------------------------------------------------------
\* The clipping of DP-SGD, for a single parameter, where the norm is the magnitude.

Clipped(g) == IF Abs(g) <= ClipNorm THEN g ELSE IF g > 0 THEN ClipNorm ELSE -ClipNorm

\* Fault: the sum of the batch is clipped by the batch's size, not each example.
SumOfClippedLate(batch) ==
  LET sum == Total(batch) IN
  IF Abs(sum) <= ClipNorm * Len(batch) THEN sum ELSE Len(batch) * Clipped(sum)

SumOfClipped(batch) == Total(MapSeq(Clipped, batch))

\* A batch and the same batch without one of its examples.
CallClip ==
  /\ Calling("clip")
  /\ \E batch \in SeqsUpTo({-5, -1, 1, 3, 9}, 3) \ {<<>>} : \E i \in DOMAIN batch :
       Answer("clip", [batch |-> batch],
              [with |-> SumOfClipped(batch), without |-> SumOfClipped(RemoveAt(batch, i))])

\* One example more or less moves the sum by no more than the norm the noise is scaled to.
ClippingBoundsOneExample ==
  Answered("clip") => Abs(call.out.with - call.out.without) <= ClipNorm

------------------------------------------------------------------------------
AggregationInit == CallsInit({"robust", "compress", "ckks_sum", "clip"})

AggregationNext == CallRobust \/ CallCompress \/ CallCkksSum \/ CallClip

AggregationSpec == AggregationInit /\ [][AggregationNext]_call

\* For every set of updates: a robust aggregate stays with the honest ones, what is compressed is
\* the closest of its size, and encrypted sums and clippings are exact.
AggregationSound ==
  /\ KrumFollowsTheMajority /\ TrimmedMeanWithinTheHonest /\ CompressionClosest
  /\ SparseSmallerBelowHalf /\ EncryptedSumExact /\ ClippingBoundsOneExample
=============================================================================
