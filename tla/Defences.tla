------------------------------- MODULE Defences -------------------------------
(***************************************************************************)
(* The defences over data that leaves the arena (crypto/defenses/):        *)
(* suppression for k-anonymity and l-diversity, padding of messages, dummy *)
(* queries under a shared budget, and decoy records.                       *)
(* A record is its quasi-identifier and its sensitive value; a message is a*)
(* sequence of bytes, of which 0 is the padding byte as well.              *)
(***************************************************************************)
EXTENDS Calls

CONSTANTS
  QuasiIds, Sensitive, MaxRecords,   \* small tables of records
  Bytes, MaxMessage, MaxTarget,      \* messages, and sizes to pad to
  MaxDummies

ASSUME DefencesAssumption ==
  /\ 0 \in Bytes /\ Bytes \subseteq Nat
  /\ MaxRecords \in Nat /\ MaxMessage \in Nat /\ MaxTarget \in Nat /\ MaxDummies \in Nat

------------------------------------------------------------------------------
\* Suppression.  A table is a sequence of records; what is released, a set of positions.

SameBucket(table, i) == {j \in DOMAIN table : table[j][1] = table[i][1]}

\* Fault: a bucket is kept when it is one record short.
KAnonymiseShort(table, k) == {i \in DOMAIN table : Cardinality(SameBucket(table, i)) >= k - 1}

KAnonymise(table, k) == {i \in DOMAIN table : Cardinality(SameBucket(table, i)) >= k}

EffectiveK(k, l) == Larger(k, l)

\* Fault: the size of the bucket stands for the number of its distinct values.
LDiversifyBySize(table, k, l) ==
  {i \in DOMAIN table :
     Cardinality(SameBucket(table, i)) >= Larger(EffectiveK(k, l), l)}

LDiversify(table, k, l) ==
  {i \in DOMAIN table :
     /\ Cardinality(SameBucket(table, i)) >= EffectiveK(k, l)
     /\ Cardinality({table[j][2] : j \in SameBucket(table, i)}) >= l}

\* The report over what was released.
DiversityReport(table, k, l) ==
  LET kept == LDiversify(table, k, l)
      distinct == {Cardinality({table[j][2] : j \in SameBucket(table, i)}) : i \in kept}
  IN  [released |-> Cardinality(kept), suppressed |-> Len(table) - Cardinality(kept),
       safe |-> kept # {} /\ \A n \in distinct : n >= l]

Tables == SeqsUpTo(QuasiIds \X Sensitive, MaxRecords)

\* The largest set of positions that satisfies a condition of every member on the whole.
LargestSuch(table, Fine(_, _)) ==
  UNION {S \in SUBSET DOMAIN table : \A i \in S : Fine(S, i)}

CallSuppression ==
  /\ Calling("suppression")
  /\ \E table \in Tables, k \in 1..3, l \in 1..3 :
       Answer("suppression", [table |-> table, k |-> k, l |-> l],
              [k |-> KAnonymise(table, k), l |-> LDiversify(table, k, l),
               report |-> DiversityReport(table, k, l)])

\* What is released is the largest part of the table in which every record has k records
\* like it, itself included: fewer would be waste, more would single somebody out.
ReleasesAllThatIsAnonymous ==
  Answered("suppression") =>
    LET in == call.in
        Alike(S, i) == Cardinality(SameBucket(in.table, i) \cap S) >= in.k
    IN  call.out.k = LargestSuch(in.table, Alike)

\* With l-diversity, in which every record has k like it with l different secrets among
\* them; and the report says "safe" exactly when something so protected was released.
ReleasesAllThatIsDiverse ==
  Answered("suppression") =>
    LET in == call.in
        Diverse(S, i) ==
          LET like == SameBucket(in.table, i) \cap S IN
          /\ Cardinality(like) >= Larger(in.k, in.l)
          /\ Cardinality({in.table[j][2] : j \in like}) >= in.l
    IN  /\ call.out.l = LargestSuch(in.table, Diverse)
        /\ call.out.report.safe <=> call.out.l # {}
        /\ call.out.l \subseteq call.out.k

------------------------------------------------------------------------------
\* Padding.  The header is one cell that holds the length.

Header == 1

PadRequest(msg, target) ==
  IF target <= Header \/ Len(msg) + Header > target THEN <<>>   \* refused
  ELSE <<Len(msg)>> \o msg \o [i \in 1..(target - Len(msg) - Header) |-> 0]

\* Fault: the padding is stripped instead of counted.
UnpadStripping(padded) ==
  LET body == SubSeq(padded, Header + 1, Len(padded))
      used == {0} \cup {i \in DOMAIN body : body[i] # 0}
  IN  SubSeq(body, 1, CHOOSE i \in used : \A j \in used : j <= i)

Unpad(padded) == SubSeq(padded, Header + 1, Header + padded[1])

Messages == SeqsUpTo(Bytes, MaxMessage)

CallPadding ==
  /\ Calling("padding")
  /\ \E msg \in Messages, target \in 0..MaxTarget :
       LET padded == PadRequest(msg, target) IN
       Answer("padding", [msg |-> msg, target |-> target],
              [padded |-> padded, back |-> IF padded = <<>> THEN <<"refused">> ELSE Unpad(padded)])

\* Every message that fits comes back whole, also when it ends in the padding byte, every
\* padded message has the size asked for, and two messages of it differ.
PaddingReversible ==
  Answered("padding") =>
    LET in == call.in  out == call.out IN
    IF Len(in.msg) + Header <= in.target /\ in.target > Header
    THEN /\ out.back = in.msg /\ Len(out.padded) = in.target
         /\ \A other \in Messages :
              other # in.msg => PadRequest(other, in.target) # out.padded
    ELSE out.padded = <<>>

\* Fault: one message that fits makes all of them one size.
SizesAfterAny(sizes, target) ==
  IF \E i \in DOMAIN sizes : sizes[i] + Header <= target THEN 1
  ELSE 1 + Cardinality({i \in DOMAIN sizes : sizes[i] + Header > target})

\* The report's number of sizes an eavesdropper can tell apart after padding.
SizesAfter(sizes, target) ==
  IF \A i \in DOMAIN sizes : sizes[i] + Header <= target THEN 1
  ELSE 1 + Cardinality({i \in DOMAIN sizes : sizes[i] + Header > target})

CallSizes ==
  /\ Calling("sizes")
  /\ \E sizes \in SeqsUpTo(0..4, 4) \ {<<>>}, target \in 1..5 :
       Answer("sizes", [sizes |-> sizes, target |-> target], SizesAfter(sizes, target))

\* The report never promises fewer distinct sizes than padding leaves, and it is exact
\* when something fits and the oversized messages differ in size, from the target too.
SizesNotUnderstated ==
  Answered("sizes") =>
    LET in == call.in
        over == {i \in DOMAIN in.sizes : in.sizes[i] + Header > in.target}
        left == {in.sizes[i] : i \in over}
                  \cup (IF over # DOMAIN in.sizes THEN {in.target} ELSE {})
    IN  /\ call.out >= Cardinality(left)
        /\ (over # DOMAIN in.sizes /\ Cardinality(left) = Cardinality(over) + 1)
             => call.out = Cardinality(left)

------------------------------------------------------------------------------
\* Dummies and decoys: records whose every field is drawn from the real ones, in random
\* places.  drawn[n][f] is the position the n-th takes field f from.

Resampled(real, drawn) ==
  [n \in DOMAIN drawn |-> [record |-> <<real[drawn[n][1]][1], real[drawn[n][2]][2]>>, fake |-> TRUE]]

\* Fault: the last real record is replaced when the fakes are appended.
WithFakesOverwriting(real, drawn) ==
  MapSeq(LAMBDA r : [record |-> r, fake |-> FALSE],
         IF drawn = <<>> THEN real ELSE Front(real)) \o Resampled(real, drawn)

WithFakes(real, drawn) ==
  MapSeq(LAMBDA r : [record |-> r, fake |-> FALSE], real) \o Resampled(real, drawn)

\* Fault: the number of decoys is rounded down.
DecoysForRateFloor(n, num, den) == (num * n) \div den

\* ceil(rate * n) for rate = num / den
DecoysForRate(n, num, den) == (num * n + den - 1) \div den

\* The share of its budget a query keeps, for a budget of one: 1 / family.
FamilySize(asked, queries) == Larger(asked, queries)

CallFakes ==
  /\ Calling("fakes")
  /\ \E real \in SeqsUpTo(QuasiIds \X Sensitive, 2) \ {<<>>}, n \in 0..MaxDummies :
     \E drawn \in [1..n -> (DOMAIN real) \X (DOMAIN real)], asked \in 0..4 :
       LET mixed == WithFakes(real, drawn) IN
       Answer("fakes", [real |-> real, n |-> n],
              [mixed |-> mixed, family |-> FamilySize(asked, Len(mixed))])

\* Dropping the marked records gives the real ones back, no fake shows a value the data
\* does not have, and the corrected budgets of all queries together stay within the whole.
FakesCarryRealValues ==
  Answered("fakes") =>
    LET in == call.in
        mixed == call.out.mixed
        real == SelectSeq(mixed, LAMBDA q : ~q.fake)
    IN  /\ MapSeq(LAMBDA q : q.record, real) = in.real
        /\ Len(mixed) = Len(in.real) + in.n
        /\ \A i \in DOMAIN mixed, f \in 1..2 : \E j \in DOMAIN in.real :
             mixed[i].record[f] = in.real[j][f]
        /\ Len(mixed) <= call.out.family

CallDecoys ==
  /\ Calling("decoys")
  /\ \E n \in 1..6, den \in 1..5 : \E num \in 0..den :
       Answer("decoys", [n |-> n, num |-> num, den |-> den], DecoysForRate(n, num, den))

\* At least the asked share of decoys is mixed in, never a whole decoy more than needed;
\* and the accuracy that the report leaves the attacker, one minus decoys per real record,
\* is at most the share of real records he sees.
DecoyRateMet ==
  Answered("decoys") =>
    LET in == call.in  d == call.out IN
    /\ d * in.den >= in.num * in.n
    /\ d > 0 => (d - 1) * in.den < in.num * in.n
    /\ (in.n - d) * (in.n + d) <= in.n * in.n
=============================================================================
