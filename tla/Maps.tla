--------------------------------- MODULE Maps ---------------------------------
(***************************************************************************)
(* Python dictionaries, functions that gain and lose keys; deques, sorted  *)
(* sets of numbers, and lists of what passes a test.                       *)
(***************************************************************************)
EXTENDS Integers, Sequences, FiniteSets

\* f[k] = v
Bind(f, k, v) == [x \in DOMAIN f \cup {k} |-> IF x = k THEN v ELSE f[x]]
\* f.pop(k, None)
Drop(f, k) == [x \in DOMAIN f \ {k} |-> f[x]]
\* f.get(k, v)
Get(f, k, v) == IF k \in DOMAIN f THEN f[k] ELSE v

\* deque(maxlen=n).append(e)
AppendBounded(seq, e, n) ==
  LET longer == Append(seq, e) IN
  IF Len(longer) > n THEN Tail(longer) ELSE longer

\* sorted(S)[i]
Nth(S, i) == CHOOSE n \in S : Cardinality({m \in S : m < n}) = i

\* [seq[i] for i in sorted(S)]
AtPlaces(seq, S) == [k \in 1..Cardinality(S) |-> seq[Nth(S, k - 1)]]
=============================================================================
