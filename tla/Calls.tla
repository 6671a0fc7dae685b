-------------------------------- MODULE Calls --------------------------------
(***************************************************************************)
(* One call of a pure function of the program.  The behaviour is a single  *)
(* step: from "about to call op" to the call's arguments and its answer.   *)
(* Each module that EXTENDS this one describes a family of functions, gives*)
(* an action that calls each of them with every input of a bounded set, and*)
(* states what the answers must be in terms of the inputs alone.           *)
(***************************************************************************)
EXTENDS Integers, SequencesExt

VARIABLE call

Ready(op) == [op |-> op, done |-> FALSE]

CallsInit(ops) == call \in {Ready(op) : op \in ops}

Calling(op) == call = Ready(op)
Answer(op, in, out) == call' = [op |-> op, done |-> TRUE, in |-> in, out |-> out]

Answered(op) == call.op = op /\ call.done

------------------------------------------------------------------------------
\* Shared helpers.

MapSeq(Op(_), seq) == [i \in DOMAIN seq |-> Op(seq[i])]
SumSeq(seq) == FoldLeft(+, 0, seq)
SeqsUpTo(S, n) == UNION {[1..k -> S] : k \in 0..n}
Smaller(a, b) == IF a <= b THEN a ELSE b
Larger(a, b) == IF a >= b THEN a ELSE b
\* max(lo, min(n, hi)), the guard in front of every demonstration
Clamp(n, lo, hi) == Larger(lo, Smaller(n, hi))
AbsDiff(a, b) == IF a >= b THEN a - b ELSE b - a
PositionsOf(seq, Test(_)) == {i \in DOMAIN seq : Test(seq[i])}
=============================================================================
