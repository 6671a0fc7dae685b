------------------------------- MODULE Ledger --------------------------------
(***************************************************************************)
(* What the chain promises its readers, without blocks, signatures or      *)
(* queues: outcomes wait, oldest first; a commit makes a batch of the      *)
(* oldest ones final together with every ban that is not yet on record;    *)
(* final outcomes and recorded bans are final.  The waiting room is        *)
(* bounded and sheds its oldest outcome when it overflows.                 *)
(***************************************************************************)
EXTENDS Integers, FiniteSets

CONSTANTS
    Room,       \* how many outcomes may wait
    Batch,      \* how many a commit may take
    Member      \* who can be banned

VARIABLES
    submitted,  \* outcomes 1 .. submitted have been handed in
    waiting,    \* outcomes not yet final
    final,      \* outcomes that are final
    shed,       \* outcomes dropped by the overflowing waiting room
    banned,     \* members excluded from committing
    recorded    \* bans that are on record

vars == <<submitted, waiting, final, shed, banned, recorded>>

Oldest(S) == CHOOSE x \in S : \A y \in S : x <= y

Init ==
    /\ submitted = 0
    /\ waiting = {} /\ final = {} /\ shed = {}
    /\ banned = {} /\ recorded = {}

\* Hand in the next outcome; an overflowing room sheds its oldest.
Submit ==
    LET over == IF Cardinality(waiting) >= Room THEN {Oldest(waiting)} ELSE {}
    IN  /\ submitted' = submitted + 1
        /\ waiting' = (waiting \ over) \cup {submitted + 1}
        /\ shed' = shed \cup over
        /\ UNCHANGED <<final, banned, recorded>>

Ban(k) ==
    /\ k \notin banned
    /\ banned' = banned \cup {k}
    /\ UNCHANGED <<submitted, waiting, final, shed, recorded>>

\* As many of the oldest waiting outcomes as a batch holds become final,
\* and every ban is on record, provided somebody is left to commit.
Commit ==
    /\ banned # Member
    /\ waiting # {} \/ recorded # banned
    /\ \E taken \in SUBSET waiting :
        /\ \A x \in taken, y \in waiting \ taken : x < y
        /\ Cardinality(taken) <= Batch
        /\ taken = waiting \/ Cardinality(taken) = Batch
        /\ final' = final \cup taken
        /\ waiting' = waiting \ taken
    /\ recorded' = banned
    /\ UNCHANGED <<submitted, shed, banned>>

Next == Submit \/ Commit \/ \E k \in Member : Ban(k)

Spec == Init /\ [][Next]_vars /\ WF_vars(Commit)
==============================================================================
