------------------------------ MODULE ChainNode ------------------------------
(***************************************************************************)
(* The in-process chain node of packages/chain/penumbra_chain: a bounded   *)
(* FIFO of match outcomes, a validator set of which a part is active, the  *)
(* queue of slashing transactions waiting for a block, and the chain.      *)
(*                                                                         *)
(* Every public method of Node runs to completion on the event loop, so    *)
(* one call is one action.  A match outcome is its (unique) number.  A     *)
(* public key is <<validator, generation>>: Node.boot draws fresh keys for *)
(* every validator, and the generation tells the draws apart.  A block     *)
(* hash is the value of time.time_ns() the block was assembled at, which   *)
(* is part of the hashed header and never repeats; 0 is GENESIS_PREV_HASH. *)
(***************************************************************************)
EXTENDS Integers, Sequences, FiniteSets

CONSTANTS
    Validator,      \* indices of the validator tuple, 0 .. n_validators - 1
    Winner,         \* match numbers whose outcome names a winner
    Capacity,       \* capacity of the mempool
    MaxPayload,     \* max_payload of produce_block
    Byzantine,      \* validators whose key also signs outside this node
    MaxMatches,     \* bound: matches played
    MaxBlocks,      \* bound: blocks assembled
    MaxForeign      \* bound: signatures made outside this node

ASSUME ConstantsAssumption ==
    /\ Validator \subseteq Nat /\ Validator # {} /\ IsFiniteSet(Validator)
    /\ Winner \subseteq Nat
    /\ Capacity \in Nat \ {0}
    /\ MaxPayload \in Nat \ {0}
    /\ Byzantine \subseteq Validator
    /\ MaxMatches \in Nat
    /\ MaxBlocks \in Nat
    /\ MaxForeign \in Nat

VARIABLES
    mempool,    \* Mempool._queue: outcomes in arrival order
    chain,      \* Node.chain
    active,     \* Node.active_indices
    slashed,    \* Node.slashed_pubkeys
    pending,    \* Node.pending_slashings
    vkey,       \* generation of the keys in Node.validators
    skey,       \* generation of the keys in Node.secrets
    hooked,     \* Node.on_signal is installed
    clock,      \* blocks assembled so far, the next hash is clock + 1
    matches,    \* matches played so far
    evicted,    \* history: outcomes pushed out of a full mempool
    sigs,       \* history: every block signature ever made
    rewarded    \* history: how often each winner was credited

nodeVars == <<mempool, chain, active, slashed, pending, vkey, skey, hooked>>
histVars == <<clock, matches, evicted, sigs, rewarded>>
vars == <<nodeVars, histVars>>

----------------------------------------------------------------------------
Match == 1 .. MaxMatches
Hash == 0 .. MaxBlocks
Pubkey == Validator \X Nat

\* What one validator's BLS signature over (domain tag, height, hash) binds.
Signature == [key : Pubkey, height : Nat, hash : Int]

SlashingTx == [offender : Pubkey, height : Nat, observed : Nat]

Block ==
    [height : Nat, prev : Hash, hash : Hash, proposer : Pubkey,
     payload : Seq(Match), slashings : Seq(SlashingTx), signers : SUBSET Pubkey]

GENESIS_PREV_HASH == 0

\* Fault: the height of the head, not of the block to come.
height_of_head == IF chain = <<>> THEN 0 ELSE chain[Len(chain)].height

height == Len(chain)

\* Fault: every block is linked to the first.
head_hash_first == IF chain = <<>> THEN GENESIS_PREV_HASH ELSE chain[1].hash

head_hash == IF chain = <<>> THEN GENESIS_PREV_HASH ELSE chain[Len(chain)].hash

Elems(s) == {s[i] : i \in DOMAIN s}

MinOf(a, b) == IF a < b THEN a ELSE b

----------------------------------------------------------------------------
(* consensus.py, slashing.py                                               *)

\* Fault: the threshold is taken over every validator there ever was.
Threshold_of_all(n) == (2 * Cardinality(Validator) + 2) \div 3

\* ceil(2n/3): the count-weighted threshold of finalise.
Threshold(n) == (2 * n + 2) \div 3

\* bls.verify over canonical_block_sign_payload.
Verifies(sig, key, h, hash) == sig = [key |-> key, height |-> h, hash |-> hash]

\* Faults: a fixed leader; a leader whose proof is not verified.
verify_leader_fixed(leader) == leader \in active /\ leader = 0
verify_leader_unproved(leader) == leader \in active

\* vrf.verify of the proof made with the leader's secret.
verify_leader(leader) == leader \in active /\ vkey = skey

\* The signatures of the active validators, each made with its own secret
\* and filed under the public key the node knows the validator by.
sign_block_hash(v, h, hash) == [key |-> <<v, skey>>, height |-> h, hash |-> hash]

\* Fault: slashed validators go on signing.
finalise_everyone(h, hash) ==
    [pubkeys |-> {<<v, vkey>> : v \in Validator}, ok |-> TRUE]

\* The public keys whose signatures count, and whether they are a quorum.
finalise(h, hash) ==
    LET valid == {v \in active : Verifies(sign_block_hash(v, h, hash), <<v, vkey>>, h, hash)}
    IN  [pubkeys |-> {<<v, vkey>> : v \in valid},
         ok |-> Cardinality(valid) >= Threshold(Cardinality(active))]

\* Fault: one signature given twice is accepted as two.
verify_evidence_one_hash(e) ==
    /\ Verifies(e.sigA, e.offender, e.height, e.a)
    /\ Verifies(e.sigB, e.offender, e.height, e.b)

\* Both signatures are by the offender, at the claimed height, on the two
\* claimed and distinct hashes.
verify_evidence(e) ==
    /\ e.a # e.b
    /\ Verifies(e.sigA, e.offender, e.height, e.a)
    /\ Verifies(e.sigB, e.offender, e.height, e.b)

----------------------------------------------------------------------------
(* Node.boot *)

Init ==
    /\ mempool = <<>> /\ chain = <<>> /\ pending = <<>>
    /\ active = Validator /\ slashed = {}
    /\ vkey = 0 /\ skey = 0
    /\ hooked = TRUE
    /\ clock = 0 /\ matches = 0
    /\ evicted = {} /\ sigs = {}
    /\ rewarded = [m \in Match |-> 0]

\* Fault: a full queue refuses the newcomer.
submit_refusing(outcome) ==
    IF Len(mempool) < Capacity
    THEN mempool' = Append(mempool, outcome) /\ UNCHANGED evicted
    ELSE evicted' = evicted \cup {outcome} /\ UNCHANGED mempool

\* deque(maxlen=capacity).append: a full deque drops its oldest element.
submit(outcome) ==
    IF Len(mempool) < Capacity
    THEN /\ mempool' = Append(mempool, outcome)
         /\ UNCHANGED evicted
    ELSE /\ mempool' = Append(Tail(mempool), outcome)
         /\ evicted' = evicted \cup {Head(mempool)}

\* A match ends: Orchestrator._on_match_end hands its outcome to the node.
SubmitOutcome ==
    /\ matches < MaxMatches
    /\ matches' = matches + 1
    /\ submit(matches + 1)
    /\ UNCHANGED <<chain, active, slashed, pending, vkey, skey, hooked, clock, sigs, rewarded>>

\* Hashes that are not the hash of a block of this node: what an
\* equivocating key signs, and the two branches of the self-slash demo.
ForeignHash == {-1, -2}

\* A validator's key signs a conflicting block somewhere else, which is the
\* offence slashing exists for.
ForeignSign(v, h, hash) ==
    /\ Cardinality({s \in sigs : s.hash \in ForeignHash}) < MaxForeign
    /\ sigs' = sigs \cup {sign_block_hash(v, h, hash)}
    /\ UNCHANGED <<nodeVars, clock, matches, evicted, rewarded>>

\* Faults: the offender stays active; a slashed validator is slashed again.
slash_keeping_active(e) ==
    /\ verify_evidence(e)
    /\ e.offender \notin slashed
    /\ slashed' = slashed \cup {e.offender}
    /\ pending' = Append(pending, [offender |-> e.offender, height |-> e.height,
                                   observed |-> height])
    /\ UNCHANGED <<active, mempool, chain, vkey, skey, hooked, clock, matches, evicted, rewarded>>

slash_again(e) ==
    /\ verify_evidence(e)
    /\ Len(pending) < 3
    /\ active' = active \ {e.offender[1]}
    /\ slashed' = slashed \cup {e.offender}
    /\ pending' = Append(pending, [offender |-> e.offender, height |-> e.height,
                                   observed |-> height])
    /\ UNCHANGED <<mempool, chain, vkey, skey, hooked, clock, matches, evicted, rewarded>>

\* Node.slash with evidence that passes every check; with any other it
\* raises before it changes anything.
slash(e) ==
    /\ verify_evidence(e)
    /\ \E v \in Validator :
        /\ e.offender = <<v, vkey>>
        /\ e.offender \notin slashed
        /\ v \in active
        /\ active' = active \ {v}
    /\ slashed' = slashed \cup {e.offender}
    /\ pending' = Append(pending, [offender |-> e.offender, height |-> e.height,
                                   observed |-> height])
    /\ UNCHANGED <<mempool, chain, vkey, skey, hooked, clock, matches, evicted, rewarded>>

\* Evidence that can be put together from a set of signatures: any two of
\* them, under any claimed height.
EvidenceFrom(S) ==
    {[offender |-> x.key, height |-> h, a |-> x.hash, sigA |-> x, b |-> y.hash, sigB |-> y] :
        x \in S, y \in S, h \in {s.height : s \in S}}

\* POST /chain/slash.
SubmitEvidence ==
    /\ \E e \in EvidenceFrom(sigs) : slash(e)
    /\ UNCHANGED sigs

\* POST /chain/_demo/self-slash: sign two branches at the next height with
\* the secret of an active validator and submit the pair as evidence.
DemoSelfSlash(v) ==
    LET s(hash) == sign_block_hash(v, height + 1, hash)
    IN  /\ v \in active
        /\ slash([offender |-> <<v, vkey>>, height |-> height + 1,
                  a |-> -1, sigA |-> s(-1), b |-> -2, sigB |-> s(-2)])
        /\ sigs' = sigs \cup {s(-1), s(-2)}

\* Faults: the newest outcomes are taken; the queue is cleared after the take.
Drained_newest(n) == SubSeq(mempool, Len(mempool) - MinOf(n, Len(mempool)) + 1, Len(mempool))
Kept_cleared(n) == <<>>

\* Mempool.drain: what is taken and what stays.
Drained(n) == SubSeq(mempool, 1, MinOf(n, Len(mempool)))
Kept(n) == SubSeq(mempool, MinOf(n, Len(mempool)) + 1, Len(mempool))

\* Fault: the winners of everything still queued are credited as well.
Reward_queued(payload) ==
    rewarded' = [m \in Match |->
        IF m \in Elems(mempool) \cap Winner THEN rewarded[m] + 1 ELSE rewarded[m]]

\* Orchestrator.on_block_finalised -> Market.credit_block_winners, through
\* the on_signal hook.
Reward(payload) ==
    rewarded' = [m \in Match |->
        IF hooked /\ m \in Elems(payload) \cap Winner THEN rewarded[m] + 1 ELSE rewarded[m]]

\* Node.produce_block past its early return and its leader checks.  The
\* outcomes are drained before the signatures are counted.
ProduceBlock(leader) ==
    /\ clock < MaxBlocks
    /\ mempool # <<>> \/ pending # <<>>
    /\ active # {}
    /\ verify_leader(leader)
    /\ clock' = clock + 1
    /\ mempool' = Kept(MaxPayload)
    /\ sigs' = sigs \cup {sign_block_hash(v, height, clock + 1) : v \in active}
    /\ LET result == finalise(height, clock + 1)
           block == [height |-> height, prev |-> head_hash, hash |-> clock + 1,
                     proposer |-> <<leader, vkey>>, payload |-> Drained(MaxPayload),
                     slashings |-> pending, signers |-> result.pubkeys]
       IN  IF result.ok
           THEN /\ chain' = Append(chain, block)
                /\ pending' = <<>>
                /\ Reward(block.payload)
           ELSE UNCHANGED <<chain, pending, rewarded>>
    /\ UNCHANGED <<active, slashed, vkey, skey, hooked, matches, evicted>>

Produce == \E leader \in Validator : ProduceBlock(leader)

Next ==
    \/ SubmitOutcome
    \/ \E v \in Byzantine, h \in 0 .. height, hash \in ForeignHash : ForeignSign(v, h, hash)
    \/ SubmitEvidence
    \/ \E v \in Validator : DemoSelfSlash(v)
    \/ Produce

Spec == Init /\ [][Next]_vars

\* _block_production_loop calls produce_block every block_interval seconds
\* for as long as the process lives.
FairSpec == Spec /\ WF_vars(Produce)

----------------------------------------------------------------------------
(* What the node promises.                                                 *)

\* Every variable holds the kind of value the code keeps in it, and the
\* deque never grows past its maxlen.
TypeOK ==
    /\ mempool \in Seq(Match) /\ Len(mempool) <= Capacity
    /\ chain \in Seq(Block)
    /\ active \in SUBSET Validator
    /\ slashed \in SUBSET Pubkey
    /\ pending \in Seq(SlashingTx)
    /\ vkey \in Nat /\ skey \in Nat
    /\ hooked \in BOOLEAN
    /\ clock \in Hash
    /\ matches \in 0 .. MaxMatches
    /\ evicted \in SUBSET Match
    /\ sigs \in SUBSET Signature
    /\ rewarded \in [Match -> Nat]

OnChain == UNION {Elems(chain[i].payload) : i \in DOMAIN chain}

\* An outcome handed to the node is in the mempool, in a block, or was pushed
\* out of a full mempool, and in only one of the three: produce_block pops
\* outcomes before it knows whether the block will be final, and still loses
\* none of them.
OutcomesAccounted ==
    /\ 1 .. matches = OnChain \cup Elems(mempool) \cup evicted
    /\ OnChain \cap Elems(mempool) = {}
    /\ evicted \cap (OnChain \cup Elems(mempool)) = {}

Increasing(s) == \A i, j \in DOMAIN s : i < j => s[i] < s[j]

\* Matches reach the chain in the order they ended, across blocks as well as
\* inside one, so no match is recorded twice.
OutcomesInOrder ==
    /\ Increasing(mempool)
    /\ \A i \in DOMAIN chain :
        /\ Increasing(chain[i].payload)
        /\ \A m \in Elems(chain[i].payload) :
            /\ \A n \in Elems(mempool) : m < n
            /\ \A j \in (i + 1) .. Len(chain) : \A n \in Elems(chain[j].payload) : m < n

\* The block headers form one hash chain from genesis: the field every later
\* block commits to is the hash of the block stored before it.
HashLinked ==
    \A i \in DOMAIN chain :
        /\ chain[i].height = i - 1
        /\ chain[i].prev = (IF i = 1 THEN GENESIS_PREV_HASH ELSE chain[i - 1].hash)
        /\ chain[i].hash # GENESIS_PREV_HASH

Offenders(i) == {chain[i].slashings[n].offender : n \in DOMAIN chain[i].slashings}
OffendersUpTo(i) == UNION {Offenders(j) : j \in 1 .. i}
PendingOffenders == {pending[n].offender : n \in DOMAIN pending}
NoneTwice(txs) == \A m, n \in DOMAIN txs : txs[m].offender = txs[n].offender => m = n

\* A block is signed by exactly the validators that no block up to and
\* including it has slashed, and proposed by one of them: the active set the
\* signatures were counted against is the one a reader of the chain derives.
SignersAreTheUnslashed ==
    \A i \in DOMAIN chain :
        /\ chain[i].signers = {<<v, vkey>> : v \in Validator} \ OffendersUpTo(i)
        /\ chain[i].proposer \in chain[i].signers

\* The comment in Node.slash says a validator that is neither active nor
\* slashed "shouldn't happen"; none is both, either.
ActiveXorSlashed ==
    \A v \in Validator : v \in active <=> <<v, vkey>> \notin slashed

\* Every slashed validator has exactly one slashing transaction, waiting or in
\* a block, and every transaction is about a slashed validator: the list is
\* cleared only after the block that carries it is appended.
SlashingRecordedOnce ==
    /\ slashed = PendingOffenders \cup OffendersUpTo(Len(chain))
    /\ \A i \in DOMAIN chain :
        /\ Offenders(i) \cap PendingOffenders = {}
        /\ Offenders(i) \cap OffendersUpTo(i - 1) = {}
        /\ NoneTwice(chain[i].slashings)
    /\ NoneTwice(pending)

FinalitySigs == {s \in sigs : s.hash \notin ForeignHash}

\* The node never puts one validator's signature on two blocks of one height,
\* so what it signs to finalise blocks can never serve as slashing evidence.
OneFinalitySignaturePerHeight ==
    \A x, y \in FinalitySigs : x.key = y.key /\ x.height = y.height => x = y

\* Only a key that really signed two hashes at one height is slashed, and one
\* of the two was signed outside block production (audit closures A1 and A4).
OnlyEquivocatorsSlashed ==
    \A k \in slashed : \E x, y \in sigs :
        /\ x.key = k /\ y.key = k /\ x.height = y.height /\ x.hash # y.hash
        /\ x.hash \in ForeignHash

\* A winner is credited once for each outcome on the chain and for no other:
\* the finalisation signal is sent for a block that was appended, and once.
RewardedOnce ==
    \A m \in Match : rewarded[m] = (IF m \in OnChain \cap Winner THEN 1 ELSE 0)

\* From the end of a match to the reward: no outcome is lost or recorded twice, they keep their
\* order, and each winner on the chain is paid once.
OutcomesSound == OutcomesAccounted /\ OutcomesInOrder /\ RewardedOnce

\* A slashing and the set of signers agree with what the chain itself says.
SlashingsSound == SignersAreTheUnslashed /\ SlashingRecordedOnce
==============================================================================
