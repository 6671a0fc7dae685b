----------------------------- MODULE ChainProofs -----------------------------
(***************************************************************************)
(* Theorems about the chain node, for every set of validators and every    *)
(* capacity, and about the node whose files survive its process, for any   *)
(* number of saves, restarts and resumes.                                  *)
(***************************************************************************)
EXTENDS Snapshots, MCChainNode, SequenceTheorems, FiniteSetTheorems, TLAPS

----------------------------------------------------------------------------
(* Helpers                                                                 *)

\* What drain takes and what it leaves are sequences of outcomes.
LEMMA DrainTypes ==
    ASSUME TypeOK
    PROVE  Drained(MaxPayload) \in Seq(Match) /\ Kept(MaxPayload) \in Seq(Match)
           /\ Len(Kept(MaxPayload)) <= Len(mempool)
<1> DEFINE n == MinOf(MaxPayload, Len(mempool))
<1>1. n \in 0 .. Len(mempool)
  BY ConstantsAssumption DEF TypeOK, MinOf
<1>2. \A i \in 1 .. Len(mempool) : mempool[i] \in Match
  BY DEF TypeOK
<1>3. SubSeq(mempool, 1, n) \in Seq(Match)
  <2>1. \A i \in 1 .. n : mempool[i] \in Match
    BY <1>1, <1>2
  <2> QED BY <1>1, <2>1, SubSeqProperties
<1>4. /\ SubSeq(mempool, n + 1, Len(mempool)) \in Seq(Match)
      /\ Len(SubSeq(mempool, n + 1, Len(mempool))) <= Len(mempool)
  <2>1. \A i \in (n + 1) .. Len(mempool) : mempool[i] \in Match
    BY <1>1, <1>2
  <2>2. Len(mempool) \in Nat
    BY DEF TypeOK
  <2> QED BY <1>1, <2>1, <2>2, SubSeqProperties
<1> QED BY <1>3, <1>4 DEF Drained, Kept

\* The parts of evidence made of recorded signatures.
LEMMA EvidenceTypes ==
    ASSUME TypeOK, NEW e \in EvidenceFrom(sigs)
    PROVE  e.offender \in Pubkey /\ e.height \in Nat
  BY DEF TypeOK, EvidenceFrom, Signature

\* A hook call keeps the shape of the reward table.
LEMMA RewardTypes ==
    ASSUME TypeOK, NEW p, Reward(p)
    PROVE  rewarded' \in [Match -> Nat]
  BY DEF TypeOK, Reward

\* The hash of the head is a hash.
LEMMA HeadHashType ==
    ASSUME TypeOK
    PROVE  head_hash \in Hash
<1>1. CASE chain = <<>>
  BY <1>1, ConstantsAssumption DEF head_hash, Hash, GENESIS_PREV_HASH
<1>2. CASE chain # <<>>
  <2>1. chain \in Seq(Block) /\ Len(chain) \in DOMAIN chain
    BY <1>2 DEF TypeOK
  <2>2. chain[Len(chain)] \in Block
    BY <2>1
  <2>3. chain[Len(chain)].hash \in Hash
    BY <2>2 DEF Block
  <2> QED BY <1>2, <2>3 DEF head_hash
<1> QED BY <1>1, <1>2

\* The shape of a slashing transaction.
LEMMA SlashTypes ==
    ASSUME TypeOK, NEW e, e.offender \in Pubkey, e.height \in Nat, slash(e)
    PROVE  /\ active' \in SUBSET Validator
           /\ slashed' \in SUBSET Pubkey
           /\ pending' \in Seq(SlashingTx)
<1>1. [offender |-> e.offender, height |-> e.height, observed |-> height] \in SlashingTx
  BY DEF TypeOK, SlashingTx, height
<1>2. pending' \in Seq(SlashingTx)
  <2>1. pending \in Seq(SlashingTx)
    BY DEF TypeOK
  <2> QED BY <1>1, <2>1, AppendProperties DEF slash
<1>3. active' \in SUBSET Validator /\ slashed' \in SUBSET Pubkey
  BY DEF TypeOK, slash
<1> QED BY <1>2, <1>3

----------------------------------------------------------------------------
(* Type correctness                                                        *)

\* Whatever the node is asked to do leaves slashings, blocks and signatures well formed, and the
\* queue within its capacity.
LEMMA TypeStep ==
    ASSUME TypeOK, [Next]_vars
    PROVE  TypeOK'
<1>1. CASE SubmitOutcome
  <2>1. matches + 1 \in Match /\ matches' \in 0 .. MaxMatches
    BY <1>1, ConstantsAssumption DEF TypeOK, SubmitOutcome, Match
  <2>2. CASE Len(mempool) < Capacity
    <3>1. mempool' \in Seq(Match) /\ Len(mempool') = Len(mempool) + 1
      <4>1. mempool' = Append(mempool, matches + 1) /\ mempool \in Seq(Match)
        BY <1>1, <2>2 DEF TypeOK, SubmitOutcome, submit
      <4> QED BY <2>1, <4>1, AppendProperties
    <3> QED BY <1>1, <2>1, <2>2, <3>1, ConstantsAssumption DEF TypeOK, SubmitOutcome, submit
  <2>3. CASE ~(Len(mempool) < Capacity)
    <3>1. mempool # <<>>
      BY <2>3, ConstantsAssumption DEF TypeOK
    <3>2. Head(mempool) \in Match /\ Tail(mempool) \in Seq(Match)
          /\ Len(Tail(mempool)) = Len(mempool) - 1
      BY <3>1, HeadTailProperties DEF TypeOK
    <3>3. mempool' = Append(Tail(mempool), matches + 1)
          /\ evicted' = evicted \cup {Head(mempool)}
      BY <1>1, <2>3 DEF SubmitOutcome, submit
    <3>4. mempool' \in Seq(Match) /\ Len(mempool') = Len(mempool)
      BY <2>1, <3>2, <3>3, AppendProperties DEF TypeOK
    <3>5. evicted' \in SUBSET Match
      BY <3>2, <3>3 DEF TypeOK
    <3> QED BY <1>1, <2>1, <3>4, <3>5 DEF TypeOK, SubmitOutcome
  <2> QED BY <2>2, <2>3
<1>2. ASSUME NEW v \in Byzantine, NEW h \in 0 .. height, NEW hash \in ForeignHash,
             ForeignSign(v, h, hash)
      PROVE  TypeOK'
  <2>1. sign_block_hash(v, h, hash) \in Signature
    BY ConstantsAssumption DEF sign_block_hash, Signature, Pubkey, ForeignHash, TypeOK, height
  <2> QED BY <1>2, <2>1 DEF ForeignSign, TypeOK, nodeVars
<1>3. CASE SubmitEvidence
  <2>1. PICK e \in EvidenceFrom(sigs) : slash(e)
    BY <1>3 DEF SubmitEvidence
  <2>2. e.offender \in Pubkey /\ e.height \in Nat
    BY EvidenceTypes
  <2> QED BY <1>3, <2>1, <2>2, SlashTypes DEF SubmitEvidence, TypeOK, slash
<1>4. ASSUME NEW v \in Validator, DemoSelfSlash(v)
      PROVE  TypeOK'
  <2> DEFINE s(hash) == sign_block_hash(v, height + 1, hash)
             e == [offender |-> <<v, vkey>>, height |-> height + 1,
                   a |-> -1, sigA |-> s(-1), b |-> -2, sigB |-> s(-2)]
  <2>1. slash(e) /\ sigs' = sigs \cup {s(-1), s(-2)}
    BY <1>4 DEF DemoSelfSlash
  <2>2. e.offender \in Pubkey /\ e.height \in Nat
    BY DEF TypeOK, Pubkey, height
  <2>3. s(-1) \in Signature /\ s(-2) \in Signature
    BY DEF sign_block_hash, Signature, Pubkey, TypeOK, height
  <2>4. sigs' \in SUBSET Signature
    BY <2>1, <2>3 DEF TypeOK
  <2> HIDE DEF e
  <2> QED BY <2>1, <2>2, <2>4, SlashTypes DEF TypeOK, slash
<1>5. ASSUME NEW leader \in Validator, ProduceBlock(leader)
      PROVE  TypeOK'
  <2> DEFINE result == finalise(height, clock + 1)
             block == [height |-> height, prev |-> head_hash, hash |-> clock + 1,
                       proposer |-> <<leader, vkey>>, payload |-> Drained(MaxPayload),
                       slashings |-> pending, signers |-> result.pubkeys]
  <2>1. clock + 1 \in Hash /\ clock' \in Hash
    BY <1>5, ConstantsAssumption DEF TypeOK, ProduceBlock, Hash
  <2>2. mempool' \in Seq(Match) /\ Len(mempool') <= Capacity
    BY <1>5, DrainTypes, ConstantsAssumption DEF ProduceBlock, TypeOK
  <2>3. sigs' \in SUBSET Signature
    <3>1. \A v \in active : sign_block_hash(v, height, clock + 1) \in Signature
      BY <2>1, ConstantsAssumption DEF TypeOK, sign_block_hash, Signature, Pubkey, height, Hash
    <3> QED BY <1>5, <3>1 DEF ProduceBlock, TypeOK
  <2>4. block \in Block
    <3>1. result.pubkeys \in SUBSET Pubkey
      <4>1. \A v \in active : <<v, vkey>> \in Pubkey
        BY DEF TypeOK, Pubkey
      <4>2. result.pubkeys \in SUBSET {<<v, vkey>> : v \in active}
        BY DEF finalise
      <4> QED BY <4>1, <4>2
    <3>2. height \in Nat /\ <<leader, vkey>> \in Pubkey /\ pending \in Seq(SlashingTx)
      BY DEF TypeOK, height, Pubkey
    <3> HIDE DEF result
    <3> QED BY <2>1, <3>1, <3>2, HeadHashType, DrainTypes DEF Block
  <2>5. /\ chain' \in Seq(Block)
        /\ pending' \in Seq(SlashingTx)
        /\ rewarded' \in [Match -> Nat]
    <3>1. CASE result.ok
      <4>1. chain' = Append(chain, block) /\ pending' = <<>> /\ Reward(block.payload)
        BY <1>5, <3>1 DEF ProduceBlock
      <4> HIDE DEF block
      <4> QED BY <2>4, <4>1, RewardTypes, AppendProperties DEF TypeOK
    <3>2. CASE ~result.ok
      BY <1>5, <3>2 DEF ProduceBlock, TypeOK
    <3> QED BY <3>1, <3>2
  <2> QED BY <1>5, <2>1, <2>2, <2>3, <2>5 DEF ProduceBlock, TypeOK
<1>6. CASE UNCHANGED vars
  BY <1>6 DEF vars, nodeVars, histVars, TypeOK
<1> QED BY <1>1, <1>2, <1>3, <1>4, <1>5, <1>6 DEF Next, Produce

\* Every variable keeps its type, whatever the node is asked to do: the deque
\* never outgrows its capacity, and slashings, blocks and signatures are well
\* formed.
THEOREM TypeCorrect == Spec => []TypeOK
<1>1. Init => TypeOK
  BY ConstantsAssumption DEF Init, TypeOK, Hash, Match
<1>2. TypeOK /\ [Next]_vars => TypeOK'
  BY TypeStep
<1> QED BY <1>1, <1>2, PTL DEF Spec

----------------------------------------------------------------------------
(* Slashed validators                                                      *)

\* A step of the node slashes through slash(e) or leaves the active and the
\* slashed validators alone; keys never change while the process lives.
LEMMA SlashSteps ==
    ASSUME [Next]_vars
    PROVE  /\ UNCHANGED <<vkey, skey, hooked>>
           /\ UNCHANGED <<active, slashed>> \/ \E e : slash(e)
<1>1. CASE SubmitOutcome
  BY <1>1 DEF SubmitOutcome
<1>2. ASSUME NEW v \in Byzantine, NEW h \in 0 .. height, NEW hash \in ForeignHash,
             ForeignSign(v, h, hash)
      PROVE  UNCHANGED <<vkey, skey, hooked, active, slashed>>
  BY <1>2 DEF ForeignSign, nodeVars
<1>3. CASE SubmitEvidence
  BY <1>3 DEF SubmitEvidence, slash
<1>4. ASSUME NEW v \in Validator, DemoSelfSlash(v)
      PROVE  UNCHANGED <<vkey, skey, hooked>> /\ \E e : slash(e)
  BY <1>4 DEF DemoSelfSlash, slash
<1>5. ASSUME NEW leader \in Validator, ProduceBlock(leader)
      PROVE  UNCHANGED <<vkey, skey, hooked, active, slashed>>
  BY <1>5 DEF ProduceBlock
<1>6. CASE UNCHANGED vars
  BY <1>6 DEF vars, nodeVars
<1> QED BY <1>1, <1>2, <1>3, <1>4, <1>5, <1>6 DEF Next, Produce

\* Who is slashed leaves the active validators in the same call.
LEMMA ActiveStep ==
    ASSUME ActiveXorSlashed, [Next]_vars
    PROVE  ActiveXorSlashed'
<1>1. vkey' = vkey
  BY SlashSteps
<1>2. CASE UNCHANGED <<active, slashed>>
  BY <1>1, <1>2 DEF ActiveXorSlashed
<1>3. ASSUME NEW e, slash(e) PROVE ActiveXorSlashed'
  <2>1. PICK v \in Validator : e.offender = <<v, vkey>> /\ active' = active \ {v}
    BY <1>3 DEF slash
  <2>2. slashed' = slashed \cup {<<v, vkey>>}
    BY <1>3, <2>1 DEF slash
  <2> QED BY <1>1, <2>1, <2>2 DEF ActiveXorSlashed
<1> QED BY <1>2, <1>3, SlashSteps

\* The state Node.slash calls impossible is impossible: a validator is active
\* exactly as long as its key is not slashed.
THEOREM ActiveXorSlashedHolds == Spec => []ActiveXorSlashed
<1>1. Init => ActiveXorSlashed
  BY DEF Init, ActiveXorSlashed
<1>2. ActiveXorSlashed /\ [Next]_vars => ActiveXorSlashed'
  BY ActiveStep
<1> QED BY <1>1, <1>2, PTL DEF Spec

----------------------------------------------------------------------------
(* Finality                                                                *)

\* With matching keys every active validator's signature counts, and all of
\* them are at least two thirds of them: what is assembled is finalised.
LEMMA QuorumReached ==
    ASSUME TypeOK, vkey = skey, NEW h, NEW hash
    PROVE  finalise(h, hash).ok /\ finalise(h, hash).pubkeys = {<<v, vkey>> : v \in active}
<1> DEFINE valid == {v \in active :
        Verifies(sign_block_hash(v, h, hash), <<v, vkey>>, h, hash)}
<1>1. valid = active
  BY DEF Verifies, sign_block_hash
<1>2. IsFiniteSet(active)
  BY ConstantsAssumption, FS_Subset DEF TypeOK
<1>3. Cardinality(active) \in Nat
  BY <1>2, FS_CardinalityType
<1>4. Cardinality(valid) >= Threshold(Cardinality(active))
  <2>1. \A n \in Nat : n >= (2 * n + 2) \div 3
    OBVIOUS
  <2>2. Cardinality(active) >= Threshold(Cardinality(active))
    BY <1>3, <2>1 DEF Threshold
  <2> QED BY <1>1, <2>2
<1> QED BY <1>1, <1>4 DEF finalise

\* The block the node is about to append, and what assembling it leaves.
NextBlock(leader) ==
    [height |-> height, prev |-> head_hash, hash |-> clock + 1,
     proposer |-> <<leader, vkey>>, payload |-> Drained(MaxPayload),
     slashings |-> pending, signers |-> {<<v, vkey>> : v \in active}]

\* With a key the verifier accepts, the leader's block reaches its quorum and is appended.
LEMMA ProduceAppends ==
    ASSUME TypeOK, vkey = skey, NEW leader \in Validator, ProduceBlock(leader)
    PROVE  /\ chain' = Append(chain, NextBlock(leader))
           /\ pending' = <<>>
           /\ Reward(Drained(MaxPayload))
<1>1. /\ finalise(height, clock + 1).ok
      /\ finalise(height, clock + 1).pubkeys = {<<v, vkey>> : v \in active}
  BY QuorumReached
<1> QED BY <1>1 DEF ProduceBlock, NextBlock

\* The block a leader builds is a block.
LEMMA NextBlockType ==
    ASSUME TypeOK, NEW leader \in Validator, clock < MaxBlocks
    PROVE  NextBlock(leader) \in Block
<1>1. clock + 1 \in Hash
  BY ConstantsAssumption DEF TypeOK, Hash
<1>2. {<<v, vkey>> : v \in active} \in SUBSET Pubkey
  <2>1. \A v \in active : <<v, vkey>> \in Pubkey
    BY DEF TypeOK, Pubkey
  <2> QED BY <2>1
<1>3. height \in Nat /\ <<leader, vkey>> \in Pubkey /\ pending \in Seq(SlashingTx)
  BY DEF TypeOK, height, Pubkey
<1> QED BY <1>1, <1>2, <1>3, HeadHashType, DrainTypes DEF NextBlock, Block

\* Only block production touches the chain.
LEMMA ChainSteps ==
    ASSUME [Next]_vars
    PROVE  UNCHANGED chain \/ \E leader \in Validator : ProduceBlock(leader)
  BY DEF Next, Produce, SubmitOutcome, ForeignSign, SubmitEvidence, DemoSelfSlash, slash,
         vars, nodeVars

\* The keys a node was booted with stay a matching pair.
LEMMA KeysMatch == Spec => [](vkey = skey)
<1>1. Init => vkey = skey
  BY DEF Init
<1>2. vkey = skey /\ [Next]_vars => (vkey = skey)'
  BY SlashSteps
<1> QED BY <1>1, <1>2, PTL DEF Spec

\* The headers form one hash chain from genesis.
THEOREM HashLinkedHolds == Spec => []HashLinked
<1>1. Init => HashLinked
  BY DEF Init, HashLinked
<1>2. TypeOK /\ vkey = skey /\ HashLinked /\ [Next]_vars => HashLinked'
  <2> SUFFICES ASSUME TypeOK, vkey = skey, HashLinked, [Next]_vars PROVE HashLinked'
    OBVIOUS
  <2>1. CASE UNCHANGED chain
    BY <2>1 DEF HashLinked
  <2>2. ASSUME NEW leader \in Validator, ProduceBlock(leader) PROVE HashLinked'
    <3> DEFINE b == NextBlock(leader)
    <3>1. b \in Block
      BY <2>2, NextBlockType DEF ProduceBlock
    <3>2. chain \in Seq(Block) /\ chain' = Append(chain, b)
      BY <2>2, ProduceAppends DEF TypeOK
    <3>3. /\ Len(chain) \in Nat /\ Len(chain') = Len(chain) + 1
          /\ \A i \in 1 .. Len(chain) : chain'[i] = chain[i]
          /\ chain'[Len(chain) + 1] = b
          /\ DOMAIN chain' = 1 .. (Len(chain) + 1)
      BY <3>1, <3>2, AppendProperties
    <3>4. b.height = Len(chain) /\ b.prev = head_hash /\ b.hash # GENESIS_PREV_HASH
      BY DEF NextBlock, height, GENESIS_PREV_HASH, TypeOK, Hash
    <3>5. chain = <<>> <=> Len(chain) = 0
      BY <3>2
    <3> HIDE DEF b
    <3> SUFFICES ASSUME NEW i \in 1 .. (Len(chain) + 1)
                 PROVE  /\ chain'[i].height = i - 1
                        /\ chain'[i].prev = (IF i = 1 THEN GENESIS_PREV_HASH
                                             ELSE chain'[i - 1].hash)
                        /\ chain'[i].hash # GENESIS_PREV_HASH
      BY <3>3 DEF HashLinked
    <3>6. CASE i \in 1 .. Len(chain)
      BY <3>2, <3>3, <3>6 DEF HashLinked
    <3>7. CASE i = Len(chain) + 1
      <4>1. i = 1 <=> chain = <<>>
        BY <3>3, <3>5, <3>7
      <4>2. i # 1 => chain'[i - 1] = chain[Len(chain)]
        BY <3>3, <3>7
      <4> QED BY <3>3, <3>4, <3>7, <4>1, <4>2 DEF head_hash
    <3> QED BY <3>3, <3>6, <3>7
  <2> QED BY <2>1, <2>2, ChainSteps
<1> QED BY <1>1, <1>2, TypeCorrect, KeysMatch, PTL DEF Spec

\* Every signature made to finalise a block is on a height the chain has
\* reached, and no two of one key are on one height.
SigInv ==
    /\ \A s \in FinalitySigs : s.height < Len(chain)
    /\ OneFinalitySignaturePerHeight

\* Signatures made outside block production change nothing of it.
LEMMA ForeignStep ==
    ASSUME SigInv, UNCHANGED chain, \A s \in sigs' \ sigs : s.hash \in ForeignHash,
           sigs \subseteq sigs'
    PROVE  SigInv'
<1>1. FinalitySigs' = FinalitySigs
  BY DEF FinalitySigs
<1> QED BY <1>1 DEF SigInv, OneFinalitySignaturePerHeight

\* A validator of this node never puts two finality signatures on one height:
\* a block that is assembled is always finalised, so the height moves on.
THEOREM SignsOnce == Spec => []OneFinalitySignaturePerHeight
<1>1. Init => SigInv
  BY DEF Init, SigInv, FinalitySigs, OneFinalitySignaturePerHeight
<1>2. TypeOK /\ vkey = skey /\ SigInv /\ [Next]_vars => SigInv'
  <2> SUFFICES ASSUME TypeOK, vkey = skey, SigInv, [Next]_vars PROVE SigInv'
    OBVIOUS
  <2>1. CASE SubmitOutcome
    BY <2>1, ForeignStep DEF SubmitOutcome
  <2>2. ASSUME NEW v \in Byzantine, NEW h \in 0 .. height, NEW hash \in ForeignHash,
               ForeignSign(v, h, hash)
        PROVE  SigInv'
    BY <2>2, ForeignStep DEF ForeignSign, nodeVars, sign_block_hash
  <2>3. CASE SubmitEvidence
    BY <2>3, ForeignStep DEF SubmitEvidence, slash
  <2>4. ASSUME NEW v \in Validator, DemoSelfSlash(v)
        PROVE  SigInv'
    BY <2>4, ForeignStep DEF DemoSelfSlash, slash, sign_block_hash, ForeignHash
  <2>5. ASSUME NEW leader \in Validator, ProduceBlock(leader)
        PROVE  SigInv'
    <3> DEFINE new == {sign_block_hash(v, height, clock + 1) : v \in active}
    <3>1. sigs' = sigs \cup new
      BY <2>5 DEF ProduceBlock
    <3>2. \A s \in new : s.height = Len(chain) /\ s.hash = clock + 1 /\ s = [key |-> s.key,
                height |-> Len(chain), hash |-> clock + 1]
      BY DEF sign_block_hash, height
    <3>3. Len(chain) \in Nat /\ Len(chain') = Len(chain) + 1
      <4>1. NextBlock(leader) \in Block /\ chain' = Append(chain, NextBlock(leader))
        BY <2>5, NextBlockType, ProduceAppends DEF ProduceBlock
      <4> QED BY <4>1, AppendProperties DEF TypeOK
    <3>4. FinalitySigs' \subseteq FinalitySigs \cup new
      BY <3>1 DEF FinalitySigs
    <3>5. \A s \in FinalitySigs : s.height \in Nat
      BY DEF FinalitySigs, TypeOK, Signature
    <3> HIDE DEF new
    <3>6. \A s \in FinalitySigs' : s.height < Len(chain')
      BY <3>2, <3>3, <3>4, <3>5 DEF SigInv
    <3>7. ASSUME NEW x \in FinalitySigs', NEW y \in FinalitySigs',
                 x.key = y.key, x.height = y.height
          PROVE  x = y
      <4>1. CASE x \in FinalitySigs /\ y \in FinalitySigs
        BY <3>7, <4>1 DEF SigInv, OneFinalitySignaturePerHeight
      <4>2. CASE x \in new /\ y \in new
        BY <3>2, <3>7, <4>2
      <4>3. x \in FinalitySigs => x.height # Len(chain)
        BY <3>3, <3>5 DEF SigInv
      <4>4. y \in FinalitySigs => y.height # Len(chain)
        BY <3>3, <3>5 DEF SigInv
      <4> QED BY <3>2, <3>4, <3>7, <4>1, <4>2, <4>3, <4>4
    <3> QED BY <3>6, <3>7 DEF SigInv, OneFinalitySignaturePerHeight
  <2>6. CASE UNCHANGED vars
    BY <2>6, ForeignStep DEF vars, nodeVars, histVars
  <2> QED BY <2>1, <2>2, <2>3, <2>4, <2>5, <2>6 DEF Next, Produce
<1>3. SigInv => OneFinalitySignaturePerHeight
  BY DEF SigInv
<1> QED BY <1>1, <1>2, <1>3, TypeCorrect, KeysMatch, PTL DEF Spec

\* Signatures are never forgotten.
LEMMA SigsGrow ==
    ASSUME [Next]_vars
    PROVE  sigs \subseteq sigs'
  BY DEF Next, Produce, ProduceBlock, SubmitOutcome, ForeignSign, SubmitEvidence,
         DemoSelfSlash, vars, histVars

\* Two signatures of one key on two hashes at one height.
Equivocated(k, S) ==
    \E x, y \in S :
        /\ x.key = k /\ y.key = k /\ x.height = y.height /\ x.hash # y.hash
        /\ x.hash \in ForeignHash

\* Evidence that verifies names a key that equivocated.
LEMMA EvidenceProves ==
    ASSUME NEW S, NEW e, verify_evidence(e), e.sigA \in S, e.sigB \in S,
           \A x, y \in S : x.key = y.key /\ x.height = y.height
                /\ x.hash \notin ForeignHash /\ y.hash \notin ForeignHash => x = y
    PROVE  Equivocated(e.offender, S)
<1>1. /\ e.sigA = [key |-> e.offender, height |-> e.height, hash |-> e.a]
      /\ e.sigB = [key |-> e.offender, height |-> e.height, hash |-> e.b]
      /\ e.a # e.b
  BY DEF verify_evidence, Verifies
<1>2. e.a \in ForeignHash \/ e.b \in ForeignHash
  BY <1>1
<1> QED BY <1>1, <1>2 DEF Equivocated

\* Only a key that signed two hashes at one height, one of them outside block
\* production, is ever slashed: a validator that does what the node does is safe.
THEOREM OnlyEquivocatorsSlashedHolds == Spec => []OnlyEquivocatorsSlashed
<1> DEFINE Inv == \A k \in slashed : Equivocated(k, sigs)
<1>1. Init => Inv
  BY DEF Init
<1>2. Inv /\ OneFinalitySignaturePerHeight /\ OneFinalitySignaturePerHeight' /\ [Next]_vars
        => Inv'
  <2> SUFFICES ASSUME Inv, OneFinalitySignaturePerHeight, OneFinalitySignaturePerHeight',
                      [Next]_vars
               PROVE  Inv'
    OBVIOUS
  <2>1. \A k \in slashed : Equivocated(k, sigs')
    BY SigsGrow DEF Equivocated
  <2>2. CASE UNCHANGED slashed
    BY <2>1, <2>2
  <2>3. ASSUME NEW e, slash(e), e.sigA \in sigs', e.sigB \in sigs'
        PROVE  Inv'
    <3>1. \A x, y \in sigs' : x.key = y.key /\ x.height = y.height
                /\ x.hash \notin ForeignHash /\ y.hash \notin ForeignHash => x = y
      BY DEF OneFinalitySignaturePerHeight, FinalitySigs
    <3>2. verify_evidence(e) /\ slashed' = slashed \cup {e.offender}
      BY <2>3 DEF slash
    <3>3. Equivocated(e.offender, sigs')
      BY <2>3, <3>1, <3>2, EvidenceProves
    <3> QED BY <2>1, <3>2, <3>3
  <2>4. CASE SubmitEvidence
    <3>1. PICK e \in EvidenceFrom(sigs) : slash(e)
      BY <2>4 DEF SubmitEvidence
    <3>2. e.sigA \in sigs /\ e.sigB \in sigs
      BY <3>1 DEF EvidenceFrom
    <3> QED BY <2>3, <3>1, <3>2, SigsGrow
  <2>5. ASSUME NEW v \in Validator, DemoSelfSlash(v)
        PROVE  Inv'
    <3> DEFINE s(hash) == sign_block_hash(v, height + 1, hash)
               e == [offender |-> <<v, vkey>>, height |-> height + 1,
                     a |-> -1, sigA |-> s(-1), b |-> -2, sigB |-> s(-2)]
    <3>1. slash(e) /\ e.sigA \in sigs' /\ e.sigB \in sigs'
      BY <2>5 DEF DemoSelfSlash
    <3> QED BY <2>3, <3>1
  <2> QED BY <2>2, <2>4, <2>5 DEF Next, Produce, ProduceBlock, SubmitOutcome, ForeignSign,
                                  vars, nodeVars
<1>3. Inv <=> OnlyEquivocatorsSlashed
  BY DEF OnlyEquivocatorsSlashed, Equivocated
<1> QED BY <1>1, <1>2, <1>3, SignsOnce, PTL DEF Spec
----------------------------------------------------------------------------
(* Slashings on the chain                                                  *)

\* One more transaction adds its offender, and keeps the list free of repetition if he is new.
LEMMA OneMoreOffender ==
    ASSUME NEW txs \in Seq(SlashingTx), NEW tx \in SlashingTx
    PROVE  LET more == Append(txs, tx)
               of(s) == {s[n].offender : n \in DOMAIN s}
           IN  /\ of(more) = of(txs) \cup {tx.offender}
               /\ NoneTwice(txs) /\ tx.offender \notin of(txs) => NoneTwice(more)
<1> DEFINE more == Append(txs, tx)
<1>1. /\ Len(txs) \in Nat /\ DOMAIN txs = 1 .. Len(txs) /\ DOMAIN more = 1 .. (Len(txs) + 1)
      /\ more[Len(txs) + 1] = tx /\ \A n \in 1 .. Len(txs) : more[n] = txs[n]
  BY AppendProperties
<1> HIDE DEF more
<1>2. {more[n].offender : n \in DOMAIN more} = {txs[n].offender : n \in DOMAIN txs} \cup {tx.offender}
  <2>1. DOMAIN more = DOMAIN txs \cup {Len(txs) + 1}
    BY <1>1
  <2> QED BY <1>1, <2>1
<1>3. ASSUME NoneTwice(txs), tx.offender \notin {txs[n].offender : n \in DOMAIN txs}
      PROVE  NoneTwice(more)
  <2> SUFFICES ASSUME NEW m \in DOMAIN more, NEW n \in DOMAIN more,
                      more[m].offender = more[n].offender
               PROVE  m = n
    BY DEF NoneTwice
  <2>1. CASE m \in DOMAIN txs /\ n \in DOMAIN txs
    BY <1>1, <1>3, <2>1 DEF NoneTwice
  <2>2. \A k \in DOMAIN more : k \in DOMAIN txs \/ k = Len(txs) + 1
    BY <1>1
  <2> QED BY <1>1, <1>3, <2>1, <2>2
<1> QED BY <1>2, <1>3 DEF more

\* The offenders of the stored blocks are who they were, when a block is appended; those of the new
\* one are those that were waiting.
LEMMA OffendersAppended ==
    ASSUME TypeOK, NEW leader \in Validator, NextBlock(leader) \in Block,
           chain' = Append(chain, NextBlock(leader)), NEW n, n = Len(chain)
    PROVE  /\ n \in Nat /\ Len(chain') = n + 1
           /\ DOMAIN chain = 1 .. n /\ DOMAIN chain' = 1 .. (n + 1)
           /\ \A i \in 1 .. n : chain'[i] = chain[i]
           /\ chain'[n + 1] = NextBlock(leader)
           /\ \A i \in 1 .. n : Offenders(i)' = Offenders(i)
           /\ \A i \in 0 .. n : OffendersUpTo(i)' = OffendersUpTo(i)
           /\ Offenders(n + 1)' = PendingOffenders
           /\ OffendersUpTo(n + 1)' = OffendersUpTo(n) \cup PendingOffenders
<1>1. /\ n \in Nat /\ Len(chain') = n + 1
      /\ DOMAIN chain = 1 .. n /\ DOMAIN chain' = 1 .. (n + 1)
      /\ \A i \in 1 .. n : chain'[i] = chain[i]
      /\ chain'[n + 1] = NextBlock(leader)
  BY AppendProperties DEF TypeOK
<1>2. \A i \in 1 .. n : Offenders(i)' = Offenders(i)
  BY <1>1 DEF Offenders
<1>3. \A i \in 0 .. n : OffendersUpTo(i)' = OffendersUpTo(i)
  <2> SUFFICES ASSUME NEW i \in 0 .. n
               PROVE  UNION {Offenders(j)' : j \in 1 .. i} = UNION {Offenders(j) : j \in 1 .. i}
    BY DEF OffendersUpTo
  <2>1. \A j \in 1 .. i : Offenders(j)' = Offenders(j)
    BY <1>1, <1>2
  <2> QED BY <2>1
<1>4. Offenders(n + 1)' = PendingOffenders
  BY <1>1 DEF Offenders, PendingOffenders, NextBlock
<1>5. OffendersUpTo(n + 1)' = OffendersUpTo(n)' \cup Offenders(n + 1)'
  <2>1. 1 .. (n + 1) = (1 .. n) \cup {n + 1}
    BY <1>1
  <2> QED BY <2>1 DEF OffendersUpTo
<1>6. OffendersUpTo(n)' = OffendersUpTo(n)
  BY <1>1, <1>3
<1> QED BY <1>1, <1>2, <1>3, <1>4, <1>5, <1>6

\* Nobody in a block or in the queue is slashed for the first time now.
LEMMA SlashRecorded ==
    ASSUME TypeOK, SlashingRecordedOnce, UNCHANGED chain,
           NEW e, e.offender \in Pubkey, e.height \in Nat, slash(e)
    PROVE  SlashingRecordedOnce'
<1> DEFINE tx == [offender |-> e.offender, height |-> e.height, observed |-> height]
<1>1. tx \in SlashingTx /\ pending \in Seq(SlashingTx) /\ tx.offender = e.offender
  BY DEF TypeOK, SlashingTx, height
<1>2. pending' = Append(pending, tx) /\ slashed' = slashed \cup {e.offender} /\ e.offender \notin slashed
  BY DEF slash
<1> HIDE DEF tx
<1>3. PendingOffenders' = PendingOffenders \cup {e.offender}
  BY <1>1, <1>2, OneMoreOffender DEF PendingOffenders
<1>4. PendingOffenders \subseteq slashed /\ \A i \in DOMAIN chain : Offenders(i) \subseteq slashed
  <2>1. \A i \in DOMAIN chain : i \in 1 .. Len(chain)
    BY DEF TypeOK
  <2> QED BY <2>1 DEF SlashingRecordedOnce, OffendersUpTo
<1>5. NoneTwice(pending')
  BY <1>1, <1>2, <1>4, OneMoreOffender DEF PendingOffenders, SlashingRecordedOnce
<1>6. \A i : Offenders(i)' = Offenders(i) /\ OffendersUpTo(i)' = OffendersUpTo(i)
  BY DEF Offenders, OffendersUpTo
<1>7. OffendersUpTo(Len(chain))' = OffendersUpTo(Len(chain))
  BY DEF Offenders, OffendersUpTo
<1>8. slashed' = PendingOffenders' \cup OffendersUpTo(Len(chain))'
  BY <1>2, <1>3, <1>7 DEF SlashingRecordedOnce
<1>9. \A i \in DOMAIN chain : Offenders(i) \cap (PendingOffenders \cup {e.offender}) = {}
  BY <1>2, <1>4 DEF SlashingRecordedOnce
<1>10. \A i \in DOMAIN chain : /\ Offenders(i) \cap OffendersUpTo(i - 1) = {}
                               /\ NoneTwice(chain[i].slashings)
  BY DEF SlashingRecordedOnce
<1>11. \A i \in DOMAIN chain : /\ Offenders(i)' \cap PendingOffenders' = {}
                               /\ Offenders(i)' \cap OffendersUpTo(i - 1)' = {}
                               /\ NoneTwice(chain[i].slashings)
  BY <1>3, <1>6, <1>9, <1>10
<1> QED BY <1>5, <1>8, <1>11 DEF SlashingRecordedOnce

\* The queue moves into the new block as a whole.
LEMMA BlockRecordsSlashings ==
    ASSUME TypeOK, SlashingRecordedOnce, UNCHANGED slashed, NEW leader \in Validator,
           NextBlock(leader) \in Block, chain' = Append(chain, NextBlock(leader)), pending' = <<>>
    PROVE  SlashingRecordedOnce'
<1> SUFFICES ASSUME NEW n, n = Len(chain) PROVE SlashingRecordedOnce'
  OBVIOUS
<1>1. /\ n \in Nat /\ Len(chain') = n + 1
      /\ DOMAIN chain = 1 .. n /\ DOMAIN chain' = 1 .. (n + 1)
      /\ \A i \in 1 .. n : chain'[i] = chain[i]
      /\ chain'[n + 1] = NextBlock(leader)
      /\ \A i \in 1 .. n : Offenders(i)' = Offenders(i)
      /\ \A i \in 0 .. n : OffendersUpTo(i)' = OffendersUpTo(i)
      /\ Offenders(n + 1)' = PendingOffenders
      /\ OffendersUpTo(n + 1)' = OffendersUpTo(n) \cup PendingOffenders
  BY OffendersAppended
<1>2. PendingOffenders' = {} /\ NoneTwice(pending')
  BY DEF PendingOffenders, NoneTwice
<1>3. slashed' = PendingOffenders' \cup OffendersUpTo(n + 1)'
  BY <1>1, <1>2 DEF SlashingRecordedOnce
<1>4. ASSUME NEW i \in 1 .. (n + 1)
      PROVE  Offenders(i)' \cap OffendersUpTo(i - 1)' = {} /\ NoneTwice(chain'[i].slashings)
  <2>1. CASE i \in 1 .. n
    <3>1. OffendersUpTo(i - 1)' = OffendersUpTo(i - 1)
      BY <1>1, <2>1
    <3> QED BY <1>1, <2>1, <3>1 DEF SlashingRecordedOnce
  <2>2. CASE i = n + 1
    <3>1. PendingOffenders \cap OffendersUpTo(n) = {}
      BY <1>1 DEF SlashingRecordedOnce, OffendersUpTo
    <3>2. OffendersUpTo(i - 1)' = OffendersUpTo(n)
      BY <1>1, <2>2
    <3>3. Offenders(i)' = PendingOffenders /\ chain'[i].slashings = pending
      BY <1>1, <2>2 DEF NextBlock
    <3> QED BY <3>1, <3>2, <3>3 DEF SlashingRecordedOnce
  <2> QED BY <1>1, <2>1, <2>2
<1> QED BY <1>1, <1>2, <1>3, <1>4 DEF SlashingRecordedOnce

\* Active validators are exactly those that no block has slashed and nobody waits to.
LEMMA BlockSigned ==
    ASSUME TypeOK, SlashingRecordedOnce, ActiveXorSlashed, SignersAreTheUnslashed, UNCHANGED vkey,
           NEW leader \in active,
           NextBlock(leader) \in Block, chain' = Append(chain, NextBlock(leader))
    PROVE  SignersAreTheUnslashed'
<1> SUFFICES ASSUME NEW n, n = Len(chain) PROVE SignersAreTheUnslashed'
  OBVIOUS
<1>1. leader \in Validator
  BY DEF TypeOK
<1>2. /\ n \in Nat /\ DOMAIN chain = 1 .. n /\ DOMAIN chain' = 1 .. (n + 1)
      /\ \A i \in 1 .. n : chain'[i] = chain[i]
      /\ chain'[n + 1] = NextBlock(leader)
      /\ \A i \in 0 .. n : OffendersUpTo(i)' = OffendersUpTo(i)
      /\ OffendersUpTo(n + 1)' = OffendersUpTo(n) \cup PendingOffenders
  BY <1>1, OffendersAppended
<1>3. {<<v, vkey>> : v \in active} = {<<v, vkey>> : v \in Validator} \ slashed
  <2>1. \A v \in active : v \in Validator
    BY DEF TypeOK
  <2> QED BY <2>1 DEF ActiveXorSlashed
<1>4. ASSUME NEW i \in 1 .. (n + 1)
      PROVE  /\ chain'[i].signers = {<<v, vkey>> : v \in Validator} \ OffendersUpTo(i)'
             /\ chain'[i].proposer \in chain'[i].signers
  <2>1. CASE i \in 1 .. n
    BY <1>2, <2>1 DEF SignersAreTheUnslashed
  <2>2. CASE i = n + 1
    <3>1. OffendersUpTo(i)' = slashed
      BY <1>2, <2>2 DEF SlashingRecordedOnce
    <3> QED BY <1>2, <1>3, <2>2, <3>1 DEF NextBlock
  <2> QED BY <1>2, <2>1, <2>2
<1> QED BY <1>2, <1>4 DEF SignersAreTheUnslashed

\* A step slashes by evidence that is well formed, appends the block that was due, or leaves the
\* chain and its slashings alone.  The leader check sees to it that keys match where a block is made.
LEMMA SlashingSteps ==
    ASSUME TypeOK, [Next]_vars
    PROVE  \/ UNCHANGED <<chain, pending, slashed, active>>
           \/ /\ UNCHANGED chain
              /\ \E e : slash(e) /\ e.offender \in Pubkey /\ e.height \in Nat
           \/ /\ UNCHANGED <<slashed, active>> /\ pending' = <<>>
              /\ \E leader \in active : /\ NextBlock(leader) \in Block
                                        /\ chain' = Append(chain, NextBlock(leader))
<1>1. CASE SubmitEvidence
  <2>1. PICK e \in EvidenceFrom(sigs) : slash(e)
    BY <1>1 DEF SubmitEvidence
  <2> QED BY <2>1, EvidenceTypes DEF slash
<1>2. ASSUME NEW v \in Validator, DemoSelfSlash(v)
      PROVE  UNCHANGED chain /\ \E e : slash(e) /\ e.offender \in Pubkey /\ e.height \in Nat
  <2> DEFINE s(hash) == sign_block_hash(v, height + 1, hash)
             e == [offender |-> <<v, vkey>>, height |-> height + 1,
                   a |-> -1, sigA |-> s(-1), b |-> -2, sigB |-> s(-2)]
  <2>1. slash(e) /\ UNCHANGED chain
    BY <1>2 DEF DemoSelfSlash, slash
  <2>2. e.offender \in Pubkey /\ e.height \in Nat
    BY DEF TypeOK, Pubkey, height
  <2> HIDE DEF e
  <2> QED BY <2>1, <2>2
<1>3. ASSUME NEW leader \in Validator, ProduceBlock(leader)
      PROVE  /\ UNCHANGED <<slashed, active>> /\ pending' = <<>> /\ leader \in active
             /\ NextBlock(leader) \in Block /\ chain' = Append(chain, NextBlock(leader))
  <2>1. NextBlock(leader) \in Block /\ leader \in active /\ vkey = skey
    BY <1>3, NextBlockType DEF ProduceBlock, verify_leader
  <2>2. chain' = Append(chain, NextBlock(leader)) /\ pending' = <<>>
    BY <1>3, <2>1, ProduceAppends
  <2> QED BY <1>3, <2>1, <2>2 DEF ProduceBlock
<1>4. SubmitOutcome => UNCHANGED <<chain, pending, slashed, active>>
  BY DEF SubmitOutcome
<1>5. ASSUME NEW v \in Byzantine, NEW h \in 0 .. height, NEW hash \in ForeignHash,
             ForeignSign(v, h, hash)
      PROVE  UNCHANGED <<chain, pending, slashed, active>>
  BY <1>5 DEF ForeignSign, nodeVars
<1>6. UNCHANGED vars => UNCHANGED <<chain, pending, slashed, active>>
  BY DEF vars, nodeVars
<1> QED BY <1>1, <1>2, <1>3, <1>4, <1>5, <1>6 DEF Next, Produce

\* Whatever the node does, a slashing is on record once.
LEMMA RecordedOnceStep ==
    ASSUME TypeOK, SlashingRecordedOnce, [Next]_vars
    PROVE  SlashingRecordedOnce'
<1>1. CASE UNCHANGED <<chain, pending, slashed, active>>
  <2>1. /\ PendingOffenders' = PendingOffenders
        /\ OffendersUpTo(Len(chain))' = OffendersUpTo(Len(chain))
        /\ \A i : Offenders(i)' = Offenders(i) /\ OffendersUpTo(i)' = OffendersUpTo(i)
    BY <1>1 DEF PendingOffenders, Offenders, OffendersUpTo
  <2> QED BY <1>1, <2>1 DEF SlashingRecordedOnce
<1>2. ASSUME UNCHANGED chain, NEW e, slash(e), e.offender \in Pubkey, e.height \in Nat
      PROVE  SlashingRecordedOnce'
  BY <1>2, SlashRecorded
<1>3. ASSUME UNCHANGED slashed, pending' = <<>>, NEW leader \in active,
             NextBlock(leader) \in Block, chain' = Append(chain, NextBlock(leader))
      PROVE  SlashingRecordedOnce'
  <2>1. leader \in Validator
    BY DEF TypeOK
  <2> QED BY <1>3, <2>1, BlockRecordsSlashings
<1> QED BY <1>1, <1>2, <1>3, SlashingSteps

\* What the chain says of slashings is what the node did: whoever is slashed waits in the queue or
\* stands in one block, once, and every block is signed by all validators that it and the blocks
\* before it do not slash.
THEOREM SlashingsSoundHolds == Spec => []SlashingsSound
<1>1. Init => SlashingsSound
  BY DEF Init, SlashingsSound, SignersAreTheUnslashed, SlashingRecordedOnce, PendingOffenders,
         OffendersUpTo, NoneTwice
<1>2. TypeOK /\ ActiveXorSlashed /\ SlashingsSound /\ [Next]_vars => SlashingsSound'
  <2> SUFFICES ASSUME TypeOK, ActiveXorSlashed, SlashingsSound, [Next]_vars
               PROVE  SlashingsSound'
    OBVIOUS
  <2>1. UNCHANGED vkey
    BY SlashSteps
  <2>2. SlashingRecordedOnce'
    BY RecordedOnceStep DEF SlashingsSound
  <2>3. CASE UNCHANGED chain
    BY <2>1, <2>2, <2>3 DEF SlashingsSound, SignersAreTheUnslashed, Offenders, OffendersUpTo
  <2>4. ASSUME NEW leader \in active, NextBlock(leader) \in Block,
               chain' = Append(chain, NextBlock(leader))
        PROVE  SlashingsSound'
    BY <2>1, <2>2, <2>4, BlockSigned DEF SlashingsSound
  <2> QED BY <2>3, <2>4, SlashingSteps
<1> QED BY <1>1, <1>2, TypeCorrect, ActiveXorSlashedHolds, PTL DEF Spec
----------------------------------------------------------------------------
(* Outcomes                                                                *)

\* What waits in a queue is a set of match numbers.
LEMMA ElemsAreMatches ==
    ASSUME NEW s \in Seq(Match)
    PROVE  (\A x \in Elems(s) : x \in Nat) /\ (s # <<>> => Elems(s) # {})
<1>1. DOMAIN s = 1 .. Len(s) /\ Len(s) \in Nat /\ \A i \in DOMAIN s : s[i] \in Match
  OBVIOUS
<1>2. \A x \in Elems(s) : x \in Match
  BY <1>1 DEF Elems
<1>3. s # <<>> => 1 \in DOMAIN s
  BY <1>1
<1>4. 1 \in DOMAIN s => s[1] \in Elems(s)
  BY DEF Elems
<1> QED BY <1>2, <1>3, <1>4 DEF Match

\* A newcomer that is larger than all comes last.
LEMMA InOrderAppended ==
    ASSUME NEW s \in Seq(Match), NEW m \in Match, Increasing(s), \A x \in Elems(s) : x < m
    PROVE  Increasing(Append(s, m)) /\ Elems(Append(s, m)) = Elems(s) \cup {m}
<1> DEFINE t == Append(s, m)
<1>1. /\ Len(s) \in Nat /\ DOMAIN s = 1 .. Len(s) /\ DOMAIN t = 1 .. (Len(s) + 1)
      /\ t[Len(s) + 1] = m /\ \A i \in 1 .. Len(s) : t[i] = s[i] /\ s[i] \in Match
  BY AppendProperties
<1> HIDE DEF t
<1>2. DOMAIN t = DOMAIN s \cup {Len(s) + 1}
  BY <1>1
<1>3. Elems(t) = Elems(s) \cup {m}
  BY <1>1, <1>2 DEF Elems
<1>4. Increasing(t)
  <2> SUFFICES ASSUME NEW i \in DOMAIN t, NEW j \in DOMAIN t, i < j PROVE t[i] < t[j]
    BY DEF Increasing
  <2>1. i \in DOMAIN s
    BY <1>1
  <2>2. CASE j \in DOMAIN s
    BY <1>1, <2>1, <2>2 DEF Increasing
  <2>3. CASE j = Len(s) + 1
    BY <1>1, <2>1, <2>3 DEF Elems
  <2> QED BY <1>2, <2>2, <2>3
<1> QED BY <1>3, <1>4 DEF t

\* The oldest of a queue in order is the smallest.
LEMMA InOrderTail ==
    ASSUME NEW s \in Seq(Match), s # <<>>, Increasing(s)
    PROVE  /\ Tail(s) \in Seq(Match) /\ Head(s) \in Match
           /\ Increasing(Tail(s)) /\ Elems(s) = Elems(Tail(s)) \cup {Head(s)}
           /\ \A x \in Elems(Tail(s)) : Head(s) < x
<1> DEFINE t == Tail(s)
           h == Head(s)
<1>1. /\ Len(s) \in Nat \ {0} /\ DOMAIN s = 1 .. Len(s) /\ t \in Seq(Match)
      /\ DOMAIN t = 1 .. (Len(s) - 1) /\ h = s[1] /\ h \in Match
      /\ \A i \in 1 .. (Len(s) - 1) : t[i] = s[i + 1]
  BY HeadTailProperties
<1> HIDE DEF t, h
<1>2. Increasing(t)
  <2> SUFFICES ASSUME NEW i \in DOMAIN t, NEW j \in DOMAIN t, i < j PROVE t[i] < t[j]
    BY DEF Increasing
  <2>1. i + 1 \in DOMAIN s /\ j + 1 \in DOMAIN s /\ i + 1 < j + 1
    BY <1>1
  <2> QED BY <1>1, <2>1 DEF Increasing
<1>3. \A x \in Elems(t) : h < x
  <2> SUFFICES ASSUME NEW i \in DOMAIN t PROVE h < t[i]
    BY DEF Elems
  <2>1. 1 \in DOMAIN s /\ i + 1 \in DOMAIN s /\ 1 < i + 1
    BY <1>1
  <2> QED BY <1>1, <2>1 DEF Increasing
<1>4. Elems(s) = Elems(t) \cup {h}
  <2>1. \A x \in Elems(s) : x \in Elems(t) \cup {h}
    <3> SUFFICES ASSUME NEW i \in DOMAIN s PROVE s[i] \in Elems(t) \cup {h}
      BY DEF Elems
    <3>1. i = 1 \/ (i - 1 \in DOMAIN t /\ t[i - 1] = s[i])
      BY <1>1
    <3> QED BY <1>1, <3>1 DEF Elems
  <2>2. \A i \in DOMAIN t : i + 1 \in DOMAIN s /\ t[i] = s[i + 1]
    BY <1>1
  <2>3. \A x \in Elems(t) : x \in Elems(s)
    BY <2>2 DEF Elems
  <2>4. h \in Elems(s)
    BY <1>1 DEF Elems
  <2> QED BY <2>1, <2>3, <2>4
<1> QED BY <1>1, <1>2, <1>3, <1>4 DEF t, h

\* What is left of a sequence when its first n elements are taken.
LEMMA RestIs ==
    ASSUME NEW S, NEW s \in Seq(S), NEW n \in 0 .. Len(s)
    PROVE  /\ Len(SubSeq(s, n + 1, Len(s))) = Len(s) - n
           /\ \A i \in 1 .. (Len(s) - n) : SubSeq(s, n + 1, Len(s))[i] = s[n + i]
<1>1. n \in Nat /\ Len(s) \in Nat /\ n <= Len(s)
  OBVIOUS
<1>2. \A i \in (n + 1) .. Len(s) : s[i] \in S
  BY <1>1
<1> DEFINE l == Len(s)
           rest == SubSeq(s, n + 1, l)
<1>3. /\ Len(rest) = IF n + 1 <= l THEN l - (n + 1) + 1 ELSE 0
      /\ \A i \in 1 .. l - (n + 1) + 1 : rest[i] = s[n + 1 + i - 1]
  BY <1>1, <1>2, SubSeqProperties
<1> HIDE DEF l, rest
<1>4. n \in Nat /\ l \in Nat /\ n <= l
  BY <1>1 DEF l
<1>5. Len(rest) = l - n
  BY <1>3, <1>4
<1>6. ASSUME NEW i \in 1 .. (l - n)
      PROVE  rest[i] = s[n + i]
  <2>1. i \in 1 .. l - (n + 1) + 1 /\ n + 1 + i - 1 = n + i
    BY <1>4
  <2> QED
    BY <1>3, <2>1
<1> QED
  BY <1>5, <1>6 DEF l, rest

\* What drain takes precedes what it leaves, and the two are all there was.
LEMMA InOrderDrained ==
    ASSUME TypeOK, Increasing(mempool)
    PROVE  LET d == Drained(MaxPayload)
               k == Kept(MaxPayload)
           IN  /\ Increasing(d) /\ Increasing(k) /\ Elems(mempool) = Elems(d) \cup Elems(k)
               /\ \A x \in Elems(d), y \in Elems(k) : x < y
<1> DEFINE d == Drained(MaxPayload)
           k == Kept(MaxPayload)
           n == MinOf(MaxPayload, Len(mempool))
           l == Len(mempool)
<1>1. n \in 0 .. l /\ l \in Nat /\ DOMAIN mempool = 1 .. l
  BY ConstantsAssumption DEF TypeOK, MinOf
<1>2. /\ DOMAIN d = 1 .. n /\ \A i \in 1 .. n : d[i] = mempool[i]
      /\ DOMAIN k = 1 .. (l - n) /\ \A i \in 1 .. (l - n) : k[i] = mempool[n + i]
  <2> HIDE DEF n
  <2>1. \A i \in 1 .. n : mempool[i] \in Match
    BY <1>1 DEF TypeOK
  <2>3. Len(SubSeq(mempool, 1, n)) = n /\ \A i \in 1 .. n : SubSeq(mempool, 1, n)[i] = mempool[i]
    BY <1>1, <2>1, SubSeqProperties
  <2>4. /\ Len(SubSeq(mempool, n + 1, l)) = l - n
        /\ \A i \in 1 .. (l - n) : SubSeq(mempool, n + 1, l)[i] = mempool[n + i]
    BY <1>1, RestIs DEF TypeOK
  <2>5. d = SubSeq(mempool, 1, n) /\ k = SubSeq(mempool, n + 1, l)
    BY DEF Drained, Kept, n
  <2>6. DOMAIN d = 1 .. Len(d) /\ DOMAIN k = 1 .. Len(k)
    BY DrainTypes
  <2> QED BY <2>3, <2>4, <2>5, <2>6
<1> HIDE DEF d, k, n, l
<1>3. \A i, j \in 1 .. l : i < j => mempool[i] < mempool[j]
  BY <1>1 DEF Increasing
<1>4. Increasing(d)
  BY <1>1, <1>2, <1>3 DEF Increasing
<1>5. Increasing(k)
  <2> SUFFICES ASSUME NEW i \in DOMAIN k, NEW j \in DOMAIN k, i < j PROVE k[i] < k[j]
    BY DEF Increasing
  <2>1. n + i \in 1 .. l /\ n + j \in 1 .. l /\ n + i < n + j
    BY <1>1, <1>2
  <2> QED BY <1>2, <1>3, <2>1
<1>6. \A x \in Elems(d), y \in Elems(k) : x < y
  <2> SUFFICES ASSUME NEW i \in DOMAIN d, NEW j \in DOMAIN k PROVE d[i] < k[j]
    BY DEF Elems
  <2>1. i \in 1 .. l /\ n + j \in 1 .. l /\ i < n + j
    BY <1>1, <1>2
  <2> QED BY <1>2, <1>3, <2>1
<1>7. Elems(mempool) = Elems(d) \cup Elems(k)
  <2>1. \A i \in DOMAIN d : i \in DOMAIN mempool /\ d[i] = mempool[i]
    BY <1>1, <1>2
  <2>2. \A i \in DOMAIN k : n + i \in DOMAIN mempool /\ k[i] = mempool[n + i]
    BY <1>1, <1>2
  <2>3. \A i \in DOMAIN mempool : \/ i \in DOMAIN d /\ d[i] = mempool[i]
                                  \/ i - n \in DOMAIN k /\ k[i - n] = mempool[i]
    BY <1>1, <1>2
  <2> QED BY <2>1, <2>2, <2>3 DEF Elems
<1> QED BY <1>4, <1>5, <1>6, <1>7 DEF d, k

\* OutcomesInOrder of any chain and any queue.
InOrder(blocks, queue) ==
    /\ Increasing(queue)
    /\ \A i \in DOMAIN blocks :
        /\ Increasing(blocks[i].payload)
        /\ \A m \in Elems(blocks[i].payload) :
            /\ \A n \in Elems(queue) : m < n
            /\ \A j \in (i + 1) .. Len(blocks) : \A n \in Elems(blocks[j].payload) : m < n

\* The property in terms of the values of the chain and of the mempool, in both states of a step.
LEMMA InOrderAlways ==
    /\ OutcomesInOrder <=> InOrder(chain, mempool)
    /\ OutcomesInOrder' <=> InOrder(chain', mempool')
  BY DEF OutcomesInOrder, InOrder, Increasing, Elems

\* No outcome in a block or in a queue is of a match still to be played.
Played(blocks, queue, m) ==
    /\ \A i \in DOMAIN blocks : \A x \in Elems(blocks[i].payload) : x <= m
    /\ \A x \in Elems(queue) : x <= m

\* The match that ends is larger than all outcomes before it; what a full queue drops is the smallest.
LEMMA QueueSubmitted ==
    ASSUME TypeOK, Increasing(mempool), \A x \in Elems(mempool) : x <= matches, SubmitOutcome,
           NEW m, m = matches + 1
    PROVE  /\ Increasing(mempool')
           /\ \/ Elems(mempool') = Elems(mempool) \cup {m} /\ evicted' = evicted
              \/ \E h \in Elems(mempool) : /\ Elems(mempool') = (Elems(mempool) \ {h}) \cup {m}
                                           /\ evicted' = evicted \cup {h}
<1>1. /\ m \in Match /\ matches \in Nat /\ mempool \in Seq(Match) /\ Elems(mempool) \subseteq Match
      /\ submit(m)
  <2>1. mempool \in Seq(Match)
    BY DEF TypeOK
  <2>2. Elems(mempool) \subseteq Match
    BY <2>1 DEF Elems
  <2> QED BY <2>1, <2>2, ConstantsAssumption DEF TypeOK, SubmitOutcome, Match
<1>2. \A x \in Elems(mempool) : x < m
  BY <1>1 DEF Match
<1>3. CASE Len(mempool) < Capacity
  <2>1. mempool' = Append(mempool, m) /\ evicted' = evicted
    BY <1>1, <1>3 DEF submit
  <2> QED BY <1>1, <1>2, <2>1, InOrderAppended
<1>4. CASE ~(Len(mempool) < Capacity)
  <2>1. mempool # <<>>
    BY <1>4, ConstantsAssumption DEF TypeOK
  <2> DEFINE t == Tail(mempool)
             h == Head(mempool)
  <2>2. mempool' = Append(t, m) /\ evicted' = evicted \cup {h}
    BY <1>1, <1>4 DEF submit
  <2>3. /\ t \in Seq(Match) /\ h \in Match /\ Increasing(t)
        /\ Elems(mempool) = Elems(t) \cup {h} /\ \A x \in Elems(t) : h < x
    BY <1>1, <2>1, InOrderTail
  <2> HIDE DEF t, h
  <2>4. Increasing(Append(t, m)) /\ Elems(Append(t, m)) = Elems(t) \cup {m}
    BY <1>1, <1>2, <2>3, InOrderAppended
  <2>5. h \notin Elems(t) /\ h # m
    BY <1>2, <2>3 DEF Match
  <2> QED BY <2>2, <2>3, <2>4, <2>5
<1> QED BY <1>3, <1>4

\* The newcomer follows whatever is in the blocks.
LEMMA SubmittedInOrder ==
    ASSUME TypeOK, OutcomesInOrder, Played(chain, mempool, matches), SubmitOutcome
    PROVE  OutcomesInOrder' /\ Played(chain', mempool', matches')
<1> SUFFICES ASSUME NEW m, m = matches + 1
             PROVE  OutcomesInOrder' /\ Played(chain', mempool', matches')
  OBVIOUS
<1>1. matches' = m /\ matches \in Nat /\ UNCHANGED chain
  BY DEF SubmitOutcome, TypeOK
<1>2. Increasing(mempool') /\ \A x \in Elems(mempool') : x \in Elems(mempool) \/ x = m
  <2>1. Increasing(mempool) /\ \A x \in Elems(mempool) : x <= matches
    BY DEF OutcomesInOrder, Played
  <2> QED BY <2>1, QueueSubmitted
<1>3. /\ \A i \in DOMAIN chain : \A x \in Elems(chain[i].payload) : x \in Nat /\ x <= matches
      /\ \A x \in Elems(mempool) : x \in Nat /\ x <= matches
  <2>1. mempool \in Seq(Match) /\ \A i \in DOMAIN chain : chain[i] \in Block
    BY DEF TypeOK
  <2>2. \A i \in DOMAIN chain : chain[i].payload \in Seq(Match)
    BY <2>1 DEF Block
  <2> QED BY <2>1, <2>2, ElemsAreMatches DEF Played
<1>4. \A i \in DOMAIN chain : \A x \in Elems(chain[i].payload) : \A y \in Elems(mempool') : x < y
  <2>1. \A i \in DOMAIN chain : \A x \in Elems(chain[i].payload) : x < m
    BY <1>1, <1>3
  <2> QED BY <1>2, <2>1 DEF OutcomesInOrder
<1>5. OutcomesInOrder'
  <2>1. InOrder(chain, mempool)
    BY InOrderAlways
  <2>2. InOrder(chain, mempool')
    BY <1>2, <1>4, <2>1 DEF InOrder
  <2> QED BY <1>1, <2>2, InOrderAlways
<1>6. Played(chain', mempool', matches')
  BY <1>1, <1>2, <1>3 DEF Played
<1> QED BY <1>5, <1>6

\* Nothing that waits or is final is lost but what the full queue drops, which is on record.
LEMMA OutcomeSubmitted ==
    ASSUME TypeOK, OutcomesSound, SubmitOutcome
    PROVE  OutcomesSound'
<1> SUFFICES ASSUME NEW m, m = matches + 1 PROVE OutcomesSound'
  OBVIOUS
<1>1. /\ matches \in Nat /\ matches' = m /\ UNCHANGED <<chain, rewarded>>
      /\ \A x \in OnChain \cup Elems(mempool) \cup evicted : x \in 1 .. matches
  BY DEF TypeOK, SubmitOutcome, OutcomesSound, OutcomesAccounted
<1>2. Played(chain, mempool, matches)
  BY <1>1 DEF Played, OnChain
<1>3. OnChain' = OnChain /\ RewardedOnce'
  BY <1>1 DEF OnChain, RewardedOnce, OutcomesSound
<1>4. 1 .. matches' = (1 .. matches) \cup {m}
  BY <1>1
<1>5. /\ m \notin OnChain \cup Elems(mempool) \cup evicted
      /\ \/ Elems(mempool') = Elems(mempool) \cup {m} /\ evicted' = evicted
         \/ \E h \in Elems(mempool) : /\ Elems(mempool') = (Elems(mempool) \ {h}) \cup {m}
                                      /\ evicted' = evicted \cup {h}
  <2>1. Increasing(mempool) /\ \A x \in Elems(mempool) : x <= matches
    BY <1>2 DEF OutcomesSound, OutcomesInOrder, Played
  <2>2. m \notin OnChain \cup Elems(mempool) \cup evicted
    BY <1>1
  <2> QED BY <2>1, <2>2, QueueSubmitted
<1>6. OutcomesAccounted'
  <2>1. 1 .. matches = OnChain \cup Elems(mempool) \cup evicted
    BY DEF OutcomesSound, OutcomesAccounted
  <2>2. OnChain \cap Elems(mempool) = {} /\ evicted \cap (OnChain \cup Elems(mempool)) = {}
    BY DEF OutcomesSound, OutcomesAccounted
  <2>3. 1 .. matches' = OnChain \cup Elems(mempool') \cup evicted'
    BY <1>4, <1>5, <2>1
  <2>4. OnChain \cap Elems(mempool') = {} /\ evicted' \cap (OnChain \cup Elems(mempool')) = {}
    BY <1>5, <2>2
  <2> QED BY <1>3, <2>3, <2>4 DEF OutcomesAccounted, Elems
<1>7. OutcomesInOrder'
  BY <1>2, SubmittedInOrder DEF OutcomesSound
<1> QED BY <1>3, <1>6, <1>7 DEF OutcomesSound

\* What a block adds to the chain is its payload.
LEMMA OnChainAppended ==
    ASSUME TypeOK, NEW leader \in Validator, NextBlock(leader) \in Block,
           chain' = Append(chain, NextBlock(leader))
    PROVE  OnChain' = OnChain \cup Elems(Drained(MaxPayload))
<1> SUFFICES ASSUME NEW n, n = Len(chain)
             PROVE  OnChain' = OnChain \cup Elems(Drained(MaxPayload))
  OBVIOUS
<1> DEFINE d == Drained(MaxPayload)
<1>1. /\ n \in Nat /\ DOMAIN chain = 1 .. n /\ DOMAIN chain' = 1 .. (n + 1)
      /\ \A i \in 1 .. n : chain'[i] = chain[i]
      /\ chain'[n + 1].payload = d
  <2>1. chain'[n + 1] = NextBlock(leader)
    BY OffendersAppended
  <2> QED BY <2>1, OffendersAppended DEF NextBlock
<1> HIDE DEF d
<1>2. OnChain' = UNION {Elems(chain'[i].payload) : i \in 1 .. (n + 1)}
  BY <1>1 DEF OnChain, Elems
<1>3. OnChain = UNION {Elems(chain[i].payload) : i \in 1 .. n}
  BY <1>1 DEF OnChain
<1>4. 1 .. (n + 1) = (1 .. n) \cup {n + 1}
  BY <1>1
<1>5. UNION {Elems(chain'[i].payload) : i \in 1 .. (n + 1)}
      = (UNION {Elems(chain'[i].payload) : i \in 1 .. n}) \cup Elems(d)
  BY <1>1, <1>4
<1>6. UNION {Elems(chain'[i].payload) : i \in 1 .. n}
      = UNION {Elems(chain[i].payload) : i \in 1 .. n}
  BY <1>1
<1> QED BY <1>2, <1>3, <1>5, <1>6 DEF d

\* A block takes the oldest outcomes of the queue.
LEMMA FinalisedInOrder ==
    ASSUME TypeOK, OutcomesInOrder, NEW leader \in Validator, NextBlock(leader) \in Block,
           chain' = Append(chain, NextBlock(leader)), mempool' = Kept(MaxPayload)
    PROVE  /\ OutcomesInOrder'
           /\ \A m : Played(chain, mempool, m) => Played(chain', mempool', m)
<1> SUFFICES ASSUME NEW n, n = Len(chain)
             PROVE  /\ OutcomesInOrder'
                    /\ \A m : Played(chain, mempool, m) => Played(chain', mempool', m)
  OBVIOUS
<1> DEFINE d == Drained(MaxPayload)
           k == Kept(MaxPayload)
<1>1. /\ n \in Nat /\ Len(chain') = n + 1 /\ DOMAIN chain = 1 .. n /\ DOMAIN chain' = 1 .. (n + 1)
      /\ \A i \in 1 .. n : chain'[i] = chain[i]
      /\ chain'[n + 1].payload = d
  <2>1. chain'[n + 1] = NextBlock(leader)
    BY OffendersAppended
  <2> QED BY <2>1, OffendersAppended DEF NextBlock
<1>2. /\ Increasing(d) /\ Increasing(k) /\ Elems(mempool) = Elems(d) \cup Elems(k)
      /\ \A x \in Elems(d), y \in Elems(k) : x < y
  BY InOrderDrained DEF OutcomesInOrder
<1>3. mempool' = k /\ Elems(mempool') = Elems(k)
  OBVIOUS
<1> HIDE DEF d, k
<1>4. \A i \in 1 .. n : /\ Increasing(chain[i].payload)
                        /\ \A x \in Elems(chain[i].payload) : \A y \in Elems(mempool) : x < y
                        /\ \A x \in Elems(chain[i].payload), j \in (i + 1) .. n :
                              \A y \in Elems(chain[j].payload) : x < y
  BY <1>1 DEF OutcomesInOrder
<1>5. ASSUME NEW i \in 1 .. (n + 1)
      PROVE  /\ Increasing(chain'[i].payload)
             /\ \A x \in Elems(chain'[i].payload) :
                   /\ \A y \in Elems(k) : x < y
                   /\ \A j \in (i + 1) .. (n + 1) : \A y \in Elems(chain'[j].payload) : x < y
  <2>1. CASE i \in 1 .. n
    <3>1. chain'[i] = chain[i]
      BY <1>1, <2>1
    <3>2. \A x \in Elems(chain[i].payload) : \A y \in Elems(d) \cup Elems(k) : x < y
      BY <1>2, <1>4, <2>1
    <3>3. ASSUME NEW x \in Elems(chain[i].payload), NEW j \in (i + 1) .. (n + 1)
          PROVE  \A y \in Elems(chain'[j].payload) : x < y
      <4>1. CASE j \in (i + 1) .. n
        <5>1. chain'[j] = chain[j]
          BY <1>1, <2>1, <4>1
        <5> QED BY <1>4, <2>1, <4>1, <5>1
      <4>2. CASE j = n + 1
        BY <1>1, <3>2, <4>2
      <4> QED BY <1>1, <2>1, <4>1, <4>2
    <3> QED BY <1>4, <2>1, <3>1, <3>2, <3>3
  <2>2. CASE i = n + 1
    <3>1. chain'[i].payload = d /\ (i + 1) .. (n + 1) = {}
      BY <1>1, <2>2
    <3>2. Increasing(chain'[i].payload)
      BY <1>2, <3>1
    <3>3. \A x \in Elems(chain'[i].payload), y \in Elems(k) : x < y
      BY <1>2, <3>1
    <3>4. \A j \in (i + 1) .. (n + 1) : FALSE
      BY <3>1
    <3> QED BY <3>2, <3>3, <3>4
  <2>3. i \in 1 .. n \/ i = n + 1
    BY <1>1
  <2> QED BY <2>1, <2>2, <2>3
<1>6. InOrder(chain', k)
  BY <1>1, <1>2, <1>5 DEF InOrder
<1>7. OutcomesInOrder'
  BY <1>3, <1>6, InOrderAlways
<1>8. ASSUME NEW m, Played(chain, mempool, m) PROVE Played(chain', mempool', m)
  <2>1. \A i \in 1 .. (n + 1) : i \in 1 .. n \/ i = n + 1
    BY <1>1
  <2> QED BY <1>3, <1>1, <1>2, <1>8, <2>1 DEF Played
<1> QED BY <1>7, <1>8

\* What a block takes from the queue is paid for as the block is appended.
LEMMA OutcomesFinalised ==
    ASSUME TypeOK, OutcomesSound, hooked, NEW leader \in Validator, NextBlock(leader) \in Block,
           chain' = Append(chain, NextBlock(leader)), mempool' = Kept(MaxPayload),
           Reward(Drained(MaxPayload)), UNCHANGED <<matches, evicted>>
    PROVE  OutcomesSound'
<1> DEFINE d == Drained(MaxPayload)
           k == Kept(MaxPayload)
<1>1. /\ Increasing(d) /\ Increasing(k) /\ Elems(mempool) = Elems(d) \cup Elems(k)
      /\ \A x \in Elems(d), y \in Elems(k) : x < y
  BY InOrderDrained DEF OutcomesSound, OutcomesInOrder
<1>2. Elems(d) \subseteq Match /\ Elems(k) \subseteq Match
  BY DrainTypes DEF Elems
<1>3. mempool' = k /\ Elems(mempool') = Elems(k)
  OBVIOUS
<1> HIDE DEF d, k
<1>4. OnChain' = OnChain \cup Elems(d)
  BY OnChainAppended DEF d
<1>5. Elems(d) \cap Elems(k) = {}
  <2>1. \A x \in Match : ~(x < x)
    BY ConstantsAssumption DEF Match
  <2> QED BY <1>1, <1>2, <2>1
<1>6. OutcomesAccounted'
  <2>1. /\ 1 .. matches = OnChain \cup Elems(mempool) \cup evicted
        /\ OnChain \cap Elems(mempool) = {} /\ evicted \cap (OnChain \cup Elems(mempool)) = {}
    BY DEF OutcomesSound, OutcomesAccounted
  <2>2. 1 .. matches = OnChain' \cup Elems(mempool') \cup evicted
    BY <1>1, <1>3, <1>4, <2>1
  <2>3. OnChain' \cap Elems(mempool') = {} /\ evicted \cap (OnChain' \cup Elems(mempool')) = {}
    BY <1>1, <1>3, <1>4, <1>5, <2>1
  <2> QED BY <2>2, <2>3 DEF OutcomesAccounted, Elems
<1>7. OutcomesInOrder'
  BY FinalisedInOrder DEF OutcomesSound, k
<1>8. RewardedOnce'
  <2>1. \A m \in Match : /\ rewarded[m] = (IF m \in OnChain \cap Winner THEN 1 ELSE 0)
                         /\ rewarded'[m] = IF m \in Elems(d) \cap Winner THEN rewarded[m] + 1
                                           ELSE rewarded[m]
    BY DEF OutcomesSound, RewardedOnce, Reward, d
  <2>2. OnChain \cap Elems(d) = {}
    BY <1>1 DEF OutcomesSound, OutcomesAccounted
  <2>3. \A m \in Match : rewarded'[m] = (IF m \in OnChain' \cap Winner THEN 1 ELSE 0)
    BY <1>4, <2>1, <2>2
  <2> QED BY <2>3 DEF RewardedOnce
<1> QED BY <1>6, <1>7, <1>8 DEF OutcomesSound

\* No outcome is lost or recorded twice on its way from the end of a match to the chain, they keep
\* their order, and each winner is paid once for each of his outcomes on the chain.
THEOREM OutcomesSoundHolds == Spec => []OutcomesSound
<1>1. Init => OutcomesSound /\ hooked
  <2> SUFFICES ASSUME Init PROVE OutcomesSound
    BY DEF Init
  <2>1. mempool = <<>> /\ chain = <<>> /\ matches = 0 /\ evicted = {}
        /\ rewarded = [m \in Match |-> 0]
    BY DEF Init
  <2>2. OnChain = {} /\ Elems(mempool) = {}
    BY <2>1 DEF OnChain, Elems
  <2>3. OutcomesAccounted /\ RewardedOnce
    BY <2>1, <2>2 DEF OutcomesAccounted, RewardedOnce
  <2>4. OutcomesInOrder
    BY <2>1 DEF OutcomesInOrder, Increasing
  <2> QED BY <2>3, <2>4 DEF OutcomesSound
<1>2. TypeOK /\ vkey = skey /\ hooked /\ OutcomesSound /\ [Next]_vars => OutcomesSound' /\ hooked'
  <2> SUFFICES ASSUME TypeOK, vkey = skey, hooked, OutcomesSound, [Next]_vars
               PROVE  OutcomesSound'
    BY SlashSteps
  <2>1. CASE UNCHANGED <<mempool, chain, matches, evicted, rewarded>>
    <3>1. OnChain' = OnChain /\ Elems(mempool') = Elems(mempool)
      BY <2>1 DEF OnChain, Elems
    <3>2. OutcomesAccounted' /\ RewardedOnce'
      BY <2>1, <3>1 DEF OutcomesSound, OutcomesAccounted, RewardedOnce, OnChain, Elems
    <3>3. OutcomesInOrder'
      BY <2>1, InOrderAlways DEF OutcomesSound
    <3> QED BY <3>2, <3>3 DEF OutcomesSound
  <2>2. ASSUME NEW leader \in Validator, ProduceBlock(leader) PROVE OutcomesSound'
    <3>1. NextBlock(leader) \in Block
      BY <2>2, NextBlockType DEF ProduceBlock
    <3>2. chain' = Append(chain, NextBlock(leader)) /\ Reward(Drained(MaxPayload))
      BY <2>2, ProduceAppends
    <3>3. mempool' = Kept(MaxPayload) /\ UNCHANGED <<matches, evicted>>
      BY <2>2 DEF ProduceBlock
    <3> QED BY <3>1, <3>2, <3>3, OutcomesFinalised
  <2>3. ASSUME NEW v \in Byzantine, NEW h \in 0 .. height, NEW hash \in ForeignHash,
               ForeignSign(v, h, hash)
        PROVE  UNCHANGED <<mempool, chain, matches, evicted, rewarded>>
    BY <2>3 DEF ForeignSign, nodeVars
  <2>4. SubmitEvidence => UNCHANGED <<mempool, chain, matches, evicted, rewarded>>
    BY DEF SubmitEvidence, slash
  <2>5. ASSUME NEW v \in Validator, DemoSelfSlash(v)
        PROVE  UNCHANGED <<mempool, chain, matches, evicted, rewarded>>
    BY <2>5 DEF DemoSelfSlash, slash
  <2>6. UNCHANGED vars => UNCHANGED <<mempool, chain, matches, evicted, rewarded>>
    BY DEF vars, nodeVars, histVars
  <2> QED BY <2>1, <2>2, <2>3, <2>4, <2>5, <2>6, OutcomeSubmitted DEF Next, Produce
<1> QED BY <1>1, <1>2, TypeCorrect, KeysMatch, PTL DEF Spec

----------------------------------------------------------------------------
(* The node implements the ledger                                          *)

\* A queue in order holds as many outcomes as it is long.
LEMMA AsManyAsLong ==
    ASSUME NEW s \in Seq(Match), Increasing(s)
    PROVE  IsFiniteSet(Elems(s)) /\ Cardinality(Elems(s)) = Len(s)
<1>1. Len(s) \in Nat /\ DOMAIN s = 1 .. Len(s) /\ \A i \in 1 .. Len(s) : s[i] \in Match
  OBVIOUS
<1>2. IsFiniteSet(1 .. Len(s)) /\ Cardinality(1 .. Len(s)) = Len(s)
  <2>1. 1 \in Int /\ Len(s) \in Int
    BY <1>1
  <2>2. /\ IsFiniteSet(1 .. Len(s))
        /\ Cardinality(1 .. Len(s)) = IF 1 > Len(s) THEN 0 ELSE Len(s) - 1 + 1
    BY <2>1, FS_Interval
  <2> QED BY <1>1, <2>2
<1>3. s \in [1 .. Len(s) -> Elems(s)] /\ \A x \in Elems(s) : \E i \in 1 .. Len(s) : s[i] = x
  BY <1>1 DEF Elems
<1>4. \A i, j \in 1 .. Len(s) : s[i] = s[j] => i = j
  <2> SUFFICES ASSUME NEW i \in 1 .. Len(s), NEW j \in 1 .. Len(s), i < j PROVE s[i] # s[j]
    BY <1>1
  <2>1. s[i] < s[j] /\ s[i] \in Nat
    BY <1>1 DEF Increasing, Match
  <2> QED BY <2>1
<1>5. s \in Bijection(1 .. Len(s), Elems(s))
  BY <1>3, <1>4 DEF Bijection, Injection, Surjection, IsInjective
<1> QED BY <1>2, <1>5, FS_Bijection DEF ExistsBijection

\* The ledger counts as the node does.
LEMMA SameSize ==
    ASSUME NEW S
    PROVE  L!Cardinality(S) = Cardinality(S)
BY DEF L!Cardinality, Cardinality

\* A match that ends is a submission, and what a full queue drops is the oldest that waits.
LEMMA SubmitIsSubmit ==
    ASSUME TypeOK, OutcomesSound, SubmitOutcome
    PROVE  L!Submit
<1> DEFINE m == matches + 1
<1>1. m \in Match /\ mempool \in Seq(Match) /\ Increasing(mempool)
  BY ConstantsAssumption DEF TypeOK, SubmitOutcome, Match, OutcomesSound, OutcomesInOrder
<1>2. \A x \in Elems(mempool) : x < m
  <2>1. \A x \in Elems(mempool) : x \in 1 .. matches
    BY DEF OutcomesSound, OutcomesAccounted
  <2> QED BY <2>1 DEF TypeOK
<1>3. /\ matches' = m /\ UNCHANGED <<chain, slashed>>
      /\ OnChain' = OnChain /\ OffendersUpTo(Len(chain))' = OffendersUpTo(Len(chain))
      /\ submit(m)
  BY DEF SubmitOutcome, OnChain, OffendersUpTo, Offenders
<1>4. Cardinality(Elems(mempool)) = Len(mempool)
  BY <1>1, AsManyAsLong
<1> HIDE DEF m
<1>5. CASE Len(mempool) < Capacity
  <2>1. ~(Cardinality(Elems(mempool)) >= Capacity)
    BY <1>1, <1>4, <1>5, ConstantsAssumption
  <2>2. mempool' = Append(mempool, m) /\ evicted' = evicted
    BY <1>3, <1>5 DEF submit
  <2>3. Elems(mempool') = Elems(mempool) \cup {m}
    BY <1>1, <1>2, <2>2, InOrderAppended
  <2>4. Elems(mempool)' = Elems(mempool) \cup {m}
    BY <2>3 DEF Elems
  <2>5. ~(L!Cardinality(Elems(mempool)) >= Capacity)
    BY <2>1, SameSize
  <2>6. evicted' = evicted \cup {} /\ Elems(mempool)' = (Elems(mempool) \ {}) \cup {m}
    BY <2>2, <2>4
  <2> QED BY <1>3, <2>5, <2>6 DEF L!Submit, m
<1>6. CASE ~(Len(mempool) < Capacity)
  <2> DEFINE t == Tail(mempool)
             h == Head(mempool)
  <2>1. mempool # <<>> /\ Cardinality(Elems(mempool)) >= Capacity
    BY <1>1, <1>4, <1>6, ConstantsAssumption
  <2>2. mempool' = Append(t, m) /\ evicted' = evicted \cup {h}
    BY <1>3, <1>6 DEF submit
  <2>3. /\ t \in Seq(Match) /\ h \in Match /\ Increasing(t)
        /\ Elems(mempool) = Elems(t) \cup {h} /\ \A x \in Elems(t) : h < x
    BY <1>1, <2>1, InOrderTail
  <2> HIDE DEF t, h
  <2>4. Elems(mempool') = Elems(t) \cup {m}
    BY <1>1, <1>2, <2>2, <2>3, InOrderAppended
  <2>5. h \notin Elems(t)
    BY <2>3 DEF Match
  <2>6. L!Oldest(Elems(mempool)) = h
    <3>1. \A x \in Elems(mempool) : x \in Nat
      BY <1>1, ElemsAreMatches
    <3>2. h \in Elems(mempool) /\ \A y \in Elems(mempool) : h <= y
      BY <2>3, <3>1
    <3>3. \A x \in Elems(mempool) : (\A y \in Elems(mempool) : x <= y) => x = h
      BY <3>1, <3>2
    <3> QED BY <3>2, <3>3 DEF L!Oldest
  <2>7. Elems(mempool') = (Elems(mempool) \ {h}) \cup {m}
    BY <2>3, <2>4, <2>5
  <2>8. Elems(mempool)' = (Elems(mempool) \ {L!Oldest(Elems(mempool))}) \cup {m}
    BY <2>6, <2>7 DEF Elems
  <2>9. L!Cardinality(Elems(mempool)) >= Capacity /\ evicted' = evicted \cup {L!Oldest(Elems(mempool))}
    BY <2>1, <2>2, <2>6, SameSize
  <2> QED BY <1>3, <2>8, <2>9 DEF L!Submit, m
<1> QED BY <1>5, <1>6

\* A slashing bans a member and nothing else a reader sees.
LEMMA SlashIsBan ==
    ASSUME vkey = 0, NEW e, slash(e)
    PROVE  \E k \in {<<v, 0>> : v \in Validator} : L!Ban(k)
<1>1. PICK v \in Validator : e.offender = <<v, 0>>
  BY DEF slash
<1>2. L!Ban(<<v, 0>>)
  BY <1>1 DEF slash, L!Ban, OnChain, OffendersUpTo, Offenders
<1> QED BY <1>1, <1>2

\* A block commits a batch of the oldest outcomes, and every ban that is not on record.
LEMMA ProduceIsCommit ==
    ASSUME TypeOK, OutcomesSound, ActiveXorSlashed, SlashingsSound, vkey = 0, skey = 0,
           NEW leader \in Validator, ProduceBlock(leader)
    PROVE  L!Commit
<1> SUFFICES ASSUME NEW n, n = Len(chain) PROVE L!Commit
  OBVIOUS
<1> DEFINE d == Drained(MaxPayload)
           k == Kept(MaxPayload)
<1>1. NextBlock(leader) \in Block /\ chain' = Append(chain, NextBlock(leader))
  BY NextBlockType, ProduceAppends DEF ProduceBlock
<1>2. /\ mempool' = k /\ UNCHANGED <<slashed, matches, evicted>>
      /\ mempool # <<>> \/ pending # <<>>
      /\ leader \in active
  BY DEF ProduceBlock, verify_leader
<1>3. slashed # {<<v, 0>> : v \in Validator}
  BY <1>2 DEF ActiveXorSlashed
<1>4. slashed = PendingOffenders \cup OffendersUpTo(n) /\ PendingOffenders \cap OffendersUpTo(n) = {}
  <2>1. DOMAIN chain = 1 .. n
    BY DEF TypeOK
  <2> QED BY <2>1 DEF SlashingsSound, SlashingRecordedOnce, OffendersUpTo
<1>5. OffendersUpTo(Len(chain))' = slashed
  <2>1. Len(chain)' = n + 1 /\ OffendersUpTo(n + 1)' = OffendersUpTo(n) \cup PendingOffenders
    BY <1>1, OffendersAppended DEF TypeOK
  <2>2. OffendersUpTo(Len(chain))' = UNION {Offenders(j)' : j \in 1 .. Len(chain)'}
    BY DEF OffendersUpTo
  <2>3. OffendersUpTo(n + 1)' = UNION {Offenders(j)' : j \in 1 .. (n + 1)}
    BY DEF OffendersUpTo
  <2> QED BY <1>4, <2>1, <2>2, <2>3
<1>6. /\ Increasing(d) /\ Increasing(k) /\ Elems(mempool) = Elems(d) \cup Elems(k)
      /\ \A x \in Elems(d), y \in Elems(k) : x < y
  BY InOrderDrained DEF OutcomesSound, OutcomesInOrder
<1>7. d \in Seq(Match) /\ k \in Seq(Match) /\ mempool \in Seq(Match)
  BY DrainTypes DEF TypeOK
<1>8. OnChain' = OnChain \cup Elems(d)
  BY <1>1, OnChainAppended
<1>9. /\ Len(d) <= MaxPayload
      /\ Len(d) = MaxPayload \/ Len(k) = 0
  <2> DEFINE t == MinOf(MaxPayload, Len(mempool))
             l == Len(mempool)
  <2>1. /\ l \in Nat /\ t \in 0 .. l /\ t <= MaxPayload /\ (t = MaxPayload \/ t = l)
    BY <1>7, ConstantsAssumption DEF MinOf
  <2>2. /\ \A i \in 1 .. l : mempool[i] \in Match
        /\ d = SubSeq(mempool, 1, t) /\ k = SubSeq(mempool, t + 1, l)
    BY <1>7 DEF Drained, Kept
  <2> HIDE DEF t, l
  <2>3. (\A i \in 1 .. t : mempool[i] \in Match) /\ \A i \in (t + 1) .. l : mempool[i] \in Match
    BY <2>1, <2>2
  <2>4. Len(SubSeq(mempool, 1, t)) = t /\ (t = l => Len(SubSeq(mempool, t + 1, l)) = 0)
    BY <2>1, <2>3, SubSeqProperties
  <2> QED BY <2>1, <2>2, <2>4
<1> HIDE DEF d, k
<1>10. Elems(mempool') = Elems(k)
  BY <1>2
<1>11. Elems(d) \cap Elems(k) = {} /\ (Len(k) = 0 => Elems(k) = {})
  <2>1. \A x \in Elems(d) : x \in Nat
    BY <1>7, ElemsAreMatches
  <2>2. Elems(d) \cap Elems(k) = {}
    BY <1>6, <2>1
  <2>3. Len(k) = 0 => Elems(k) = {}
    BY <1>7 DEF Elems
  <2> QED BY <2>2, <2>3
<1>12. Cardinality(Elems(d)) = Len(d)
  BY <1>6, <1>7, AsManyAsLong
<1>13. Elems(mempool) # {} \/ OffendersUpTo(n) # slashed
  <2>1. CASE mempool # <<>>
    BY <1>7, <2>1, ElemsAreMatches
  <2>2. CASE pending # <<>>
    <3>1. 1 \in DOMAIN pending
      BY <2>2 DEF TypeOK
    <3>2. PendingOffenders # {}
      BY <3>1 DEF PendingOffenders
    <3> QED BY <1>4, <3>2
  <2> QED BY <1>2, <2>1, <2>2
<1>14. /\ Elems(d) \in SUBSET Elems(mempool)
       /\ \A x \in Elems(d), y \in Elems(mempool) \ Elems(d) : x < y
       /\ Cardinality(Elems(d)) <= MaxPayload
       /\ Elems(d) = Elems(mempool) \/ Cardinality(Elems(d)) = MaxPayload
       /\ Elems(mempool') = Elems(mempool) \ Elems(d)
  BY <1>6, <1>9, <1>10, <1>11, <1>12
<1>15. Elems(mempool)' = Elems(mempool) \ Elems(d)
  BY <1>14 DEF Elems
<1>16. \E taken \in SUBSET Elems(mempool) :
         /\ \A x \in taken, y \in Elems(mempool) \ taken : x < y
         /\ L!Cardinality(taken) <= MaxPayload
         /\ taken = Elems(mempool) \/ L!Cardinality(taken) = MaxPayload
         /\ OnChain' = OnChain \cup taken
         /\ Elems(mempool)' = Elems(mempool) \ taken
  <2> DEFINE taken == Elems(d)
  <2>1. L!Cardinality(taken) = Cardinality(taken)
    BY SameSize
  <2>2. taken \in SUBSET Elems(mempool)
    BY <1>14
  <2> QED BY <1>8, <1>14, <1>15, <2>1, <2>2
<1>17. Elems(mempool) # {} \/ OffendersUpTo(Len(chain)) # slashed
  BY <1>13
<1> QED BY <1>2, <1>3, <1>5, <1>16, <1>17 DEF L!Commit

\* Every step of the node is a submission, a ban or a commit of the ledger, or invisible to a reader
\* of the chain; that commits come is not part of the statement.
THEOREM StepsImplementLedger == Spec => L!Init /\ [][L!Next]_(L!vars)
<1>1. Init => L!Init
  <2> SUFFICES ASSUME Init PROVE L!Init
    OBVIOUS
  <2>1. OnChain = {} /\ Elems(mempool) = {} /\ OffendersUpTo(Len(chain)) = {}
    BY DEF Init, OnChain, Elems, OffendersUpTo
  <2> QED BY <2>1 DEF Init, L!Init
<1>2. Init => vkey = 0
  BY DEF Init
<1>3. vkey = 0 /\ [Next]_vars => (vkey = 0)'
  BY SlashSteps
<1>4. /\ TypeOK /\ OutcomesSound /\ ActiveXorSlashed /\ SlashingsSound /\ vkey = 0 /\ vkey = skey
      /\ [Next]_vars
      => [L!Next]_(L!vars)
  <2> SUFFICES ASSUME TypeOK, OutcomesSound, ActiveXorSlashed, SlashingsSound, vkey = 0,
                      vkey = skey, [Next]_vars
               PROVE  [L!Next]_(L!vars)
    OBVIOUS
  <2>1. SubmitOutcome => L!Next
    BY SubmitIsSubmit DEF L!Next
  <2>2. ASSUME NEW v \in Byzantine, NEW h \in 0 .. height, NEW hash \in ForeignHash,
               ForeignSign(v, h, hash)
        PROVE  UNCHANGED L!vars
    BY <2>2 DEF ForeignSign, nodeVars, L!vars, OnChain, Elems, OffendersUpTo, Offenders
  <2>3. \A e : slash(e) => L!Next
    BY SlashIsBan DEF L!Next
  <2>4. SubmitEvidence => L!Next
    BY <2>3 DEF SubmitEvidence
  <2>5. ASSUME NEW v \in Validator, DemoSelfSlash(v) PROVE L!Next
    BY <2>3, <2>5 DEF DemoSelfSlash
  <2>6. ASSUME NEW leader \in Validator, ProduceBlock(leader) PROVE L!Next
    BY <2>6, ProduceIsCommit DEF L!Next
  <2>7. UNCHANGED vars => UNCHANGED L!vars
    BY DEF vars, nodeVars, histVars, L!vars, OnChain, Elems, OffendersUpTo, Offenders
  <2> QED BY <2>1, <2>2, <2>4, <2>5, <2>6, <2>7 DEF Next, Produce
<1> QED BY <1>1, <1>2, <1>3, <1>4, TypeCorrect, KeysMatch, OutcomesSoundHolds,
           ActiveXorSlashedHolds, SlashingsSoundHolds, PTL DEF Spec

----------------------------------------------------------------------------
(* Saves and resumes.  What a resumed node satisfies depends on what the   *)
(* files said, and after an interrupted save the files are of different    *)
(* ages: the invariant is therefore about the node and the disk together,  *)
(* and its parts are operators of a chain and a queue that serve for both. *)

\* The keys that a chain, and a queue of slashings, name as offenders.
InBlocks(blocks) ==
    UNION {{blocks[i].slashings[n].offender : n \in DOMAIN blocks[i].slashings} :
            i \in 1 .. Len(blocks)}
InQueue(txs) == {txs[n].offender : n \in DOMAIN txs}
Recorded(blocks, txs) == InBlocks(blocks) \cup InQueue(txs)

\* Offenders of one generation of keys are slashed and not active.
Excluded(generation, members, offenders, blocks, txs) ==
    \A k \in Recorded(blocks, txs) : k[2] = generation => k \in offenders /\ k[1] \notin members

\* No offender has a key that is younger than the process.
NoLater(blocks, txs, process) == \A k \in Recorded(blocks, txs) : k[2] \in 0 .. process

\* What the disk holds is made of what a node can hold.
DiskOK ==
    /\ content["validators"] \in Nat /\ content["secrets"] \in Nat
    /\ content["state"].active \in SUBSET Validator /\ content["state"].slashed \in SUBSET Pubkey
    /\ content["blocks"] \in Seq(Block) /\ content["pending"] \in Seq(SlashingTx)
    /\ content["mempool"] \in Seq(Match) /\ Len(content["mempool"]) <= Capacity

Ages ==
    /\ boots \in Nat /\ vkey <= boots /\ content["validators"] <= boots
    /\ NoLater(chain, pending, boots) /\ NoLater(content["blocks"], content["pending"], boots)

\* The node excludes whom its own chain names, and whom the chain on disk names: a save that is cut
\* short writes the state of the one next to the blocks of the other.  The state on disk excludes
\* them too, for the keys it was saved with and for the keys a save now under way would put there.
DiskExcluded(generation) ==
    Excluded(generation, content["state"].active, content["state"].slashed,
             content["blocks"], content["pending"])

Exclusion ==
    /\ Excluded(vkey, active, slashed, chain, pending)
    /\ Excluded(vkey, active, slashed, content["blocks"], content["pending"])
    /\ status["state"] = "ok" =>
        /\ DiskExcluded(vkey)
        /\ status["validators"] = "ok" => DiskExcluded(content["validators"])

----------------------------------------------------------------------------
(* Files                                                                   *)

\* The files of a session, by their place in the save.
LEMMA FileNames ==
    /\ DOMAIN FileOrder = 1 .. 9
    /\ FileOrder[1] = "validators" /\ FileOrder[2] = "secrets" /\ FileOrder[3] = "state"
    /\ FileOrder[4] = "blocks" /\ FileOrder[5] = "mempool" /\ FileOrder[6] = "pending"
    /\ FileOrder[7] = "simulation" /\ FileOrder[8] = "scenario" /\ FileOrder[9] = "active"
    /\ {"validators", "secrets", "state", "blocks", "mempool", "pending"} \subseteq File
<1>1. DOMAIN FileOrder = 1 .. 9
  BY DEF FileOrder
<1>2. /\ FileOrder[1] = "validators" /\ FileOrder[2] = "secrets" /\ FileOrder[3] = "state"
      /\ FileOrder[4] = "blocks" /\ FileOrder[5] = "mempool" /\ FileOrder[6] = "pending"
      /\ FileOrder[7] = "simulation" /\ FileOrder[8] = "scenario" /\ FileOrder[9] = "active"
  BY DEF FileOrder
<1>3. {1, 2, 3, 4, 5, 6} \subseteq DOMAIN FileOrder
  BY <1>1
<1> QED BY <1>1, <1>2, <1>3 DEF File

\* What a save would write of the node.
LEMMA SavedFiles ==
    /\ Saved["validators"] = vkey /\ Saved["secrets"] = skey
    /\ Saved["state"].active = active /\ Saved["state"].slashed = slashed
    /\ Saved["blocks"] = chain /\ Saved["mempool"] = mempool /\ Saved["pending"] = pending
BY DEF Saved

\* What a directory without files holds.
LEMMA BlankFiles ==
    /\ Blank["validators"] = 0 /\ Blank["secrets"] = 0
    /\ Blank["state"].active = {} /\ Blank["state"].slashed = {}
    /\ Blank["blocks"] = <<>> /\ Blank["mempool"] = <<>> /\ Blank["pending"] = <<>>
BY DEF Blank

\* A step touches the node, the disk or, when the process dies, both: each file is then what it was,
\* what the node held, or blank.
LEMMA FileByFile ==
    ASSUME SaveSession \/ Crash \/ (\E k \in DOMAIN FileOrder : CrashInSave(k)) \/ Discard
    PROVE  \A f \in File : content'[f] \in {content[f], Saved[f], Blank[f]}
<1>1. CASE SaveSession
  BY <1>1 DEF SaveSession
<1>2. CASE Crash
  BY <1>2 DEF Crash, diskVars
<1>3. ASSUME NEW k \in DOMAIN FileOrder, CrashInSave(k)
      PROVE  \A f \in File : content'[f] \in {content[f], Saved[f], Blank[f]}
  BY <1>3 DEF CrashInSave
<1>4. CASE Discard
  BY <1>4 DEF Discard
<1> QED BY <1>1, <1>2, <1>3, <1>4

\* What an interrupted save leaves, if the validators and the state can be read: nothing is new,
\* the validators are, or the validators and the state are.
LEMMA CutShort ==
    ASSUME NEW k \in DOMAIN FileOrder, CrashInSave(k),
           status'["validators"] = "ok", status'["state"] = "ok"
    PROVE  \/ /\ status["validators"] = "ok" /\ status["state"] = "ok"
              /\ \A f \in {"validators", "state", "blocks", "pending"} : content'[f] = content[f]
           \/ /\ status["state"] = "ok" /\ content'["validators"] = vkey
              /\ \A f \in {"state", "blocks", "pending"} : content'[f] = content[f]
           \/ /\ content'["validators"] = vkey /\ content'["state"] = Saved["state"]
              /\ content'["blocks"] \in {content["blocks"], chain, <<>>}
              /\ content'["pending"] \in {content["pending"], pending, <<>>}
<1> DEFINE written(f) == \E i \in 1 .. (k - 1) : FileOrder[i] = f
           hit == FileOrder[k]
<1>1. PICK d \in Damage(hit) :
        /\ status' = [f \in File |->
                IF written(f) THEN "ok" ELSE IF f = hit THEN d ELSE status[f]]
        /\ content' = [f \in File |->
                IF written(f) THEN Saved[f]
                ELSE IF f = hit /\ d \in {"empty", "torn"} THEN Blank[f] ELSE content[f]]
  BY DEF CrashInSave
<1>2. /\ written("validators") <=> k > 1
      /\ written("state") <=> k > 3
      /\ written("blocks") <=> k > 4
      /\ written("pending") <=> k > 6
  BY FileNames
<1>3. /\ hit = "validators" <=> k = 1
      /\ hit = "state" <=> k = 3
      /\ hit = "blocks" <=> k = 4
      /\ hit = "pending" <=> k = 6
  BY FileNames
<1>4. d \in {status[hit], "empty", "torn"}
  BY DEF Damage
<1> HIDE DEF written, hit
<1>5. \A f \in {"validators", "state", "blocks", "pending"} :
        /\ status'[f] = IF written(f) THEN "ok" ELSE IF f = hit THEN d ELSE status[f]
        /\ content'[f] = IF written(f) THEN Saved[f]
                         ELSE IF f = hit /\ d \in {"empty", "torn"} THEN Blank[f] ELSE content[f]
  BY <1>1, FileNames
<1>6. CASE k = 1
  BY <1>2, <1>3, <1>4, <1>5, <1>6
<1>7. CASE k \in 2 .. 3
  BY <1>2, <1>3, <1>4, <1>5, <1>7, SavedFiles
<1>8. CASE k > 3
  BY SMTT(30), <1>2, <1>3, <1>5, <1>8, SavedFiles, BlankFiles
<1> QED BY <1>6, <1>7, <1>8, FileNames

----------------------------------------------------------------------------
(* Types                                                                   *)

SnapTypes == TypeOK /\ DiskOK /\ boots \in Nat

\* A new process starts with an empty node, and with keys that nobody has used.
LEMMA Booted ==
    ASSUME SnapTypes, Crash \/ \E k \in DOMAIN FileOrder : CrashInSave(k)
    PROVE  /\ boots' = boots + 1 /\ vkey' = boots' /\ skey' = boots'
           /\ active' = Validator /\ slashed' = {}
           /\ chain' = <<>> /\ mempool' = <<>> /\ pending' = <<>>
           /\ matches' = matches /\ TypeOK'
<1>1. Boot
  BY DEF Crash, CrashInSave
<1>2. TypeOK'
  BY <1>1, ConstantsAssumption DEF Boot, TypeOK, SnapTypes, Hash, Match
<1> QED BY <1>1, <1>2 DEF Boot

\* Node and disk hold what a node can hold, whatever happens to the process.
LEMMA SnapTypesStep ==
    ASSUME SnapTypes, [SnapNext]_allVars
    PROVE  SnapTypes'
<1>1. CASE Next /\ UNCHANGED <<diskVars, boots, saves, cutShort>>
  <2>1. TypeOK'
    BY <1>1, TypeStep DEF SnapTypes
  <2> QED BY <1>1, <2>1 DEF SnapTypes, DiskOK, diskVars
<1>2. CASE SaveSession \/ Crash \/ (\E k \in DOMAIN FileOrder : CrashInSave(k)) \/ Discard
  <2>1. TypeOK' /\ boots' \in Nat
    <3>1. CASE SaveSession \/ Discard
      BY <3>1 DEF SaveSession, Discard, SnapTypes, TypeOK, vars, nodeVars, histVars
    <3>2. CASE Crash \/ \E k \in DOMAIN FileOrder : CrashInSave(k)
      BY <3>2, Booted DEF SnapTypes
    <3> QED BY <1>2, <3>1, <3>2
  <2>2. \A f \in {"validators", "secrets", "state", "blocks", "mempool", "pending"} :
          content'[f] \in {content[f], Saved[f], Blank[f]}
    BY <1>2, FileByFile, FileNames
  <2>3. content'["validators"] \in {content["validators"], vkey, 0}
    BY <2>2, SavedFiles, BlankFiles
  <2>4. content'["secrets"] \in {content["secrets"], skey, 0}
    BY <2>2, SavedFiles, BlankFiles
  <2>5. /\ content'["state"].active \in {content["state"].active, active, {}}
        /\ content'["state"].slashed \in {content["state"].slashed, slashed, {}}
    BY <2>2, SavedFiles, BlankFiles
  <2>6. /\ content'["blocks"] \in {content["blocks"], chain, <<>>}
        /\ content'["mempool"] \in {content["mempool"], mempool, <<>>}
        /\ content'["pending"] \in {content["pending"], pending, <<>>}
    BY <2>2, SavedFiles, BlankFiles
  <2>7. content'["mempool"] \in Seq(Match) /\ Len(content'["mempool"]) <= Capacity
    <3>1. /\ content["mempool"] \in Seq(Match) /\ Len(content["mempool"]) <= Capacity
          /\ mempool \in Seq(Match) /\ Len(mempool) <= Capacity
          /\ <<>> \in Seq(Match) /\ Len(<<>>) <= Capacity
      BY ConstantsAssumption DEF SnapTypes, DiskOK, TypeOK
    <3> QED BY <2>6, <3>1
  <2>8. content'["blocks"] \in Seq(Block)
    <3>1. content["blocks"] \in Seq(Block) /\ chain \in Seq(Block) /\ <<>> \in Seq(Block)
      BY DEF SnapTypes, DiskOK, TypeOK
    <3> QED BY <2>6, <3>1
  <2>9. content'["pending"] \in Seq(SlashingTx)
    <3>1. /\ content["pending"] \in Seq(SlashingTx) /\ pending \in Seq(SlashingTx)
          /\ <<>> \in Seq(SlashingTx)
      BY DEF SnapTypes, DiskOK, TypeOK
    <3> QED BY <2>6, <3>1
  <2>10. content'["validators"] \in Nat /\ content'["secrets"] \in Nat
    BY <2>3, <2>4 DEF SnapTypes, DiskOK, TypeOK
  <2>11. content'["state"].active \in SUBSET Validator /\ content'["state"].slashed \in SUBSET Pubkey
    BY <2>5 DEF SnapTypes, DiskOK, TypeOK
  <2> QED BY <2>1, <2>7, <2>8, <2>9, <2>10, <2>11 DEF SnapTypes, DiskOK
<1>3. CASE Resume
  <2>1. TypeOK'
    BY <1>3 DEF Resume, restore_from, SnapTypes, DiskOK, TypeOK, histVars
  <2> QED BY <1>3, <2>1 DEF Resume, SnapTypes, DiskOK, diskVars
<1>4. CASE UNCHANGED allVars
  BY <1>4 DEF allVars, diskVars, vars, nodeVars, histVars, SnapTypes, DiskOK, TypeOK
<1> QED BY <1>1, <1>2, <1>3, <1>4 DEF SnapNext

\* The types of the snapshots hold always.
LEMMA SnapTypesHold == SnapSpec => []SnapTypes
<1>1. SnapInit => SnapTypes
  <2> SUFFICES ASSUME SnapInit PROVE SnapTypes
    OBVIOUS
  <2>1. TypeOK
    BY ConstantsAssumption DEF SnapInit, Init, TypeOK, Hash, Match
  <2>2. DiskOK
    BY BlankFiles, ConstantsAssumption DEF SnapInit, DiskOK
  <2> QED BY <2>1, <2>2 DEF SnapInit, SnapTypes
<1>2. SnapTypes /\ [SnapNext]_allVars => SnapTypes'
  BY SnapTypesStep
<1> QED BY <1>1, <1>2, PTL DEF SnapSpec

----------------------------------------------------------------------------
(* Who is recorded is excluded                                             *)

\* The node's own record.
LEMMA RecordedByNode ==
    /\ Recorded(chain, pending) = OffendersUpTo(Len(chain)) \cup PendingOffenders
    /\ Recorded(chain', pending') = OffendersUpTo(Len(chain))' \cup PendingOffenders'
BY DEF Recorded, InBlocks, InQueue, OffendersUpTo, Offenders, PendingOffenders

\* Whoever a step of the node adds to the record is a validator it excludes, and nobody who was
\* excluded comes back.
LEMMA RecordedStep ==
    ASSUME TypeOK, [Next]_vars
    PROVE  /\ \A k \in Recorded(chain', pending') :
                \/ k \in Recorded(chain, pending)
                \/ k[2] = vkey /\ k \in slashed' /\ k[1] \notin active'
           /\ slashed \subseteq slashed' /\ active' \subseteq active /\ vkey' = vkey
<1>1. slashed \subseteq slashed' /\ active' \subseteq active /\ vkey' = vkey
  <2>1. \A e : slash(e) => slashed \subseteq slashed' /\ active' \subseteq active
    BY DEF slash
  <2> QED BY <2>1, SlashSteps
<1>2. UNCHANGED <<chain, pending, slashed, active>>
      => Recorded(chain', pending') = Recorded(chain, pending)
  OBVIOUS
<1>3. ASSUME UNCHANGED chain, NEW e, slash(e), e.offender \in Pubkey, e.height \in Nat
      PROVE  \A k \in Recorded(chain', pending') :
                \/ k \in Recorded(chain, pending)
                \/ k[2] = vkey /\ k \in slashed' /\ k[1] \notin active'
  <2> DEFINE tx == [offender |-> e.offender, height |-> e.height, observed |-> height]
  <2>1. tx \in SlashingTx /\ pending \in Seq(SlashingTx) /\ tx.offender = e.offender
    BY <1>3 DEF TypeOK, SlashingTx, height
  <2>2. pending' = Append(pending, tx) /\ slashed' = slashed \cup {e.offender}
    BY <1>3 DEF slash
  <2>3. e.offender[2] = vkey /\ e.offender[1] \notin active'
    BY <1>3 DEF slash
  <2> HIDE DEF tx
  <2>4. PendingOffenders' = PendingOffenders \cup {e.offender}
    BY <2>1, <2>2, OneMoreOffender DEF PendingOffenders
  <2>5. OffendersUpTo(Len(chain))' = OffendersUpTo(Len(chain))
    BY <1>3 DEF Offenders, OffendersUpTo
  <2> QED BY <2>2, <2>3, <2>4, <2>5, RecordedByNode
<1>4. ASSUME pending' = <<>>, NEW leader \in active, NextBlock(leader) \in Block,
             chain' = Append(chain, NextBlock(leader))
      PROVE  Recorded(chain', pending') = Recorded(chain, pending)
  <2> SUFFICES ASSUME NEW n, n = Len(chain)
               PROVE  Recorded(chain', pending') = Recorded(chain, pending)
    OBVIOUS
  <2>1. Len(chain)' = n + 1 /\ OffendersUpTo(n + 1)' = OffendersUpTo(n) \cup PendingOffenders
    BY <1>4, OffendersAppended DEF TypeOK
  <2>2. OffendersUpTo(Len(chain))' = OffendersUpTo(n) \cup PendingOffenders
    BY <2>1 DEF OffendersUpTo
  <2>3. PendingOffenders' = {}
    BY <1>4 DEF PendingOffenders
  <2> QED BY <2>2, <2>3, RecordedByNode
<1> QED BY <1>1, <1>2, <1>3, <1>4, SlashingSteps
\* Chains and queues of different ages name nobody whom neither of two pairs names.
LEMMA RecordedMixed ==
    ASSUME NEW b, NEW b1, NEW b2, b \in {b1, b2, <<>>}, NEW t, NEW t1, NEW t2, t \in {t1, t2, <<>>}
    PROVE  Recorded(b, t) \subseteq Recorded(b1, t1) \cup Recorded(b2, t2)
<1>1. InBlocks(<<>>) = {} /\ InQueue(<<>>) = {}
  BY DEF InBlocks, InQueue
<1> QED BY <1>1 DEF Recorded

\* A file the process leaves is old, new or blank, and so is what it records.
LEMMA AgesStep ==
    ASSUME SnapTypes, Ages, [SnapNext]_allVars
    PROVE  Ages'
<1>1. CASE Next /\ UNCHANGED <<diskVars, boots, saves, cutShort>>
  <2>1. TypeOK /\ [Next]_vars
    BY <1>1 DEF SnapTypes
  <2>2. NoLater(chain', pending', boots)
    <3>1. vkey \in 0 .. boots
      BY DEF Ages, SnapTypes, TypeOK
    <3> QED BY <2>1, <3>1, RecordedStep DEF Ages, NoLater
  <2>3. vkey' = vkey
    BY <2>1, RecordedStep
  <2> QED BY <1>1, <2>2, <2>3 DEF Ages, diskVars
<1>2. CASE SaveSession \/ Crash \/ (\E k \in DOMAIN FileOrder : CrashInSave(k)) \/ Discard
  <2>1. /\ boots' \in Nat /\ boots' >= boots /\ vkey' <= boots'
        /\ NoLater(chain', pending', boots')
    <3>1. CASE SaveSession \/ Discard
      BY <3>1 DEF SaveSession, Discard, Ages, vars, nodeVars
    <3>2. CASE Crash \/ \E k \in DOMAIN FileOrder : CrashInSave(k)
      <4>1. boots' = boots + 1 /\ vkey' = boots' /\ chain' = <<>> /\ pending' = <<>>
        BY <3>2, Booted
      <4>2. Recorded(<<>>, <<>>) = {}
        BY DEF Recorded, InBlocks, InQueue
      <4> QED BY <4>1, <4>2 DEF NoLater, Ages
    <3> QED BY <1>2, <3>1, <3>2
  <2>2. \A f \in {"validators", "blocks", "pending"} :
          content'[f] \in {content[f], Saved[f], Blank[f]}
    BY <1>2, FileByFile, FileNames
  <2>3. /\ content'["validators"] \in {content["validators"], vkey, 0}
        /\ content'["blocks"] \in {content["blocks"], chain, <<>>}
        /\ content'["pending"] \in {content["pending"], pending, <<>>}
    BY <2>2, SavedFiles, BlankFiles
  <2>4. content'["validators"] <= boots'
    BY <2>1, <2>3 DEF Ages, SnapTypes, DiskOK, TypeOK
  <2>5. NoLater(content'["blocks"], content'["pending"], boots')
    <3>1. Recorded(content'["blocks"], content'["pending"])
          \subseteq Recorded(content["blocks"], content["pending"]) \cup Recorded(chain, pending)
      BY <2>3, RecordedMixed
    <3>2. \A k \in Recorded(content'["blocks"], content'["pending"]) : k[2] \in 0 .. boots
      BY <3>1 DEF Ages, NoLater
    <3> QED BY <2>1, <3>2 DEF NoLater, Ages
  <2> QED BY <2>1, <2>4, <2>5 DEF Ages
<1>3. CASE Resume
  BY <1>3 DEF Resume, restore_from, Ages, diskVars
<1>4. CASE UNCHANGED allVars
  BY <1>4 DEF allVars, diskVars, vars, nodeVars, Ages
<1> QED BY <1>1, <1>2, <1>3, <1>4 DEF SnapNext

\* A save cut short may put the state of the node next to the chain on disk, or the validators of the
\* node next to the state on disk: both pairs were known to fit.
LEMMA ExclusionStep ==
    ASSUME SnapTypes, Ages, Exclusion, [SnapNext]_allVars
    PROVE  Exclusion'
<1>1. CASE Next /\ UNCHANGED <<diskVars, boots, saves, cutShort>>
  <2>1. TypeOK /\ [Next]_vars
    BY <1>1 DEF SnapTypes
  <2>2. slashed \subseteq slashed' /\ active' \subseteq active /\ vkey' = vkey
    BY <2>1, RecordedStep
  <2>3. Excluded(vkey', active', slashed', chain', pending')
    BY <2>1, RecordedStep DEF Exclusion, Excluded
  <2>4. Excluded(vkey', active', slashed', content["blocks"], content["pending"])
    BY <2>2 DEF Exclusion, Excluded
  <2> QED BY <1>1, <2>2, <2>3, <2>4 DEF Exclusion, DiskExcluded, diskVars
<1>2. CASE SaveSession
  <2>1. /\ content'["validators"] = vkey
        /\ content'["state"].active = active /\ content'["state"].slashed = slashed
        /\ content'["blocks"] = chain /\ content'["pending"] = pending
    BY <1>2, SavedFiles DEF SaveSession
  <2>2. UNCHANGED <<vkey, active, slashed, chain, pending>>
    BY <1>2 DEF SaveSession, vars, nodeVars
  <2> QED BY <2>1, <2>2 DEF Exclusion, DiskExcluded
<1>3. ASSUME Crash \/ \E k \in DOMAIN FileOrder : CrashInSave(k)
      PROVE  /\ Excluded(vkey', active', slashed', chain', pending')
             /\ Excluded(vkey', active', slashed', content'["blocks"], content'["pending"])
             /\ DiskExcluded(vkey)'
  <2>1. vkey' = boots' /\ boots' = boots + 1 /\ chain' = <<>> /\ pending' = <<>>
    BY <1>3, Booted
  <2>2. Recorded(<<>>, <<>>) = {}
    BY DEF Recorded, InBlocks, InQueue
  <2>3. \A k \in Recorded(content'["blocks"], content'["pending"]) : k[2] \in 0 .. boots
    <3>1. /\ content'["blocks"] \in {content["blocks"], chain, <<>>}
          /\ content'["pending"] \in {content["pending"], pending, <<>>}
      BY <1>3, FileByFile, FileNames, SavedFiles, BlankFiles
    <3> QED BY <3>1, RecordedMixed DEF Ages, NoLater
  <2>4. \A k \in Recorded(content'["blocks"], content'["pending"]) : k[2] # vkey'
    BY <2>1, <2>3 DEF SnapTypes
  <2> QED BY <2>1, <2>2, <2>4 DEF Excluded, DiskExcluded
<1>4. CASE Crash
  <2>1. UNCHANGED diskVars
    BY <1>4 DEF Crash
  <2> QED BY <1>3, <1>4, <2>1 DEF Exclusion, DiskExcluded, diskVars
<1>5. ASSUME NEW k \in DOMAIN FileOrder, CrashInSave(k)
      PROVE  Exclusion'
  <2> SUFFICES ASSUME status'["state"] = "ok", status'["validators"] = "ok"
               PROVE  DiskExcluded(content["validators"])'
    BY <1>3, <1>5 DEF Exclusion
  <2>1. CASE /\ status["validators"] = "ok" /\ status["state"] = "ok"
             /\ \A f \in {"validators", "state", "blocks", "pending"} : content'[f] = content[f]
    BY <2>1 DEF Exclusion, DiskExcluded
  <2>2. CASE /\ status["state"] = "ok" /\ content'["validators"] = vkey
             /\ \A f \in {"state", "blocks", "pending"} : content'[f] = content[f]
    BY <2>2 DEF Exclusion, DiskExcluded
  <2>3. CASE /\ content'["validators"] = vkey /\ content'["state"] = Saved["state"]
             /\ content'["blocks"] \in {content["blocks"], chain, <<>>}
             /\ content'["pending"] \in {content["pending"], pending, <<>>}
    <3>1. Recorded(content'["blocks"], content'["pending"])
          \subseteq Recorded(content["blocks"], content["pending"]) \cup Recorded(chain, pending)
      BY <2>3, RecordedMixed
    <3>2. Excluded(vkey, active, slashed, content'["blocks"], content'["pending"])
      BY <3>1 DEF Exclusion, Excluded
    <3> QED BY <2>3, <3>2, SavedFiles DEF DiskExcluded
  <2> QED BY <1>5, <2>1, <2>2, <2>3, CutShort
<1>6. CASE Resume
  <2>1. status["state"] = "ok" /\ status["validators"] = "ok"
    BY <1>6, FileNames DEF Resume, Readable
  <2>2. DiskExcluded(content["validators"])
    BY <2>1 DEF Exclusion
  <2> QED BY <1>6, <2>2 DEF Resume, restore_from, diskVars, Exclusion, DiskExcluded
<1>7. CASE Discard
  <2>1. \/ status'["state"] # "ok" /\ content'["blocks"] = <<>> /\ content'["pending"] = <<>>
        \/ \A f \in {"validators", "state", "blocks", "pending"} :
             content'[f] = content[f] /\ status'[f] = status[f]
    BY <1>7, FileNames, BlankFiles DEF Discard
  <2>2. UNCHANGED <<vkey, active, slashed, chain, pending>>
    BY <1>7 DEF Discard, vars, nodeVars
  <2>3. Recorded(<<>>, <<>>) = {}
    BY DEF Recorded, InBlocks, InQueue
  <2> QED BY <2>1, <2>2, <2>3 DEF Exclusion, DiskExcluded, Excluded
<1>8. CASE UNCHANGED allVars
  BY <1>8 DEF allVars, diskVars, vars, nodeVars, Exclusion, DiskExcluded
<1> QED BY <1>1, <1>2, <1>4, <1>5, <1>6, <1>7, <1>8 DEF SnapNext
\* A recorded offender is never active, even in a node put together from files of different ages.
THEOREM RecordedMeansInactiveHolds == SnapSpec => []RecordedMeansInactive
<1>1. SnapInit => Ages /\ Exclusion
  <2> SUFFICES ASSUME SnapInit PROVE Ages /\ Exclusion
    OBVIOUS
  <2>1. Recorded(<<>>, <<>>) = {}
    BY DEF Recorded, InBlocks, InQueue
  <2>2. /\ chain = <<>> /\ pending = <<>> /\ vkey = 0 /\ boots = 0 /\ status["state"] = "missing"
        /\ content["blocks"] = <<>> /\ content["pending"] = <<>> /\ content["validators"] = 0
    BY BlankFiles, FileNames DEF SnapInit, Init
  <2> QED BY <2>1, <2>2 DEF Ages, NoLater, Exclusion, Excluded
<1>2. SnapTypes /\ Ages /\ Exclusion /\ [SnapNext]_allVars => Ages' /\ Exclusion'
  BY AgesStep, ExclusionStep
<1>3. Exclusion => RecordedMeansInactive
  BY RecordedByNode DEF Exclusion, Excluded, RecordedMeansInactive
<1> QED BY <1>1, <1>2, <1>3, SnapTypesHold, PTL DEF SnapSpec

\* A block is made only where the leader's proof verifies, that is where keys match, and there all
\* signatures do.
THEOREM DrainedMeansAppendedHolds == SnapSpec => DrainedMeansAppended
<1>1. SnapTypes => [Produce => Len(chain') = Len(chain) + 1]_allVars
  <2> SUFFICES ASSUME TypeOK, NEW leader \in Validator, ProduceBlock(leader)
               PROVE  Len(chain') = Len(chain) + 1
    BY DEF SnapTypes, Produce
  <2>1. vkey = skey /\ NextBlock(leader) \in Block
    BY NextBlockType DEF ProduceBlock, verify_leader
  <2>2. chain' = Append(chain, NextBlock(leader))
    BY <2>1, ProduceAppends
  <2> QED BY <2>1, <2>2 DEF TypeOK
<1> QED BY <1>1, SnapTypesHold, PTL DEF DrainedMeansAppended

----------------------------------------------------------------------------
(* What was saved cleanly is sound when it comes back                      *)

\* SlashingRecordedOnce of any node.
RecordedOnce(offenders, blocks, txs) ==
    LET of(i) == {blocks[i].slashings[n].offender : n \in DOMAIN blocks[i].slashings}
        upTo(i) == UNION {of(j) : j \in 1 .. i}
    IN  /\ offenders = InQueue(txs) \cup upTo(Len(blocks))
        /\ \A i \in DOMAIN blocks :
            /\ of(i) \cap InQueue(txs) = {}
            /\ of(i) \cap upTo(i - 1) = {}
            /\ NoneTwice(blocks[i].slashings)
        /\ NoneTwice(txs)

\* What CleanSavesKeepTheNodeSound says of the node, and what is needed of the outcomes it holds for
\* the next one to come after them, for any node.
SoundNode(generation, members, offenders, blocks, queue, txs, m) ==
    /\ \A v \in Validator : v \in members <=> <<v, generation>> \notin offenders
    /\ RecordedOnce(offenders, blocks, txs)
    /\ InOrder(blocks, queue)
    /\ Played(blocks, queue, m)

SoundAsItStands == SoundNode(vkey, active, slashed, chain, mempool, pending, matches)
SoundOnDisk ==
    SoundNode(content["validators"], content["state"].active, content["state"].slashed,
              content["blocks"], content["mempool"], content["pending"], matches)

Clean == ~cutShort => SoundAsItStands /\ (status["state"] = "ok" => SoundOnDisk)

\* The property in terms of the values it is about, in both states of a step.
LEMMA RecordedOnceAlways ==
    /\ SlashingRecordedOnce <=> RecordedOnce(slashed, chain, pending)
    /\ SlashingRecordedOnce' <=> RecordedOnce(slashed', chain', pending')
BY DEF SlashingRecordedOnce, RecordedOnce, NoneTwice, InQueue, PendingOffenders, OffendersUpTo,
       Offenders

\* The parts of a sound node, in both states of a step.
LEMMA SoundAlways ==
    /\ SoundAsItStands <=> /\ ActiveXorSlashed /\ SlashingRecordedOnce /\ OutcomesInOrder
                           /\ Played(chain, mempool, matches)
    /\ SoundAsItStands' <=> /\ ActiveXorSlashed' /\ SlashingRecordedOnce' /\ OutcomesInOrder'
                            /\ Played(chain', mempool', matches')
BY RecordedOnceAlways, InOrderAlways DEF SoundAsItStands, SoundNode, ActiveXorSlashed

\* A node as it is booted is sound.
LEMMA FreshIsSound ==
    ASSUME NEW generation, NEW m
    PROVE  SoundNode(generation, Validator, {}, <<>>, <<>>, <<>>, m)
BY DEF SoundNode, RecordedOnce, InQueue, InOrder, Played, Increasing, NoneTwice, Elems

\* More matches are played, and what was sound stays so.
LEMMA StillSound ==
    ASSUME NEW g, NEW a, NEW o, NEW blocks \in Seq(Block), NEW queue \in Seq(Match), NEW t,
           NEW m \in Nat, NEW n \in Nat, m <= n, SoundNode(g, a, o, blocks, queue, t, m)
    PROVE  SoundNode(g, a, o, blocks, queue, t, n)
<1>1. \A i \in DOMAIN blocks : blocks[i] \in Block
  OBVIOUS
<1>2. \A i \in DOMAIN blocks : blocks[i].payload \in Seq(Match)
  BY <1>1 DEF Block
<1>3. /\ \A i \in DOMAIN blocks : \A x \in Elems(blocks[i].payload) : x \in Nat
      /\ \A x \in Elems(queue) : x \in Nat
  BY <1>2, ElemsAreMatches
<1>4. Played(blocks, queue, n)
  <2>1. Played(blocks, queue, m)
    BY DEF SoundNode
  <2>2. \A x \in Nat : x <= m => x <= n
    OBVIOUS
  <2>3. \A i \in DOMAIN blocks : \A x \in Elems(blocks[i].payload) : x <= n
    BY <1>3, <2>1, <2>2 DEF Played
  <2>4. \A x \in Elems(queue) : x <= n
    BY <1>3, <2>1, <2>2 DEF Played
  <2> QED BY <2>3, <2>4 DEF Played
<1> QED BY <1>4 DEF SoundNode

\* Whatever a sound node does keeps it sound.
LEMMA SoundStep ==
    ASSUME TypeOK, SoundAsItStands, [Next]_vars
    PROVE  SoundAsItStands' /\ matches' \in {matches, matches + 1}
<1>1. /\ ActiveXorSlashed /\ SlashingRecordedOnce /\ OutcomesInOrder
      /\ Played(chain, mempool, matches)
  BY SoundAlways
<1>2. ActiveXorSlashed' /\ SlashingRecordedOnce'
  BY <1>1, ActiveStep, RecordedOnceStep
<1>3. CASE UNCHANGED <<mempool, chain, matches>>
  <2>1. OutcomesInOrder'
    BY <1>1, <1>3, InOrderAlways
  <2> QED BY <1>1, <1>2, <1>3, <2>1, SoundAlways
<1>4. CASE SubmitOutcome
  <2>1. OutcomesInOrder' /\ Played(chain', mempool', matches')
    BY <1>1, <1>4, SubmittedInOrder
  <2>2. matches' = matches + 1
    BY <1>4 DEF SubmitOutcome
  <2> QED BY <1>2, <2>1, <2>2, SoundAlways
<1>5. ASSUME NEW leader \in Validator, ProduceBlock(leader)
      PROVE  SoundAsItStands' /\ matches' = matches
  <2>1. NextBlock(leader) \in Block /\ vkey = skey
    BY <1>5, NextBlockType DEF ProduceBlock, verify_leader
  <2>2. /\ chain' = Append(chain, NextBlock(leader)) /\ mempool' = Kept(MaxPayload)
        /\ matches' = matches
    BY <1>5, <2>1, ProduceAppends DEF ProduceBlock
  <2>3. OutcomesInOrder' /\ Played(chain', mempool', matches)
    BY <1>1, <2>1, <2>2, FinalisedInOrder
  <2> QED BY <1>2, <2>2, <2>3, SoundAlways
<1>6. ASSUME NEW v \in Byzantine, NEW h \in 0 .. height, NEW hash \in ForeignHash,
             ForeignSign(v, h, hash)
      PROVE  UNCHANGED <<mempool, chain, matches>>
  BY <1>6 DEF ForeignSign, nodeVars
<1>7. SubmitEvidence => UNCHANGED <<mempool, chain, matches>>
  BY DEF SubmitEvidence, slash
<1>8. ASSUME NEW v \in Validator, DemoSelfSlash(v)
      PROVE  UNCHANGED <<mempool, chain, matches>>
  BY <1>8 DEF DemoSelfSlash, slash
<1>9. UNCHANGED vars => UNCHANGED <<mempool, chain, matches>>
  BY DEF vars, nodeVars, histVars
<1> QED BY <1>3, <1>4, <1>5, <1>6, <1>7, <1>8, <1>9 DEF Next, Produce

\* Unless a save was cut short, a step keeps the node sound in memory and on disk.
LEMMA CleanStep ==
    ASSUME SnapTypes, Clean, [SnapNext]_allVars
    PROVE  Clean'
<1> SUFFICES ASSUME ~cutShort' PROVE SoundAsItStands' /\ (status'["state"] = "ok" => SoundOnDisk')
  BY DEF Clean
<1>1. CASE Next /\ UNCHANGED <<diskVars, boots, saves, cutShort>>
  <2>1. SoundAsItStands' /\ matches' \in {matches, matches + 1}
    BY <1>1, SoundStep DEF Clean, SnapTypes
  <2>2. ASSUME SoundOnDisk PROVE SoundOnDisk'
    <3>1. matches \in Nat /\ matches' \in Nat /\ matches <= matches'
      BY <2>1 DEF SnapTypes, TypeOK
    <3>2. content["blocks"] \in Seq(Block) /\ content["mempool"] \in Seq(Match)
      BY DEF SnapTypes, DiskOK
    <3>3. SoundNode(content["validators"], content["state"].active, content["state"].slashed,
                    content["blocks"], content["mempool"], content["pending"], matches')
      BY <2>2, <3>1, <3>2, StillSound DEF SoundOnDisk
    <3> QED BY <1>1, <3>3 DEF SoundOnDisk, diskVars
  <2> QED BY <1>1, <2>1, <2>2 DEF Clean, diskVars
<1>2. CASE SaveSession
  <2>1. /\ content'["validators"] = vkey
        /\ content'["state"].active = active /\ content'["state"].slashed = slashed
        /\ content'["blocks"] = chain /\ content'["mempool"] = mempool /\ content'["pending"] = pending
    BY <1>2, SavedFiles DEF SaveSession
  <2>2. UNCHANGED <<vkey, active, slashed, chain, mempool, pending, matches, cutShort>>
    BY <1>2 DEF SaveSession, vars, nodeVars, histVars
  <2> QED BY <2>1, <2>2 DEF Clean, SoundAsItStands, SoundOnDisk
<1>3. CASE Crash
  <2>1. /\ active' = Validator /\ slashed' = {} /\ UNCHANGED matches
        /\ chain' = <<>> /\ mempool' = <<>> /\ pending' = <<>>
    BY <1>3, Booted
  <2>2. UNCHANGED <<content, status, cutShort>>
    BY <1>3 DEF Crash, diskVars
  <2>3. SoundAsItStands'
    BY <2>1, FreshIsSound DEF SoundAsItStands
  <2> QED BY <2>1, <2>2, <2>3 DEF Clean, SoundOnDisk
<1>4. ASSUME NEW k \in DOMAIN FileOrder, CrashInSave(k) PROVE FALSE
  BY <1>4 DEF CrashInSave
<1>5. CASE Resume
  <2>1. status["state"] = "ok"
    BY <1>5, FileNames DEF Resume, Readable
  <2> QED BY <1>5, <2>1 DEF Resume, restore_from, diskVars, histVars, Clean, SoundAsItStands,
                            SoundOnDisk
<1>6. CASE Discard
  <2>1. \/ status'["state"] # "ok"
        \/ /\ status'["state"] = status["state"]
           /\ \A f \in {"validators", "state", "blocks", "mempool", "pending"} :
                content'[f] = content[f]
    BY <1>6, FileNames DEF Discard
  <2>2. UNCHANGED <<vkey, active, slashed, chain, mempool, pending, matches, cutShort>>
    BY <1>6 DEF Discard, vars, nodeVars, histVars
  <2> QED BY <2>1, <2>2 DEF Clean, SoundAsItStands, SoundOnDisk
<1>7. CASE UNCHANGED allVars
  BY <1>7 DEF allVars, diskVars, vars, nodeVars, histVars, Clean, SoundAsItStands, SoundOnDisk
<1> QED BY <1>1, <1>2, <1>3, <1>4, <1>5, <1>6, <1>7 DEF SnapNext

\* A node that comes back from disk never lets a recorded offender sign, never pops outcomes that it
\* cannot append, and is as sound as one that was never restarted unless a save was cut short.
THEOREM ResumedNodeSoundHolds == SnapSpec => ResumedNodeSound
<1>1. SnapInit => Clean
  <2> SUFFICES ASSUME SnapInit PROVE Clean
    OBVIOUS
  <2>1. SoundAsItStands
    BY FreshIsSound DEF SnapInit, Init, SoundAsItStands
  <2>2. status["state"] = "missing"
    BY FileNames DEF SnapInit
  <2> QED BY <2>1, <2>2 DEF Clean
<1>2. SnapTypes /\ Clean /\ [SnapNext]_allVars => Clean'
  BY CleanStep
<1>3. Clean => CleanSavesKeepTheNodeSound
  BY SoundAlways DEF Clean, CleanSavesKeepTheNodeSound
<1> QED BY <1>1, <1>2, <1>3, SnapTypesHold, RecordedMeansInactiveHolds, DrainedMeansAppendedHolds,
           PTL DEF SnapSpec, ResumedNodeSound
==============================================================================
