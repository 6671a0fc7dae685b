----------------------------- MODULE MCChainNode -----------------------------
(* Instances of ChainNode for TLC, and the ledger it implements. *)
EXTENDS ChainNode

L == INSTANCE Ledger WITH
        Room <- Capacity,
        Batch <- MaxPayload,
        Member <- {<<v, 0>> : v \in Validator},
        submitted <- matches,
        waiting <- Elems(mempool),
        final <- OnChain,
        shed <- evicted,
        banned <- slashed,
        recorded <- OffendersUpTo(Len(chain))

\* The node implements the ledger, fairness included: every step of it is a
\* submission, a ban, a commit of the oldest outcomes with every open
\* slashing, or invisible to a reader of the chain.
ImplementsLedger == L!Spec
==============================================================================
