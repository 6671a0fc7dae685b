------------------------------ MODULE Snapshots ------------------------------
(***************************************************************************)
(* Saving a live session to disk and coming back to it: save_session of    *)
(* penumbra_operator/save_resume.py on top of Node.save_to, the resume     *)
(* endpoint that swaps the restored node in, and the process dying at any  *)
(* point, in the middle of a save included.  A world saved by /world/save  *)
(* is the same directory without its last two files.                       *)
(*                                                                         *)
(* A save runs synchronously on the event loop, so between two of its file *)
(* writes nothing but the death of the process can happen: a save is one   *)
(* action, a save cut short is another.                                    *)
(***************************************************************************)
EXTENDS ChainNode

CONSTANTS
    MaxBoots,       \* bound: how often the process is restarted
    MaxSaves        \* bound: saves, finished or not

ASSUME BoundsAssumption == MaxBoots \in Nat /\ MaxSaves \in Nat

VARIABLES
    content,    \* what each file holds; Blank when it holds nothing
    status,     \* whether each file can be read back
    boots,      \* processes started so far
    saves,      \* saves begun so far
    cutShort    \* history: a save was interrupted

diskVars == <<content, status>>
allVars == <<vars, diskVars, boots, saves, cutShort>>

\* Fault: the blocks are written before the state they agree with.
FileOrder_blocks_first == <<"validators", "secrets", "blocks", "state", "mempool", "pending",
                            "simulation", "scenario", "active">>

\* The files in the order save_session writes them.
FileOrder == <<"validators", "secrets", "state", "blocks", "mempool", "pending",
               "simulation", "scenario", "active">>
File == {FileOrder[i] : i \in DOMAIN FileOrder}

\* Written to a temporary file that then replaces the old one; the others
\* are truncated and rewritten in place.
Atomic == {"secrets", "simulation", "scenario", "active"}

\* What a save puts into each file.  The simulation, the scenario and the
\* pointer are known by the match they were saved at.
Saved == [
    validators |-> vkey,
    secrets |-> skey,
    state |-> [active |-> active, slashed |-> slashed, height |-> height],
    blocks |-> chain,
    mempool |-> mempool,
    pending |-> pending,
    simulation |-> matches,
    scenario |-> matches,
    active |-> matches]

\* Of a file that is gone or cannot be read nothing is remembered.  A block or
\* mempool file that holds nothing reads as an empty sequence.
Blank == [
    validators |-> 0, secrets |-> 0,
    state |-> [active |-> {}, slashed |-> {}, height |-> 0],
    blocks |-> <<>>, mempool |-> <<>>, pending |-> <<>>,
    simulation |-> 0, scenario |-> 0, active |-> 0]

SnapInit ==
    /\ Init
    /\ content = Blank
    /\ status = [f \in File |-> "missing"]
    /\ boots = 0 /\ saves = 0 /\ cutShort = FALSE

\* save_session to its end.
SaveSession ==
    /\ saves < MaxSaves
    /\ saves' = saves + 1
    /\ content' = Saved
    /\ status' = [f \in File |-> "ok"]
    /\ UNCHANGED <<vars, boots, cutShort>>

\* A new process: Orchestrator.build boots a node with fresh keys.  The
\* histories start again: they are about one process.
Boot ==
    /\ boots < MaxBoots
    /\ boots' = boots + 1
    /\ mempool' = <<>> /\ chain' = <<>> /\ pending' = <<>>
    /\ active' = Validator /\ slashed' = {}
    /\ vkey' = boots + 1 /\ skey' = boots + 1
    /\ hooked' = TRUE
    /\ rewarded' = [m \in Match |-> 0] /\ evicted' = {} /\ sigs' = {}
    /\ UNCHANGED <<clock, matches>>

Crash == Boot /\ UNCHANGED <<diskVars, saves, cutShort>>

\* What the death of the process can leave of the file being written.
Damage(f) ==
    {status[f]} \cup (IF f \in Atomic THEN {} ELSE
                      IF f \in {"blocks", "mempool"} THEN {"empty", "torn"} ELSE {"torn"})

\* The process dies in a save, while the k-th file is being written.
CrashInSave(k) ==
    LET written(f) == \E i \in 1 .. (k - 1) : FileOrder[i] = f
        hit == FileOrder[k]
    IN  /\ saves < MaxSaves
        /\ saves' = saves + 1
        /\ \E d \in Damage(hit) :
            /\ status' = [f \in File |->
                    IF written(f) THEN "ok" ELSE IF f = hit THEN d ELSE status[f]]
            /\ content' = [f \in File |->
                    IF written(f) THEN Saved[f]
                    ELSE IF f = hit /\ d \in {"empty", "torn"} THEN Blank[f] ELSE content[f]]
        /\ cutShort' = TRUE
        /\ Boot

\* A zero-length blocks or mempool file reads as nothing, like a missing one;
\* a missing pending_slashings.json reads as no slashings.
Readable(f) ==
    \/ status[f] = "ok"
    \/ status[f] = "missing" /\ f \in {"blocks", "mempool", "pending"}
    \/ status[f] = "empty" /\ f \in {"blocks", "mempool"}

\* Fault: the slashings that wait for a block are not restored.
restore_from_no_pending ==
    /\ vkey' = content["validators"] /\ skey' = content["secrets"]
    /\ active' = content["state"].active /\ slashed' = content["state"].slashed
    /\ chain' = content["blocks"] /\ mempool' = content["mempool"] /\ pending' = <<>>
    /\ hooked' = FALSE

\* Node.restore_from: the files are taken as they are, and on_signal is not
\* among them.
restore_from ==
    /\ vkey' = content["validators"] /\ skey' = content["secrets"]
    /\ active' = content["state"].active /\ slashed' = content["state"].slashed
    /\ chain' = content["blocks"] /\ mempool' = content["mempool"] /\ pending' = content["pending"]
    /\ hooked' = FALSE

\* POST /operator/sessions/resume: nothing is swapped unless every file reads.
Resume ==
    /\ \A f \in File : Readable(f)
    /\ restore_from
    /\ UNCHANGED <<histVars, diskVars, boots, saves, cutShort>>

\* Discarding the banner removes the pointer; abandoning the scenario removes
\* the directory as well.
Discard ==
    /\ status["active"] = "ok"
    /\ \E gone \in {{"active"}, File} :
        /\ status' = [f \in File |-> IF f \in gone THEN "missing" ELSE status[f]]
        /\ content' = [f \in File |-> IF f \in gone THEN Blank[f] ELSE content[f]]
    /\ UNCHANGED <<vars, boots, saves, cutShort>>

SnapNext ==
    \/ Next /\ UNCHANGED <<diskVars, boots, saves, cutShort>>
    \/ SaveSession
    \/ Crash
    \/ \E k \in DOMAIN FileOrder : CrashInSave(k)
    \/ Resume
    \/ Discard

SnapSpec == SnapInit /\ [][SnapNext]_allVars

----------------------------------------------------------------------------
\* A validator the restored chain records as slashed is never active under the
\* key it was slashed with: state.json is written before blocks.parquet.
RecordedMeansInactive ==
    \A k \in OffendersUpTo(Len(chain)) :
        k[2] = vkey => k \in slashed /\ k[1] \notin active

\* With the validators of one boot and the secrets of another no block can be
\* finalised, and the leader check refuses before any outcome is popped: a
\* step of produce_block that takes outcomes also appends them.
DrainedMeansAppended ==
    [][Produce => Len(chain') = Len(chain) + 1]_allVars

\* As long as no save was cut short, a resumed node satisfies what a node that
\* was never restarted does.
CleanSavesKeepTheNodeSound ==
    ~cutShort => ActiveXorSlashed /\ SlashingRecordedOnce /\ OutcomesInOrder

\* save_session: "readers either see the OLD pointer (and an intact old
\* snapshot) or the NEW pointer (and the just-written snapshot)".  Intact: every
\* file reads, the chain has the height state.json says, and the simulation is
\* the one the pointer announces.
PointerMeansIntactSnapshot ==
    status["active"] = "ok" =>
        /\ \A f \in File : Readable(f)
        /\ Len(content["blocks"]) = content["state"].height
        /\ content["simulation"] = content["active"]

\* Orchestrator: "chain.block.finalised -> economic reward to winners".  A
\* block that is appended credits the winners it names.
FinalisedWinnersCredited ==
    [][Produce => \A m \in Elems(chain'[Len(chain')].payload) \cap Winner :
                      rewarded'[m] = rewarded[m] + 1]_allVars

\* A node that comes back from disk never lets a recorded offender sign, never pops outcomes that
\* it cannot append, and is as sound as one that was never restarted unless a save was cut short.
ResumedNodeSound ==
  [](RecordedMeansInactive /\ CleanSavesKeepTheNodeSound) /\ DrainedMeansAppended
==============================================================================
