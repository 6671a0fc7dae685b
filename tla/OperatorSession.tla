---------------------------- MODULE OperatorSession ----------------------------
(***************************************************************************)
(* The operator slot over its life: enabling and disabling it, acting,     *)
(* playing scenarios, the save after every action, resuming a save and the *)
(* restart of the process (transport/orchestrator.py, transport/api.py,    *)
(* operator/save_resume.py, operator/replay.py, operator/scenarios.py).    *)
(*                                                                         *)
(* All handlers run on the event loop without awaiting, so each is a step. *)
(* Simulations are numbered worlds; the tick loop holds the one it was     *)
(* built with, the orchestrator and the operator's context hold their own  *)
(* references.  Actions and saves are numbered in the order they happen.   *)
(* Requests submit without a target tick, so the queue is emptied by the   *)
(* handler that filled it.                                                 *)
(***************************************************************************)
EXTENDS Maps

CONSTANTS
  Scenarios,     \* ids of scenarios, numbers that are not ids of sessions
  TickLimit,     \* a scenario fails after this many ticks
  MaxTick, MaxIds, MaxActs, MaxWorlds, MaxSaves   \* bounds

ASSUME OperatorSessionAssumption ==
  /\ {TickLimit, MaxTick, MaxIds, MaxActs, MaxWorlds, MaxSaves} \subseteq Nat
  /\ Scenarios \subseteq Nat \ (0..MaxIds) /\ IsFiniteSet(Scenarios)

VARIABLES
  worlds,    \* worlds[w]: the tick counter of simulation w
  loopWorld,      \* the world that the tick loop steps
  orch,      \* the orchestrator: its world, the session id, whether the slot is enabled
  ctx,       \* the operator context: the world it was built on, and its wallet's coins
  runner,    \* ScenarioRunner._sessions, a function from scenarios
  sessionLog,    \* SessionLogger: open buffers and closed logs, by session id
  saveDir,      \* the save directory: the pointer and the parts of each save
  ids, applied, saves,   \* counters of session ids, actions and saves
  resumed    \* history: whether this process has resumed a save

sessionVars == <<worlds, loopWorld, orch, ctx, runner, sessionLog, saveDir, ids, applied, saves, resumed>>

None == 0
NoContext == [world |-> None, coins |-> 0]
NoPointer == [sid |-> None, scenario |-> None, tick |-> 0, save |-> 0]
InitialCoins == 1

\* Fault: the orchestrator is built before its simulation.
FreshOrchUnset(w) == [world |-> None, sid |-> None, enabled |-> FALSE]

FreshOrch(w) == [world |-> w, sid |-> None, enabled |-> FALSE]

SessionInit ==
  /\ worlds = <<0>>
  /\ loopWorld = 1 /\ orch = FreshOrch(1) /\ ctx = NoContext /\ runner = <<>> /\ resumed = FALSE
  /\ sessionLog = [open |-> <<>>, closed |-> <<>>]
  /\ saveDir = [pointer |-> NoPointer, dirs |-> <<>>]
  /\ ids = 0 /\ applied = <<>> /\ saves = 0

------------------------------------------------------------------------------
\* Saves.  The directory is the session's, or the scenario's when there is no session.

SaveDir(sid, scenario) == IF sid # None THEN sid ELSE scenario

\* The session of the scenario that was started last, of those in the runner.
LastStarted(sessions) ==
  CHOOSE s \in DOMAIN sessions : \A t \in DOMAIN sessions : sessions[t].start_tick <= sessions[s].start_tick

\* save_session up to its k-th write: chain, simulation, scenario, pointer.
\* Fault: the pointer is written before the rest.
WriteSavePointerFirst(k, d, sid, scenario, session, world, n) ==
  LET dir == SaveDir(sid, scenario)
      old == IF dir \in DOMAIN d.dirs THEN d.dirs[dir] ELSE [chain |-> 0, sim |-> 0, tick |-> 0, scenario |-> 0, session |-> session, id |-> scenario]
      new == [chain |-> IF k >= 2 THEN n ELSE old.chain,
              sim |-> IF k >= 3 THEN n ELSE old.sim, tick |-> IF k >= 3 THEN worlds[world] ELSE old.tick,
              scenario |-> IF k >= 4 THEN n ELSE old.scenario,
              session |-> IF k >= 4 THEN session ELSE old.session, id |-> IF k >= 4 THEN scenario ELSE old.id]
  IN  [pointer |-> IF k >= 1 THEN [sid |-> dir, scenario |-> scenario, tick |-> worlds[world], save |-> n]
                   ELSE d.pointer,
       dirs |-> IF k = 0 THEN d.dirs ELSE Bind(d.dirs, dir, new)]

WriteSave(k, d, sid, scenario, session, world, n) ==
  LET dir == SaveDir(sid, scenario)
      old == IF dir \in DOMAIN d.dirs THEN d.dirs[dir] ELSE [chain |-> 0, sim |-> 0, tick |-> 0, scenario |-> 0, session |-> session, id |-> scenario]
      new == [chain |-> IF k >= 1 THEN n ELSE old.chain,
              sim |-> IF k >= 2 THEN n ELSE old.sim, tick |-> IF k >= 2 THEN worlds[world] ELSE old.tick,
              scenario |-> IF k >= 3 THEN n ELSE old.scenario,
              session |-> IF k >= 3 THEN session ELSE old.session, id |-> IF k >= 3 THEN scenario ELSE old.id]
  IN  [pointer |-> IF k >= 4 THEN [sid |-> dir, scenario |-> scenario, tick |-> worlds[world], save |-> n]
                   ELSE d.pointer,
       dirs |-> IF k = 0 THEN d.dirs ELSE Bind(d.dirs, dir, new)]

\* _save_current_scenario_state, with the runner's sessions after the request; k < 4 if the
\* process dies in it.
SaveCurrent(k, sessions) ==
  IF sessions = <<>> THEN saveDir' = saveDir /\ saves' = saves
  ELSE /\ saves < MaxSaves
       /\ saves' = saves + 1
       /\ LET s == LastStarted(sessions) IN
          saveDir' = WriteSave(k, saveDir, orch.sid, s, sessions[s], orch.world, saves + 1)

\* discard_active, of the pointer and, if asked, of one directory.
Discarded(d, dir) == [pointer |-> NoPointer, dirs |-> Drop(d.dirs, dir)]

------------------------------------------------------------------------------
LoopTick ==
  /\ worlds[loopWorld] < MaxTick
  /\ worlds' = [worlds EXCEPT ![loopWorld] = @ + 1]
  /\ UNCHANGED <<loopWorld, orch, ctx, runner, sessionLog, saveDir, ids, applied, saves, resumed>>

\* POST /operator/enable.  Enabling again starts another session and leaves the open one.
Enable ==
  /\ ids < MaxIds
  /\ ids' = ids + 1
  /\ orch' = [orch EXCEPT !.sid = ids + 1, !.enabled = TRUE]
  /\ ctx' = [world |-> orch.world, coins |-> InitialCoins]
  /\ sessionLog' = [sessionLog EXCEPT !.open = Bind(@, ids + 1, <<>>)]
  /\ UNCHANGED <<worlds, loopWorld, runner, saveDir, applied, saves, resumed>>

\* Fault: the buffer is written and kept.
CloseLogKept(l, sid) ==
  IF sid \in DOMAIN l.open THEN [l EXCEPT !.closed = Bind(@, sid, l.open[sid])] ELSE l

\* close_session; an unknown session raises, and nothing is written.
CloseLog(l, sid) ==
  IF sid \in DOMAIN l.open
  THEN [open |-> Drop(l.open, sid), closed |-> Bind(l.closed, sid, l.open[sid])]
  ELSE l

\* POST /operator/disable.  The context stays.
Disable ==
  /\ orch' = [orch EXCEPT !.enabled = FALSE, !.sid = IF ctx.world # None THEN None ELSE @]
  /\ sessionLog' = IF orch.sid # None /\ ctx.world # None THEN CloseLog(sessionLog, orch.sid) ELSE sessionLog
  /\ UNCHANGED <<worlds, loopWorld, ctx, runner, saveDir, ids, applied, saves, resumed>>

Enabled == orch.enabled /\ ctx.world # None

\* Fault: the action goes to the log of the newest session.
RecordedNewest(l, act) ==
  IF ids \in DOMAIN l.open THEN [l EXCEPT !.open[ids] = Append(@, act)] ELSE l

\* record: a session without a buffer raises, which is suppressed.
Recorded(l, act) ==
  IF orch.sid \in DOMAIN l.open THEN [l EXCEPT !.open[orch.sid] = Append(@, act)] ELSE l

\* POST /operator/<kind>: submit, drain, record, save.
Act(k) ==
  /\ Enabled
  /\ Len(applied) < MaxActs
  /\ applied' = Append(applied, [sid |-> orch.sid, logged |-> orch.sid \in DOMAIN sessionLog.open])
  /\ sessionLog' = Recorded(sessionLog, Len(applied) + 1)
  /\ \E coins \in {ctx.coins, ctx.coins + 1} : ctx' = [ctx EXCEPT !.coins = coins]
  /\ SaveCurrent(k, runner)
  /\ UNCHANGED <<worlds, loopWorld, orch, runner, ids, resumed>>

\* Fault: the clock starts with the next tick.
StartTickNext == worlds[ctx.world] + 1

StartTick == worlds[ctx.world]

\* POST /operator/scenarios/{id}/start.
StartScenario(s, k) ==
  /\ Enabled
  /\ runner' = Bind(runner, s, [start_tick |-> StartTick, coins_start |-> ctx.coins])
  /\ SaveCurrent(k, runner')
  /\ UNCHANGED <<worlds, loopWorld, orch, ctx, sessionLog, ids, applied, resumed>>

\* Fault: the pointer stays.
AbandonedKeepsPointer(d, dir) == [d EXCEPT !.dirs = Drop(@, dir)]

\* POST /operator/scenarios/{id}/abandon.
Abandoned(d, dir) == Discarded(d, dir)

Abandon(s) ==
  /\ runner' = Drop(runner, s)
  /\ saveDir' = Abandoned(saveDir, SaveDir(orch.sid, s))
  /\ UNCHANGED <<worlds, loopWorld, orch, ctx, sessionLog, ids, applied, saves, resumed>>

Elapsed(s) == worlds[ctx.world] - runner[s].start_tick
Finished(s) == ctx.coins > runner[s].coins_start \/ Elapsed(s) > TickLimit

\* GET /operator/scenarios/{id}/status: a finished one is no longer offered.
PollStatus(s) ==
  /\ Enabled
  /\ s \in DOMAIN runner /\ Finished(s)
  /\ saveDir' = [saveDir EXCEPT !.pointer = NoPointer]
  /\ UNCHANGED <<worlds, loopWorld, orch, ctx, runner, sessionLog, ids, applied, saves, resumed>>

\* POST /operator/sessions/resume: the world of the save becomes the orchestrator's; the
\* context and the loop keep theirs.
Resume ==
  /\ saveDir.pointer # NoPointer /\ saveDir.pointer.sid \in DOMAIN saveDir.dirs
  /\ Len(worlds) < MaxWorlds
  /\ LET save == saveDir.dirs[saveDir.pointer.sid] IN
     /\ worlds' = Append(worlds, save.tick)
     /\ orch' = [orch EXCEPT !.world = Len(worlds) + 1, !.sid = saveDir.pointer.sid]
     /\ runner' = Bind(runner, saveDir.pointer.scenario, save.session)
  /\ resumed' = TRUE
  /\ UNCHANGED <<loopWorld, ctx, sessionLog, saveDir, ids, applied, saves>>

\* POST /operator/sessions/discard.
DiscardSave ==
  /\ saveDir' = Discarded(saveDir, saveDir.pointer.sid)
  /\ UNCHANGED <<worlds, loopWorld, orch, ctx, runner, sessionLog, ids, applied, saves, resumed>>

\* The process ends and a new one is built; what is not in saveDir is gone.
Restarted ==
  /\ Len(worlds) < MaxWorlds
  /\ worlds' = Append(worlds, 0)
  /\ loopWorld' = Len(worlds) + 1 /\ orch' = FreshOrch(Len(worlds) + 1)
  /\ ctx' = NoContext /\ runner' = <<>> /\ resumed' = FALSE
  /\ sessionLog' = [sessionLog EXCEPT !.open = <<>>]
  /\ UNCHANGED <<ids, applied>>

RestartProcess == Restarted /\ UNCHANGED <<saveDir, saves>>

\* The process ends in the save of an action.
CrashInSave ==
  /\ Restarted
  /\ Enabled /\ runner # <<>>
  /\ \E k \in 0..3 : SaveCurrent(k, runner)

SessionNext ==
  \/ LoopTick \/ Enable \/ Disable \/ Act(4)
  \/ \E s \in Scenarios : StartScenario(s, 4) \/ Abandon(s) \/ PollStatus(s)
  \/ Resume \/ DiscardSave \/ RestartProcess \/ CrashInSave

------------------------------------------------------------------------------
SessionTypeOK ==
  /\ worlds \in Seq(0..MaxTick) /\ loopWorld \in DOMAIN worlds
  /\ orch.world \in DOMAIN worlds /\ ctx.world \in {None} \cup DOMAIN worlds
  /\ DOMAIN runner \subseteq Scenarios
  /\ saveDir.pointer = NoPointer \/ saveDir.pointer.scenario \in Scenarios

\* What the pointer offers can be resumed: the parts are there, and a crash in a later save
\* into the same directory leaves them in the order they are written, so the restored chain is
\* never older than the restored world nor the world older than the scenario.
OfferedSaveIsWhole ==
  saveDir.pointer # NoPointer =>
    /\ saveDir.pointer.sid \in DOMAIN saveDir.dirs
    /\ LET save == saveDir.dirs[saveDir.pointer.sid] IN
       /\ 0 < saveDir.pointer.save /\ saveDir.pointer.save <= save.scenario
       /\ save.scenario <= save.sim /\ save.sim <= save.chain
       /\ save.chain - saveDir.pointer.save <= saves - saveDir.pointer.save

\* An abandoned scenario is not offered again unless it is started or saved anew: right
\* after abandoning, nothing is offered.
AbandonedNotOffered ==
  [][\A s \in Scenarios : s \in DOMAIN runner /\ s \notin DOMAIN runner' /\ loopWorld' = loopWorld
       => saveDir'.pointer = NoPointer]_sessionVars

\* Each action that was applied while its session had a buffer is in that session's log, once
\* and in order, whether the session is open, closed or was left open by enabling again.
ActionsLoggedOnce ==
  LET LogOf(s) == IF s \in DOMAIN sessionLog.open THEN sessionLog.open[s] ELSE sessionLog.closed[s] IN
  \A s \in DOMAIN sessionLog.open \cup DOMAIN sessionLog.closed :
    LET mine == {i \in DOMAIN applied : applied[i].sid = s /\ applied[i].logged} IN
    /\ Len(LogOf(s)) = Cardinality(mine)
    /\ \A i, j \in DOMAIN LogOf(s) : LogOf(s)[i] \in mine /\ (i < j => LogOf(s)[i] < LogOf(s)[j])

\* A log is closed for good: it is never written again, and its session never records more.
ClosedLogsFinal ==
  [][\A s \in DOMAIN sessionLog.closed :
       /\ s \in DOMAIN sessionLog'.closed /\ sessionLog'.closed[s] = sessionLog.closed[s]
       /\ s \notin DOMAIN sessionLog'.open]_sessionVars

\* As long as a process resumes nothing, a scenario's clock runs forward from its start.
ClockForwardUntilResume ==
  ~resumed => \A s \in DOMAIN runner : ctx.world # None /\ Elapsed(s) >= 0

\* A session keeps its promises over enabling, scenarios, saves, crashes and resumes: what is
\* offered can be resumed and was not abandoned, every action is in the log of its session
\* once, a closed log is final, and a clock runs forward until it is set back by a resume.
SessionsSound ==
  /\ [](SessionTypeOK /\ OfferedSaveIsWhole /\ ActionsLoggedOnce /\ ClockForwardUntilResume)
  /\ AbandonedNotOffered /\ ClosedLogsFinal
=============================================================================
