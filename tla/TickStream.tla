------------------------------ MODULE TickStream ------------------------------
(***************************************************************************)
(* The tick loop and the hub that fans its frames out to the WebSocket     *)
(* clients (transport/loop.py, transport/hub.py), with the endpoints that  *)
(* pause, step and speed up the arena and the one that puts a saved        *)
(* simulation in its place.                                                *)
(*                                                                         *)
(* Everything runs on one event loop.  The lock of the hub is never        *)
(* contended, as nothing awaits while it is held, so a broadcast runs      *)
(* without a break from the tick to the first close of a client whose      *)
(* queue was full; other tasks run while that close is awaited.            *)
(*                                                                         *)
(* A frame is abstracted to its tick.  What a tick does to agents, matches *)
(* and the operator is in the modules of those components.                 *)
(***************************************************************************)
EXTENDS Naturals, Sequences, FiniteSets

CONSTANTS
    Client,     \* subscribers; one that connects again is another one
    Healthy,    \* clients that go on reading
    Depth,      \* _QUEUE_DEPTH, 16
    Warps,      \* values of time_warp in use
    Snapshots,  \* simulations a resume may find
    MaxSteps,   \* bound: ticks asked for by one request, 100
    MaxTicks    \* bound: tick counters

Simulation == [paused : BOOLEAN, tick : 0 .. MaxTicks, time_warp : Warps]

ASSUME TickStreamAssumption ==
    /\ Healthy \subseteq Client /\ IsFiniteSet(Client)
    /\ Depth \in Nat \ {0} /\ Warps \subseteq Nat \ {0} /\ 1 \in Warps
    /\ Snapshots \subseteq Simulation
    /\ MaxSteps \in Nat /\ MaxTicks \in Nat

VARIABLES
    sim,            \* the loop's own simulation and the restored one
    shown,          \* which of the two the endpoints see: AppState.simulation
    log,            \* history: the frames broadcast
    loop,           \* "ready" for the next tick, or "closing" a client
    casualties,     \* clients that broadcast has still to drop
    subscribers,    \* Hub._subscribers
    queue,          \* per client, its bounded queue
    pump,           \* per client, the task that serves it
    sending,        \* per client, the frame in send_bytes, if any
    closed,         \* clients whose socket the hub has closed
    from,           \* history, per client: the frames broadcast before it came
    received        \* history, per client: the frames it was sent

arena == <<sim, shown>>
hub == <<loop, casualties, subscribers, queue, pump, sending, closed, from, received>>
vars == <<arena, log, hub>>

PumpState == {"none", "running", "lost", "ended"}

Init ==
    /\ sim = [which \in {"own", "restored"} |-> [paused |-> FALSE, tick |-> 0, time_warp |-> 1]]
    /\ shown = "own"
    /\ log = <<>> /\ loop = "ready" /\ casualties = {}
    /\ subscribers = {} /\ closed = {}
    /\ queue = [c \in Client |-> <<>>]
    /\ pump = [c \in Client |-> "none"]
    /\ sending = [c \in Client |-> <<>>]
    /\ from = [c \in Client |-> 0]
    /\ received = [c \in Client |-> <<>>]

----------------------------------------------------------------------------
(* The endpoints; they act on the simulation that is shown.                *)

\* POST /control/pause and /control/resume.
SetPaused(paused) ==
    /\ sim' = [sim EXCEPT ![shown].paused = paused]
    /\ UNCHANGED <<shown, log, hub>>

\* POST /control/time-warp.
SetTimeWarp(warp) ==
    /\ sim' = [sim EXCEPT ![shown].time_warp = warp]
    /\ UNCHANGED <<shown, log, hub>>

\* POST /control/step: ticks whatever the run state is, and restores it.  The
\* frames go nowhere.
Step(n) ==
    /\ sim[shown].tick + n <= MaxTicks
    /\ sim' = [sim EXCEPT ![shown].tick = @ + n]
    /\ UNCHANGED <<shown, log, hub>>

\* POST /operator/sessions/resume shows the simulation of a snapshot, which
\* this process or an earlier one has saved.  The loop keeps the simulation it
\* was built with.
Resume ==
    /\ \E s \in Snapshots : sim' = [sim EXCEPT !.restored = s]
    /\ shown' = "restored"
    /\ UNCHANGED <<log, hub>>

Endpoints ==
    \/ \E paused \in BOOLEAN : SetPaused(paused)
    \/ \E warp \in Warps : SetTimeWarp(warp)
    \/ \E n \in 1 .. MaxSteps : Step(n)
    \/ Resume

----------------------------------------------------------------------------
(* The loop and its broadcast.                                             *)

Full == {c \in subscribers : Len(queue[c]) >= Depth}

\* Fault: the client of a full queue is kept.
DropNext_keeping(late) ==
    /\ loop' = "ready" /\ casualties' = {} /\ UNCHANGED <<subscribers, closed>>

\* Every subscriber's queue takes the frame, unless it is full.
put_nowait(frame) ==
    queue' = [c \in Client |->
        IF c \in subscribers \ Full THEN Append(queue[c], frame) ELSE queue[c]]

\* The next client that was late is detached, and its socket is being closed.
DropNext(late) ==
    \/ /\ late = {}
       /\ loop' = "ready" /\ casualties' = {}
       /\ UNCHANGED <<subscribers, closed>>
    \/ \E c \in late :
       /\ loop' = "closing" /\ casualties' = late \ {c}
       /\ subscribers' = subscribers \ {c}
       /\ closed' = closed \cup {c}

NextTick == sim.own.tick + sim.own.time_warp

\* Fault: the loop awaits room in every queue.
LoopTick_waiting ==
    /\ loop = "ready" /\ Full = {}
    /\ ~sim.own.paused
    /\ NextTick <= MaxTicks
    /\ sim' = [sim EXCEPT !.own.tick = NextTick]
    /\ log' = Append(log, NextTick)
    /\ put_nowait(NextTick)
    /\ DropNext(Full)
    /\ UNCHANGED <<shown, pump, sending, from, received>>

\* TickLoop._run: time_warp ticks, of which the last gives the frame, and its
\* broadcast up to the first close.
LoopTick ==
    /\ loop = "ready"
    /\ ~sim.own.paused
    /\ NextTick <= MaxTicks
    /\ sim' = [sim EXCEPT !.own.tick = NextTick]
    /\ log' = Append(log, NextTick)
    /\ put_nowait(NextTick)
    /\ DropNext(Full)
    /\ UNCHANGED <<shown, pump, sending, from, received>>

\* A close returns, or raises what broadcast suppresses.
CloseReturns ==
    /\ loop = "closing"
    /\ DropNext(casualties)
    /\ UNCHANGED <<arena, log, queue, pump, sending, from, received>>

----------------------------------------------------------------------------
(* The clients.                                                            *)

\* The endpoint ws accepts, attaches and starts to pump.
Attach(c) ==
    /\ pump[c] = "none"
    /\ pump' = [pump EXCEPT ![c] = "running"]
    /\ subscribers' = subscribers \cup {c}
    /\ from' = [from EXCEPT ![c] = Len(log)]
    /\ UNCHANGED <<arena, log, loop, casualties, queue, sending, closed, received>>

\* Fault: what the pump raises is suppressed.
EndPump_suppressed(c, how) ==
    UNCHANGED <<arena, log, loop, casualties, subscribers, pump, closed, from>>

\* The pump raises and the endpoint detaches the client.
EndPump(c, how) ==
    /\ pump' = [pump EXCEPT ![c] = how]
    /\ subscribers' = subscribers \ {c}
    /\ UNCHANGED <<arena, log, loop, casualties, closed, from>>

CanGet(c) == pump[c] = "running" /\ sending[c] = <<>> /\ queue[c] # <<>>

\* Hub.pump takes the next frame and sends it; a closed socket raises at once.
Get(c) ==
    /\ CanGet(c)
    /\ queue' = [queue EXCEPT ![c] = Tail(@)]
    /\ \/ /\ c \notin closed
          /\ sending' = [sending EXCEPT ![c] = <<Head(queue[c])>>]
          /\ UNCHANGED <<arena, log, loop, casualties, subscribers, pump, closed, from>>
       \/ /\ c \in closed
          /\ EndPump(c, "ended")
          /\ UNCHANGED sending
    /\ UNCHANGED received

\* Fault: the pump ends after one frame.
Sent_once(c) ==
    /\ sending[c] # <<>>
    /\ received' = [received EXCEPT ![c] = @ \o sending[c]]
    /\ sending' = [sending EXCEPT ![c] = <<>>]
    /\ EndPump(c, "ended")
    /\ UNCHANGED queue

\* The send returns ...
Sent(c) ==
    /\ sending[c] # <<>>
    /\ received' = [received EXCEPT ![c] = @ \o sending[c]]
    /\ sending' = [sending EXCEPT ![c] = <<>>]
    /\ UNCHANGED <<arena, log, loop, casualties, subscribers, queue, pump, closed, from>>

\* ... or raises, because the client is gone or its socket was closed.
SendRaises(c) ==
    /\ sending[c] # <<>>
    /\ sending' = [sending EXCEPT ![c] = <<>>]
    /\ EndPump(c, "lost")
    /\ UNCHANGED <<queue, received>>

Next ==
    \/ Endpoints
    \/ LoopTick
    \/ CloseReturns
    \/ \E c \in Client : Attach(c) \/ Get(c) \/ Sent(c) \/ SendRaises(c)

Spec == Init /\ [][Next]_vars

\* The event loop serves every task that can go on; a close returns, at the
\* latest when the library gives up waiting for the client.  Of the clients
\* only the healthy ones take what they are sent.
FairSpec ==
    /\ Spec
    /\ WF_vars(LoopTick) /\ WF_vars(CloseReturns)
    /\ \A c \in Client : WF_vars(Get(c))
    /\ \A c \in Healthy : WF_vars(Sent(c) \/ SendRaises(c))

----------------------------------------------------------------------------
(* What the loop and the hub promise.                                      *)

\* Every variable holds the kind of value the code keeps in it, and no queue
\* more frames than it has room for.
TypeOK ==
    /\ sim \in [{"own", "restored"} -> Simulation]
    /\ shown \in {"own", "restored"}
    /\ log \in Seq(Nat)
    /\ loop \in {"ready", "closing"}
    /\ casualties \subseteq Client /\ subscribers \subseteq Client /\ closed \subseteq Client
    /\ queue \in [Client -> Seq(Nat)] /\ \A c \in Client : Len(queue[c]) <= Depth
    /\ pump \in [Client -> PumpState]
    /\ sending \in [Client -> Seq(Nat)]
    /\ from \in [Client -> Nat]
    /\ received \in [Client -> Seq(Nat)]

\* What a client was sent, is being sent and has in its queue.
Stream(c) == received[c] \o sending[c] \o queue[c]

\* A client sees consecutive frames, from the first one after it came, however
\* slow it is and whoever comes, goes or is dropped in the middle of a
\* broadcast: a client that has missed a frame gets no later one.
FramesConsecutive ==
    \A c \in Client :
        /\ from[c] + Len(received[c]) + Len(sending[c]) <= Len(log)
        /\ pump[c] = "running" =>
            /\ from[c] + Len(Stream(c)) <= Len(log)
            /\ \A i \in DOMAIN Stream(c) : Stream(c)[i] = log[from[c] + i]
            /\ c \in subscribers \ casualties => from[c] + Len(Stream(c)) = Len(log)
        /\ \A i \in DOMAIN received[c] : received[c][i] = log[from[c] + i]

\* A frame reaches every healthy client that was there when it was broadcast,
\* unless the client was dropped or went away.
FramesReachClients ==
    \A c \in Healthy : \A k \in 1 .. MaxTicks :
        pump[c] = "running" /\ from[c] < k /\ k <= Len(log)
            ~> k <= from[c] + Len(received[c]) \/ c \in closed \/ pump[c] = "lost"

\* "A slow WebSocket client must not slow the tick loop": frames go on as long
\* as the loop's simulation is not paused, also when clients stop reading.
TicksGoOn ==
    \A n \in 0 .. MaxTicks :
        Len(log) = n ~> Len(log) > n \/ sim.own.paused \/ NextTick > MaxTicks

\* Hub.pump "raises on disconnect": the task that serves a client whose socket
\* was closed ends, if frames are left in the client's queue.  (When several
\* clients are dropped in one broadcast, the later ones may have been sent all
\* of theirs before they are closed: their tasks wait on a queue for ever.)
DroppedClientsEnd ==
    \A c \in Healthy :
        c \in closed /\ queue[c] # <<>> ~> pump[c] \in {"lost", "ended"}

\* "The player picks up exactly where they left off": a restored simulation
\* that is not paused goes on ticking.
ResumedWorldTicks ==
    \A n \in 0 .. MaxTicks :
        shown = "restored" /\ sim.restored.tick = n
            ~> \/ sim.restored.tick # n \/ sim.restored.paused \/ NextTick > MaxTicks

\* No client waits for ever: frames reach those that read, and the task of one that was dropped
\* with frames left comes to an end.
ClientsServed == FramesReachClients /\ DroppedClientsEnd
==============================================================================
