------------------------------- MODULE EventBus ------------------------------
(***************************************************************************)
(* EventBus of transport/events.py, called from the event loop and from    *)
(* the worker threads of the heatmap, the analytics and the live trainer.  *)
(*                                                                         *)
(* A thread's calls of emit form a stack of frames: emit calls a handler,  *)
(* which may call emit, and emit calls itself for each event it drains.    *)
(* The interpreter lets another thread in at calls and at loop back-edges  *)
(* only, which makes these the steps: the test of _emitting with what      *)
(* follows it up to the first call, the setting of _emitting, the handler, *)
(* and the clearing of _emitting with the exchange of the queue.           *)
(*                                                                         *)
(* An event is its number, in the order of the calls of emit.  Every kind  *)
(* the orchestrator subscribes to has one handler.  emit_next_tick,        *)
(* unsubscribe and clear have no caller in the program.                    *)
(***************************************************************************)
EXTENDS Naturals, Sequences, FiniteSets

CONSTANTS
    Thread,     \* the threads that emit
    MaxEvents   \* bound: events emitted

ASSUME MaxEventsAssumption == MaxEvents \in Nat

VARIABLES
    emitting,   \* _emitting
    queue,      \* _next_tick_queue
    history,    \* _history: the events whose dispatch has begun
    stack,      \* per thread, the active calls of emit, innermost last
    emitted,    \* calls of emit made from outside the bus
    handled     \* history: how often the handler of each event ran

vars == <<emitting, queue, history, stack, emitted, handled>>

Event == 1 .. MaxEvents

\* An active call for an event: about to set the flag, about to run the
\* handler, running it, or emitting the events it has taken from the queue.
Frame == [at : {"begin", "handler", "running", "drain"}, event : Event, rest : Seq(Event)]

----------------------------------------------------------------------------
Init ==
    /\ emitting = FALSE
    /\ queue = <<>> /\ history = <<>>
    /\ stack = [t \in Thread |-> <<>>]
    /\ emitted = 0
    /\ handled = [e \in Event |-> 0]

Top(t) == stack[t][Len(stack[t])]
Below(t) == SubSeq(stack[t], 1, Len(stack[t]) - 1)
At(t, pc) == stack[t] # <<>> /\ Top(t).at = pc

\* The innermost call of thread t goes on to pc, with rest still to emit.
Continued(t, pc, rest) == Append(Below(t), [at |-> pc, event |-> Top(t).event, rest |-> rest])
Goto(t, pc) == stack' = [stack EXCEPT ![t] = Continued(t, pc, <<>>)]

\* Fault: a call made during a dispatch is dropped.
emit_dropping(t, e, calls) ==
    IF emitting
    THEN /\ stack' = [stack EXCEPT ![t] = calls]
         /\ UNCHANGED <<queue, history>>
    ELSE /\ history' = Append(history, e)
         /\ stack' = [stack EXCEPT ![t] = Append(calls, [at |-> "begin", event |-> e, rest |-> <<>>])]
         /\ UNCHANGED queue

\* EventBus.emit up to its first call, from thread t with the given calls
\* below: a bus that is emitting queues the event.
emit(t, e, calls) ==
    IF emitting
    THEN /\ queue' = Append(queue, e)
         /\ stack' = [stack EXCEPT ![t] = calls]
         /\ UNCHANGED history
    ELSE /\ history' = Append(history, e)
         /\ stack' = [stack EXCEPT ![t] = Append(calls, [at |-> "begin", event |-> e, rest |-> <<>>])]
         /\ UNCHANGED queue

\* A part of the program emits an event.
Emit(t) ==
    /\ stack[t] = <<>>
    /\ emitted < MaxEvents
    /\ emitted' = emitted + 1
    /\ emit(t, emitted + 1, <<>>)
    /\ UNCHANGED <<emitting, handled>>

\* self._emitting = True.
Begin(t) ==
    /\ At(t, "begin")
    /\ emitting' = TRUE
    /\ Goto(t, "handler")
    /\ UNCHANGED <<queue, history, emitted, handled>>

\* Fault: the events that wait are handled along with the event.
Handle_batch(t) ==
    /\ At(t, "handler")
    /\ handled' = [e \in Event |->
            IF e = Top(t).event \/ \E i \in DOMAIN queue : queue[i] = e
            THEN handled[e] + 1 ELSE handled[e]]
    /\ Goto(t, "running")
    /\ UNCHANGED <<emitting, queue, history, emitted>>

\* The handler is called.
Handle(t) ==
    /\ At(t, "handler")
    /\ handled' = [handled EXCEPT ![Top(t).event] = @ + 1]
    /\ Goto(t, "running")
    /\ UNCHANGED <<emitting, queue, history, emitted>>

\* The running handler emits an event, as on_policy_updated does.
EmitInside(t) ==
    /\ At(t, "running")
    /\ emitted < MaxEvents
    /\ emitted' = emitted + 1
    /\ emit(t, emitted + 1, stack[t])
    /\ UNCHANGED <<emitting, handled>>

\* Faults: only the outermost call drains the queue; the queue is taken and
\* not exchanged.
Finish_outermost(t) ==
    /\ At(t, "running")
    /\ emitting' = FALSE
    /\ IF Len(stack[t]) > 1
       THEN stack' = [stack EXCEPT ![t] = Below(t)] /\ UNCHANGED queue
       ELSE /\ stack' = [stack EXCEPT ![t] = Continued(t, "drain", queue)]
            /\ queue' = <<>>
    /\ UNCHANGED <<history, emitted, handled>>

Finish_keeping(t) ==
    /\ At(t, "running")
    /\ emitting' = FALSE
    /\ stack' = [stack EXCEPT ![t] = Continued(t, "drain", queue)]
    /\ UNCHANGED <<queue, history, emitted, handled>>

\* self._emitting = False, and the queue is exchanged for an empty one.
Finish(t) ==
    /\ At(t, "running")
    /\ emitting' = FALSE
    /\ queue' = <<>>
    /\ stack' = [stack EXCEPT ![t] = Continued(t, "drain", queue)]
    /\ UNCHANGED <<history, emitted, handled>>

\* The next of the events taken from the queue is emitted, or none is left
\* and the call returns.
Drain(t) ==
    /\ At(t, "drain")
    /\ LET rest == Top(t).rest
       IN  IF rest = <<>>
           THEN /\ stack' = [stack EXCEPT ![t] = Below(t)]
                /\ UNCHANGED <<queue, history>>
           ELSE emit(t, Head(rest), Continued(t, "drain", Tail(rest)))
    /\ UNCHANGED <<emitting, emitted, handled>>

Step(t) == Begin(t) \/ Handle(t) \/ Finish(t) \/ Drain(t)

Next == \E t \in Thread : Emit(t) \/ EmitInside(t) \/ Step(t)

Spec == Init /\ [][Next]_vars

\* The interpreter runs every thread that is inside a call, and handlers
\* return (they take less than a millisecond).
FairSpec == Spec /\ \A t \in Thread : WF_vars(Step(t))

----------------------------------------------------------------------------
(* What the bus promises.                                                  *)

\* Every variable holds the kind of value the code keeps in it, and no handler
\* runs twice for an event.
TypeOK ==
    /\ emitting \in BOOLEAN
    /\ queue \in Seq(Event)
    /\ history \in Seq(Event)
    /\ stack \in [Thread -> Seq(Frame)]
    /\ emitted \in 0 .. MaxEvents
    /\ handled \in [Event -> 0 .. 1]

Positions(e, s) == {i \in DOMAIN s : s[i] = e}

\* Where event e is: queued, dispatched, or taken by a draining call.
Places(e) ==
    {<<"queue", i>> : i \in Positions(e, queue)} \cup
    {<<"history", i>> : i \in Positions(e, history)} \cup
    UNION {UNION {{<<"taken", t, i, j>> : j \in Positions(e, stack[t][i].rest)} :
        i \in DOMAIN stack[t]} : t \in Thread}

\* Every event emitted is in one place, once, and its handler runs at most
\* once: no interleaving of emitting threads loses or copies an event.
EventsAccounted ==
    \A e \in Event :
        /\ Cardinality(Places(e)) = (IF e <= emitted THEN 1 ELSE 0)
        /\ handled[e] <= Cardinality(Positions(e, history))

\* However threads and handlers interleave, every event is in one place of the bus, runs its handler
\* once, and the variables keep their kinds.
EventsKept == TypeOK /\ EventsAccounted

Dispatching(t) == \E i \in DOMAIN stack[t] : stack[t][i].at \in {"handler", "running"}

\* An event waits in the queue only while some thread is dispatching, whose
\* call will find it there when it finishes: none is stranded until the next
\* unrelated event.
NothingStranded ==
    /\ emitting => \E t \in Thread : Dispatching(t)
    /\ queue # <<>> => emitting

\* The bus is an event bus, see Delivery: each event is handed over once, and in the end it is.
HandledEvents == {e \in Event : handled[e] > 0}
Abstract == INSTANCE Delivery WITH
    undelivered <- (1 .. emitted) \ HandledEvents, delivered <- HandledEvents
ImplementsDelivery == Abstract!Spec
==============================================================================
