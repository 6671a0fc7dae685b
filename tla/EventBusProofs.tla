--------------------------- MODULE EventBusProofs ----------------------------
(***************************************************************************)
(* Theorems about EventBus, for every set of threads and every number of   *)
(* events: no event is stranded, each is in one place, and the bus         *)
(* implements Delivery step by step.                                       *)
(*                                                                         *)
(* NothingStranded is inductive once the stacks are known to be sequences  *)
(* of frames: the flag is only set by a call that goes on to run a         *)
(* handler, a frame leaves its stack only when it has drained, and an      *)
(* event enters the queue only while the flag is set.                      *)
(***************************************************************************)
EXTENDS EventBus, SequenceTheorems, FiniteSetTheorems, TLAPS

\* The part of TypeOK the argument needs.
StacksOK ==
    /\ emitting \in BOOLEAN
    /\ queue \in Seq(Event)
    /\ stack \in [Thread -> Seq(Frame)]
    /\ emitted \in 0 .. MaxEvents

IInv == StacksOK /\ NothingStranded

\* A stack with a call whose handler is due or running.
Busy(s) == \E i \in DOMAIN s : s[i].at \in {"handler", "running"}

Front(s) == SubSeq(s, 1, Len(s) - 1)

\* The last element of a sequence and what is before it.
LEMMA FrontAndLast ==
    ASSUME NEW s \in Seq(Frame), s # <<>>
    PROVE  /\ Len(s) \in 1 .. Len(s)
           /\ s[Len(s)] \in Frame
           /\ Front(s) \in Seq(Frame)
           /\ Len(Front(s)) = Len(s) - 1
           /\ \A i \in 1 .. Len(s) - 1 : Front(s)[i] = s[i]
<1>1. Len(s) \in Nat \ {0} /\ \A i \in 1 .. Len(s) : s[i] \in Frame
  BY EmptySeq, LenProperties, ElementOfSeq
<1>2. \A i \in 1 .. Len(s) - 1 : s[i] \in Frame
  BY <1>1
<1>3. /\ Front(s) \in Seq(Frame)
      /\ Len(Front(s)) = (IF 1 <= Len(s) - 1 THEN Len(s) - 1 - 1 + 1 ELSE 0)
      /\ \A i \in 1 .. Len(s) - 1 - 1 + 1 : Front(s)[i] = s[1 + i - 1]
  BY <1>1, <1>2, SubSeqProperties DEF Front
<1>4. Len(Front(s)) = Len(s) - 1
  <2>1. \A n \in Nat \ {0} : (IF 1 <= n - 1 THEN n - 1 - 1 + 1 ELSE 0) = n - 1
    OBVIOUS
  <2> QED BY <1>1, <1>3, <2>1
<1>5. \A i \in 1 .. Len(s) - 1 : Front(s)[i] = s[i]
  BY <1>1, <1>3
<1> QED BY <1>1, <1>3, <1>4, <1>5

\* Pushing a frame.
LEMMA BusyAppend ==
    ASSUME NEW s \in Seq(Frame), NEW f \in Frame
    PROVE  /\ Append(s, f) \in Seq(Frame)
           /\ Busy(Append(s, f)) <=> Busy(s) \/ f.at \in {"handler", "running"}
<1>1. /\ Append(s, f) \in Seq(Frame)
      /\ Len(Append(s, f)) = Len(s) + 1
      /\ \A i \in 1 .. Len(s) : Append(s, f)[i] = s[i]
      /\ Append(s, f)[Len(s) + 1] = f
  BY AppendProperties
<1>2. Len(s) \in Nat /\ DOMAIN s = 1 .. Len(s)
      /\ DOMAIN Append(s, f) = 1 .. Len(s) + 1
  BY <1>1, LenProperties
<1> QED BY <1>1, <1>2 DEF Busy

\* Popping a frame.
LEMMA BusyFront ==
    ASSUME NEW s \in Seq(Frame), s # <<>>
    PROVE  Busy(s) <=> Busy(Front(s)) \/ s[Len(s)].at \in {"handler", "running"}
<1>1. Len(s) \in Nat \ {0} /\ DOMAIN s = 1 .. Len(s) /\ DOMAIN Front(s) = 1 .. Len(s) - 1
  BY FrontAndLast, LenProperties
<1>2. \A i \in 1 .. Len(s) - 1 : Front(s)[i] = s[i]
  BY FrontAndLast
<1>3. \A i \in DOMAIN s : i \in DOMAIN Front(s) \/ i = Len(s)
  BY <1>1
<1>4. DOMAIN Front(s) \subseteq DOMAIN s /\ Len(s) \in DOMAIN s
  BY <1>1
<1> QED BY <1>1, <1>2, <1>3, <1>4 DEF Busy

\* A thread dispatches when its stack is busy.
LEMMA DispatchingIsBusy == \A t \in Thread : Dispatching(t) <=> Busy(stack[t])
  BY DEF Dispatching, Busy

\* emit either queues its event, with the flag set, or pushes a frame that is
\* not dispatching yet.
LEMMA EmitStep ==
    ASSUME IInv, NEW t \in Thread, NEW e \in Event, NEW calls \in Seq(Frame),
           emit(t, e, calls), UNCHANGED emitting, emitted' \in 0 .. MaxEvents,
           Busy(stack[t]) => Busy(calls)
    PROVE  IInv'
<1> DEFINE f == [at |-> "begin", event |-> e, rest |-> <<>>]
<1>1. f \in Frame
  <2>1. <<>> \in Seq(Event) BY EmptySeq
  <2> QED BY <2>1 DEF Frame
<1>2. /\ Append(calls, f) \in Seq(Frame)
      /\ Busy(Append(calls, f)) <=> Busy(calls)
  BY <1>1, BusyAppend
<1>3. PICK s \in Seq(Frame) :
        /\ stack' = [stack EXCEPT ![t] = s]
        /\ Busy(s) <=> Busy(calls)
  BY <1>2 DEF emit
<1>4. queue' \in Seq(Event) /\ (queue' # <<>> => queue # <<>> \/ emitting)
  <2>1. Append(queue, e) \in Seq(Event) BY AppendProperties DEF IInv, StacksOK
  <2> QED BY <2>1 DEF emit, IInv, StacksOK
<1>5. StacksOK'
  BY <1>3, <1>4 DEF StacksOK, IInv
<1>6. \A u \in Thread : Dispatching(u) => Dispatching(u)'
  <2> TAKE u \in Thread
  <2>1. stack'[t] = s /\ (u # t => stack'[u] = stack[u])
    BY <1>3 DEF IInv, StacksOK
  <2> QED BY <2>1, <1>3 DEF Dispatching, Busy
<1> QED BY <1>4, <1>5, <1>6 DEF IInv, NothingStranded

\* A thread's innermost call goes on.
LEMMA GoOn ==
    ASSUME StacksOK, NEW t \in Thread, stack[t] # <<>>,
           NEW pc \in {"begin", "handler", "running", "drain"}, NEW rest \in Seq(Event)
    PROVE  /\ Continued(t, pc, rest) \in Seq(Frame)
           /\ Below(t) \in Seq(Frame)
           /\ Top(t) \in Frame
           /\ Busy(stack[t]) <=> Busy(Below(t)) \/ Top(t).at \in {"handler", "running"}
           /\ Busy(Continued(t, pc, rest)) <=> Busy(Below(t)) \/ pc \in {"handler", "running"}
<1>1. stack[t] \in Seq(Frame)
  BY DEF StacksOK
<1>2. /\ Top(t) \in Frame /\ Below(t) \in Seq(Frame)
      /\ Busy(stack[t]) <=> Busy(Below(t)) \/ Top(t).at \in {"handler", "running"}
  BY <1>1, FrontAndLast, BusyFront DEF Top, Below, Front
<1> DEFINE f == [at |-> pc, event |-> Top(t).event, rest |-> rest]
<1>3. f \in Frame
  BY <1>2 DEF Frame
<1> QED BY <1>2, <1>3, BusyAppend DEF Continued

\* A step of one thread, when what it leaves on its stack is known.
LEMMA OneStack ==
    ASSUME StacksOK, NEW t \in Thread, NEW s \in Seq(Frame), stack' = [stack EXCEPT ![t] = s]
    PROVE  /\ stack' \in [Thread -> Seq(Frame)]
           /\ Dispatching(t)' <=> Busy(s)
           /\ \A u \in Thread \ {t} : Dispatching(u)' <=> Dispatching(u)
  BY DEF StacksOK, Dispatching, Busy

\* Every step keeps the invariant.
THEOREM Inductive == IInv /\ [Next]_vars => IInv'
<1> SUFFICES ASSUME IInv, [Next]_vars PROVE IInv'
  OBVIOUS
<1>0. StacksOK /\ NothingStranded /\ <<>> \in Seq(Event) /\ <<>> \in Seq(Frame)
  BY EmptySeq DEF IInv
<1>1. ASSUME NEW t \in Thread, Emit(t) PROVE IInv'
  <2>1. emitted + 1 \in Event /\ emitted' \in 0 .. MaxEvents
    BY <1>0, <1>1, MaxEventsAssumption DEF Emit, StacksOK, Event
  <2>2. Busy(stack[t]) => Busy(<<>>)
    BY <1>1 DEF Emit
  <2> QED BY <1>0, <1>1, <2>1, <2>2, EmitStep DEF Emit
<1>2. ASSUME NEW t \in Thread, EmitInside(t) PROVE IInv'
  <2>1. emitted + 1 \in Event /\ emitted' \in 0 .. MaxEvents
    BY <1>0, <1>2, MaxEventsAssumption DEF EmitInside, StacksOK, Event
  <2>2. stack[t] \in Seq(Frame)
    BY <1>0 DEF StacksOK
  <2> QED BY <1>0, <1>2, <2>1, <2>2, EmitStep DEF EmitInside
<1>3. ASSUME NEW t \in Thread, Begin(t) PROVE IInv'
  <2>1. /\ stack' = [stack EXCEPT ![t] = Continued(t, "handler", <<>>)]
        /\ stack[t] # <<>> /\ emitting' = TRUE /\ UNCHANGED <<queue, emitted>>
    BY <1>3 DEF Begin, At, Goto
  <2>2. /\ Continued(t, "handler", <<>>) \in Seq(Frame)
        /\ Busy(Continued(t, "handler", <<>>))
    BY <1>0, <2>1, GoOn
  <2>3. stack' \in [Thread -> Seq(Frame)] /\ Dispatching(t)'
    BY <1>0, <2>1, <2>2, OneStack
  <2> QED BY <1>0, <2>1, <2>3 DEF IInv, StacksOK, NothingStranded
<1>4. ASSUME NEW t \in Thread, Handle(t) PROVE IInv'
  <2>1. /\ stack' = [stack EXCEPT ![t] = Continued(t, "running", <<>>)]
        /\ stack[t] # <<>> /\ UNCHANGED <<emitting, queue, emitted>>
    BY <1>4 DEF Handle, At, Goto
  <2>2. /\ Continued(t, "running", <<>>) \in Seq(Frame)
        /\ Busy(Continued(t, "running", <<>>))
    BY <1>0, <2>1, GoOn
  <2>3. stack' \in [Thread -> Seq(Frame)] /\ Dispatching(t)'
    BY <1>0, <2>1, <2>2, OneStack
  <2> QED BY <1>0, <2>1, <2>3 DEF IInv, StacksOK, NothingStranded
<1>5. ASSUME NEW t \in Thread, Finish(t) PROVE IInv'
  <2>1. /\ stack' = [stack EXCEPT ![t] = Continued(t, "drain", queue)]
        /\ stack[t] # <<>> /\ emitting' = FALSE /\ queue' = <<>> /\ emitted' = emitted
    BY <1>5 DEF Finish, At
  <2>2. Continued(t, "drain", queue) \in Seq(Frame)
    <3>1. queue \in Seq(Event) BY <1>0 DEF StacksOK
    <3> QED BY <1>0, <2>1, <3>1, GoOn
  <2>3. stack' \in [Thread -> Seq(Frame)]
    BY <1>0, <2>1, <2>2, OneStack
  <2> QED BY <1>0, <2>1, <2>3 DEF IInv, StacksOK, NothingStranded
<1>6. ASSUME NEW t \in Thread, Drain(t) PROVE IInv'
  <2>1. stack[t] # <<>> /\ Top(t).at = "drain" /\ UNCHANGED <<emitting, emitted>>
    BY <1>6 DEF Drain, At
  <2>2. /\ Top(t).rest \in Seq(Event)
        /\ Below(t) \in Seq(Frame)
        /\ Busy(stack[t]) <=> Busy(Below(t))
    <3>1. Top(t) \in Frame /\ Below(t) \in Seq(Frame)
          /\ (Busy(stack[t]) <=> Busy(Below(t)) \/ Top(t).at \in {"handler", "running"})
      BY <1>0, <2>1, GoOn
    <3> QED BY <2>1, <3>1 DEF Frame
  <2>3. CASE Top(t).rest = <<>>
    <3>1. stack' = [stack EXCEPT ![t] = Below(t)] /\ queue' = queue
      BY <1>6, <2>3 DEF Drain
    <3>2. /\ stack' \in [Thread -> Seq(Frame)]
          /\ Dispatching(t)' <=> Dispatching(t)
          /\ \A u \in Thread \ {t} : Dispatching(u)' <=> Dispatching(u)
      BY <1>0, <2>2, <3>1, OneStack, DispatchingIsBusy
    <3> QED BY <1>0, <2>1, <3>1, <3>2 DEF IInv, StacksOK, NothingStranded
  <2>4. CASE Top(t).rest # <<>>
    <3>1. Head(Top(t).rest) \in Event /\ Tail(Top(t).rest) \in Seq(Event)
      BY <2>2, <2>4, HeadTailProperties
    <3>2. /\ Continued(t, "drain", Tail(Top(t).rest)) \in Seq(Frame)
          /\ Busy(Continued(t, "drain", Tail(Top(t).rest))) <=> Busy(Below(t))
      BY <1>0, <2>1, <3>1, GoOn
    <3>3. emit(t, Head(Top(t).rest), Continued(t, "drain", Tail(Top(t).rest)))
      BY <1>6, <2>4 DEF Drain
    <3>4. emitted' \in 0 .. MaxEvents
      BY <1>0, <2>1 DEF StacksOK
    <3> QED BY <2>1, <2>2, <3>1, <3>2, <3>3, <3>4, EmitStep
  <2> QED BY <2>3, <2>4
<1>7. CASE UNCHANGED vars
  BY <1>0, <1>7 DEF vars, IInv, StacksOK, NothingStranded, Dispatching
<1> QED BY <1>1, <1>2, <1>3, <1>4, <1>5, <1>6, <1>7 DEF Next, Step

\* No event is ever left in the queue without a thread that will find it
\* there, whatever threads emit whatever events.
THEOREM NothingStrandedHolds == Spec => []NothingStranded
<1>1. Init => IInv
  <2>1. <<>> \in Seq(Event) /\ <<>> \in Seq(Frame) /\ 0 \in 0 .. MaxEvents
    BY MaxEventsAssumption, EmptySeq
  <2> QED BY <2>1 DEF Init, IInv, StacksOK, NothingStranded
<1>2. IInv => NothingStranded
  BY DEF IInv
<1> QED BY <1>1, <1>2, Inductive, PTL DEF Spec
----------------------------------------------------------------------------
(* Where the events are                                                    *)

\* Where a call's taken events are, and which of its frames have a handler still to run; only a
\* draining frame holds taken events.
TakenIn(s, e) == UNION {{<<i, j>> : j \in Positions(e, s[i].rest)} : i \in DOMAIN s}
DueIn(s) == {<<i, s[i].event>> : i \in {k \in DOMAIN s : s[k].at \in {"begin", "handler"}}}
Drains(s) == \A i \in DOMAIN s : s[i].at # "drain" => s[i].rest = <<>>

One(S) == \A x, y \in S : x = y

\* An event that is queued at q, dispatched at h and taken at the places taken of each thread is
\* nowhere before it is known, and afterwards in one place.
InOnePlace(known, q, h, taken) ==
    /\ known <=> q # {} \/ h # {} \/ \E t \in Thread : taken[t] # {}
    /\ One(q) /\ One(h)
    /\ q # {} => h = {}
    /\ \A t \in Thread :
        /\ One(taken[t])
        /\ taken[t] # {} => /\ q = {} /\ h = {}
                            /\ \A u \in Thread \ {t} : taken[u] = {}

OnePlace(e) == InOnePlace(e <= emitted, Positions(e, queue), Positions(e, history),
                          [t \in Thread |-> TakenIn(stack[t], e)])

\* Only what was dispatched is handled; a frame whose handler is due is the only one of its event,
\* which was dispatched and not handled.
HandledOnce ==
    /\ handled \in [Event -> 0 .. 1]
    /\ \A e \in Event : handled[e] # 0 => Positions(e, history) # {}
    /\ \A t \in Thread : \A d \in DueIn(stack[t]) :
        /\ d[2] \in Event /\ Positions(d[2], history) # {} /\ handled[d[2]] = 0
        /\ \A u \in Thread : \A c \in DueIn(stack[u]) : c[2] = d[2] => u = t /\ c = d

KeptInv ==
    /\ history \in Seq(Event)
    /\ \A t \in Thread : Drains(stack[t])
    /\ \A e \in Event : OnePlace(e)
    /\ HandledOnce

\* Positions in a sequence that grows or loses its head.
LEMMA PositionsAppended ==
    ASSUME NEW s \in Seq(Event), NEW x \in Event, NEW e
    PROVE  Positions(e, Append(s, x)) = Positions(e, s) \cup (IF e = x THEN {Len(s) + 1} ELSE {})
<1> DEFINE a == Append(s, x)
<1>1. /\ Len(s) \in Nat /\ DOMAIN s = 1 .. Len(s) /\ DOMAIN a = 1 .. (Len(s) + 1)
      /\ a[Len(s) + 1] = x /\ \A i \in 1 .. Len(s) : a[i] = s[i]
  BY AppendProperties
<1> HIDE DEF a
<1>2. \A i : i \in DOMAIN a <=> i \in DOMAIN s \/ i = Len(s) + 1
  BY <1>1
<1>3. Positions(e, a) = Positions(e, s) \cup (IF e = x THEN {Len(s) + 1} ELSE {})
  BY <1>1, <1>2 DEF Positions
<1> QED BY <1>3 DEF a

\* Where an event stands in a queue, by where it stands in the rest.
LEMMA PositionsOfTail ==
    ASSUME NEW s \in Seq(Event), s # <<>>, NEW e
    PROVE  Positions(e, s) = {j + 1 : j \in Positions(e, Tail(s))}
                             \cup (IF e = Head(s) THEN {1} ELSE {})
<1> DEFINE t == Tail(s)
<1>1. /\ Len(s) \in Nat \ {0} /\ DOMAIN s = 1 .. Len(s) /\ DOMAIN t = 1 .. (Len(s) - 1)
      /\ Head(s) = s[1] /\ \A i \in 1 .. (Len(s) - 1) : t[i] = s[i + 1]
  BY HeadTailProperties
<1> HIDE DEF t
<1>2. \A i : i \in Positions(e, s) => (i = 1 /\ e = Head(s)) \/ (i - 1 \in Positions(e, t) /\ i \in Nat)
  BY <1>1 DEF Positions
<1>3. \A j \in Positions(e, t) : j + 1 \in Positions(e, s)
  BY <1>1 DEF Positions
<1>4. e = Head(s) => 1 \in Positions(e, s)
  BY <1>1 DEF Positions
<1>5. \A i \in Nat : (i - 1) + 1 = i
  OBVIOUS
<1>6. Positions(e, s) \subseteq {j + 1 : j \in Positions(e, t)} \cup (IF e = Head(s) THEN {1} ELSE {})
  BY <1>2, <1>5
<1> QED BY <1>3, <1>4, <1>6 DEF t

\* Nothing is in an empty queue.
LEMMA NowhereInEmpty == \A e : Positions(e, <<>>) = {} /\ TakenIn(<<>>, e) = {}
                               /\ DueIn(<<>>) = {} /\ Drains(<<>>)
  BY DEF Positions, TakenIn, DueIn, Drains

\* One frame more.
LEMMA FrameAdded ==
    ASSUME NEW s \in Seq(Frame), NEW f \in Frame
    PROVE  LET a == Append(s, f)
               n == Len(s) + 1
           IN  /\ \A e : TakenIn(a, e) = TakenIn(s, e) \cup {<<n, j>> : j \in Positions(e, f.rest)}
               /\ DueIn(a) = DueIn(s) \cup
                    (IF f.at \in {"begin", "handler"} THEN {<<n, f.event>>} ELSE {})
               /\ Drains(a) <=> Drains(s) /\ (f.at # "drain" => f.rest = <<>>)
<1> DEFINE a == Append(s, f)
           n == Len(s) + 1
<1>1. /\ Len(s) \in Nat /\ DOMAIN s = 1 .. Len(s) /\ DOMAIN a = 1 .. n
      /\ a[n] = f /\ \A i \in 1 .. Len(s) : a[i] = s[i]
  BY AppendProperties
<1> HIDE DEF a
<1>2. DOMAIN a = DOMAIN s \cup {n} /\ n \notin DOMAIN s
  BY <1>1
<1>3. \A i \in DOMAIN s : a[i] = s[i]
  BY <1>1
<1> HIDE DEF n
<1>4. \A e : TakenIn(a, e) = TakenIn(s, e) \cup {<<n, j>> : j \in Positions(e, f.rest)}
  <2> TAKE e
  <2> DEFINE at(r, i) == {<<i, j>> : j \in Positions(e, r[i].rest)}
  <2>1. \A i \in DOMAIN s : at(a, i) = at(s, i)
    BY <1>3
  <2>2. at(a, n) = {<<n, j>> : j \in Positions(e, f.rest)}
    BY <1>1
  <2>3. TakenIn(a, e) = UNION {at(a, i) : i \in DOMAIN s \cup {n}}
    BY <1>2 DEF TakenIn
  <2>4. TakenIn(s, e) = UNION {at(s, i) : i \in DOMAIN s}
    BY DEF TakenIn
  <2> HIDE DEF at
  <2> QED BY <2>1, <2>2, <2>3, <2>4
<1>5. DueIn(a) = DueIn(s) \cup (IF f.at \in {"begin", "handler"} THEN {<<n, f.event>>} ELSE {})
  BY <1>1, <1>2, <1>3 DEF DueIn
<1>6. Drains(a) <=> Drains(s) /\ (f.at # "drain" => f.rest = <<>>)
  BY <1>1, <1>2, <1>3 DEF Drains
<1> QED BY <1>4, <1>5, <1>6 DEF a, n

\* A stack is what is below its innermost frame, and that frame.
LEMMA FrontAppended ==
    ASSUME NEW s \in Seq(Frame), s # <<>>
    PROVE  s = Append(Front(s), s[Len(s)]) /\ Len(Front(s)) + 1 = Len(s)
<1> DEFINE b == Front(s)
           f == s[Len(s)]
           n == Len(s)
           a == Append(b, f)
<1>1. /\ n \in Nat \ {0} /\ f \in Frame /\ b \in Seq(Frame) /\ Len(b) = n - 1
      /\ \A i \in 1 .. n - 1 : b[i] = s[i]
  BY FrontAndLast, LenProperties
<1> HIDE DEF b, f
<1>2. a \in Seq(Frame) /\ Len(a) = Len(b) + 1 /\ (\A i \in 1 .. Len(b) : a[i] = b[i])
      /\ a[Len(b) + 1] = f
  BY <1>1, AppendProperties
<1> HIDE DEF a, n
<1>3. Len(a) = n /\ \A i \in 1 .. n : a[i] = IF i = n THEN f ELSE b[i]
  BY <1>1, <1>2
<1>4. \A i \in 1 .. n : i # n => i \in 1 .. n - 1
  BY <1>1
<1>5. \A i \in 1 .. n : a[i] = s[i]
  BY <1>1, <1>3, <1>4 DEF f, n
<1>6. Len(a) = Len(s) /\ \A i \in 1 .. Len(s) : a[i] = s[i]
  BY <1>3, <1>5 DEF n
<1>7. a = s
  BY <1>2, <1>6, SeqEqual
<1> QED BY <1>1, <1>7 DEF a, b, f, n

\* The innermost call of a thread goes on: what its stack holds, before and after.
LEMMA GoesOn ==
    ASSUME StacksOK, NEW t \in Thread, stack[t] # <<>>, Drains(stack[t]),
           NEW pc \in {"begin", "handler", "running", "drain"}, NEW rest \in Seq(Event)
    PROVE  LET b == Below(t)
               n == Len(stack[t])
               s == Continued(t, pc, rest)
           IN  /\ b \in Seq(Frame) /\ s \in Seq(Frame) /\ Top(t).event \in Event
               /\ Top(t).rest \in Seq(Event)
               /\ \A e : /\ TakenIn(stack[t], e) = TakenIn(b, e)
                                \cup {<<n, j>> : j \in Positions(e, Top(t).rest)}
                         /\ TakenIn(s, e) = TakenIn(b, e) \cup {<<n, j>> : j \in Positions(e, rest)}
               /\ DueIn(stack[t]) = DueIn(b) \cup
                    (IF Top(t).at \in {"begin", "handler"} THEN {<<n, Top(t).event>>} ELSE {})
               /\ DueIn(s) = DueIn(b) \cup
                    (IF pc \in {"begin", "handler"} THEN {<<n, Top(t).event>>} ELSE {})
               /\ Drains(b) /\ (Top(t).at # "drain" => Top(t).rest = <<>>)
               /\ (pc # "drain" => rest = <<>>) => Drains(s)
<1> DEFINE b == Below(t)
           f == Top(t)
           g == [at |-> pc, event |-> f.event, rest |-> rest]
           s == Continued(t, pc, rest)
<1>1. /\ stack[t] \in Seq(Frame) /\ b \in Seq(Frame) /\ f \in Frame /\ s \in Seq(Frame)
  BY GoOn DEF StacksOK
<1>2. g \in Frame /\ f.event \in Event /\ f.rest \in Seq(Event)
  BY <1>1 DEF Frame
<1>3. stack[t] = Append(b, f) /\ Len(b) + 1 = Len(stack[t])
  BY <1>1, FrontAppended DEF Below, Top, Front
<1>4. s = Append(b, g)
  BY DEF Continued
<1>5. g.at = pc /\ g.event = f.event /\ g.rest = rest
  OBVIOUS
<1> HIDE DEF b, f, g, s
<1>6. /\ \A e : TakenIn(stack[t], e) = TakenIn(b, e)
                    \cup {<<Len(stack[t]), j>> : j \in Positions(e, f.rest)}
      /\ DueIn(stack[t]) = DueIn(b) \cup
            (IF f.at \in {"begin", "handler"} THEN {<<Len(stack[t]), f.event>>} ELSE {})
      /\ Drains(stack[t]) <=> Drains(b) /\ (f.at # "drain" => f.rest = <<>>)
  BY <1>1, <1>3, FrameAdded
<1>7. /\ \A e : TakenIn(s, e) = TakenIn(b, e)
                    \cup {<<Len(stack[t]), j>> : j \in Positions(e, rest)}
      /\ DueIn(s) = DueIn(b) \cup
            (IF pc \in {"begin", "handler"} THEN {<<Len(stack[t]), f.event>>} ELSE {})
      /\ Drains(s) <=> Drains(b) /\ (pc # "drain" => rest = <<>>)
  BY <1>1, <1>2, <1>3, <1>4, <1>5, FrameAdded
<1> QED BY <1>1, <1>2, <1>6, <1>7 DEF b, f, s

\* emit of an event that is nowhere, or no longer where it was: it is in one place afterwards.
LEMMA EmitMoves ==
    ASSUME StacksOK, history \in Seq(Event), HandledOnce,
           NEW t \in Thread, NEW x \in Event, NEW calls \in Seq(Frame), emit(t, x, calls),
           UNCHANGED handled, x <= emitted',
           \A u \in Thread \ {t} : Drains(stack[u]) /\ TakenIn(stack[u], x) = {},
           Drains(calls), DueIn(calls) = DueIn(stack[t]), TakenIn(calls, x) = {},
           Positions(x, queue) = {}, Positions(x, history) = {},
           \A e \in Event \ {x} : /\ OnePlace(e) /\ (e <= emitted' <=> e <= emitted)
                                  /\ One(TakenIn(calls, e))
                                  /\ TakenIn(calls, e) = {} <=> TakenIn(stack[t], e) = {}
    PROVE  KeptInv'
<1> DEFINE f == [at |-> "begin", event |-> x, rest |-> <<>>]
           new == IF emitting THEN {} ELSE {<<Len(calls) + 1, x>>}
<1>1. PICK s \in Seq(Frame) :
        /\ stack' = [stack EXCEPT ![t] = s]
        /\ \A e : TakenIn(s, e) = TakenIn(calls, e)
        /\ Drains(s) /\ DueIn(s) = DueIn(calls) \cup new
  <2>1. CASE emitting
    BY <2>1 DEF emit
  <2>2. CASE ~emitting
    <3>1. f \in Frame
      <4>1. <<>> \in Seq(Event) BY EmptySeq
      <4> QED BY <4>1 DEF Frame
    <3>2. stack' = [stack EXCEPT ![t] = Append(calls, f)]
      BY <2>2 DEF emit
    <3>3. f.at = "begin" /\ f.event = x /\ f.rest = <<>>
      OBVIOUS
    <3> HIDE DEF f
    <3>4. Append(calls, f) \in Seq(Frame)
      BY <3>1, AppendProperties
    <3>5. /\ \A e : TakenIn(Append(calls, f), e) = TakenIn(calls, e)
                            \cup {<<Len(calls) + 1, j>> : j \in Positions(e, f.rest)}
          /\ DueIn(Append(calls, f)) = DueIn(calls) \cup {<<Len(calls) + 1, x>>}
          /\ Drains(Append(calls, f))
      BY <3>1, <3>3, FrameAdded
    <3>6. \A e : TakenIn(Append(calls, f), e) = TakenIn(calls, e)
      <4> TAKE e
      <4>1. Positions(e, f.rest) = {}
        BY <3>3, NowhereInEmpty
      <4>2. {<<Len(calls) + 1, j>> : j \in Positions(e, f.rest)} = {}
        BY <4>1
      <4> QED BY <3>5, <4>2
    <3> QED BY <2>2, <3>2, <3>4, <3>5, <3>6
  <2> QED BY <2>1, <2>2
<1>2. /\ stack'[t] = s /\ \A u \in Thread \ {t} : stack'[u] = stack[u]
      /\ queue \in Seq(Event) /\ history' \in Seq(Event)
  <2>1. stack \in [Thread -> Seq(Frame)] /\ queue \in Seq(Event)
    BY DEF StacksOK
  <2>2. history' \in Seq(Event)
    <3>1. Append(history, x) \in Seq(Event)
      BY AppendProperties
    <3> QED BY <3>1 DEF emit
  <2> QED BY <1>1, <2>1, <2>2
<1>3. \A e : /\ Positions(e, queue') = Positions(e, queue)
                    \cup (IF emitting /\ e = x THEN {Len(queue) + 1} ELSE {})
             /\ Positions(e, history') = Positions(e, history)
                    \cup (IF ~emitting /\ e = x THEN {Len(history) + 1} ELSE {})
  <2> TAKE e
  <2>1. /\ Positions(e, Append(queue, x)) = Positions(e, queue)
                \cup (IF e = x THEN {Len(queue) + 1} ELSE {})
        /\ Positions(e, Append(history, x)) = Positions(e, history)
                \cup (IF e = x THEN {Len(history) + 1} ELSE {})
    BY <1>2, PositionsAppended
  <2>2. CASE emitting
    <3>1. queue' = Append(queue, x) /\ history' = history
      BY <2>2 DEF emit
    <3> QED BY <2>1, <2>2, <3>1
  <2>3. CASE ~emitting
    <3>1. history' = Append(history, x) /\ queue' = queue
      BY <2>3 DEF emit
    <3> QED BY <2>1, <2>3, <3>1
  <2> QED BY <2>2, <2>3
<1>4. \A u \in Thread : Drains(stack'[u])
  BY <1>1, <1>2
<1>5. ASSUME NEW e \in Event \ {x} PROVE OnePlace(e)'
  <2> DEFINE old == [u \in Thread |-> TakenIn(stack[u], e)]
             then == [u \in Thread |-> TakenIn(stack'[u], e)]
  <2>1. InOnePlace(e <= emitted, Positions(e, queue), Positions(e, history), old)
    BY DEF OnePlace
  <2>2. Positions(e, queue') = Positions(e, queue) /\ Positions(e, history') = Positions(e, history)
    BY <1>3
  <2>3. One(Positions(e, queue)) /\ One(Positions(e, history)) /\ \A u \in Thread : One(old[u])
    BY <2>1 DEF InOnePlace
  <2>4. \A u \in Thread : One(then[u]) /\ (then[u] = {} <=> old[u] = {})
    <3> TAKE u \in Thread
    <3>1. CASE u = t
      BY <1>1, <1>2, <3>1
    <3>2. CASE u # t
      BY <1>2, <2>3, <3>2
    <3> QED BY <3>1, <3>2
  <2> HIDE DEF old, then
  <2>5. InOnePlace(e <= emitted', Positions(e, queue'), Positions(e, history'), then)
    <3>1. e <= emitted' <=> e <= emitted
      OBVIOUS
    <3> QED BY <2>1, <2>2, <2>3, <2>4, <3>1 DEF InOnePlace
  <2> QED BY <2>5 DEF OnePlace, then
<1>6. OnePlace(x)'
  <2> DEFINE then == [u \in Thread |-> TakenIn(stack'[u], x)]
  <2>1. \A u \in Thread : then[u] = {}
    <3> TAKE u \in Thread
    <3>1. CASE u = t
      BY <1>1, <1>2, <3>1
    <3>2. CASE u # t
      BY <1>2, <3>2
    <3> QED BY <3>1, <3>2
  <2>2. \/ Positions(x, queue') = {Len(queue) + 1} /\ Positions(x, history') = {}
        \/ Positions(x, queue') = {} /\ Positions(x, history') = {Len(history) + 1}
    BY <1>3
  <2> HIDE DEF then
  <2>3. InOnePlace(x <= emitted', Positions(x, queue'), Positions(x, history'), then)
    BY <2>1, <2>2 DEF InOnePlace, One
  <2> QED BY <2>3 DEF OnePlace, then
<1>7. HandledOnce'
  <2>1. \A e : Positions(e, history) # {} => Positions(e, history') # {}
    BY <1>3
  <2>2. DueIn(stack'[t]) = DueIn(stack[t]) \cup new
        /\ \A u \in Thread \ {t} : DueIn(stack'[u]) = DueIn(stack[u])
    BY <1>1, <1>2
  <2>3. \A u \in Thread : \A d \in DueIn(stack[u]) : d[2] # x
    BY DEF HandledOnce
  <2>4. handled[x] = 0
    BY DEF HandledOnce
  <2>5. ASSUME NEW u \in Thread, NEW d \in DueIn(stack'[u])
        PROVE  d \in DueIn(stack[u]) \/ (u = t /\ d \in new)
    BY <2>2, <2>5
  <2>6. \A d \in new : d = <<Len(calls) + 1, x>> /\ d[2] = x /\ Positions(x, history') # {}
    <3>1. CASE emitting
      BY <3>1
    <3>2. CASE ~emitting
      <4>1. new = {<<Len(calls) + 1, x>>} /\ Positions(x, history') # {}
        BY <1>3, <3>2
      <4> HIDE DEF new
      <4> QED BY <4>1
    <3> QED BY <3>1, <3>2
  <2> HIDE DEF new
  <2>7. ASSUME NEW u \in Thread, NEW d \in DueIn(stack'[u])
        PROVE  /\ d[2] \in Event /\ Positions(d[2], history') # {} /\ handled[d[2]] = 0
               /\ \A w \in Thread : \A c \in DueIn(stack'[w]) : c[2] = d[2] => w = u /\ c = d
    <3>1. CASE d \in DueIn(stack[u])
      <4>1. d[2] \in Event /\ Positions(d[2], history') # {} /\ handled[d[2]] = 0
        BY <2>1, <3>1 DEF HandledOnce
      <4>2. ASSUME NEW w \in Thread, NEW c \in DueIn(stack'[w]), c[2] = d[2] PROVE w = u /\ c = d
        BY <2>3, <2>5, <2>6, <3>1, <4>2 DEF HandledOnce
      <4> QED BY <4>1, <4>2
    <3>2. CASE u = t /\ d \in new
      <4>1. d[2] \in Event /\ Positions(d[2], history') # {} /\ handled[d[2]] = 0
        BY <2>4, <2>6, <3>2
      <4>2. ASSUME NEW w \in Thread, NEW c \in DueIn(stack'[w]), c[2] = d[2] PROVE w = u /\ c = d
        BY <2>3, <2>5, <2>6, <3>2, <4>2
      <4> QED BY <4>1, <4>2
    <3> QED BY <2>5, <2>7, <3>1, <3>2
  <2>8. \A e \in Event : handled[e] # 0 => Positions(e, history') # {}
    BY <2>1 DEF HandledOnce
  <2> QED BY <2>7, <2>8 DEF HandledOnce
<1> QED BY <1>2, <1>4, <1>5, <1>6, <1>7 DEF KeptInv

\* A step that moves no event.
LEMMA PlacesKept ==
    ASSUME StacksOK, KeptInv, NEW t \in Thread, NEW s \in Seq(Frame),
           stack' = [stack EXCEPT ![t] = s], \A e : TakenIn(s, e) = TakenIn(stack[t], e), Drains(s),
           UNCHANGED <<queue, history, emitted>>, HandledOnce'
    PROVE  KeptInv'
<1>1. stack'[t] = s /\ \A u \in Thread \ {t} : stack'[u] = stack[u]
  BY DEF StacksOK
<1>2. \A u \in Thread : Drains(stack'[u])
  BY <1>1 DEF KeptInv
<1>3. ASSUME NEW e \in Event PROVE OnePlace(e)'
  <2>1. \A u \in Thread : TakenIn(stack'[u], e) = TakenIn(stack[u], e)
    BY <1>1
  <2>2. [u \in Thread |-> TakenIn(stack'[u], e)] = [u \in Thread |-> TakenIn(stack[u], e)]
    BY <2>1
  <2>3. OnePlace(e)
    BY DEF KeptInv
  <2> QED BY <2>2, <2>3 DEF OnePlace
<1> QED BY <1>2, <1>3 DEF KeptInv

\* A step after which no more handlers are due than before, and none has run.
LEMMA NoneHandled ==
    ASSUME StacksOK, HandledOnce, NEW t \in Thread, NEW s \in Seq(Frame),
           stack' = [stack EXCEPT ![t] = s], DueIn(s) \subseteq DueIn(stack[t]),
           UNCHANGED <<history, handled>>
    PROVE  HandledOnce'
<1>1. \A u \in Thread : DueIn(stack'[u]) \subseteq DueIn(stack[u])
  <2>1. stack'[t] = s /\ \A u \in Thread \ {t} : stack'[u] = stack[u]
    BY DEF StacksOK
  <2> QED BY <2>1
<1> QED BY <1>1 DEF HandledOnce

\* A handler that begins takes one subscription of its event, once.
LEMMA BeginKeeps ==
    ASSUME StacksOK, KeptInv, NEW t \in Thread, Begin(t)
    PROVE  KeptInv'
<1> DEFINE s == Continued(t, "handler", <<>>)
<1>1. /\ stack[t] # <<>> /\ Top(t).at = "begin" /\ stack' = [stack EXCEPT ![t] = s]
      /\ UNCHANGED <<queue, history, emitted, handled>>
  BY DEF Begin, At, Goto
<1>2. Drains(stack[t]) /\ HandledOnce /\ <<>> \in Seq(Event)
  BY EmptySeq DEF KeptInv
<1>3. /\ s \in Seq(Frame) /\ Drains(s) /\ DueIn(s) = DueIn(stack[t]) /\ Top(t).rest = <<>>
      /\ \A e : /\ TakenIn(stack[t], e) = TakenIn(Below(t), e)
                        \cup {<<Len(stack[t]), j>> : j \in Positions(e, Top(t).rest)}
                /\ TakenIn(s, e) = TakenIn(Below(t), e)
                        \cup {<<Len(stack[t]), j>> : j \in Positions(e, <<>>)}
  BY <1>1, <1>2, GoesOn
<1> HIDE DEF s
<1>4. \A e : TakenIn(s, e) = TakenIn(stack[t], e)
  BY <1>3
<1>5. HandledOnce'
  BY <1>1, <1>2, <1>3, NoneHandled
<1> QED BY <1>1, <1>3, <1>4, <1>5, PlacesKept

\* The handler that runs is the only one that is due for its event, and it has not run before.
LEMMA HandleKeeps ==
    ASSUME StacksOK, KeptInv, NEW t \in Thread, Handle(t)
    PROVE  /\ KeptInv'
           /\ Top(t).event \in Event /\ Positions(Top(t).event, history) # {}
           /\ handled[Top(t).event] = 0
<1> DEFINE s == Continued(t, "running", <<>>)
           x == Top(t).event
           d == <<Len(stack[t]), x>>
<1>1. /\ stack[t] # <<>> /\ Top(t).at = "handler" /\ stack' = [stack EXCEPT ![t] = s]
      /\ UNCHANGED <<queue, history, emitted>> /\ handled' = [handled EXCEPT ![x] = @ + 1]
  BY DEF Handle, At, Goto
<1>2. Drains(stack[t]) /\ HandledOnce /\ <<>> \in Seq(Event)
  BY EmptySeq DEF KeptInv
<1>3. /\ s \in Seq(Frame) /\ Drains(s) /\ x \in Event
      /\ DueIn(stack[t]) = DueIn(s) \cup {d} /\ DueIn(s) = DueIn(Below(t))
      /\ \A e : TakenIn(s, e) = TakenIn(stack[t], e)
  <2>1. /\ s \in Seq(Frame) /\ Drains(s) /\ x \in Event /\ Top(t).rest = <<>>
        /\ DueIn(stack[t]) = DueIn(Below(t)) \cup
                (IF Top(t).at \in {"begin", "handler"} THEN {d} ELSE {})
    BY <1>1, <1>2, GoesOn
  <2>3. DueIn(s) = DueIn(Below(t)) \cup
                (IF "running" \in {"begin", "handler"} THEN {d} ELSE {})
    BY <1>1, <1>2, GoesOn
  <2>4. DueIn(stack[t]) = DueIn(Below(t)) \cup {d} /\ DueIn(s) = DueIn(Below(t))
    BY <1>1, <2>1, <2>3
  <2>2. \A e : /\ TakenIn(stack[t], e) = TakenIn(Below(t), e)
                        \cup {<<Len(stack[t]), j>> : j \in Positions(e, Top(t).rest)}
              /\ TakenIn(s, e) = TakenIn(Below(t), e)
                        \cup {<<Len(stack[t]), j>> : j \in Positions(e, <<>>)}
    BY <1>1, <1>2, GoesOn
  <2> HIDE DEF s
  <2> QED BY <2>1, <2>2, <2>4
<1>4. d \notin DueIn(s)
  <2>1. stack[t] \in Seq(Frame)
    BY DEF StacksOK
  <2>2. Below(t) = Front(stack[t]) /\ Len(stack[t]) \in Nat \ {0}
        /\ Front(stack[t]) \in Seq(Frame) /\ Len(Front(stack[t])) = Len(stack[t]) - 1
    BY <1>1, <2>1, FrontAndLast DEF Below, Front
  <2>3. Len(stack[t]) \notin DOMAIN Below(t)
    BY <2>2, LenProperties
  <2> QED BY <1>3, <2>3 DEF DueIn
<1>5. d[2] = x
  OBVIOUS
<1> HIDE DEF s, d, x
<1>6. x \in Event /\ Positions(x, history) # {} /\ handled[x] = 0
      /\ \A u \in Thread : \A c \in DueIn(stack[u]) : c[2] = x => u = t /\ c = d
  BY <1>2, <1>3, <1>5 DEF HandledOnce
<1>7. /\ handled' \in [Event -> 0 .. 1] /\ handled'[x] = 1
      /\ \A e \in Event : e # x => handled'[e] = handled[e]
  <2>1. handled' = [handled EXCEPT ![x] = 1]
    BY <1>1, <1>6
  <2> QED BY <1>2, <1>6, <2>1 DEF HandledOnce
<1>8. /\ \A u \in Thread : DueIn(stack'[u]) \subseteq DueIn(stack[u])
      /\ DueIn(stack'[t]) = DueIn(s)
  <2>1. stack'[t] = s /\ \A u \in Thread \ {t} : stack'[u] = stack[u]
    BY <1>1, <1>3 DEF StacksOK
  <2> QED BY <1>3, <2>1
<1>9. \A u \in Thread : \A c \in DueIn(stack'[u]) : c[2] # x
  BY <1>3, <1>4, <1>6, <1>8
<1>10. HandledOnce'
  <2>1. \A e \in Event : handled'[e] # 0 => Positions(e, history') # {}
    BY <1>1, <1>2, <1>6, <1>7 DEF HandledOnce
  <2>2. ASSUME NEW u \in Thread, NEW c \in DueIn(stack'[u])
        PROVE  /\ c[2] \in Event /\ Positions(c[2], history') # {} /\ handled'[c[2]] = 0
               /\ \A w \in Thread : \A b \in DueIn(stack'[w]) : b[2] = c[2] => w = u /\ b = c
    <3>1. c \in DueIn(stack[u]) /\ c[2] # x
      BY <1>8, <1>9, <2>2
    <3>2. c[2] \in Event /\ Positions(c[2], history) # {} /\ handled[c[2]] = 0
      BY <1>2, <3>1 DEF HandledOnce
    <3>3. \A w \in Thread : \A b \in DueIn(stack[w]) : b[2] = c[2] => w = u /\ b = c
      BY <1>2, <3>1 DEF HandledOnce
    <3> QED BY <1>1, <1>7, <1>8, <3>1, <3>2, <3>3
  <2> QED BY <1>7, <2>1, <2>2 DEF HandledOnce
<1>11. KeptInv'
  BY <1>1, <1>3, <1>10, PlacesKept
<1> QED BY <1>6, <1>11 DEF x

\* The queue moves into the call that finishes, as a whole.
LEMMA FinishKeeps ==
    ASSUME StacksOK, KeptInv, NEW t \in Thread, Finish(t)
    PROVE  KeptInv'
<1> DEFINE s == Continued(t, "drain", queue)
           n == Len(stack[t])
<1>1. /\ stack[t] # <<>> /\ Top(t).at = "running" /\ stack' = [stack EXCEPT ![t] = s]
      /\ queue' = <<>> /\ UNCHANGED <<history, emitted, handled>>
  BY DEF Finish, At
<1>2. Drains(stack[t]) /\ HandledOnce /\ queue \in Seq(Event) /\ stack \in [Thread -> Seq(Frame)]
  BY DEF KeptInv, StacksOK
<1>3. /\ s \in Seq(Frame) /\ Drains(s) /\ DueIn(s) = DueIn(stack[t])
      /\ Top(t).rest = <<>>
      /\ \A e : /\ TakenIn(stack[t], e) = TakenIn(Below(t), e)
                        \cup {<<n, j>> : j \in Positions(e, Top(t).rest)}
                /\ TakenIn(s, e) = TakenIn(Below(t), e) \cup {<<n, j>> : j \in Positions(e, queue)}
  BY <1>1, <1>2, GoesOn
<1> HIDE DEF s, n
<1>4. \A e : TakenIn(s, e) = TakenIn(stack[t], e) \cup {<<n, j>> : j \in Positions(e, queue)}
  <2> TAKE e
  <2>1. {<<n, j>> : j \in Positions(e, Top(t).rest)} = {}
    BY <1>3, NowhereInEmpty
  <2> QED BY <1>3, <2>1
<1>5. HandledOnce'
  BY <1>1, <1>2, <1>3, NoneHandled
<1>6. stack'[t] = s /\ \A u \in Thread \ {t} : stack'[u] = stack[u]
  BY <1>1, <1>2
<1>7. ASSUME NEW e \in Event PROVE OnePlace(e)'
  <2> DEFINE q == Positions(e, queue)
             h == Positions(e, history)
             old == [u \in Thread |-> TakenIn(stack[u], e)]
             then == [u \in Thread |-> TakenIn(stack'[u], e)]
  <2>1. InOnePlace(e <= emitted, q, h, old)
    BY DEF KeptInv, OnePlace
  <2>2. then[t] = old[t] \cup {<<n, j>> : j \in q} /\ \A u \in Thread \ {t} : then[u] = old[u]
    BY <1>4, <1>6
  <2>3. Positions(e, queue') = {} /\ Positions(e, history') = h /\ emitted' = emitted
    BY <1>1, NowhereInEmpty
  <2> HIDE DEF q, h, old, then
  <2>4. CASE q = {}
    <3>1. {<<n, j>> : j \in q} = {}
      BY <2>4
    <3>2. \A u \in Thread : then[u] = old[u]
      BY <2>2, <3>1
    <3>3. InOnePlace(e <= emitted, {}, h, then)
      BY <2>1, <2>4, <3>2 DEF InOnePlace
    <3> QED BY <2>3, <3>3 DEF OnePlace, then
  <2>5. CASE q # {}
    <3>1. h = {} /\ \A u \in Thread : old[u] = {}
      BY <2>1, <2>5 DEF InOnePlace
    <3>2. then[t] # {} /\ One(then[t]) /\ \A u \in Thread \ {t} : then[u] = {}
      <4>1. then[t] = {<<n, j>> : j \in q} /\ \A u \in Thread \ {t} : then[u] = {}
        BY <2>2, <3>1
      <4>2. One(q)
        BY <2>1 DEF InOnePlace
      <4> QED BY <2>5, <4>1, <4>2 DEF One
    <3>3. One(h) /\ One({}) /\ \A u \in Thread : One(then[u])
      BY <3>1, <3>2 DEF One
    <3>4. InOnePlace(e <= emitted, {}, h, then)
      BY <2>1, <2>5, <3>1, <3>2, <3>3 DEF InOnePlace
    <3> QED BY <2>3, <3>4 DEF OnePlace, then
  <2> QED BY <2>4, <2>5
<1>8. \A u \in Thread : Drains(stack'[u])
  BY <1>3, <1>6 DEF KeptInv
<1> QED BY <1>1, <1>5, <1>7, <1>8 DEF KeptInv

\* The head of what a call has taken goes to the history or back to the queue; the rest moves up.
LEMMA DrainKeeps ==
    ASSUME StacksOK, KeptInv, NEW t \in Thread, Drain(t)
    PROVE  KeptInv'
<1> DEFINE r == Top(t).rest
           b == Below(t)
           n == Len(stack[t])
<1>1. /\ stack[t] # <<>> /\ Top(t).at = "drain" /\ UNCHANGED <<emitting, emitted, handled>>
      /\ <<>> \in Seq(Event)
  BY EmptySeq DEF Drain, At
<1>2. Drains(stack[t]) /\ HandledOnce /\ stack \in [Thread -> Seq(Frame)]
  BY DEF KeptInv, StacksOK
<1>3. /\ r \in Seq(Event) /\ b \in Seq(Frame) /\ Drains(b)
      /\ DueIn(stack[t]) = DueIn(b) \cup
            (IF Top(t).at \in {"begin", "handler"} THEN {<<n, Top(t).event>>} ELSE {})
      /\ \A e : TakenIn(stack[t], e) = TakenIn(b, e) \cup {<<n, j>> : j \in Positions(e, r)}
  BY <1>1, <1>2, GoesOn
<1>4. DueIn(stack[t]) = DueIn(b)
  BY <1>1, <1>3
<1> HIDE DEF r, b, n
<1>5. CASE r = <<>>
  <2>1. stack' = [stack EXCEPT ![t] = b] /\ UNCHANGED <<queue, history>>
    BY <1>5 DEF Drain, r, b
  <2>2. \A e : TakenIn(b, e) = TakenIn(stack[t], e)
    <3> TAKE e
    <3>1. {<<n, j>> : j \in Positions(e, r)} = {}
      BY <1>5, NowhereInEmpty
    <3> QED BY <1>3, <3>1
  <2>3. HandledOnce'
    BY <1>1, <1>2, <1>3, <1>4, <2>1, NoneHandled
  <2> QED BY <1>1, <1>3, <2>1, <2>2, <2>3, PlacesKept
<1>6. CASE r # <<>>
  <2> DEFINE x == Head(r)
             s == Continued(t, "drain", Tail(r))
  <2>1. x \in Event /\ Tail(r) \in Seq(Event) /\ emit(t, x, s)
    BY <1>3, <1>6, HeadTailProperties DEF Drain, r
  <2>2. /\ s \in Seq(Frame) /\ Drains(s)
        /\ DueIn(s) = DueIn(b) \cup
            (IF "drain" \in {"begin", "handler"} THEN {<<n, Top(t).event>>} ELSE {})
        /\ \A e : TakenIn(s, e) = TakenIn(b, e) \cup {<<n, j>> : j \in Positions(e, Tail(r))}
    <3> DEFINE rest == Tail(r)
    <3>1. rest \in Seq(Event) /\ s = Continued(t, "drain", rest)
      BY <2>1
    <3> HIDE DEF rest, s
    <3>2. s \in Seq(Frame) /\ Drains(s)
      BY <1>1, <1>2, <3>1, GoesOn
    <3>3. DueIn(s) = DueIn(b) \cup
            (IF "drain" \in {"begin", "handler"} THEN {<<n, Top(t).event>>} ELSE {})
      BY <1>1, <1>2, <3>1, GoesOn DEF b, n
    <3>4. \A e : TakenIn(s, e) = TakenIn(b, e) \cup {<<n, j>> : j \in Positions(e, rest)}
      BY <1>1, <1>2, <3>1, GoesOn DEF b, n
    <3> QED BY <3>2, <3>3, <3>4 DEF rest
  <2>3. DueIn(s) = DueIn(stack[t])
    BY <1>4, <2>2
  <2>4. \A e : Positions(e, r) = {j + 1 : j \in Positions(e, Tail(r))}
                                 \cup (IF e = x THEN {1} ELSE {})
    BY <1>3, <1>6, PositionsOfTail
  <2>5. \A e : Positions(e, Tail(r)) \subseteq Nat \ {0}
    BY <2>1, LenProperties DEF Positions
  <2> HIDE DEF x, s
  <2>6. <<n, 1>> \in TakenIn(stack[t], x)
    BY <1>3, <2>4
  <2>7. /\ \A u \in Thread \ {t} : TakenIn(stack[u], x) = {}
        /\ Positions(x, queue) = {} /\ Positions(x, history) = {}
        /\ One(TakenIn(stack[t], x)) /\ x <= emitted
    <3> DEFINE old == [u \in Thread |-> TakenIn(stack[u], x)]
    <3>1. InOnePlace(x <= emitted, Positions(x, queue), Positions(x, history), old)
      BY <2>1 DEF KeptInv, OnePlace
    <3>2. \A u \in Thread : old[u] = TakenIn(stack[u], x)
      OBVIOUS
    <3> HIDE DEF old
    <3>3. old[t] # {}
      BY <2>6, <3>2
    <3> QED BY <3>1, <3>2, <3>3 DEF InOnePlace
  <2>8. TakenIn(s, x) = {}
    <3>1. \A p \in TakenIn(stack[t], x) : p = <<n, 1>>
      BY <2>6, <2>7 DEF One
    <3>2. \A p \in TakenIn(b, x) : p = <<n, 1>>
      BY <1>3, <3>1
    <3>3. <<n, 1>> \notin TakenIn(b, x)
      <4>1. Len(b) = n - 1 /\ n \in Nat \ {0}
        BY <1>1, <1>2, FrontAndLast DEF Below, Front, b, n
      <4>2. n \notin DOMAIN b
        BY <1>3, <4>1, LenProperties
      <4> QED BY <4>2 DEF TakenIn
    <3>4. \A j \in Positions(x, Tail(r)) : FALSE
      <4> SUFFICES ASSUME NEW j \in Positions(x, Tail(r)) PROVE FALSE
        OBVIOUS
      <4>1. j + 1 \in Positions(x, r) /\ j + 1 # 1
        BY <2>4, <2>5
      <4>2. <<n, j + 1>> \in TakenIn(stack[t], x)
        BY <1>3, <4>1
      <4> QED BY <3>1, <4>1, <4>2
    <3>5. Positions(x, Tail(r)) = {} /\ TakenIn(b, x) = {}
      BY <3>2, <3>3, <3>4
    <3> QED BY <2>2, <3>5
  <2>9. ASSUME NEW e \in Event \ {x}
        PROVE  /\ OnePlace(e) /\ (e <= emitted' <=> e <= emitted) /\ One(TakenIn(s, e))
               /\ TakenIn(s, e) = {} <=> TakenIn(stack[t], e) = {}
    <3>1. OnePlace(e) /\ (e <= emitted' <=> e <= emitted)
      BY <1>1 DEF KeptInv
    <3>2. One(TakenIn(stack[t], e))
      BY <3>1 DEF OnePlace, InOnePlace
    <3>3. Positions(e, r) = {j + 1 : j \in Positions(e, Tail(r))}
      BY <2>4
    <3> DEFINE before == {<<n, j>> : j \in Positions(e, r)}
               after == {<<n, j>> : j \in Positions(e, Tail(r))}
    <3>4. \A j \in Positions(e, Tail(r)) : <<n, j + 1>> \in before
      BY <3>3
    <3>5. before = {} <=> after = {}
      <4>1. Positions(e, r) = {} <=> Positions(e, Tail(r)) = {}
        BY <3>3
      <4>2. before = {} <=> Positions(e, r) = {}
        OBVIOUS
      <4>3. after = {} <=> Positions(e, Tail(r)) = {}
        OBVIOUS
      <4> QED
        BY <4>1, <4>2, <4>3
    <3>6. ASSUME NEW p \in TakenIn(s, e), NEW o \in TakenIn(s, e) PROVE p = o
      <4>1. /\ p \in TakenIn(b, e) \/ \E j \in Positions(e, Tail(r)) : p = <<n, j>>
            /\ o \in TakenIn(b, e) \/ \E j \in Positions(e, Tail(r)) : o = <<n, j>>
        BY <2>2, <3>6
      <4>2. TakenIn(stack[t], e) = TakenIn(b, e) \cup before
        BY <1>3
      <4>3. n \notin DOMAIN b
        <5>1. Len(b) = n - 1 /\ n \in Nat \ {0}
          BY <1>1, <1>2, FrontAndLast DEF Below, Front, b, n
        <5> QED BY <1>3, <5>1, LenProperties
      <4>4. \A i, j : <<i, j>> \in TakenIn(b, e) => i # n
        BY <4>3 DEF TakenIn
      <4>5. CASE p \in TakenIn(b, e) /\ o \in TakenIn(b, e)
        BY <3>2, <4>2, <4>5 DEF One
      <4>6. \A q \in TakenIn(b, e), j \in Positions(e, Tail(r)) : FALSE
        <5> SUFFICES ASSUME NEW q \in TakenIn(b, e), NEW j \in Positions(e, Tail(r)) PROVE FALSE
          OBVIOUS
        <5>1. q = <<n, j + 1>>
          BY <3>2, <3>4, <4>2 DEF One
        <5> QED BY <4>4, <5>1
      <4>7. ASSUME NEW i \in Positions(e, Tail(r)), NEW j \in Positions(e, Tail(r)) PROVE i = j
        <5>1. <<n, i + 1>> = <<n, j + 1>>
          BY <3>2, <3>4, <4>2 DEF One
        <5>2. i \in Nat /\ j \in Nat /\ i + 1 = j + 1
          BY <2>5, <5>1
        <5> QED BY <5>2
      <4> QED BY <4>1, <4>5, <4>6, <4>7
    <3>7. One(TakenIn(s, e))
      BY <3>6 DEF One
    <3> QED BY <1>3, <2>2, <3>1, <3>5, <3>7
  <2>10. history \in Seq(Event) /\ \A u \in Thread : Drains(stack[u])
    BY DEF KeptInv
  <2> QED BY <1>1, <1>2, <2>1, <2>2, <2>3, <2>7, <2>8, <2>9, <2>10, EmitMoves
<1> QED BY <1>5, <1>6

\* An event that is emitted from outside the bus was nowhere.
LEMMA NewIsNowhere ==
    ASSUME KeptInv, emitted \in 0 .. MaxEvents, emitted < MaxEvents
    PROVE  LET x == emitted + 1
           IN  /\ x \in Event /\ Positions(x, queue) = {} /\ Positions(x, history) = {}
               /\ \A u \in Thread : TakenIn(stack[u], x) = {}
               /\ handled[x] = 0
<1> DEFINE x == emitted + 1
           old == [u \in Thread |-> TakenIn(stack[u], x)]
<1>1. x \in Event /\ ~(x <= emitted)
  BY MaxEventsAssumption DEF Event
<1>2. InOnePlace(x <= emitted, Positions(x, queue), Positions(x, history), old)
  BY <1>1 DEF KeptInv, OnePlace
<1>3. \A u \in Thread : old[u] = TakenIn(stack[u], x)
  OBVIOUS
<1> HIDE DEF old, x
<1>4. /\ Positions(x, queue) = {} /\ Positions(x, history) = {}
      /\ \A u \in Thread : TakenIn(stack[u], x) = {}
  BY <1>1, <1>2, <1>3 DEF InOnePlace
<1>5. handled[x] = 0
  BY <1>1, <1>4 DEF KeptInv, HandledOnce
<1> QED BY <1>1, <1>4, <1>5 DEF x

\* An emission, nested or not, is a new event that nobody has handled.
LEMMA EmitKeeps ==
    ASSUME StacksOK, KeptInv, NEW t \in Thread, Emit(t) \/ EmitInside(t)
    PROVE  KeptInv'
<1> DEFINE x == emitted + 1
<1>1. /\ emitted < MaxEvents /\ emitted' = x /\ UNCHANGED <<emitting, handled>>
      /\ emit(t, x, stack[t])
  BY DEF Emit, EmitInside
<1>2. /\ stack[t] \in Seq(Frame) /\ emitted \in 0 .. MaxEvents /\ history \in Seq(Event)
      /\ HandledOnce /\ \A u \in Thread : Drains(stack[u])
  BY DEF StacksOK, KeptInv
<1>3. /\ x \in Event /\ Positions(x, queue) = {} /\ Positions(x, history) = {}
      /\ \A u \in Thread : TakenIn(stack[u], x) = {}
  BY <1>1, <1>2, NewIsNowhere
<1>4. x <= emitted' /\ \A e \in Event \ {x} : e <= emitted' <=> e <= emitted
  BY <1>1, <1>2, MaxEventsAssumption DEF Event
<1>5. ASSUME NEW e \in Event \ {x} PROVE OnePlace(e) /\ One(TakenIn(stack[t], e))
  BY DEF KeptInv, OnePlace, InOnePlace
<1> HIDE DEF x
<1> QED BY <1>1, <1>2, <1>3, <1>4, <1>5, EmitMoves

\* Every step keeps the accounts of events and subscriptions.
THEOREM KeptInductive == StacksOK /\ KeptInv /\ [Next]_vars => KeptInv'
<1> SUFFICES ASSUME StacksOK, KeptInv, [Next]_vars PROVE KeptInv'
  OBVIOUS
<1>1. CASE UNCHANGED vars
  <2>1. UNCHANGED <<queue, history, stack, emitted, handled>>
    BY <1>1 DEF vars
  <2>2. \A e \in Event : OnePlace(e)' <=> OnePlace(e)
    BY <2>1 DEF OnePlace
  <2>3. HandledOnce'
    BY <2>1 DEF KeptInv, HandledOnce
  <2> QED BY <2>1, <2>2, <2>3 DEF KeptInv
<1>2. CASE Next
  BY <1>2, EmitKeeps, BeginKeeps, HandleKeeps, FinishKeeps, DrainKeeps DEF Next, Step
<1> QED BY <1>1, <1>2

\* Before the first emission nothing is queued or under way.
LEMMA InitKept == Init => StacksOK /\ KeptInv
<1> SUFFICES ASSUME Init PROVE StacksOK /\ KeptInv
  OBVIOUS
<1>1. <<>> \in Seq(Event) /\ <<>> \in Seq(Frame) /\ 0 \in 0 .. MaxEvents
  BY MaxEventsAssumption, EmptySeq
<1>2. StacksOK
  BY <1>1 DEF Init, StacksOK
<1>3. queue = <<>> /\ history = <<>> /\ emitted = 0 /\ \A t \in Thread : stack[t] = <<>>
  BY DEF Init
<1>4. \A e \in Event : OnePlace(e)
  <2> TAKE e \in Event
  <2> DEFINE taken == [t \in Thread |-> TakenIn(stack[t], e)]
  <2>1. \A t \in Thread : taken[t] = {}
    BY <1>3, NowhereInEmpty
  <2>2. ~(e <= emitted) /\ Positions(e, queue) = {} /\ Positions(e, history) = {}
    BY <1>3, NowhereInEmpty, MaxEventsAssumption DEF Event
  <2> HIDE DEF taken
  <2>3. InOnePlace(e <= emitted, Positions(e, queue), Positions(e, history), taken)
    BY <2>1, <2>2 DEF InOnePlace, One
  <2> QED BY <2>3 DEF OnePlace, taken
<1>5. HandledOnce
  <2>1. \A t \in Thread : DueIn(stack[t]) = {}
    BY <1>3, NowhereInEmpty
  <2> QED BY <2>1 DEF Init, HandledOnce
<1> QED BY <1>1, <1>2, <1>3, <1>4, <1>5, NowhereInEmpty DEF KeptInv

\* The place of an event, as the property counts it.
LEMMA PlaceCounted ==
    ASSUME KeptInv, NEW e \in Event
    PROVE  Cardinality(Places(e)) = IF e <= emitted THEN 1 ELSE 0
<1> DEFINE q == Positions(e, queue)
           h == Positions(e, history)
           taken == [t \in Thread |-> TakenIn(stack[t], e)]
<1>1. InOnePlace(e <= emitted, q, h, taken)
  BY DEF KeptInv, OnePlace
<1>2. ASSUME NEW p
      PROVE  p \in Places(e) <=> \/ \E i \in q : p = <<"queue", i>>
                                 \/ \E i \in h : p = <<"history", i>>
                                 \/ \E t \in Thread : \E d \in taken[t] : p = <<"taken", t, d[1], d[2]>>
  <2>1. p \in Places(e) <=>
            \/ \E i \in q : p = <<"queue", i>>
            \/ \E i \in h : p = <<"history", i>>
            \/ \E t \in Thread : \E i \in DOMAIN stack[t] :
                    \E j \in Positions(e, stack[t][i].rest) : p = <<"taken", t, i, j>>
    BY DEF Places
  <2>2. ASSUME NEW t \in Thread
        PROVE  (\E i \in DOMAIN stack[t] :
                    \E j \in Positions(e, stack[t][i].rest) : p = <<"taken", t, i, j>>)
               <=> \E d \in taken[t] : p = <<"taken", t, d[1], d[2]>>
    <3>1. \A d : d \in taken[t] <=> \E i \in DOMAIN stack[t] :
                    \E j \in Positions(e, stack[t][i].rest) : d = <<i, j>>
      BY DEF TakenIn
    <3> HIDE DEF taken
    <3>2. ASSUME NEW i \in DOMAIN stack[t], NEW j \in Positions(e, stack[t][i].rest)
          PROVE  <<i, j>> \in taken[t] /\ <<i, j>>[1] = i /\ <<i, j>>[2] = j
      BY <3>1
    <3>3. ASSUME NEW d \in taken[t]
          PROVE  \E i \in DOMAIN stack[t] : \E j \in Positions(e, stack[t][i].rest) :
                    <<"taken", t, d[1], d[2]>> = <<"taken", t, i, j>>
      BY <3>1
    <3>4. ASSUME NEW i \in DOMAIN stack[t], NEW j \in Positions(e, stack[t][i].rest)
          PROVE  \E d \in taken[t] : <<"taken", t, d[1], d[2]>> = <<"taken", t, i, j>>
      BY <3>2
    <3> QED BY SMTT(30), <3>3, <3>4
  <2> HIDE DEF q, h, taken
  <2> QED BY <2>1, <2>2
<1>3. \A t \in Thread : \A d \in taken[t] : d = <<d[1], d[2]>>
  BY DEF TakenIn
<1> HIDE DEF q, h, taken
<1>4. ASSUME NEW p \in Places(e), NEW o \in Places(e) PROVE p = o
  <2>1. CASE \E i \in q : p = <<"queue", i>>
    <3>1. \E i \in q : o = <<"queue", i>>
      BY <1>1, <1>2, <2>1 DEF InOnePlace
    <3> QED BY <1>1, <2>1, <3>1 DEF InOnePlace, One
  <2>2. CASE \E i \in h : p = <<"history", i>>
    <3>1. \E i \in h : o = <<"history", i>>
      BY <1>1, <1>2, <2>2 DEF InOnePlace
    <3> QED BY <1>1, <2>2, <3>1 DEF InOnePlace, One
  <2>3. CASE \E t \in Thread : \E d \in taken[t] : p = <<"taken", t, d[1], d[2]>>
    <3>1. PICK t \in Thread : \E d \in taken[t] : p = <<"taken", t, d[1], d[2]>>
      BY <2>3
    <3>2. \E d \in taken[t] : o = <<"taken", t, d[1], d[2]>>
      BY <1>1, <1>2, <3>1 DEF InOnePlace
    <3> QED BY <1>1, <3>1, <3>2 DEF InOnePlace, One
  <2> QED BY <1>2, <2>1, <2>2, <2>3
<1>5. Places(e) # {} <=> e <= emitted
  BY <1>1, <1>2 DEF InOnePlace
<1>6. CASE e <= emitted
  <2>1. PICK p : Places(e) = {p}
    BY <1>4, <1>5, <1>6
  <2> QED BY <1>6, <2>1, FS_Singleton
<1>7. CASE ~(e <= emitted)
  BY <1>5, <1>7, FS_EmptySet
<1> QED BY <1>6, <1>7

\* However threads and handlers interleave, every event emitted is in one place of the bus, is
\* dispatched once and handled once: none is lost, copied or handled twice.
THEOREM EventsKeptHolds == Spec => []EventsKept
<1>1. IInv /\ KeptInv => EventsKept
  <2> SUFFICES ASSUME IInv, KeptInv PROVE EventsKept
    OBVIOUS
  <2>1. TypeOK
    BY DEF IInv, StacksOK, KeptInv, HandledOnce, TypeOK
  <2>2. ASSUME NEW e \in Event PROVE handled[e] <= Cardinality(Positions(e, history))
    <3>1. handled[e] \in 0 .. 1 /\ (handled[e] # 0 => Positions(e, history) # {})
      BY DEF KeptInv, HandledOnce
    <3>2. One(Positions(e, history))
      BY DEF KeptInv, OnePlace, InOnePlace
    <3>3. CASE Positions(e, history) = {}
      BY <3>1, <3>3, FS_EmptySet
    <3>4. CASE Positions(e, history) # {}
      <4>1. PICK i : Positions(e, history) = {i}
        BY <3>2, <3>4 DEF One
      <4>2. Cardinality(Positions(e, history)) = 1
        BY <4>1, FS_Singleton
      <4> QED BY <3>1, <4>2
    <3> QED BY <3>3, <3>4
  <2> QED BY <2>1, <2>2, PlaceCounted DEF EventsKept, EventsAccounted
<1>2. Init => IInv /\ KeptInv
  BY InitKept, NowhereInEmpty DEF Init, IInv, NothingStranded
<1>3. IInv /\ KeptInv /\ [Next]_vars => (IInv /\ KeptInv)'
  BY Inductive, KeptInductive DEF IInv
<1> QED BY <1>1, <1>2, <1>3, PTL DEF Spec

----------------------------------------------------------------------------
(* The bus implements Delivery                                             *)

\* Every step of the bus is an emission or a delivery of Delivery, or leaves its variables alone;
\* that every delivery comes is not part of the statement.
THEOREM StepsImplementDelivery ==
    Spec => Abstract!Init /\ [][Abstract!Next]_(Abstract!vars)
<1>1. Init => Abstract!Init
  <2> SUFFICES ASSUME Init PROVE Abstract!Init
    OBVIOUS
  <2>1. HandledEvents = {} /\ 1 .. emitted = {}
    BY DEF Init, HandledEvents
  <2> QED BY <2>1 DEF Abstract!Init
<1>2. IInv /\ KeptInv /\ [Next]_vars => [Abstract!Next]_(Abstract!vars)
  <2> SUFFICES ASSUME IInv, KeptInv, [Next]_vars PROVE [Abstract!Next]_(Abstract!vars)
    OBVIOUS
  <2>0. /\ handled \in [Event -> 0 .. 1] /\ emitted \in 0 .. MaxEvents /\ StacksOK
        /\ \A e \in Event : handled[e] # 0 => e <= emitted
    <3>1. \A e \in Event : Positions(e, history) # {} => e <= emitted
      BY DEF KeptInv, OnePlace, InOnePlace
    <3> QED BY <3>1 DEF KeptInv, HandledOnce, IInv, StacksOK
  <2>1. ASSUME UNCHANGED <<emitted, handled>> PROVE UNCHANGED Abstract!vars
    BY <2>1 DEF Abstract!vars, HandledEvents
  <2>2. ASSUME NEW t \in Thread, Emit(t) \/ EmitInside(t) PROVE Abstract!Next
    <3> DEFINE x == emitted + 1
    <3>1. emitted < MaxEvents /\ emitted' = x /\ handled' = handled
      BY <2>2 DEF Emit, EmitInside
    <3>2. x \in Event /\ handled[x] = 0
      BY <2>0, <3>1, NewIsNowhere
    <3>3. HandledEvents' = HandledEvents /\ x \notin HandledEvents
      BY <3>1, <3>2 DEF HandledEvents
    <3>4. x \notin 1 .. emitted /\ 1 .. emitted' = (1 .. emitted) \cup {x}
      BY <2>0, <3>1, MaxEventsAssumption
    <3> HIDE DEF x
    <3>5. Abstract!Emit(x)
      BY <3>3, <3>4 DEF Abstract!Emit
    <3> QED BY <3>2, <3>5 DEF Abstract!Next
  <2>3. ASSUME NEW t \in Thread, Handle(t) PROVE Abstract!Next
    <3> DEFINE x == Top(t).event
    <3>1. /\ x \in Event /\ Positions(x, history) # {} /\ handled[x] = 0
      BY <2>0, <2>3, HandleKeeps
    <3>2. emitted' = emitted /\ handled' = [handled EXCEPT ![x] = @ + 1]
      BY <2>3 DEF Handle
    <3>3. x \in 1 .. emitted
      <4>1. x <= emitted
        BY <3>1 DEF KeptInv, OnePlace, InOnePlace
      <4> QED BY <2>0, <3>1, <4>1 DEF Event
    <3> HIDE DEF x
    <3>4. handled'[x] = 1 /\ \A e \in Event : e # x => handled'[e] = handled[e]
      BY <2>0, <3>1, <3>2
    <3>5. HandledEvents' = HandledEvents \cup {x} /\ x \notin HandledEvents
      BY <3>1, <3>4 DEF HandledEvents
    <3>6. Abstract!Deliver(x)
      BY <3>2, <3>3, <3>5 DEF Abstract!Deliver
    <3> QED BY <3>1, <3>6 DEF Abstract!Next
  <2>4. ASSUME NEW t \in Thread, Begin(t) \/ Finish(t) \/ Drain(t)
        PROVE  UNCHANGED <<emitted, handled>>
    BY <2>4 DEF Begin, Finish, Drain
  <2>5. UNCHANGED vars => UNCHANGED <<emitted, handled>>
    BY DEF vars
  <2> QED BY <2>1, <2>2, <2>3, <2>4, <2>5 DEF Next, Step
<1>3. Init => IInv /\ KeptInv
  BY InitKept, NowhereInEmpty DEF Init, IInv, NothingStranded
<1>4. IInv /\ KeptInv /\ [Next]_vars => (IInv /\ KeptInv)'
  BY Inductive, KeptInductive DEF IInv
<1> QED BY <1>1, <1>2, <1>3, <1>4, PTL DEF Spec
==============================================================================
