--------------------------- MODULE TickStreamProofs ---------------------------
(***************************************************************************)
(* Theorems about the tick loop and the hub, for every set of clients,     *)
(* every depth of the queues and every number of ticks.  What a client     *)
(* was sent, is being sent and has in its queue are three consecutive      *)
(* stretches of the log; each action moves a frame from one to the next,   *)
(* or cuts off their end for good.                                         *)
(***************************************************************************)
EXTENDS TickStream, SequenceTheorems, TLAPS

Frames == Seq(Nat)

\* The three are consecutive stretches of L, from the f-th frame on.
Consecutive(f, r, s, q, L) ==
    /\ f + Len(r) + Len(s) + Len(q) <= Len(L)
    /\ \A i \in 1 .. Len(r) : r[i] = L[f + i]
    /\ \A i \in 1 .. Len(s) : s[i] = L[f + Len(r) + i]
    /\ \A i \in 1 .. Len(q) : q[i] = L[f + Len(r) + Len(s) + i]

\* A client that is served, one that is not, and one that has yet to come.
Served(c) ==
    /\ Consecutive(from[c], received[c], sending[c], queue[c], log)
    /\ c \in subscribers \ casualties =>
        from[c] + Len(received[c]) + Len(sending[c]) + Len(queue[c]) = Len(log)
Unserved(c) ==
    /\ Consecutive(from[c], received[c], <<>>, <<>>, log)
    /\ sending[c] = <<>>
    /\ c \notin subscribers
Follows(c) ==
    /\ pump[c] = "running" => Served(c)
    /\ pump[c] # "running" => Unserved(c)
    /\ pump[c] = "none" => received[c] = <<>> /\ queue[c] = <<>>

IInv ==
    /\ TypeOK
    /\ loop = "ready" => casualties = {}
    /\ \A c \in Client : Follows(c)

----------------------------------------------------------------------------
(* Stretches of a log                                                      *)

\* A frame passes from the queue to the socket.
LEMMA Taken ==
    ASSUME NEW f \in Nat, NEW r \in Frames, NEW q \in Frames, NEW L \in Frames,
           q # <<>>, Consecutive(f, r, <<>>, q, L)
    PROVE  Consecutive(f, r, <<Head(q)>>, Tail(q), L)
<1>1. /\ Len(Tail(q)) = Len(q) - 1
      /\ \A i \in 1 .. Len(Tail(q)) : Tail(q)[i] = q[i + 1]
  BY HeadTailProperties DEF Frames
<1>2. Len(r) \in Nat /\ Len(q) \in Nat \ {0} /\ Len(L) \in Nat
  BY EmptySeq, LenProperties DEF Frames
<1>3. Head(q) = q[1]
  BY DEF Frames
<1>4. /\ f + Len(r) + Len(q) <= Len(L)
      /\ \A i \in 1 .. Len(r) : r[i] = L[f + i]
      /\ \A i \in 1 .. Len(q) : q[i] = L[f + Len(r) + i]
  BY <1>2 DEF Consecutive
<1>5. /\ Len(<<Head(q)>>) = 1 /\ <<Head(q)>>[1] = Head(q)
  OBVIOUS
<1>6. Head(q) = L[f + Len(r) + 1]
  BY <1>2, <1>3, <1>4
<1>7. ASSUME NEW i \in 1 .. Len(Tail(q))
      PROVE  Tail(q)[i] = L[f + Len(r) + 1 + i]
  <2>1. i + 1 \in 1 .. Len(q) /\ f + Len(r) + (i + 1) = f + Len(r) + 1 + i
    BY <1>1, <1>2
  <2> QED BY <1>1, <1>4, <2>1
<1> HIDE DEF Frames
<1>8. f + Len(r) + 1 + Len(Tail(q)) <= Len(L)
  BY <1>1, <1>2, <1>4
<1>9. \A i \in 1 .. 1 : <<Head(q)>>[i] = L[f + Len(r) + i]
  BY <1>5, <1>6
<1> QED BY <1>4, <1>5, <1>7, <1>8, <1>9 DEF Consecutive

\* A frame arrives.
LEMMA Arrived ==
    ASSUME NEW f \in Nat, NEW r \in Frames, NEW s \in Frames, NEW q \in Frames,
           NEW L \in Frames, Consecutive(f, r, s, q, L)
    PROVE  /\ Consecutive(f, r \o s, <<>>, q, L)
           /\ Len(r \o s) = Len(r) + Len(s)
           /\ r \o s \in Frames
<1> DEFINE t == r \o s
<1>1. /\ t \in Frames
      /\ Len(t) = Len(r) + Len(s)
      /\ \A i \in 1 .. Len(r) + Len(s) : t[i] = IF i <= Len(r) THEN r[i] ELSE s[i - Len(r)]
  BY ConcatProperties DEF Frames
<1>2. Len(r) \in Nat /\ Len(s) \in Nat /\ Len(q) \in Nat /\ Len(L) \in Nat
  BY LenProperties DEF Frames
<1> HIDE DEF t
<1>3. ASSUME NEW i \in 1 .. Len(t)
      PROVE  t[i] = L[f + i]
  <2>1. CASE i <= Len(r)
    BY <1>1, <1>2, <2>1 DEF Consecutive
  <2>2. CASE i > Len(r)
    <3>1. i - Len(r) \in 1 .. Len(s) /\ f + Len(r) + (i - Len(r)) = f + i
      BY <1>1, <1>2, <2>2
    <3>2. t[i] = s[i - Len(r)]
      BY <1>1, <1>2, <2>2
    <3> QED BY <3>1, <3>2 DEF Consecutive
  <2> QED BY <1>1, <1>2, <2>1, <2>2
<1>4. Consecutive(f, t, <<>>, q, L)
  <2>1. f + Len(t) + 0 + Len(q) <= Len(L)
    BY <1>1, <1>2 DEF Consecutive
  <2>2. \A i \in 1 .. Len(q) : q[i] = L[f + Len(t) + 0 + i]
    BY <1>1, <1>2 DEF Consecutive
  <2> QED BY <1>3, <2>1, <2>2 DEF Consecutive
<1> QED BY <1>1, <1>4 DEF t

\* The log grows.
LEMMA Grown ==
    ASSUME NEW f \in Nat, NEW r \in Frames, NEW s \in Frames, NEW q \in Frames,
           NEW L \in Frames, NEW x \in Nat, Consecutive(f, r, s, q, L)
    PROVE  /\ Consecutive(f, r, s, q, Append(L, x))
           /\ f + Len(r) + Len(s) + Len(q) = Len(L) =>
                /\ Consecutive(f, r, s, Append(q, x), Append(L, x))
                /\ f + Len(r) + Len(s) + Len(Append(q, x)) = Len(Append(L, x))
<1>1. /\ Len(Append(L, x)) = Len(L) + 1
      /\ \A i \in 1 .. Len(L) : Append(L, x)[i] = L[i]
      /\ Append(L, x)[Len(L) + 1] = x
      /\ Len(Append(q, x)) = Len(q) + 1
      /\ \A i \in 1 .. Len(q) : Append(q, x)[i] = q[i]
      /\ Append(q, x)[Len(q) + 1] = x
  BY AppendProperties DEF Frames
<1>2. Len(r) \in Nat /\ Len(s) \in Nat /\ Len(q) \in Nat /\ Len(L) \in Nat
  BY LenProperties DEF Frames
<1> DEFINE M == Append(L, x)
           p == Append(q, x)
<1> HIDE DEF M, p
<1>3. Len(M) = Len(L) + 1 /\ (\A i \in 1 .. Len(L) : M[i] = L[i]) /\ M[Len(L) + 1] = x
  BY <1>1 DEF M
<1>4. Len(p) = Len(q) + 1 /\ (\A i \in 1 .. Len(q) : p[i] = q[i]) /\ p[Len(q) + 1] = x
  BY <1>1 DEF p
<1>5. /\ \A i \in 1 .. Len(r) : r[i] = M[f + i]
      /\ \A i \in 1 .. Len(s) : s[i] = M[f + Len(r) + i]
      /\ \A i \in 1 .. Len(q) : q[i] = M[f + Len(r) + Len(s) + i]
  <2>1. f + Len(r) + Len(s) + Len(q) <= Len(L)
    BY DEF Consecutive
  <2>2. ASSUME NEW i \in 1 .. Len(r) PROVE r[i] = M[f + i]
    <3>1. f + i \in 1 .. Len(L)
      BY <1>2, <2>1
    <3> QED BY <1>3, <3>1 DEF Consecutive
  <2>3. ASSUME NEW i \in 1 .. Len(s) PROVE s[i] = M[f + Len(r) + i]
    <3>1. f + Len(r) + i \in 1 .. Len(L)
      BY <1>2, <2>1
    <3> QED BY <1>3, <3>1 DEF Consecutive
  <2>4. ASSUME NEW i \in 1 .. Len(q) PROVE q[i] = M[f + Len(r) + Len(s) + i]
    <3>1. f + Len(r) + Len(s) + i \in 1 .. Len(L)
      BY <1>2, <2>1
    <3> QED BY <1>3, <3>1 DEF Consecutive
  <2> QED BY <2>2, <2>3, <2>4
<1>6. Consecutive(f, r, s, q, M)
  BY <1>2, <1>3, <1>5 DEF Consecutive
<1>7. ASSUME f + Len(r) + Len(s) + Len(q) = Len(L)
      PROVE  Consecutive(f, r, s, p, M) /\ f + Len(r) + Len(s) + Len(p) = Len(M)
  <2>1. ASSUME NEW i \in 1 .. Len(p)
        PROVE  p[i] = M[f + Len(r) + Len(s) + i]
    <3>1. CASE i \in 1 .. Len(q)
      BY <1>4, <1>5, <3>1
    <3>2. CASE i = Len(q) + 1
      <4>1. f + Len(r) + Len(s) + i = Len(L) + 1
        BY <1>2, <1>7, <3>2
      <4> QED BY <1>3, <1>4, <3>2, <4>1
    <3> QED BY <1>2, <1>4, <3>1, <3>2
  <2> QED BY <1>2, <1>3, <1>4, <1>5, <1>7, <2>1 DEF Consecutive
<1> QED BY <1>6, <1>7 DEF M, p

\* The end is cut off.
LEMMA CutOff ==
    ASSUME NEW f \in Nat, NEW r \in Frames, NEW s \in Frames, NEW q \in Frames,
           NEW L \in Frames, Consecutive(f, r, s, q, L)
    PROVE  Consecutive(f, r, <<>>, <<>>, L)
<1>1. Len(r) \in Nat /\ Len(s) \in Nat /\ Len(q) \in Nat /\ Len(L) \in Nat
  BY LenProperties DEF Frames
<1>2. f + Len(r) + 0 + 0 <= Len(L)
  BY <1>1 DEF Consecutive
<1> QED BY <1>2 DEF Consecutive

\* Two stretches in one.
LEMMA TwoStretches ==
    ASSUME NEW f \in Nat, NEW t \in Frames, NEW q \in Frames, NEW L \in Frames,
           Consecutive(f, t, <<>>, q, L)
    PROVE  /\ Len(t \o q) = Len(t) + Len(q)
           /\ \A i \in DOMAIN (t \o q) : (t \o q)[i] = L[f + i]
<1>1. Len(t) \in Nat /\ Len(q) \in Nat
  BY LenProperties DEF Frames
<1> DEFINE u == t \o q
<1>2. /\ u \in Frames /\ Len(u) = Len(t) + Len(q)
      /\ \A i \in 1 .. Len(t) + Len(q) : u[i] = IF i <= Len(t) THEN t[i] ELSE q[i - Len(t)]
  BY ConcatProperties DEF Frames
<1>3. DOMAIN u = 1 .. Len(t) + Len(q)
  <2> HIDE DEF u
  <2>1. DOMAIN u = 1 .. Len(u)
    BY <1>2, LenProperties DEF Frames
  <2> QED BY <1>2, <2>1
<1> HIDE DEF u
<1>4. /\ \A i \in 1 .. Len(t) : t[i] = L[f + i]
      /\ \A i \in 1 .. Len(q) : q[i] = L[f + Len(t) + i]
  BY <1>1 DEF Consecutive
<1>5. ASSUME NEW i \in 1 .. Len(t) + Len(q)
      PROVE  u[i] = L[f + i]
  <2>1. CASE i <= Len(t)
    <3>1. i \in 1 .. Len(t) /\ u[i] = t[i]
      BY <1>1, <1>2, <2>1
    <3> QED BY <1>4, <3>1
  <2>2. CASE i > Len(t)
    <3>1. i - Len(t) \in 1 .. Len(q) /\ f + Len(t) + (i - Len(t)) = f + i
      BY <1>1, <2>2
    <3>2. u[i] = q[i - Len(t)]
      BY <1>1, <1>2, <2>2
    <3> QED BY <1>4, <3>1, <3>2
  <2> QED BY <1>1, <2>1, <2>2
<1> QED BY <1>2, <1>3, <1>5 DEF u

\* Three stretches in one.
LEMMA OneStretch ==
    ASSUME NEW f \in Nat, NEW r \in Frames, NEW s \in Frames, NEW q \in Frames,
           NEW L \in Frames, Consecutive(f, r, s, q, L)
    PROVE  /\ Len(r \o s \o q) = Len(r) + Len(s) + Len(q)
           /\ \A i \in DOMAIN (r \o s \o q) : (r \o s \o q)[i] = L[f + i]
<1> DEFINE t == r \o s
<1>1. t \in Frames /\ Len(t) = Len(r) + Len(s) /\ Consecutive(f, t, <<>>, q, L)
  BY Arrived
<1> HIDE DEF t
<1>2. /\ Len(t \o q) = Len(t) + Len(q)
      /\ \A i \in DOMAIN (t \o q) : (t \o q)[i] = L[f + i]
  BY <1>1, TwoStretches
<1> QED BY <1>1, <1>2 DEF t

----------------------------------------------------------------------------
(* Steps                                                                   *)

\* What the assumption says of the numbers.
LEMMA Bounds == MaxTicks \in Nat /\ Depth \in Nat \ {0} /\ Warps \subseteq Nat \ {0}
  BY TickStreamAssumption

\* The parts of a simulation.
LEMMA Parts == \A s \in Simulation : s.tick \in Nat /\ s.time_warp \in Nat
<1> SUFFICES ASSUME NEW s \in Simulation PROVE s.tick \in Nat /\ s.time_warp \in Nat
  OBVIOUS
<1>1. s.tick \in 0 .. MaxTicks /\ s.time_warp \in Warps
  BY DEF Simulation
<1>2. s.tick \in Nat
  BY <1>1, Bounds
<1>3. s.time_warp \in Nat
  <2>1. Warps \subseteq Nat
    BY Bounds
  <2> QED BY <1>1, <2>1
<1> QED BY <1>2, <1>3

\* What TypeOK says of the hub, in the words of the lemmas above.
LEMMA HubTypes ==
    ASSUME TypeOK
    PROVE  /\ log \in Frames
           /\ \A c \in Client : /\ from[c] \in Nat /\ pump[c] \in PumpState
                                /\ received[c] \in Frames /\ sending[c] \in Frames
                                /\ queue[c] \in Frames
  BY DEF TypeOK, Frames

\* A client whose part of the state is left alone goes on following.
LEMMA Undisturbed ==
    ASSUME NEW d \in Client, Follows(d), log' = log,
           from'[d] = from[d], received'[d] = received[d], sending'[d] = sending[d],
           queue'[d] = queue[d], pump'[d] = pump[d],
           d \in subscribers' \ casualties' => d \in subscribers \ casualties,
           d \in subscribers' => d \in subscribers
    PROVE  Follows(d)'
  BY DEF Follows, Served, Unserved

\* The end of a pump leaves what the client has received.
LEMMA EndKeeps ==
    ASSUME IInv, NEW c \in Client, NEW how \in {"lost", "ended"},
           pump[c] = "running", EndPump(c, how), received' = received,
           sending'[c] = <<>>
    PROVE  Follows(c)'
<1>1. Served(c)
  BY DEF IInv, Follows
<1>2. Consecutive(from[c], received[c], <<>>, <<>>, log)
  <2>1. Consecutive(from[c], received[c], sending[c], queue[c], log)
    BY <1>1 DEF Served
  <2> QED BY <2>1, HubTypes, CutOff DEF IInv
<1>3. pump'[c] = how /\ c \notin subscribers' /\ log' = log /\ from' = from
  BY DEF EndPump, IInv, TypeOK
<1> QED BY <1>2, <1>3 DEF Follows, Unserved

\* The control endpoints do not touch the hub.
LEMMA EndpointsKeep == ASSUME IInv, Endpoints PROVE IInv'
<1>1. UNCHANGED hub /\ log' = log
  BY DEF Endpoints, SetPaused, SetTimeWarp, Step, Resume
<1>2. sim' \in [{"own", "restored"} -> Simulation] /\ shown' \in {"own", "restored"}
  <2>1. ASSUME NEW paused \in BOOLEAN, SetPaused(paused)
        PROVE  sim' \in [{"own", "restored"} -> Simulation]
    <3>1. sim \in [{"own", "restored"} -> Simulation] /\ sim[shown] \in Simulation
      BY DEF IInv, TypeOK
    <3>2. [sim[shown] EXCEPT !.paused = paused] \in Simulation
      BY <2>1, <3>1 DEF Simulation
    <3> QED
      BY <2>1, <3>1, <3>2 DEF SetPaused
  <2>2. ASSUME NEW warp \in Warps, SetTimeWarp(warp)
        PROVE  sim' \in [{"own", "restored"} -> Simulation]
    BY <2>2 DEF SetTimeWarp, IInv, TypeOK, Simulation
  <2>3. ASSUME NEW n \in 1 .. MaxSteps, Step(n)
        PROVE  sim' \in [{"own", "restored"} -> Simulation]
    <3>1. /\ sim[shown] \in [paused : BOOLEAN, tick : 0 .. MaxTicks, time_warp : Warps]
          /\ sim \in [{"own", "restored"} -> Simulation]
      BY DEF IInv, TypeOK, Simulation
    <3>2. sim[shown].tick + n \in 0 .. MaxTicks
      <4>1. sim[shown].tick \in Nat /\ MaxTicks \in Nat /\ n \in Nat
        BY <3>1, Bounds
      <4> QED BY <2>3, <4>1 DEF Step
    <3>3. [sim[shown] EXCEPT !.tick = @ + n] \in Simulation
      BY <3>1, <3>2 DEF Simulation
    <3>4. sim' = [sim EXCEPT ![shown] = [sim[shown] EXCEPT !.tick = @ + n]]
      BY <2>3 DEF Step
    <3> QED BY <3>1, <3>3, <3>4
  <2>4. ASSUME Resume
        PROVE  sim' \in [{"own", "restored"} -> Simulation]
    BY <2>4, TickStreamAssumption DEF Resume, IInv, TypeOK
  <2>5. shown' \in {"own", "restored"}
    BY DEF Endpoints, SetPaused, SetTimeWarp, Step, Resume, IInv, TypeOK
  <2> QED BY <2>1, <2>2, <2>3, <2>4, <2>5 DEF Endpoints
<1>3. TypeOK'
  BY <1>1, <1>2 DEF IInv, TypeOK, hub
<1>4. ASSUME NEW d \in Client PROVE Follows(d)'
  BY <1>1, Undisturbed DEF IInv, hub
<1> QED BY <1>1, <1>3, <1>4 DEF IInv, hub

\* Whoever has missed the frame is on the list of those to be dropped.
LEMMA DropSteps ==
    ASSUME NEW late \in SUBSET Client, DropNext(late)
    PROVE  /\ loop' \in {"ready", "closing"}
           /\ loop' = "ready" => casualties' = {}
           /\ casualties' \subseteq late
           /\ subscribers' \subseteq subscribers
           /\ subscribers' \ casualties' \subseteq subscribers \ late
           /\ closed' \subseteq closed \cup Client
  BY DEF DropNext

\* A tick broadcasts the next frame to everybody who is served.
LEMMA LoopTickKeeps == ASSUME IInv, LoopTick PROVE IInv'
<1> DEFINE n == NextTick
<1>1. n \in 0 .. MaxTicks
  <2>1. sim.own \in Simulation
    BY DEF IInv, TypeOK
  <2>2. sim.own.tick \in Nat /\ sim.own.time_warp \in Nat
    BY <2>1, Parts
  <2> QED BY <2>2, Bounds DEF LoopTick, NextTick
<1>2. /\ log' = Append(log, n) /\ put_nowait(n) /\ DropNext(Full)
      /\ loop = "ready" /\ casualties = {}
      /\ UNCHANGED <<shown, pump, sending, from, received>>
      /\ sim' = [sim EXCEPT !.own.tick = n]
  BY DEF LoopTick, IInv
<1> HIDE DEF n
<1>3. Full \in SUBSET Client /\ Full \subseteq subscribers /\ subscribers \subseteq Client
  BY DEF Full, IInv, TypeOK
<1>4. sim' \in [{"own", "restored"} -> Simulation]
  BY <1>1, <1>2 DEF IInv, TypeOK, Simulation
<1>5. log' \in Frames
  BY <1>1, <1>2, HubTypes, AppendProperties DEF IInv, Frames
<1>6. ASSUME NEW c \in Client
      PROVE  queue'[c] \in Seq(Nat) /\ Len(queue'[c]) <= Depth
  <2>1. CASE c \in subscribers \ Full
    <3>1. queue'[c] = Append(queue[c], n) /\ Len(queue[c]) < Depth /\ queue[c] \in Seq(Nat)
      <4>1. ~(Len(queue[c]) >= Depth)
        BY <2>1 DEF Full
      <4>2. Len(queue[c]) \in Nat /\ Depth \in Nat
        BY LenProperties, TickStreamAssumption DEF IInv, TypeOK
      <4> QED BY <1>2, <2>1, <4>1, <4>2 DEF put_nowait, IInv, TypeOK
    <3>2. Append(queue[c], n) \in Seq(Nat) /\ Len(Append(queue[c], n)) = Len(queue[c]) + 1
      BY <1>1, <3>1, AppendProperties
    <3>3. Len(queue[c]) \in Nat /\ Depth \in Nat
      BY <3>1, LenProperties, TickStreamAssumption
    <3> QED BY <3>1, <3>2, <3>3
  <2>2. CASE c \notin subscribers \ Full
    BY <1>2, <2>2 DEF put_nowait, IInv, TypeOK
  <2> QED BY <2>1, <2>2
<1>7. queue' \in [Client -> Seq(Nat)]
  BY <1>2, <1>6 DEF put_nowait
<1>8. TypeOK'
  BY <1>2, <1>3, <1>4, <1>5, <1>6, <1>7, DropSteps DEF IInv, TypeOK, Frames
<1>9. ASSUME NEW d \in Client PROVE Follows(d)'
  <2> DEFINE f == from[d]
             r == received[d]
             s == sending[d]
             q == queue[d]
  <2>1. f \in Nat /\ r \in Frames /\ s \in Frames /\ q \in Frames /\ log \in Frames
    BY HubTypes DEF IInv
  <2>2. from'[d] = f /\ received'[d] = r /\ sending'[d] = s /\ pump'[d] = pump[d]
    BY <1>2
  <2>3. subscribers' \ casualties' \subseteq subscribers \ Full /\ subscribers' \subseteq subscribers
    BY <1>2, <1>3, DropSteps
  <2>4. CASE pump[d] # "running"
    <3>1. Unserved(d) /\ d \notin subscribers
      BY <2>4 DEF IInv, Follows, Unserved
    <3>2. queue'[d] = queue[d]
      BY <1>2, <3>1 DEF put_nowait, IInv, TypeOK
    <3>3. Consecutive(f, r, <<>>, <<>>, log')
      <4>1. <<>> \in Frames
        BY EmptySeq DEF Frames
      <4> QED BY <1>1, <1>2, <2>1, <3>1, <4>1, Grown DEF Unserved
    <3> QED BY <2>2, <2>3, <2>4, <3>1, <3>2, <3>3 DEF IInv, Follows, Unserved
  <2>5. CASE pump[d] = "running" /\ d \in subscribers \ Full
    <3>1. Consecutive(f, r, s, q, log) /\ f + Len(r) + Len(s) + Len(q) = Len(log)
      BY <1>2, <2>5 DEF IInv, Follows, Served
    <3>2. queue'[d] = Append(q, n)
      BY <1>2, <2>5 DEF put_nowait
    <3>3. Consecutive(f, r, s, queue'[d], log') /\ f + Len(r) + Len(s) + Len(queue'[d]) = Len(log')
      <4> HIDE DEF f, r, s, q
      <4>1. n \in Nat
        BY <1>1
      <4>2. /\ Consecutive(f, r, s, Append(q, n), Append(log, n))
            /\ f + Len(r) + Len(s) + Len(Append(q, n)) = Len(Append(log, n))
        BY <2>1, <3>1, <4>1, Grown
      <4> QED BY <1>2, <3>2, <4>2 DEF q
    <3> QED BY <2>2, <2>5, <3>3 DEF Follows, Served
  <2>6. CASE pump[d] = "running" /\ d \notin subscribers \ Full
    <3>1. Consecutive(f, r, s, q, log)
      BY <2>6 DEF IInv, Follows, Served
    <3>2. queue'[d] = q
      BY <1>2, <2>6 DEF put_nowait
    <3>3. Consecutive(f, r, s, q, log')
      BY <1>1, <1>2, <2>1, <3>1, Grown
    <3> QED BY <2>2, <2>3, <2>6, <3>2, <3>3 DEF Follows, Served
  <2> QED BY <2>4, <2>5, <2>6
<1> QED BY <1>2, <1>3, <1>8, <1>9, DropSteps DEF IInv

\* A client whose socket closed is forgotten, and the next casualty is closed.
LEMMA CloseKeeps == ASSUME IInv, CloseReturns PROVE IInv'
<1>1. /\ UNCHANGED <<arena, log, queue, pump, sending, from, received>>
      /\ casualties \in SUBSET Client /\ DropNext(casualties)
  BY DEF CloseReturns, IInv, TypeOK
<1>2. TypeOK'
  BY <1>1, DropSteps DEF IInv, TypeOK, arena
<1>3. ASSUME NEW d \in Client PROVE Follows(d)'
  BY <1>1, DropSteps, Undisturbed DEF IInv
<1> QED BY <1>1, <1>2, <1>3, DropSteps DEF IInv

\* A new client starts with the frame after the last one.
LEMMA AttachKeeps == ASSUME IInv, NEW c \in Client, Attach(c) PROVE IInv'
<1>1. log \in Frames /\ Len(log) \in Nat
  BY HubTypes, LenProperties DEF IInv, Frames
<1>2. TypeOK'
  BY <1>1 DEF Attach, IInv, TypeOK, PumpState, arena
<1>3. Follows(c)'
  <2>1. received[c] = <<>> /\ queue[c] = <<>> /\ sending[c] = <<>>
    BY DEF Attach, IInv, Follows, Unserved
  <2>2. /\ from'[c] = Len(log) /\ pump'[c] = "running" /\ log' = log
        /\ received'[c] = <<>> /\ queue'[c] = <<>> /\ sending'[c] = <<>>
    BY <2>1 DEF Attach, IInv, TypeOK
  <2>3. Consecutive(Len(log), <<>>, <<>>, <<>>, log) /\ Len(log) + Len(<<>>) + Len(<<>>) + Len(<<>>) = Len(log)
    BY <1>1 DEF Consecutive
  <2> QED BY <2>2, <2>3 DEF Follows, Served
<1>4. ASSUME NEW d \in Client \ {c} PROVE Follows(d)'
  BY Undisturbed DEF Attach, IInv, TypeOK
<1> QED BY <1>2, <1>3, <1>4 DEF Attach, IInv

\* A pump takes the oldest frame of its queue.
LEMMA GetKeeps == ASSUME IInv, NEW c \in Client, Get(c) PROVE IInv'
<1> DEFINE q == queue[c]
<1>1. /\ pump[c] = "running" /\ sending[c] = <<>> /\ q # <<>>
      /\ queue' = [queue EXCEPT ![c] = Tail(q)] /\ received' = received
  BY DEF Get, CanGet
<1>2. q \in Seq(Nat) /\ Len(q) <= Depth
  BY DEF IInv, TypeOK
<1>3. /\ Head(q) \in Nat /\ Tail(q) \in Seq(Nat) /\ Len(Tail(q)) <= Depth /\ Len(Tail(q)) = Len(q) - 1
  <2>1. Head(q) \in Nat /\ Tail(q) \in Seq(Nat) /\ Len(Tail(q)) = Len(q) - 1
    BY <1>1, <1>2, HeadTailProperties
  <2>2. Len(q) \in Nat /\ Depth \in Nat
    BY <1>2, LenProperties, TickStreamAssumption
  <2> QED BY <1>2, <2>1, <2>2
<1> HIDE DEF q
<1>4. queue' \in [Client -> Seq(Nat)] /\ \A d \in Client : Len(queue'[d]) <= Depth
  BY <1>1, <1>3 DEF IInv, TypeOK
<1>5. ASSUME NEW d \in Client \ {c}
      PROVE  queue'[d] = queue[d] /\ sending'[d] = sending[d] /\ pump'[d] = pump[d]
  BY <1>1 DEF Get, EndPump, IInv, TypeOK
<1>6. /\ log' = log /\ from' = from /\ loop' = loop /\ casualties' = casualties
      /\ subscribers' \subseteq subscribers /\ UNCHANGED arena /\ closed' = closed
  BY DEF Get, EndPump
<1>7. TypeOK'
  <2>1. pump' \in [Client -> PumpState]
    BY DEF Get, EndPump, IInv, TypeOK, PumpState
  <2>2. sending' \in [Client -> Seq(Nat)]
    <3>1. <<Head(q)>> \in Seq(Nat)
      BY <1>3
    <3> QED BY <3>1 DEF Get, IInv, TypeOK, q
  <2> QED BY <1>1, <1>4, <1>6, <2>1, <2>2 DEF IInv, TypeOK, arena
<1>8. Follows(c)'
  <2>1. CASE c \notin closed
    <3>1. /\ sending'[c] = <<Head(q)>> /\ queue'[c] = Tail(q) /\ pump' = pump
          /\ subscribers' = subscribers
      BY <1>1, <2>1 DEF Get, EndPump, IInv, TypeOK, q
    <3>2. Served(c)
      BY <1>1 DEF IInv, Follows
    <3>3. Consecutive(from[c], received[c], <<>>, q, log)
      BY <1>1, <3>2 DEF Served, q
    <3>4. Consecutive(from[c], received[c], <<Head(q)>>, Tail(q), log)
      <4>1. from[c] \in Nat /\ received[c] \in Frames /\ q \in Frames /\ log \in Frames
        BY HubTypes DEF IInv, q
      <4> QED BY <1>1, <3>3, <4>1, Taken
    <3>5. c \in subscribers \ casualties =>
            from[c] + Len(received[c]) + Len(<<Head(q)>>) + Len(Tail(q)) = Len(log)
      <4>1. /\ Len(q) \in Nat /\ from[c] \in Nat /\ Len(received[c]) \in Nat
            /\ Len(Tail(q)) = Len(q) - 1 /\ Len(<<Head(q)>>) = 1 /\ Len(<<>>) = 0
        BY <1>2, <1>3, HubTypes, LenProperties DEF q, IInv, Frames
      <4>2. c \in subscribers \ casualties =>
              from[c] + Len(received[c]) + Len(<<>>) + Len(q) = Len(log)
        BY <1>1, <3>2 DEF Served, q
      <4> DEFINE g == from[c]
                 k == Len(received[c])
                 x == Len(q)
                 y == Len(Tail(q))
                 z == Len(<<Head(q)>>)
      <4>3. g \in Nat /\ k \in Nat /\ x \in Nat /\ y = x - 1 /\ z = 1
        BY <4>1
      <4>4. c \in subscribers \ casualties => g + k + 0 + x = Len(log)
        BY <4>2
      <4> HIDE DEF g, k, x, y, z
      <4>5. g + k + z + y = g + k + 0 + x
        BY <4>3
      <4>6. c \in subscribers \ casualties => g + k + z + y = Len(log)
        BY <4>4, <4>5
      <4> QED BY <4>6 DEF g, k, x, y, z
    <3> QED BY <1>1, <1>6, <3>1, <3>4, <3>5 DEF Follows, Served
  <2>2. CASE c \in closed
    <3>1. EndPump(c, "ended") /\ sending'[c] = <<>>
      BY <1>1, <2>2 DEF Get
    <3> QED BY <1>1, <3>1, EndKeeps
  <2> QED BY <2>1, <2>2
<1>9. ASSUME NEW d \in Client \ {c} PROVE Follows(d)'
  BY <1>1, <1>5, <1>6, Undisturbed DEF IInv
<1> QED BY <1>6, <1>7, <1>8, <1>9 DEF IInv

\* A frame that was sent was received.
LEMMA SentKeeps == ASSUME IInv, NEW c \in Client, Sent(c) PROVE IInv'
<1> DEFINE r == received[c]
           s == sending[c]
<1>1. /\ s # <<>>
      /\ received' = [received EXCEPT ![c] = r \o s]
      /\ sending' = [sending EXCEPT ![c] = <<>>]
      /\ UNCHANGED <<arena, log, loop, casualties, subscribers, queue, pump, closed, from>>
  BY DEF Sent
<1>2. pump[c] = "running" /\ Served(c)
  BY <1>1 DEF IInv, Follows, Unserved
<1>3. /\ Consecutive(from[c], r \o s, <<>>, queue[c], log)
      /\ Len(r \o s) = Len(r) + Len(s)
      /\ r \o s \in Frames
  BY <1>2, HubTypes, Arrived DEF IInv, Served
<1>4. r \in Frames /\ s \in Frames
  BY HubTypes DEF IInv
<1> DEFINE t == r \o s
<1> HIDE DEF r, s, t
<1>5. TypeOK'
  <2>1. received' \in [Client -> Seq(Nat)]
    BY <1>1, <1>3 DEF IInv, TypeOK, Frames, t
  <2>2. sending' \in [Client -> Seq(Nat)]
    BY <1>1 DEF IInv, TypeOK
  <2> QED BY <1>1, <2>1, <2>2 DEF IInv, TypeOK, arena
<1>6. Follows(c)'
  <2>1. received'[c] = t /\ sending'[c] = <<>> /\ queue'[c] = queue[c]
    BY <1>1 DEF IInv, TypeOK, t
  <2>2. c \in subscribers \ casualties => from[c] + Len(t) + Len(<<>>) + Len(queue[c]) = Len(log)
    <3>1. Len(r) \in Nat /\ Len(s) \in Nat /\ from[c] \in Nat /\ Len(queue[c]) \in Nat
      BY <1>4, HubTypes, LenProperties DEF IInv, Frames
    <3>2. c \in subscribers \ casualties => from[c] + Len(r) + Len(s) + Len(queue[c]) = Len(log)
      BY <1>2 DEF Served, r, s
    <3>3. Len(t) = Len(r) + Len(s)
      BY <1>3 DEF t
    <3> QED BY <3>1, <3>2, <3>3
  <2>3. Consecutive(from[c], t, <<>>, queue[c], log)
    BY <1>3 DEF t
  <2> QED BY <1>1, <1>2, <2>1, <2>2, <2>3 DEF Follows, Served
<1>7. ASSUME NEW d \in Client \ {c} PROVE Follows(d)'
  BY <1>1, Undisturbed DEF IInv, TypeOK
<1> QED BY <1>1, <1>5, <1>6, <1>7 DEF IInv

\* A send that raises ends its client's pump.
LEMMA SendRaisesKeeps == ASSUME IInv, NEW c \in Client, SendRaises(c) PROVE IInv'
<1>1. /\ sending[c] # <<>> /\ sending' = [sending EXCEPT ![c] = <<>>]
      /\ EndPump(c, "lost") /\ queue' = queue /\ received' = received
  BY DEF SendRaises
<1>2. pump[c] = "running"
  BY <1>1 DEF IInv, Follows, Unserved
<1>3. TypeOK'
  BY <1>1 DEF EndPump, IInv, TypeOK, PumpState, arena
<1>4. Follows(c)'
  <2>1. sending'[c] = <<>>
    BY <1>1 DEF IInv, TypeOK
  <2> QED BY <1>1, <1>2, <2>1, EndKeeps
<1>5. ASSUME NEW d \in Client \ {c} PROVE Follows(d)'
  BY <1>1, Undisturbed DEF EndPump, IInv, TypeOK
<1> QED BY <1>1, <1>3, <1>4, <1>5 DEF EndPump, IInv

----------------------------------------------------------------------------
(* Theorems                                                                *)

\* The invariant holds at the start.
LEMMA InitIInv == Init => IInv
<1> SUFFICES ASSUME Init PROVE IInv
  OBVIOUS
<1>1. TypeOK
  <2>1. sim \in [{"own", "restored"} -> Simulation] /\ shown \in {"own", "restored"}
    <3> DEFINE first == [paused |-> FALSE, tick |-> 0, time_warp |-> 1]
    <3>1. first \in Simulation
      BY TickStreamAssumption DEF Simulation
    <3>2. sim = [which \in {"own", "restored"} |-> first] /\ shown = "own"
      BY DEF Init
    <3> HIDE DEF first
    <3> QED BY <3>1, <3>2
  <2>2. /\ queue \in [Client -> Seq(Nat)] /\ \A c \in Client : Len(queue[c]) <= Depth
        /\ sending \in [Client -> Seq(Nat)] /\ received \in [Client -> Seq(Nat)]
    <3>1. <<>> \in Seq(Nat) /\ Len(<<>>) = 0 /\ 0 <= Depth
      BY Bounds
    <3> QED BY <3>1 DEF Init
  <2>3. pump \in [Client -> PumpState] /\ from \in [Client -> Nat] /\ log \in Seq(Nat)
    BY DEF Init, PumpState
  <2>4. /\ loop \in {"ready", "closing"} /\ casualties \subseteq Client
        /\ subscribers \subseteq Client /\ closed \subseteq Client
    BY DEF Init
  <2> QED BY <2>1, <2>2, <2>3, <2>4 DEF TypeOK
<1>2. ASSUME NEW c \in Client PROVE Follows(c)
  BY DEF Init, Follows, Unserved, Consecutive
<1> QED BY <1>1, <1>2 DEF Init, IInv

\* Every action keeps the invariant.
THEOREM Inductive == IInv /\ [Next]_vars => IInv'
<1> SUFFICES ASSUME IInv, [Next]_vars PROVE IInv'
  OBVIOUS
<1>1. CASE Endpoints
  BY <1>1, EndpointsKeep
<1>2. CASE LoopTick
  BY <1>2, LoopTickKeeps
<1>3. CASE CloseReturns
  BY <1>3, CloseKeeps
<1>4. ASSUME NEW c \in Client, Attach(c) \/ Get(c) \/ Sent(c) \/ SendRaises(c)
      PROVE  IInv'
  BY <1>4, AttachKeeps, GetKeeps, SentKeeps, SendRaisesKeeps
<1>5. CASE UNCHANGED vars
  <2>1. TypeOK' /\ UNCHANGED <<hub, log>>
    BY <1>5 DEF IInv, TypeOK, vars, hub, arena
  <2>2. ASSUME NEW d \in Client PROVE Follows(d)'
    BY <2>1, Undisturbed DEF IInv, hub
  <2> QED BY <2>1, <2>2 DEF IInv, hub
<1> QED BY <1>1, <1>2, <1>3, <1>4, <1>5 DEF Next

\* No queue ever holds more frames than it has room for, and everything keeps
\* its type.
THEOREM TypeCorrect == Spec => []TypeOK
<1>1. IInv => TypeOK
  BY DEF IInv
<1> QED BY <1>1, InitIInv, Inductive, PTL DEF Spec

\* Every client sees consecutive frames from the first one after it came.
THEOREM FramesConsecutiveHolds == Spec => []FramesConsecutive
<1>1. IInv => FramesConsecutive
  <2> SUFFICES ASSUME IInv, NEW c \in Client
               PROVE  /\ from[c] + Len(received[c]) + Len(sending[c]) <= Len(log)
                      /\ pump[c] = "running" =>
                          /\ from[c] + Len(Stream(c)) <= Len(log)
                          /\ \A i \in DOMAIN Stream(c) : Stream(c)[i] = log[from[c] + i]
                          /\ c \in subscribers \ casualties =>
                              from[c] + Len(Stream(c)) = Len(log)
                      /\ \A i \in DOMAIN received[c] : received[c][i] = log[from[c] + i]
    BY DEF FramesConsecutive
  <2> DEFINE f == from[c]
             r == received[c]
             s == sending[c]
             q == queue[c]
  <2>1. f \in Nat /\ r \in Frames /\ s \in Frames /\ q \in Frames /\ log \in Frames
    BY HubTypes DEF IInv
  <2>2. /\ Len(r) \in Nat /\ Len(s) \in Nat /\ Len(q) \in Nat /\ Len(log) \in Nat
        /\ DOMAIN r = 1 .. Len(r)
    BY <2>1, LenProperties DEF Frames
  <2>3. CASE pump[c] = "running"
    <3>1. Consecutive(f, r, s, q, log)
      BY <2>3 DEF IInv, Follows, Served
    <3>2. c \in subscribers \ casualties => f + Len(r) + Len(s) + Len(q) = Len(log)
      BY <2>3 DEF IInv, Follows, Served
    <3>3. /\ Len(Stream(c)) = Len(r) + Len(s) + Len(q)
          /\ \A i \in DOMAIN Stream(c) : Stream(c)[i] = log[f + i]
      <4>1. Stream(c) = r \o s \o q
        BY DEF Stream
      <4> HIDE DEF f, r, s, q
      <4>2. /\ Len(r \o s \o q) = Len(r) + Len(s) + Len(q)
            /\ \A i \in DOMAIN (r \o s \o q) : (r \o s \o q)[i] = log[f + i]
        BY <2>1, <3>1, OneStretch
      <4> QED BY <4>1, <4>2
    <3> HIDE DEF f, r, s, q
    <3>4. /\ f + Len(r) + Len(s) <= Len(log) /\ f + Len(r) + Len(s) + Len(q) <= Len(log)
          /\ \A i \in DOMAIN r : r[i] = log[f + i]
      BY <2>1, <2>2, <3>1 DEF Consecutive
    <3>5. f + (Len(r) + Len(s) + Len(q)) = f + Len(r) + Len(s) + Len(q)
      BY <2>1, <2>2
    <3> QED BY <2>3, <3>2, <3>3, <3>4, <3>5 DEF f, r, s, q
  <2>4. CASE pump[c] # "running"
    <3>1. Consecutive(f, r, <<>>, <<>>, log) /\ s = <<>>
      BY <2>4 DEF IInv, Follows, Unserved
    <3> HIDE DEF f, r, s, q
    <3>2. f + Len(r) + Len(s) <= Len(log) /\ \A i \in DOMAIN r : r[i] = log[f + i]
      BY <2>1, <2>2, <3>1 DEF Consecutive
    <3> QED BY <2>4, <3>2 DEF f, r, s, q
  <2> QED BY <2>3, <2>4
<1> QED BY <1>1, InitIInv, Inductive, PTL DEF Spec
==============================================================================
