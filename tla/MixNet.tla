-------------------------------- MODULE MixNet --------------------------------
(***************************************************************************)
(* The onion of the mix network (crypto/mix_net.py): one sealed layer per  *)
(* relay, the innermost marked for the receiver.  A sealed blob is its key *)
(* and its contents; another key does not open it (the layer's tag).       *)
(***************************************************************************)
EXTENDS Calls

CONSTANTS
  MixRelays,   \* keys of the relays
  MixDelays,   \* the delays that may be drawn
  MaxHops

ASSUME MixAssumption == MixDelays \subseteq Nat \ {0} /\ MaxHops \in Nat \ {0}

Receiver == "RECEIVER"

Seal(key, next, delay, inner) ==
  [key |-> key, next |-> next, delay |-> delay, inner |-> inner]

RECURSIVE WrapFrom(_, _, _, _)
\* Fault: a layer carries the delay of the relay that peels it, not of the next.
RECURSIVE WrapFromOwnDelay(_, _, _, _)
WrapFromOwnDelay(payload, route, delays, i) ==
  IF i = Len(route) THEN Seal(route[i], Receiver, delays[i], payload)
  ELSE Seal(route[i], route[i + 1], delays[i], WrapFromOwnDelay(payload, route, delays, i + 1))

WrapFrom(payload, route, delays, i) ==
  IF i = Len(route) THEN Seal(route[i], Receiver, 0, payload)
  ELSE Seal(route[i], route[i + 1], delays[i + 1], WrapFrom(payload, route, delays, i + 1))

Wrap(payload, route, delays) == WrapFrom(payload, route, delays, 1)

\* A layer that does not open ends the route.
Peel(key, blob) ==
  IF blob.key = key
  THEN [ok |-> TRUE, next |-> blob.next, delay |-> blob.delay, inner |-> blob.inner,
        final |-> blob.next = Receiver]
  ELSE [ok |-> FALSE, next |-> "none", delay |-> 0, inner |-> "none", final |-> FALSE]

RECURSIVE RouteFrom(_, _, _, _)
\* The relays peel in turn: what is delivered, the hops named on the way and the delays.
RouteFrom(blob, route, i, seen) ==
  IF i > Len(route) THEN [outcome |-> "not reached", payload |-> "none", seen |-> seen]
  ELSE LET layer == Peel(route[i], blob)
           told == Append(seen, <<layer.next, layer.delay>>)
       IN  CASE ~layer.ok -> [outcome |-> "mac", payload |-> "none", seen |-> seen]
             [] layer.ok /\ layer.final /\ i # Len(route) ->
                  [outcome |-> "too early", payload |-> "none", seen |-> told]
             [] layer.ok /\ layer.final /\ i = Len(route) ->
                  [outcome |-> "delivered", payload |-> layer.inner, seen |-> told]
             [] OTHER -> RouteFrom(layer.inner, route, i + 1, told)

\* walked is the order in which the relays get the onion; the sender wrapped for route.
CallRoute ==
  /\ Calling("route")
  /\ \E n \in 1..MaxHops :
     \E route \in [1..n -> MixRelays], delays \in [1..n -> MixDelays] :
     \E walked \in {route, Reverse(route), Append(route, route[1]), Tail(route)} :
       Answer("route", [route |-> route, delays |-> delays, walked |-> walked],
              RouteFrom(Wrap("payload", route, delays), walked, 1, <<>>))

\* The payload arrives exactly when the onion takes the route it was wrapped for; on
\* the way each relay is told the next hop and the delay drawn for it, so the delay drawn
\* for the first relay is applied nowhere and the last hop waits for nothing.
OnionFollowsRoute ==
  Answered("route") =>
    LET in == call.in  n == Len(in.route) IN
    /\ call.out.outcome = "delivered" <=> in.walked = in.route
    /\ in.walked = in.route =>
         /\ call.out.payload = "payload"
         /\ call.out.seen = [i \in 1..n |-> IF i < n THEN <<in.route[i + 1], in.delays[i + 1]>>
                                                     ELSE <<Receiver, 0>>]
=============================================================================
