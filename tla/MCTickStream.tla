----------------------------- MODULE MCTickStream -----------------------------
(* A client that goes on reading and one that may stop.                    *)
EXTENDS TickStream

CONSTANTS reader, sleeper

Clients == {reader, sleeper}
Readers == {reader}
OneSnapshot == {[paused |-> TRUE, tick |-> 0, time_warp |-> 1]}
==============================================================================
