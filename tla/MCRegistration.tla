--------------------------- MODULE MCRegistration ---------------------------
(* Registration of one node of each kind, for TLC. *)
EXTENDS Registration

CONSTANTS s, p, x

Kinds == [n \in Nodes |-> IF n = s THEN "service" ELSE IF n = p THEN "plugin" ELSE "executor"]
\* The plugin has the shortest TTL, for which a heartbeat has no room.
Lives == [n \in Nodes |-> IF n = s THEN 3 ELSE IF n = p THEN 1 ELSE 2]
=============================================================================
