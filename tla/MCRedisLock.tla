---------------------------- MODULE MCRedisLock ----------------------------
(* RedisLock on small sets of clients, for TLC. *)
EXTENDS RedisLock

CONSTANTS a, b, c

\* a may be long and waits in LockWithContext; b is short, tries and loses every kind
\* of answer; c is the careless one: its calls nest, and the inner gives the key away.
MixedPath == [k \in Clients |-> IF k = a THEN "ctx" ELSE "try"]
MixedDepth == [k \in Clients |-> IF k = c THEN 2 ELSE 1]
MixedFaults ==
  [k \in Clients |->
     IF k = a THEN {"acquire"} ELSE IF k = b THEN {"acquire", "release", "renew"} ELSE {}]

MixedRoom == [k \in Clients |-> IF k = b THEN {1} ELSE Slots]

\* One client waits in Lock, the other tries; nothing fails.
LockAndTry == [k \in Clients |-> IF k = a THEN "lock" ELSE "try"]
NoNesting == [k \in Clients |-> 1]
AllRoom == [k \in Clients |-> Slots]
NoFaults == [k \in Clients |-> {}]

\* A renewal of the one whose function may be long fails.
RenewFails == [k \in Clients |-> IF k = a THEN {"renew"} ELSE {}]
=============================================================================
