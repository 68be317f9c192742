----------------------------- MODULE ServiceList -----------------------------
(***************************************************************************)
(* What a discovery promises to those that ask it for a service's nodes,   *)
(* when servers that lag behind may answer it: a list the registry has     *)
(* had, and none that every server had replaced by the time the list       *)
(* before was shown.  A list may be older than the one before, but no      *)
(* older than the server which was furthest behind then.                   *)
(***************************************************************************)
EXTENDS Naturals

CONSTANT Servers

VARIABLES
  listed,         \* the version of the list that the registry has
  replica,        \* the version that each server has
  shown,          \* the version that the discovery shows
  since           \* what the server furthest behind had when it was shown

vars == <<listed, replica, shown, since>>

Init ==
  /\ listed \in Nat
  /\ replica = [s \in Servers |-> listed]
  /\ shown = 0 /\ since = 0

Change ==
  /\ listed' = listed + 1
  /\ UNCHANGED <<replica, shown, since>>

CatchUp(s) ==
  /\ replica' = [replica EXCEPT ![s] = listed]
  /\ UNCHANGED <<listed, shown, since>>

Show ==
  /\ shown' \in since..listed
  /\ \E s \in Servers : since' = replica[s] /\ \A t \in Servers : since' <= replica[t]
  /\ UNCHANGED <<listed, replica>>

Next == Change \/ Show \/ \E s \in Servers : CatchUp(s)

Spec == Init /\ [][Next]_vars
=============================================================================
