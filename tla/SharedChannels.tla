--------------------------- MODULE SharedChannels ---------------------------
(***************************************************************************)
(* What a connection that many share promises to those that have taken a   *)
(* channel of it: the channel works until the connection breaks, and no    *)
(* reconnecting of another takes it away.                                  *)
(***************************************************************************)
EXTENDS Naturals

CONSTANT Users

VARIABLES
  working,        \* the users whose channel works
  breaks          \* how often the connection was lost or closed

vars == <<working, breaks>>

Init == working = {} /\ breaks = 0

Take(u) == working' = working \cup {u} /\ breaks' = breaks
Break == working' = {} /\ breaks' = breaks + 1

Next == Break \/ \E u \in Users : Take(u)
Spec == Init /\ [][Next]_vars
=============================================================================
