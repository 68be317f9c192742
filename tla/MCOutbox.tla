------------------------------ MODULE MCOutbox ------------------------------
(* Outbox with a transaction or two, for TLC. *)
EXTENDS Outbox

CONSTANTS t1, m1, m2, i1, i2

OneTx == [x \in Messages |-> t1]
AtI == [x \in Txns |-> i1]
=============================================================================
