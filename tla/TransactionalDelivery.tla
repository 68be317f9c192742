------------------------ MODULE TransactionalDelivery ------------------------
(***************************************************************************)
(* What the readme promises of messages sent in a transaction: those of a  *)
(* transaction are owed together when it commits, no other message is ever *)
(* sent, and each message owed reaches the broker.  Outbox implements it   *)
(* under the conditions stated there.                                      *)
(***************************************************************************)
CONSTANTS
  Messages,       \* messages sent in transactions
  Txns,           \* transactions
  TxOf            \* the transaction of each message

VARIABLES
  owed,           \* the messages of committed transactions
  delivered       \* the messages the broker has had in a queue

vars == <<owed, delivered>>

Of(t) == {m \in Messages : TxOf[m] = t}

Init == owed = {} /\ delivered = {}

Commit(t) ==
  /\ owed' = owed \cup Of(t)
  /\ delivered' = delivered

Deliver(m) ==
  /\ m \in owed
  /\ delivered' = delivered \cup {m}
  /\ owed' = owed

Next == (\E t \in Txns : Commit(t)) \/ (\E m \in Messages : Deliver(m))

Spec == Init /\ [][Next]_vars

FairSpec == Spec /\ \A m \in Messages : WF_vars(Deliver(m))
=============================================================================
