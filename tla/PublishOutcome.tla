--------------------------- MODULE PublishOutcome ---------------------------
(***************************************************************************)
(* What the senders of src/rabbitmq may rely on when they publish with     *)
(* confirmation: the broker takes each message at most once per attempt,   *)
(* and the listener hears at most one verdict about it.  "yes" says the    *)
(* broker has the message in a queue, except for the attempts that may be  *)
(* unroutable, where it says nothing; "no" and silence never say anything. *)
(*                                                                         *)
(* ConfirmedPublish implements this; Outbox is built on it.                *)
(***************************************************************************)
CONSTANTS
  Attempts,       \* calls of DoNotifyPublish
  MayReturn       \* those whose routing key may match no queue

VARIABLES
  taken,          \* the attempts whose message the broker put in a queue
  verdict         \* what the listener of each attempt was told

Init ==
  /\ taken = {}
  /\ verdict = [a \in Attempts |-> "none"]

Take(a) ==
  /\ a \notin taken
  /\ taken' = taken \cup {a}
  /\ verdict' = verdict

Hear(a, v) ==
  /\ verdict[a] = "none"
  /\ v = "yes" => a \in taken \cup MayReturn
  /\ verdict' = [verdict EXCEPT ![a] = v]
  /\ taken' = taken

Next == \E a \in Attempts : Take(a) \/ (\E v \in {"yes", "no"} : Hear(a, v))

Spec == Init /\ [][Next]_<<taken, verdict>>
=============================================================================
