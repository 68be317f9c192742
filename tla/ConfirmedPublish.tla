-------------------------- MODULE ConfirmedPublish --------------------------
(***************************************************************************)
(* Publishing with confirmation: DoNotifyPublish, its confirmOne goroutine *)
(* and DoPublish of src/rabbitmq/rabbitmq.go, with the channel of the amqp *)
(* library and the broker they talk to.                                    *)
(*                                                                         *)
(* An attempt is one call.  It opens a channel of its own, so attempts     *)
(* share nothing but the connection and the process.  The goroutine that   *)
(* waits for the broker's answer is started before the message is sent and *)
(* asks the library for confirmations, then for returned messages, at its  *)
(* own pace: an answer nobody asked for yet is dropped by the library.     *)
(***************************************************************************)
CONSTANTS
  Attempts,       \* calls of DoNotifyPublish
  Sync,           \* those made by DoPublish, which waits for the verdict
  MayReturn,      \* those whose routing key may match no queue
  MayNack,        \* those the broker may refuse
  NetworkFails    \* whether the connection may be lost

ASSUME AttemptAssumption ==
  /\ Sync \subseteq Attempts
  /\ MayReturn \subseteq Attempts /\ MayNack \subseteq Attempts
  /\ NetworkFails \in BOOLEAN

VARIABLES
  up,             \* the connection is open
  chan,           \* the channel of each attempt: "none", "open" or "closed"
  pc,             \* where the calling goroutine is
  ret,            \* what the call returned
  waiter,         \* where the confirmOne goroutine is
  wire,           \* the message's way: "none", "sent", "taken" or "gone"
  answer,         \* the broker's answer on its way: "ack", "nack", "return" or "none"
  confirm,        \* the buffer of the confirms channel
  returned,       \* the attempts whose returns channel holds a returned message
  verdict,        \* what the listener was told
  crashed         \* a goroutine panicked: the process is gone

vars == <<up, chan, pc, ret, waiter, wire, answer, confirm, returned, verdict, crashed>>
caller == <<pc, ret>>
channel == <<answer, confirm, returned>>

Init ==
  /\ up = TRUE
  /\ chan = [a \in Attempts |-> "none"]
  /\ pc = [a \in Attempts |-> "idle"]
  /\ ret = [a \in Attempts |-> "none"]
  /\ waiter = [a \in Attempts |-> "none"]
  /\ wire = [a \in Attempts |-> "none"]
  /\ answer = [a \in Attempts |-> "none"]
  /\ confirm = [a \in Attempts |-> "none"]
  /\ returned = {}
  /\ verdict = [a \in Attempts |-> "none"]
  /\ crashed = FALSE

Set(f, a, v) == [f EXCEPT ![a] = v]

-----------------------------------------------------------------------------
\* The caller: DoNotifyPublish, and DoPublish around it.

\* The call ends.  DoPublish's deferred close of errChan is part of its return.
Return(a, r) ==
  /\ pc' = Set(pc, a, "returned")
  /\ ret' = Set(ret, a, r)

GetChannel(a) ==
  /\ pc[a] = "idle"
  /\ IF up
       THEN /\ chan' = Set(chan, a, "open")
            /\ pc' = Set(pc, a, "confirm")
            /\ ret' = ret
       ELSE /\ Return(a, "err")
            /\ chan' = chan
  /\ UNCHANGED <<up, waiter, wire, channel, verdict, crashed>>

\* Confirm mode, then `go confirmOne`.
Confirm(a) ==
  /\ pc[a] = "confirm"
  /\ IF chan[a] = "open"
       THEN /\ pc' = Set(pc, a, "publish")
            /\ waiter' = Set(waiter, a, "start")
            /\ ret' = ret
       ELSE /\ Return(a, "err")
            /\ waiter' = waiter
  /\ UNCHANGED <<up, chan, wire, channel, verdict, crashed>>

\* Variant for the properties: DoPublish does not wait on errChan.
PublishNoWait(a) ==
  /\ pc[a] = "publish"
  /\ wire' = IF chan[a] = "open" THEN Set(wire, a, "sent") ELSE wire
  /\ Return(a, IF chan[a] = "open" THEN "ok" ELSE "err")
  /\ UNCHANGED <<up, chan, waiter, channel, verdict, crashed>>

\* The message is sent, or the channel was lost and the call returns its error
\* while confirmOne goes on.
Publish(a) ==
  /\ pc[a] = "publish"
  /\ IF chan[a] = "open"
       THEN /\ wire' = Set(wire, a, "sent")
            /\ IF a \in Sync
                 THEN pc' = Set(pc, a, "wait") /\ ret' = ret
                 ELSE Return(a, "ok")
       ELSE /\ Return(a, "err")
            /\ wire' = wire
  /\ UNCHANGED <<up, chan, waiter, channel, verdict, crashed>>

-----------------------------------------------------------------------------
\* The goroutine confirmOne.

\* channel.NotifyPublish, then channel.NotifyReturn.
Listen(a) ==
  /\ \/ waiter[a] = "start" /\ waiter' = Set(waiter, a, "half")
     \/ waiter[a] = "half" /\ waiter' = Set(waiter, a, "select")
  /\ UNCHANGED <<up, chan, caller, wire, channel, verdict, crashed>>

\* Variant: the zero confirmation of a closed channel counts as
\* an acknowledgement.
SelectZeroAck(a) ==
  /\ waiter[a] = "select"
  /\ confirm[a] # "none" \/ chan[a] = "closed" \/ a \in returned
  /\ waiter' = Set(waiter, a, IF a \in returned \/ confirm[a] = "nack" THEN "no" ELSE "yes")
  /\ UNCHANGED <<up, chan, caller, wire, channel, verdict, crashed>>

\* Variant: the select has no way to notice that the channel was closed.
SelectDeaf(a) ==
  /\ waiter[a] = "select"
  /\ \/ /\ confirm[a] # "none"
        /\ waiter' = Set(waiter, a, IF confirm[a] = "ack" THEN "yes" ELSE "no")
     \/ /\ a \in returned
        /\ waiter' = Set(waiter, a, "no")
  /\ UNCHANGED <<up, chan, caller, wire, channel, verdict, crashed>>

\* The select takes any channel that has a value or is closed; the zero
\* confirmation of a closed channel reads as a refusal.
Select(a) ==
  /\ waiter[a] = "select"
  /\ \/ /\ confirm[a] # "none"
        /\ waiter' = Set(waiter, a, IF confirm[a] = "ack" THEN "yes" ELSE "no")
     \/ /\ confirm[a] = "none" /\ chan[a] = "closed"
        /\ waiter' = Set(waiter, a, "no")
     \/ /\ a \in returned \/ chan[a] = "closed"
        /\ waiter' = Set(waiter, a, "no")
  /\ UNCHANGED <<up, chan, caller, wire, channel, verdict, crashed>>

\* Variant: the listener is told success whatever was confirmed.
TellYes(a) ==
  /\ waiter[a] \in {"yes", "no"}
  /\ a \notin Sync
  /\ verdict' = Set(verdict, a, "yes")
  /\ waiter' = Set(waiter, a, "done")
  /\ chan' = Set(chan, a, "closed")
  /\ UNCHANGED <<up, caller, wire, channel, crashed>>

\* The listener of NotifyPublish is called, and the channel closed on return.
Tell(a) ==
  /\ waiter[a] \in {"yes", "no"}
  /\ a \notin Sync
  /\ verdict' = Set(verdict, a, waiter[a])
  /\ waiter' = Set(waiter, a, "done")
  /\ chan' = Set(chan, a, "closed")
  /\ UNCHANGED <<up, caller, wire, channel, crashed>>

\* Variant: DoPublish's listener sends nil for a refusal too.
HandOverNil(a) ==
  /\ waiter[a] \in {"yes", "no"}
  /\ a \in Sync
  /\ pc[a] = "wait"
  /\ verdict' = Set(verdict, a, waiter[a])
  /\ Return(a, "ok")
  /\ waiter' = Set(waiter, a, "done")
  /\ chan' = Set(chan, a, "closed")
  /\ UNCHANGED <<up, wire, channel, crashed>>

\* DoPublish's listener hands the verdict over an unbuffered channel.
HandOver(a) ==
  /\ waiter[a] \in {"yes", "no"}
  /\ a \in Sync
  /\ pc[a] = "wait"
  /\ verdict' = Set(verdict, a, waiter[a])
  /\ Return(a, IF waiter[a] = "yes" THEN "ok" ELSE "err")
  /\ waiter' = Set(waiter, a, "done")
  /\ chan' = Set(chan, a, "closed")
  /\ UNCHANGED <<up, wire, channel, crashed>>

\* The call has returned and closed that channel: the send panics.
Panic(a) ==
  /\ waiter[a] \in {"yes", "no"}
  /\ a \in Sync
  /\ pc[a] = "returned"
  /\ crashed' = TRUE
  /\ waiter' = Set(waiter, a, "done")
  /\ UNCHANGED <<up, chan, caller, wire, channel, verdict>>

-----------------------------------------------------------------------------
\* The library, the broker and the network.

\* The broker takes, refuses or returns a message; a returned one is confirmed
\* too, after the return.  Its answers only travel while the channel is open.
Answer(a, v) == answer' = IF chan[a] = "open" THEN Set(answer, a, v) ELSE answer

Broker(a) ==
  /\ wire[a] = "sent"
  /\ \/ wire' = Set(wire, a, "taken") /\ Answer(a, "ack")
     \/ a \in MayNack /\ wire' = Set(wire, a, "gone") /\ Answer(a, "nack")
     \/ a \in MayReturn /\ wire' = Set(wire, a, "gone") /\ Answer(a, "return")
  /\ UNCHANGED <<up, chan, caller, waiter, confirm, returned, verdict, crashed>>

\* The library passes an answer to the channel registered for it, or drops it.
Dispatch(a) ==
  /\ answer[a] # "none"
  /\ answer' = Set(answer, a, IF answer[a] = "return" THEN "ack" ELSE "none")
  /\ IF answer[a] = "return"
       THEN /\ returned' = IF waiter[a] = "select" THEN returned \cup {a} ELSE returned
            /\ confirm' = confirm
       ELSE /\ confirm' = IF waiter[a] \in {"half", "select"}
                            THEN Set(confirm, a, answer[a]) ELSE confirm
            /\ returned' = returned
  /\ UNCHANGED <<up, chan, caller, waiter, wire, verdict, crashed>>

\* The connection is lost: every channel closes, answers and messages on their
\* way are lost, or have reached the broker already.
Disconnect ==
  /\ NetworkFails
  /\ up
  /\ up' = FALSE
  /\ chan' = [a \in Attempts |-> IF chan[a] = "open" THEN "closed" ELSE chan[a]]
  /\ answer' = [a \in Attempts |-> "none"]
  /\ \E lost \in SUBSET {a \in Attempts : wire[a] = "sent"} :
       wire' = [a \in Attempts |-> IF a \in lost THEN "gone" ELSE wire[a]]
  /\ UNCHANGED <<caller, waiter, confirm, returned, verdict, crashed>>

Reconnect ==
  /\ ~up
  /\ up' = TRUE
  /\ UNCHANGED <<chan, caller, waiter, wire, channel, verdict, crashed>>

-----------------------------------------------------------------------------

Call(a) == GetChannel(a) \/ Confirm(a) \/ Publish(a)

ConfirmOne(a) == Listen(a) \/ Select(a) \/ Tell(a) \/ HandOver(a) \/ Panic(a)

Next ==
  \/ /\ ~crashed
     /\ \/ \E a \in Attempts : Call(a) \/ ConfirmOne(a) \/ Dispatch(a)
        \/ Disconnect
        \/ Reconnect
  \/ \E a \in Attempts : Broker(a)

Spec == Init /\ [][Next]_vars

\* Goroutines that can run do, the broker answers what reaches it and the library
\* passes the answers on.  Nothing is assumed of the network.
Fairness ==
  \A a \in Attempts :
    /\ WF_vars(~crashed /\ (Confirm(a) \/ Publish(a)))
    /\ WF_vars(~crashed /\ ConfirmOne(a))
    /\ WF_vars(~crashed /\ Dispatch(a))
    /\ WF_vars(Broker(a))

FairSpec == Spec /\ Fairness

-----------------------------------------------------------------------------
\* Properties.

\* Every variable has its type.
TypeOK ==
  /\ up \in BOOLEAN
  /\ chan \in [Attempts -> {"none", "open", "closed"}]
  /\ pc \in [Attempts -> {"idle", "confirm", "publish", "wait", "returned"}]
  /\ ret \in [Attempts -> {"none", "ok", "err"}]
  /\ waiter \in [Attempts -> {"none", "start", "half", "select", "yes", "no", "done"}]
  /\ wire \in [Attempts -> {"none", "sent", "taken", "gone"}]
  /\ answer \in [Attempts -> {"none", "ack", "nack", "return"}]
  /\ confirm \in [Attempts -> {"none", "ack", "nack"}]
  /\ returned \subseteq Attempts
  /\ verdict \in [Attempts -> {"none", "yes", "no"}]
  /\ crashed \in BOOLEAN

\* A success the listener hears, or DoPublish returns, is the broker's: the message
\* is in a queue unless it could not be routed.
SuccessIsTrue ==
  \A a \in Attempts :
    verdict[a] = "yes" \/ (a \in Sync /\ ret[a] = "ok")
      => wire[a] = "taken" \/ a \in MayReturn

\* What the readme says of this way of sending: a message reported as sent is
\* in a queue.
SuccessMeansQueued == \A a \in Attempts : verdict[a] = "yes" => wire[a] = "taken"

\* Losing the connection does not end the process.
NoPanic == ~crashed

\* What ends the process is the loss of the channel in one gap: after `go confirmOne`
\* and before the message is sent.  The DoPublish it strikes returned an error for a
\* message that never left; one that was sent is waited for, and no refusal, return
\* or later loss makes its confirmOne send on the closed channel.
DeathExplained ==
  crashed => \E a \in Sync : ret[a] = "err" /\ wire[a] = "none" /\ chan[a] = "closed"

\* Once it listens, and the broker's answer is still to come, the goroutine does not
\* wait in vain, whatever the network does: it hears the answer or the closing.
ListenerHears ==
  \A a \in Attempts :
    waiter[a] = "select" /\ (wire[a] = "sent" \/ answer[a] # "none")
      ~> waiter[a] # "select" \/ crashed

\* Every message sent is reported on in the end, as the readme says it is.
EveryPublishReported ==
  \A a \in Attempts : wire[a] = "taken" ~> verdict[a] # "none"

-----------------------------------------------------------------------------
\* A confirmation says what became of the message.
ConfirmIsTrue(a) ==
  LET acked == confirm[a] = "ack" \/ waiter[a] = "yes" \/ answer[a] = "ack"
  IN  acked => wire[a] = "taken" \/ a \in MayReturn

\* A DoPublish that is back before its confirmOne has finished sent nothing, and its
\* channel is lost.
EarlyReturn(a) ==
  a \in Sync /\ pc[a] = "returned" /\ waiter[a] \notin {"none", "done"} =>
    ret[a] = "err" /\ wire[a] = "none" /\ chan[a] = "closed"

\* The inductive invariant behind SuccessIsTrue, DeathExplained and OutcomeSpec.
PublishInv ==
  /\ \A a \in Attempts :
       /\ ConfirmIsTrue(a)
       /\ EarlyReturn(a)
       /\ answer[a] = "return" => a \in MayReturn
       /\ verdict[a] # "none" => waiter[a] = "done"
       /\ wire[a] # "none" => pc[a] \in {"wait", "returned"}
       /\ pc[a] \in {"idle", "confirm"} => waiter[a] = "none"
       /\ pc[a] \in {"publish", "wait"} => chan[a] # "none"
       /\ pc[a] # "returned" => ret[a] = "none"
  /\ SuccessIsTrue
  /\ DeathExplained

Taken == {a \in Attempts : wire[a] = "taken"}
AbstractOutcome == INSTANCE PublishOutcome WITH taken <- Taken

\* DoNotifyPublish and confirmOne implement PublishOutcome: a publication has one
\* verdict, which is the broker's, and it is told once.
OutcomeSpec == AbstractOutcome!Spec
=============================================================================
