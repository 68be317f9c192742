------------------------------- MODULE Outbox -------------------------------
(***************************************************************************)
(* Messages sent in a database transaction: SendMessageInTransaction and   *)
(* its delayed form, the retry job and the purge job of                    *)
(* src/rabbitmq/rabbitmq.go, over the table transactional_msg and the      *)
(* transactions of src/orm/gorm.go, in several service instances.          *)
(*                                                                         *)
(* A row per message is saved in the caller's transaction.  After Commit a *)
(* goroutine publishes the messages, and the confirmation of a message     *)
(* deletes its row (softly).  Every minute each instance tries to take a   *)
(* Redis lock, and the one that does lists the rows that are due and sends *)
(* them again until none is left.  Once a day old rows are purged.         *)
(*                                                                         *)
(* A published message is an attempt: what the broker does with it and     *)
(* what the confirming goroutine hears are those of PublishOutcome.        *)
(***************************************************************************)
EXTENDS Naturals, FiniteSets

CONSTANTS
  Messages, Txns,
  TxOf,           \* the transaction of each message
  Instances,      \* processes of the service
  Home,           \* the instance that runs each transaction
  Slots,          \* how many attempts of a message may be under way (a bound)
  None, Orphan,   \* the lock is free; it belongs to a dead process
  BatchLimit,     \* rows the retry job lists at a time (100)
  LockSafe,       \* the retry lock excludes, as RedisLock shows it may not
  DbFails,        \* whether the database may refuse a query of the retry job
  CommitFails,    \* whether the database may refuse a commit
  Unroutable,     \* messages whose routing key may match no queue
  Slow,           \* messages whose row may stay unsent for the seven days to its purge
  MayClose,       \* those that may close their client
  Recoded,        \* messages whose row does not say how the first copy was sent
  MaxCrashes,     \* crashes in a behaviour (a bound)
  MaxOutages      \* losses of the broker's connection in a behaviour (a bound)

ASSUME OutboxAssumption ==
  /\ TxOf \in [Messages -> Txns]
  /\ Home \in [Txns -> Instances]
  /\ None \notin Instances /\ Orphan \notin Instances /\ None # Orphan
  /\ BatchLimit \in Nat \ {0}
  /\ {LockSafe, DbFails, CommitFails} \subseteq BOOLEAN
  /\ MayClose \subseteq Instances
  /\ Unroutable \subseteq Messages /\ Slow \subseteq Messages /\ Recoded \subseteq Messages
  /\ MaxCrashes \in Nat /\ MaxOutages \in Nat

VARIABLES
  tx,             \* each transaction: "idle", "open", "committed", "aborted", "refused"
  row,            \* each message's row: "none", "saved" (uncommitted), "live",
                  \*   "deleted" (softly) or "purged"
  due,            \* the messages whose trigger_time has passed
  old,            \* the messages whose row is older than seven days
  todo,           \* what the goroutine started after a commit has still to publish
  attempt,        \* the attempts of each message: where they are and who listens
  delivered,      \* the messages the broker has had in a queue
  altered,        \* the messages of which a copy differs from the first one
  lock,           \* who holds the lock of the retry job
  job,            \* where the retry job of each instance is
  batch,          \* the rows it listed and has still to send
  closed,         \* the instances whose client was closed
  up,             \* the broker can be reached
  crashes, outages

vars == <<tx, row, due, old, todo, attempt, delivered, altered, lock, job, batch,
          closed, up, crashes, outages>>
database == <<tx, row, due, old>>
jobs == <<lock, job, batch, closed>>
faults == <<up, crashes, outages>>
broker == <<attempt, delivered, altered>>

Of(t) == {m \in Messages : TxOf[m] = t}
Running(i) == job[i] # "down"

Free == [at |-> "free", by |-> None]

Init ==
  /\ tx = [t \in Txns |-> "idle"]
  /\ row = [m \in Messages |-> "none"]
  /\ due = {} /\ old = {}
  /\ todo = [t \in Txns |-> {}]
  /\ attempt = [m \in Messages |-> [k \in Slots |-> Free]]
  /\ delivered = {} /\ altered = {}
  /\ lock = None
  /\ job = [i \in Instances |-> "start"]
  /\ batch = [i \in Instances |-> {}]
  /\ closed = {}
  /\ up = TRUE
  /\ crashes = 0 /\ outages = 0

-----------------------------------------------------------------------------
\* The transaction (DoWithListener).

\* Begin; the caller's function runs.
Begin(t) ==
  /\ tx[t] = "idle"
  /\ Running(Home[t])
  /\ tx' = [tx EXCEPT ![t] = "open"]
  /\ UNCHANGED <<row, due, old, todo, broker, jobs, faults>>

\* A message is saved.  Should the function panic instead, the transaction stays
\* open: nothing rolls it back but the end of the process.
Save(m) ==
  /\ tx[TxOf[m]] = "open"
  /\ row[m] = "none"
  /\ row' = [row EXCEPT ![m] = "saved"]
  /\ UNCHANGED <<tx, due, old, todo, broker, jobs, faults>>

Unsaved(t) == [m \in Messages |-> IF TxOf[m] = t THEN "none" ELSE row[m]]

\* Variant for the properties: the listener is called after a rollback, too.
RollbackPublishes(t) ==
  /\ tx[t] = "open"
  /\ tx' = [tx EXCEPT ![t] = "aborted"]
  /\ row' = Unsaved(t)
  /\ todo' = [todo EXCEPT ![t] = Of(t)]
  /\ UNCHANGED <<due, old, broker, jobs, faults>>

\* The caller's function or a save fails: the transaction is rolled back.
Rollback(t) ==
  /\ tx[t] = "open"
  /\ tx' = [tx EXCEPT ![t] = "aborted"]
  /\ row' = Unsaved(t)
  /\ UNCHANGED <<due, old, todo, broker, jobs, faults>>

\* Commit, and its listener starts the goroutine that publishes.  The listener is
\* called whether or not the database accepted the commit.
Commit(t) ==
  /\ tx[t] = "open"
  /\ \A m \in Of(t) : row[m] = "saved"
  /\ \/ /\ tx' = [tx EXCEPT ![t] = "committed"]
        /\ row' = [m \in Messages |-> IF TxOf[m] = t THEN "live" ELSE row[m]]
     \/ /\ CommitFails
        /\ tx' = [tx EXCEPT ![t] = "refused"]
        /\ row' = Unsaved(t)
  /\ todo' = [todo EXCEPT ![t] = Of(t)]
  /\ UNCHANGED <<due, old, broker, jobs, faults>>

-----------------------------------------------------------------------------
\* Publishing.

\* NotifyPublish by instance i: the message is on its way, or there is no channel
\* and the error is dropped by both callers.
Publish(i, m) ==
  IF up
    THEN \E k \in Slots :
           /\ attempt[m][k] = Free
           /\ attempt' = [attempt EXCEPT ![m][k] = [at |-> "sent", by |-> i]]
    ELSE attempt' = attempt

\* The goroutine started after Commit, in the order of its map.
FirstSend(t, m) ==
  /\ m \in todo[t]
  /\ Publish(Home[t], m)
  /\ todo' = [todo EXCEPT ![t] = @ \ {m}]
  /\ UNCHANGED <<database, delivered, altered, jobs, faults>>

\* The attempt is over.
End(m, k) == attempt' = [attempt EXCEPT ![m][k] = Free]

\* It goes on as p if somebody still listens.
Pass(m, k, p) ==
  IF attempt[m][k].at = "sent"
    THEN attempt' = [attempt EXCEPT ![m][k] = [at |-> p, by |-> @.by]]
    ELSE End(m, k)

\* The broker puts the message in a queue.
Take(m, k) ==
  /\ attempt[m][k].at \in {"sent", "stray"}
  /\ Pass(m, k, "taken")
  /\ delivered' = delivered \cup {m}
  /\ UNCHANGED <<database, todo, altered, jobs, faults>>

\* The broker returns it and acknowledges it.
SendBack(m, k) ==
  /\ m \in Unroutable
  /\ attempt[m][k].at \in {"sent", "stray"}
  /\ Pass(m, k, "returned")
  /\ UNCHANGED <<database, delivered, todo, altered, jobs, faults>>

\* Variant: the listener does not look at what it is told.
NackDeletes(m, k) ==
  /\ attempt[m][k].at \in {"sent", "stray"}
  /\ End(m, k)
  /\ row' = [row EXCEPT ![m] = IF @ = "live" THEN "deleted" ELSE @]
  /\ UNCHANGED <<tx, due, old, todo, delivered, altered, jobs, faults>>

\* The broker refuses it: confirmOne hears the nack, and the listener keeps the row.
Nack(m, k) ==
  /\ attempt[m][k].at \in {"sent", "stray"}
  /\ End(m, k)
  /\ UNCHANGED <<database, delivered, todo, altered, jobs, faults>>

\* The goroutine hears a success, and the listener deletes the row.
HearYes(m, k) ==
  /\ attempt[m][k].at \in {"taken", "returned"}
  /\ End(m, k)
  /\ row' = [row EXCEPT ![m] = IF @ = "live" THEN "deleted" ELSE @]
  /\ UNCHANGED <<tx, due, old, todo, delivered, altered, jobs, faults>>

\* It hears the return before the confirmation, or nothing since its channels were
\* registered too late, or the row cannot be deleted.
HearNo(m, k) ==
  /\ attempt[m][k].at \in {"taken", "returned"}
  /\ End(m, k)
  /\ UNCHANGED <<database, todo, delivered, altered, jobs, faults>>

\* What is left of an attempt nobody listens to any more.
Stray(r) == IF r.at \in {"sent", "stray"} THEN [at |-> "stray", by |-> None] ELSE Free

\* The connection is lost: those who listen hear a failure, and what is on its
\* way may be lost or arrive.
Outage ==
  /\ up
  /\ outages < MaxOutages
  /\ up' = FALSE
  /\ outages' = outages + 1
  /\ \E lost \in SUBSET Messages :
       attempt' = [m \in Messages |-> [k \in Slots |->
         IF m \in lost THEN Free ELSE Stray(attempt[m][k])]]
  /\ UNCHANGED <<database, todo, delivered, altered, jobs, crashes>>

Recover ==
  /\ ~up
  /\ up' = TRUE
  /\ UNCHANGED <<database, todo, broker, jobs, crashes, outages>>

-----------------------------------------------------------------------------
\* The retry job, rabbitMqMessageRetrySend.

Goto(i, p) == job' = [job EXCEPT ![i] = p]

\* A round begins with the state of the client, then sleeps for a minute.
StartRound(i) ==
  /\ job[i] = "start"
  /\ Goto(i, IF i \in closed THEN "stopped" ELSE "sleep")
  /\ UNCHANGED <<database, todo, broker, lock, batch, closed, faults>>

\* Variant: the round goes on without the lock.
TryLockIgnored(i) ==
  /\ job[i] = "sleep"
  /\ lock' = IF lock = None THEN i ELSE lock
  /\ Goto(i, "list")
  /\ UNCHANGED <<database, todo, broker, batch, closed, faults>>

\* TryLockFunc: without the lock the round is over.
TryLock(i) ==
  /\ job[i] = "sleep"
  /\ IF lock = None
       THEN lock' = i /\ Goto(i, "list")
       ELSE lock' = lock /\ Goto(i, "start")
  /\ UNCHANGED <<database, todo, broker, batch, closed, faults>>

Due == {m \in due : row[m] = "live"}

\* Variant: the round ends without giving the lock back.
ListKeepsLock(i) ==
  /\ job[i] = "list"
  /\ \/ Due # {} /\ batch' = [batch EXCEPT ![i] = Due] /\ Goto(i, "send")
     \/ Due = {} /\ batch' = batch /\ Goto(i, "start")
  /\ UNCHANGED <<database, todo, broker, lock, closed, faults>>

\* ListTrigerMsg: at most BatchLimit rows, in no order.  None, or an error of the
\* database, ends the round and gives the lock back.
List(i) ==
  /\ job[i] = "list"
  /\ \/ /\ Due # {}
        /\ \E rows \in SUBSET Due :
             /\ rows = Due \/ Cardinality(rows) = BatchLimit
             /\ Cardinality(rows) <= BatchLimit
             /\ batch' = [batch EXCEPT ![i] = rows]
        /\ Goto(i, "send")
        /\ lock' = lock
     \/ /\ Due = {} \/ DbFails
        /\ Goto(i, "start")
        /\ lock' = IF lock = i THEN None ELSE lock
        /\ batch' = batch
  /\ UNCHANGED <<database, todo, broker, closed, faults>>

\* Variant: the row is deleted when its message is published, not when confirmed.
SendNextDeletes(i, m) ==
  /\ job[i] = "send"
  /\ m \in batch[i]
  /\ Publish(i, m)
  /\ batch' = [batch EXCEPT ![i] = @ \ {m}]
  /\ row' = [row EXCEPT ![m] = IF @ = "live" THEN "deleted" ELSE @]
  /\ UNCHANGED <<tx, due, old, todo, delivered, altered, lock, job, closed, faults>>

\* The rows are sent one after the other, whatever became of them since.  A copy
\* built from the row has no delay, and a string is quoted.
SendNext(i, m) ==
  /\ job[i] = "send"
  /\ m \in batch[i]
  /\ Publish(i, m)
  /\ batch' = [batch EXCEPT ![i] = @ \ {m}]
  /\ altered' = IF up THEN altered \cup ({m} \cap Recoded) ELSE altered
  /\ UNCHANGED <<database, todo, delivered, lock, job, closed, faults>>

\* Ten seconds after a batch the rows are listed again.
NextBatch(i) ==
  /\ job[i] = "send"
  /\ batch[i] = {}
  /\ Goto(i, "list")
  /\ UNCHANGED <<database, todo, broker, lock, batch, closed, faults>>

\* The lock of a dead process expires, and where it is not safe anybody's does.
LockExpires ==
  /\ lock = Orphan \/ (~LockSafe /\ lock # None)
  /\ lock' = None
  /\ UNCHANGED <<database, todo, broker, job, batch, closed, faults>>

-----------------------------------------------------------------------------
\* Time, closing and crashes.

\* A minute passes after the row was made.
Trigger(m) ==
  /\ row[m] = "live"
  /\ m \notin due
  /\ due' = due \cup {m}
  /\ UNCHANGED <<tx, row, old, todo, broker, jobs, faults>>

\* Seven days pass.
Age(m) ==
  /\ row[m] = "deleted" \/ (row[m] = "live" /\ m \in Slow)
  /\ m \in due
  /\ m \notin old
  /\ old' = old \cup {m}
  /\ UNCHANGED <<tx, row, due, todo, broker, jobs, faults>>

\* deletedTransactionalMsg: old rows are deleted for good, whatever their state.
Purge ==
  /\ \E m \in old : row[m] \in {"live", "deleted"}
  /\ \E i \in Instances : Running(i)
  /\ row' = [m \in Messages |->
               IF m \in old /\ row[m] \in {"live", "deleted"} THEN "purged" ELSE row[m]]
  /\ UNCHANGED <<tx, due, old, todo, broker, jobs, faults>>

\* Client.Close: the running round goes on, there is no other.
Close(i) ==
  /\ i \in MayClose
  /\ Running(i)
  /\ i \notin closed
  /\ closed' = closed \cup {i}
  /\ UNCHANGED <<database, todo, broker, lock, job, batch, faults>>

\* The process dies: the database rolls its open transactions back, its goroutines
\* are gone, its messages on their way may still arrive.
Crash(i) ==
  /\ Running(i)
  /\ crashes < MaxCrashes
  /\ crashes' = crashes + 1
  /\ Goto(i, "down")
  /\ tx' = [t \in Txns |-> IF Home[t] = i /\ tx[t] = "open" THEN "aborted" ELSE tx[t]]
  /\ row' = [m \in Messages |->
               IF Home[TxOf[m]] = i /\ row[m] = "saved" THEN "none" ELSE row[m]]
  /\ todo' = [t \in Txns |-> IF Home[t] = i THEN {} ELSE todo[t]]
  /\ attempt' = [m \in Messages |-> [k \in Slots |->
       IF attempt[m][k].by = i THEN Stray(attempt[m][k]) ELSE attempt[m][k]]]
  /\ batch' = [batch EXCEPT ![i] = {}]
  /\ lock' = IF lock = i THEN Orphan ELSE lock
  /\ closed' = closed \ {i}
  /\ UNCHANGED <<due, old, delivered, altered, up, outages>>

Restart(i) ==
  /\ job[i] = "down"
  /\ Goto(i, "start")
  /\ UNCHANGED <<database, todo, broker, lock, batch, closed, faults>>

-----------------------------------------------------------------------------

Transaction ==
  \/ \E t \in Txns : Begin(t) \/ Rollback(t) \/ Commit(t)
  \/ \E m \in Messages : Save(m)

Publishing(m, k) ==
  Take(m, k) \/ SendBack(m, k) \/ Nack(m, k) \/ HearYes(m, k) \/ HearNo(m, k)

Round(i) ==
  \/ StartRound(i) \/ TryLock(i) \/ List(i) \/ NextBatch(i)
  \/ \E m \in Messages : SendNext(i, m)

Next ==
  \/ Transaction
  \/ \E t \in Txns, m \in Messages : FirstSend(t, m)
  \/ \E m \in Messages, k \in Slots : Publishing(m, k)
  \/ \E i \in Instances : Round(i) \/ Close(i) \/ Crash(i) \/ Restart(i)
  \/ \E m \in Messages : Trigger(m) \/ Age(m)
  \/ Outage \/ Recover \/ LockExpires \/ Purge

Spec == Init /\ [][Next]_vars

\* Goroutines run, the broker handles what reaches it, outages and locks end, a
\* minute passes, and crashed processes are restarted.  A message may be refused (Nack)
\* and a confirmation missed (HearNo) now and then, not every time; of several
\* instances each gets the lock at some time.
Fairness ==
  /\ \A t \in Txns, m \in Messages : WF_vars(FirstSend(t, m))
  /\ \A m \in Messages, k \in Slots :
       /\ WF_vars(Publishing(m, k)) /\ SF_vars(Take(m, k) \/ SendBack(m, k))
       /\ SF_vars(attempt[m][k].at = "taken" /\ HearYes(m, k))
  /\ \A i \in Instances : WF_vars(Round(i)) /\ SF_vars(TryLock(i)) /\ WF_vars(Restart(i))
  /\ \A m \in Messages : WF_vars(Trigger(m))
  /\ WF_vars(Recover) /\ WF_vars(LockExpires)

FairSpec == Spec /\ Fairness

-----------------------------------------------------------------------------
\* Properties.

Places == {"free", "sent", "taken", "returned", "stray"}

AttemptState ==
  {r \in [at : Places, by : Instances \cup {None}] : r.by = None <=> r.at \in {"free", "stray"}}

\* Every variable has its type; an attempt has an instance while somebody listens.
TypeOK ==
  /\ tx \in [Txns -> {"idle", "open", "committed", "aborted", "refused"}]
  /\ row \in [Messages -> {"none", "saved", "live", "deleted", "purged"}]
  /\ due \subseteq Messages /\ old \subseteq Messages
  /\ todo \in [Txns -> SUBSET Messages]
  /\ attempt \in [Messages -> [Slots -> AttemptState]]
  /\ delivered \subseteq Messages /\ altered \subseteq Recoded
  /\ lock \in Instances \cup {None, Orphan}
  /\ job \in [Instances -> {"down", "start", "sleep", "list", "send", "stopped"}]
  /\ batch \in [Instances -> SUBSET Messages]
  /\ closed \subseteq Instances
  /\ up \in BOOLEAN
  /\ crashes \in 0..MaxCrashes /\ outages \in 0..MaxOutages

\* A message is in somebody's hands: published, or about to be.
InHand(m) ==
  \/ m \in delivered
  \/ \E k \in Slots : attempt[m][k].at # "free"
  \/ \E t \in Txns : m \in todo[t]
  \/ \E i \in Instances : m \in batch[i]

\* A message is only ever sent when the transaction it was sent in has committed,
\* whatever fails or crashes before, at or after the commit.
OnlyCommittedSent == \A m \in Messages : InHand(m) => tx[TxOf[m]] = "committed"

\* A message of a committed transaction is in the broker or still in its row to be
\* sent: no confirmation, outage, crash, retry or purge drops it in between.
NoLoss ==
  \A m \in Messages :
    tx[TxOf[m]] = "committed" => m \in delivered \/ row[m] = "live"

\* Whatever the database, the broker and the lock do: a message whose transaction was
\* not asked to commit, or was rolled back, is never sent.
SentOnlyAfterCommit ==
  \A m \in Messages : InHand(m) => tx[TxOf[m]] \in {"committed", "refused"}

\* Whatever happens, a message of a committed transaction is only lost because it
\* could not be routed or its row lay unsent for seven days, and no row is purged before.
LossExplained ==
  \A m \in Messages :
    tx[TxOf[m]] = "committed" /\ m \notin delivered =>
      \/ row[m] = "live"
      \/ m \in Unroutable /\ row[m] = "deleted"
      \/ m \in old /\ row[m] = "purged" /\ m \in Slow \cup Unroutable

\* The messages of a committed transaction reach the broker, if an instance goes on
\* retrying (clients that are closed do not).
CommittedDelivered ==
  (\E i \in Instances : []<>(i \notin closed)) =>
    \A m \in Messages \ Unroutable :
      tx[TxOf[m]] = "committed" ~> m \in delivered

\* A retry sends what was sent at first: the same payload, with the same delay.
RetrySendsSame == altered = {}

-----------------------------------------------------------------------------
\* The conditions under which the outbox delivers what it promises.
Assumed == ~CommitFails /\ Unroutable = {} /\ Slow = {}

\* How a message's row follows its transaction and the broker.
RowFollows(m) ==
  /\ row[m] \in {"live", "deleted", "purged"} <=> tx[TxOf[m]] = "committed"
  /\ row[m] = "saved" => tx[TxOf[m]] = "open"
  /\ row[m] = "deleted" => m \in delivered \cup Unroutable
  /\ row[m] = "purged" => m \in old /\ m \in delivered \cup Unroutable \cup Slow
  /\ m \in old => row[m] \in {"deleted", "purged"} \/ (m \in Slow /\ row[m] = "live")

\* A verdict that is still to be heard says what the broker did.
VerdictKnown(m) ==
  \A k \in Slots : /\ attempt[m][k].at = "taken" => m \in delivered
                   /\ attempt[m][k].at = "returned" => m \in Unroutable

\* The inductive invariant behind all the safety properties.
OutboxInv ==
  /\ SentOnlyAfterCommit
  /\ \A m \in Messages : RowFollows(m) /\ VerdictKnown(m)
  /\ CommitFails \/ \A t \in Txns : tx[t] # "refused"

Owed == {m \in Messages : tx[TxOf[m]] = "committed"}
AbstractDelivery == INSTANCE TransactionalDelivery WITH owed <- Owed

\* The outbox, with its retries, crashes and purges, implements TransactionalDelivery:
\* only messages of committed transactions reach the broker.
DeliverySpec == AbstractDelivery!Spec
=============================================================================
