----------------------------- MODULE DeadLetters -----------------------------
(***************************************************************************)
(* Consuming messages, and retrying those that fail: doStartListener, the  *)
(* dead-letter listener and the dead-letter retry job of src/rabbitmq,     *)
(* over the table dead_msg, in several service instances.                  *)
(*                                                                         *)
(* A message whose listener fails goes to the dead-letter queue, from      *)
(* there to a row of dead_msg, and every minute the instance that gets a   *)
(* Redis lock calls the listener for all rows until none is left: a row is *)
(* erased on success, counted on failure and given up (deleted softly)     *)
(* when it was counted often enough.                                       *)
(*                                                                         *)
(* Consumers are not told apart: losing a channel stands for the loss of   *)
(* the connection as well as for the death of the consuming process.       *)
(***************************************************************************)
EXTENDS Naturals, FiniteSets

CONSTANTS
  Messages,
  Results,        \* what the listener may do with each message: "ok", "err", "panic"
  AutoAck,        \* ConsumerParam.AutoAck of the listener
  Requeue,        \* AckParam.Requeue of the listener
  UseDead,        \* a dead-letter exchange and queue are configured
  Plain,          \* messages whose body is no JSON, which dead_msg does not take
  Rows,           \* ids of dead_msg (a bound)
  MaxRetry,       \* MaxRetryAttempts of the configuration
  Instances,      \* processes of the service
  Listens,        \* who registers the listener of each message's queue once started
  BatchLimit,     \* rows the retry job lists at a time (100)
  MayClose,       \* those that may close their client
  LockSafe,       \* the retry lock excludes, as RedisLock shows it may not
  DbFails,        \* whether the database may refuse a write of the retry job
  MaxLosses, MaxCrashes, MaxTries,   \* bounds on losses of channels, crashes, retries
  None, Orphan

ASSUME DeadAssumption ==
  /\ Results \in [Messages -> SUBSET {"ok", "err", "panic"}]
  /\ {AutoAck, Requeue, UseDead, LockSafe, DbFails} \subseteq BOOLEAN
  /\ Plain \subseteq Messages
  /\ MaxRetry \in Nat \ {0} /\ BatchLimit \in Nat \ {0}
  /\ Listens \subseteq Instances \X Messages /\ MayClose \subseteq Instances
  /\ MaxLosses \in Nat /\ MaxCrashes \in Nat /\ MaxTries \in Nat
  /\ None \notin Instances /\ Orphan \notin Instances /\ None # Orphan
  /\ None \notin Messages /\ None \notin Rows

VARIABLES
  place,          \* where the broker has each message, and whether it delivered it before
  stale,          \* messages a goroutine of a lost channel still handles
  handled,        \* messages whose listener has returned nil
  msgOf, count, state,  \* the rows: message, retry_count; "none", "live", "deleted", "erased"
  tries,          \* how often the retry job called the listener for each row
  lock,           \* who holds the lock of the retry job
  job,            \* where the retry job of each instance is
  batch, snap,    \* the rows it listed and has still to retry, with their counts then
  doing,          \* the row it has just retried, to be recorded, and how it went
  closed,         \* the instances whose client was closed
  listening,      \* who has registered the listener of each message's queue
  losses, crashes

vars == <<place, stale, handled, msgOf, count, state, tries, lock, job, batch, snap, doing,
          closed, listening, losses, crashes>>
consumer == <<place, stale, losses>>
table == <<msgOf, count, state>>
round == <<job, batch, snap, doing>>
retrier == <<round, lock, closed, listening, crashes>>

Nothing == [row |-> None, how |-> "none"]

Init ==
  /\ place = [m \in Messages |-> "queue"]
  /\ stale = {} /\ handled = {}
  /\ msgOf = [r \in Rows |-> None]
  /\ count = [r \in Rows |-> 0]
  /\ state = [r \in Rows |-> "none"]
  /\ tries = [r \in Rows |-> 0]
  /\ lock = None
  /\ job = [i \in Instances |-> "start"]
  /\ batch = [i \in Instances |-> {}]
  /\ snap = [i \in Instances |-> [r \in Rows |-> 0]]
  /\ doing = [i \in Instances |-> Nothing]
  /\ closed = {} /\ listening = {}
  /\ losses = 0 /\ crashes = 0

Place(m, p) == place' = [place EXCEPT ![m] = p]

-----------------------------------------------------------------------------
\* The consumer, doStartListener.

\* The broker delivers; with AutoAck it forgets the message at once.
Deliver(m) ==
  /\ place[m] \in {"queue", "again"}
  /\ Place(m, IF place[m] = "queue" THEN "handling" ELSE "handling again")
  /\ UNCHANGED <<stale, handled, table, tries, retrier, losses>>

Handling(m) == place[m] \in {"handling", "handling again"}

\* Where a message goes that is refused and not put back.
DeadPlace == IF UseDead THEN "dead" ELSE "gone"

HandleOk(m) ==
  /\ Handling(m)
  /\ "ok" \in Results[m]
  /\ handled' = handled \cup {m}
  /\ Place(m, IF AutoAck THEN "gone" ELSE "acking")
  /\ UNCHANGED <<stale, table, tries, retrier, losses>>

Ack(m) ==
  /\ place[m] = "acking"
  /\ Place(m, "gone")
  /\ UNCHANGED <<stale, handled, table, tries, retrier, losses>>

\* Variant for the properties: a message that failed is acknowledged.
HandleErrAcks(m) ==
  /\ Handling(m)
  /\ "err" \in Results[m]
  /\ Place(m, "gone")
  /\ UNCHANGED <<stale, handled, table, tries, retrier, losses>>

\* An error: put back the first time if the listener wants it, else dead-lettered.
HandleErr(m) ==
  /\ Handling(m)
  /\ "err" \in Results[m]
  /\ Place(m, IF AutoAck THEN "gone"
              ELSE IF Requeue /\ place[m] = "handling" THEN "again" ELSE DeadPlace)
  /\ UNCHANGED <<stale, handled, table, tries, retrier, losses>>

HandlePanic(m) ==
  /\ Handling(m)
  /\ "panic" \in Results[m]
  /\ Place(m, IF AutoAck THEN "gone" ELSE DeadPlace)
  /\ UNCHANGED <<stale, handled, table, tries, retrier, losses>>

\* The channel is lost: the broker delivers again what was not acknowledged, while
\* the goroutine, unless it died too, still handles it.
Lose(m) ==
  /\ Handling(m) \/ place[m] \in {"acking", "saved"}
  /\ losses < MaxLosses
  /\ losses' = losses + 1
  /\ Place(m, IF place[m] = "saved" THEN "dead" ELSE IF AutoAck THEN "gone" ELSE "again")
  /\ stale' = stale \/ (Handling(m) /\ stale' = stale \cup {m})
  /\ UNCHANGED <<handled, table, tries, retrier>>

\* A goroutine of a lost channel ends; its Ack or Nack fails.
StaleEnds(m) ==
  /\ m \in stale
  /\ stale' = stale \ {m}
  /\ \/ "ok" \in Results[m] /\ handled' = handled \cup {m}
     \/ handled' = handled
  /\ UNCHANGED <<place, table, tries, retrier, losses>>

-----------------------------------------------------------------------------
\* deadMsgListener.

\* Variant: the dead letter is acknowledged although its row was not saved.
SaveDeadNot(m) ==
  /\ place[m] = "dead"
  /\ Place(m, "saved")
  /\ UNCHANGED <<stale, handled, table, tries, retrier, losses>>

\* A row is made; an error puts the dead letter back, always.  (The broker names the
\* first queue of every dead letter, so reading that header does not panic.)
SaveDead(m) ==
  /\ place[m] = "dead"
  /\ m \notin Plain
  /\ \E r \in Rows :
       /\ state[r] = "none"
       /\ msgOf' = [msgOf EXCEPT ![r] = m]
       /\ state' = [state EXCEPT ![r] = "live"]
  /\ Place(m, "saved")
  /\ UNCHANGED <<stale, handled, count, tries, retrier, losses>>

AckDead(m) ==
  /\ place[m] = "saved"
  /\ Place(m, "gone")
  /\ UNCHANGED <<stale, handled, table, tries, retrier, losses>>

-----------------------------------------------------------------------------
\* RegisterListener starts the retry job of the instance, declares the dead-letter
\* exchange, which waits for the broker as long as it takes, and only then enters the
\* listeners in the map in which the retry job looks them up.
Register(i, m) ==
  /\ <<i, m>> \in Listens \ listening
  /\ listening' = listening \cup {<<i, m>>}
  /\ UNCHANGED <<consumer, handled, table, tries, lock, round, closed, crashes>>

-----------------------------------------------------------------------------
\* The retry job, rabbitMqDeadMessageRetrySend.

Goto(i, p) == job' = [job EXCEPT ![i] = p]
Unlock(i) == lock' = IF lock = i THEN None ELSE lock

\* A round begins with the state of the client, then sleeps for a minute.
StartRound(i) ==
  /\ job[i] = "start"
  /\ Goto(i, IF i \in closed THEN "stopped" ELSE "sleep")
  /\ UNCHANGED <<consumer, handled, table, tries, lock, batch, snap, doing,
                 closed, listening, crashes>>

\* Variant: the round goes on without the lock.
TryLockIgnored(i) ==
  /\ job[i] = "sleep"
  /\ lock' = IF lock = None THEN i ELSE lock
  /\ Goto(i, "list")
  /\ UNCHANGED <<consumer, handled, table, tries, batch, snap, doing,
                 closed, listening, crashes>>

TryLock(i) ==
  /\ job[i] = "sleep"
  /\ IF lock = None
       THEN lock' = i /\ Goto(i, "list")
       ELSE lock' = lock /\ Goto(i, "start")
  /\ UNCHANGED <<consumer, handled, table, tries, batch, snap, doing,
                 closed, listening, crashes>>

Live == {r \in Rows : state[r] = "live"}

\* At most BatchLimit of the rows that are left, in no order; without any the round is
\* over.
List(i) ==
  /\ job[i] = "list"
  /\ \/ /\ Live # {}
        /\ \E rows \in SUBSET Live :
             /\ rows = Live \/ Cardinality(rows) = BatchLimit
             /\ Cardinality(rows) <= BatchLimit
             /\ batch' = [batch EXCEPT ![i] = rows]
        /\ snap' = [snap EXCEPT ![i] = count]
        /\ Goto(i, "retry")
        /\ lock' = lock
     \/ /\ Live = {} \/ DbFails
        /\ Goto(i, "start")
        /\ Unlock(i)
        /\ UNCHANGED <<batch, snap>>
  /\ UNCHANGED <<consumer, handled, table, tries, doing, closed, listening, crashes>>

\* No listener of the queue here, or none yet: the row is left as it is.
SkipRow(i, r) ==
  /\ job[i] = "retry"
  /\ doing[i] = Nothing
  /\ r \in batch[i]
  /\ <<i, msgOf[r]>> \notin listening
  /\ batch' = [batch EXCEPT ![i] = @ \ {r}]
  /\ UNCHANGED <<consumer, handled, table, tries, lock, job, snap, doing,
                 closed, listening, crashes>>

\* The listener is called with the row's message, and returns.  (A row that cannot be
\* decoded would count a retry without a call: SaveDead writes none.)
TryRow(i, r) ==
  /\ job[i] = "retry"
  /\ doing[i] = Nothing
  /\ r \in batch[i]
  /\ <<i, msgOf[r]>> \in listening
  /\ tries[r] < MaxTries
  /\ tries' = [tries EXCEPT ![r] = @ + 1]
  /\ batch' = [batch EXCEPT ![i] = @ \ {r}]
  /\ \/ /\ "ok" \in Results[msgOf[r]]
        /\ handled' = handled \cup {msgOf[r]}
        /\ doing' = [doing EXCEPT ![i] = [row |-> r, how |-> "ok"]]
     \/ /\ "err" \in Results[msgOf[r]]
        /\ handled' = handled
        /\ doing' = [doing EXCEPT ![i] = [row |-> r, how |-> "err"]]
  /\ UNCHANGED <<consumer, table, lock, job, snap, closed, listening, crashes>>

\* It panics: the round ends and gives the lock back, and nothing is counted.
TryRowPanics(i, r) ==
  /\ job[i] = "retry"
  /\ doing[i] = Nothing
  /\ r \in batch[i]
  /\ <<i, msgOf[r]>> \in listening
  /\ "panic" \in Results[msgOf[r]]
  /\ tries[r] < MaxTries
  /\ tries' = [tries EXCEPT ![r] = @ + 1]
  /\ batch' = [batch EXCEPT ![i] = {}]
  /\ Goto(i, "start")
  /\ Unlock(i)
  /\ UNCHANGED <<consumer, handled, table, snap, doing, closed, listening, crashes>>

\* Variant: a row is given up one retry early.
RecordEarly(i) ==
  LET r == doing[i].row IN
  /\ doing[i] # Nothing
  /\ doing' = [doing EXCEPT ![i] = Nothing]
  /\ IF doing[i].how = "err"
       THEN /\ count' = [count EXCEPT ![r] = snap[i][r] + 1]
            /\ state' = [state EXCEPT ![r] =
                           IF snap[i][r] + 2 >= MaxRetry THEN "deleted" ELSE "live"]
       ELSE /\ count' = count
            /\ state' = [state EXCEPT ![r] = "erased"]
  /\ UNCHANGED <<consumer, handled, msgOf, tries, lock, job, batch, snap,
                 closed, listening, crashes>>

\* Variant: a failure is not counted.
RecordUncounted(i) ==
  LET r == doing[i].row IN
  /\ doing[i] # Nothing
  /\ doing' = [doing EXCEPT ![i] = Nothing]
  /\ state' = IF doing[i].how = "err" THEN state ELSE [state EXCEPT ![r] = "erased"]
  /\ UNCHANGED <<consumer, handled, msgOf, count, tries, lock, job, batch, snap,
                 closed, listening, crashes>>

\* The row is erased, or written back as it was listed with one more retry: the
\* whole row, so that one erased or given up in between comes back.
Record(i) ==
  LET r == doing[i].row IN
  /\ doing[i] # Nothing
  /\ doing' = [doing EXCEPT ![i] = Nothing]
  /\ \/ /\ doing[i].how = "err"
        /\ count' = [count EXCEPT ![r] = snap[i][r] + 1]
        /\ state' = [state EXCEPT ![r] = IF snap[i][r] + 1 >= MaxRetry THEN "deleted" ELSE "live"]
     \/ /\ doing[i].how = "ok"
        /\ count' = count
        /\ state' = [state EXCEPT ![r] = "erased"]
     \/ DbFails /\ UNCHANGED <<count, state>>
  /\ UNCHANGED <<consumer, handled, msgOf, tries, lock, job, batch, snap,
                 closed, listening, crashes>>

\* Ten seconds after a batch the rows are listed again.
NextBatch(i) ==
  /\ job[i] = "retry"
  /\ doing[i] = Nothing
  /\ batch[i] = {}
  /\ Goto(i, "list")
  /\ UNCHANGED <<consumer, handled, table, tries, lock, batch, snap, doing,
                 closed, listening, crashes>>

LockExpires ==
  /\ lock = Orphan \/ (~LockSafe /\ lock # None)
  /\ lock' = None
  /\ UNCHANGED <<consumer, handled, table, tries, round, closed, listening, crashes>>

\* Client.Close: there is no round after the running one.
Close(i) ==
  /\ i \in MayClose \ closed
  /\ closed' = closed \cup {i}
  /\ UNCHANGED <<consumer, handled, table, tries, lock, round, listening, crashes>>

\* The process dies and is started again.
Crash(i) ==
  /\ crashes < MaxCrashes
  /\ crashes' = crashes + 1
  /\ Goto(i, "start")
  /\ batch' = [batch EXCEPT ![i] = {}]
  /\ doing' = [doing EXCEPT ![i] = Nothing]
  /\ lock' = IF lock = i THEN Orphan ELSE lock
  /\ closed' = closed \ {i}
  /\ listening' = listening \ ({i} \X Messages)
  /\ UNCHANGED <<consumer, handled, table, tries, snap>>

-----------------------------------------------------------------------------

Consume(m) ==
  \/ Deliver(m) \/ HandleOk(m) \/ Ack(m) \/ HandleErr(m) \/ HandlePanic(m)
  \/ SaveDead(m) \/ AckDead(m)

Round(i) ==
  \/ StartRound(i) \/ TryLock(i) \/ List(i) \/ Record(i) \/ NextBatch(i)
  \/ \E r \in Rows : SkipRow(i, r) \/ TryRow(i, r) \/ TryRowPanics(i, r)

Next ==
  \/ \E m \in Messages : Consume(m) \/ Lose(m) \/ StaleEnds(m)
  \/ \E i \in Instances : Round(i) \/ Close(i) \/ Crash(i)
  \/ \E i \in Instances, m \in Messages : Register(i, m)
  \/ LockExpires

Spec == Init /\ [][Next]_vars

\* The broker can be reached in the end and delivers, goroutines run and listeners return,
\* the lock of a dead process expires, and of several instances each gets the lock at some time.
Fairness ==
  /\ \A m \in Messages : WF_vars(Consume(m))
  /\ \A i \in Instances : WF_vars(Round(i)) /\ SF_vars(TryLock(i))
  /\ \A i \in Instances, m \in Messages : WF_vars(Register(i, m))
  /\ WF_vars(LockExpires)

FairSpec == Spec /\ Fairness

-----------------------------------------------------------------------------
\* Properties.

Places == {"queue", "again", "handling", "handling again", "acking", "dead", "saved", "gone"}
RowStates == {"none", "live", "deleted", "erased"}
Stages == {"start", "stopped", "sleep", "list", "retry"}
Doings == [row : Rows \cup {None}, how : {"none", "ok", "err"}]

\* Every variable has its type; a row never counts more than the configured retries, and
\* one that is live fewer.
TypeOK ==
  /\ place \in [Messages -> Places]
  /\ stale \subseteq Messages /\ handled \subseteq Messages
  /\ msgOf \in [Rows -> Messages \cup {None}]
  /\ count \in [Rows -> 0..MaxRetry]
  /\ state \in [Rows -> RowStates]
  /\ \A r \in Rows : state[r] = "live" => count[r] < MaxRetry
  /\ tries \in [Rows -> Nat]
  /\ lock \in Instances \cup {None, Orphan}
  /\ job \in [Instances -> Stages]
  /\ batch \in [Instances -> SUBSET Rows]
  /\ snap \in [Instances -> [Rows -> 0..MaxRetry]]
  /\ doing \in [Instances -> Doings]
  /\ closed \subseteq Instances /\ listening \subseteq Listens
  /\ losses \in 0..MaxLosses /\ crashes \in 0..MaxCrashes

\* A row still has the message, or was given up after the configured retries.
OnRow(m) ==
  \E r \in Rows : /\ msgOf[r] = m
                  /\ state[r] = "live" \/ (state[r] = "deleted" /\ count[r] >= MaxRetry)

\* A message is never lost: when the broker forgets it, its listener has succeeded, or
\* a row still has it, or it was given up after the configured number of retries.
NoLoss == \A m \in Messages : place[m] = "gone" => m \in handled \/ OnRow(m)

\* A row is not given up before its listener was called that often, even when two
\* instances work on it with counts that are out of date.
GivenUpLate == \A r \in Rows : state[r] = "deleted" => tries[r] >= MaxRetry

\* The retries are bounded: a crash costs at most one more.
RetriesBounded == \A r \in Rows : tries[r] <= MaxRetry + crashes

\* A row is only retried while it is live, not when it was erased or given up.
RetriesLive == [][\A r \in Rows : tries'[r] # tries[r] => state[r] = "live"]_vars

\* Every message is settled in the end: consumed, or given up.
Settled ==
  \A m \in Messages :
    <>(m \in handled \/ \E r \in Rows : msgOf[r] = m /\ state[r] = "deleted")

\* What is in the dead-letter queue gets into the table.
DeadSaved == \A m \in Messages : place[m] = "dead" ~> \E r \in Rows : msgOf[r] = m

-----------------------------------------------------------------------------
\* A round has rows to retry only in its middle: they exist, were live when they were
\* listed and have been retried as often as was counted then; the one just retried has
\* been once more, and its message was consumed if that went well.
Listed(i) ==
  /\ job[i] # "retry" => batch[i] = {} /\ doing[i] = Nothing
  /\ doing[i].row \notin batch[i]
  /\ \A r \in batch[i] : state[r] # "none" /\ snap[i][r] < MaxRetry /\ snap[i][r] <= tries[r]
Retried(i) ==
  LET r == doing[i].row IN
  /\ r = None <=> doing[i].how = "none"
  /\ r # None => state[r] # "none" /\ snap[i][r] < MaxRetry /\ snap[i][r] < tries[r]
  /\ doing[i].how = "ok" => msgOf[r] \in handled

\* No more retries are counted than were made, and a row is live until they suffice.
Counted(r) ==
  /\ count[r] <= tries[r]
  /\ state[r] = "none" => count[r] = 0 /\ tries[r] = 0 /\ msgOf[r] = None
  /\ state[r] # "none" => msgOf[r] # None
  /\ state[r] = "deleted" => count[r] >= MaxRetry

\* What is acknowledged next was consumed, or is in a row.
Kept(m) ==
  /\ place[m] = "acking" => m \in handled
  /\ place[m] \in {"saved", "gone"} => m \in handled \/ OnRow(m)

\* The inductive invariant behind GivenUpLate and NoLoss.
Keeping == ~AutoAck /\ UseDead
Rounds == \A i \in Instances : Listed(i) /\ Retried(i)
Counts == \A r \in Rows : Counted(r)
Keeps == Keeping => \A m \in Messages : Kept(m)
DeadInv == Rounds /\ Counts /\ Keeps

\* With a lock that excludes, one instance is in a round, and its counts are up to date.
Alone(i) == job[i] \in {"list", "retry"} => lock = i
Fresh(i) == \A r \in (batch[i] \cup {doing[i].row}) \ {None} :
              state[r] = "live" /\ snap[i][r] = count[r]

\* Every retry made is counted, is about to be, or was lost in a crash.
BeingCounted(r) == \E i \in Instances : doing[i].row = r
Bounded(r) ==
  /\ state[r] \in {"live", "deleted"} =>
       tries[r] <= count[r] + crashes \/ (BeingCounted(r) /\ tries[r] <= count[r] + crashes + 1)
  /\ state[r] = "erased" => tries[r] <= MaxRetry + crashes

\* The inductive invariant behind RetriesBounded and RetriesLive.
RetryInv ==
  /\ \A i \in Instances : Alone(i) /\ Fresh(i)
  /\ \A r \in Rows : Bounded(r)
=============================================================================
