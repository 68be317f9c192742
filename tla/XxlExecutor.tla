----------------------------- MODULE XxlExecutor -----------------------------
(***************************************************************************)
(* The xxl-job executor of src/xxl: executor.go, task.go and task_list.go. *)
(*                                                                         *)
(* The scheduling centre dispatches jobs over HTTP (runTask), asks whether *)
(* a job is idle (idleBeat) and kills jobs (killTask), each under the      *)
(* executor's mutex.  A registered handler has one Task, whose fields are  *)
(* those of the latest dispatch that named it.  The goroutine of a         *)
(* dispatch reads these fields when it starts, and again in the callback   *)
(* that takes the job off the list of running ones and reports the result: *)
(* neither is under the mutex, so the steps of a dispatch are apart.       *)
(***************************************************************************)
EXTENDS FiniteSets

CONSTANTS
  Jobs, Handlers,
  HandlerOf,      \* the handler each job names
  Calls,          \* dispatches, each with a log id of its own
  JobOf,          \* the job of each dispatch
  Cover,          \* the dispatches with the strategy COVER_EARLY
  Timed,          \* those with a timeout
  MayPanic,       \* those whose function may panic
  MayKill,        \* the jobs somebody may kill
  Unheard,        \* those whose result may not reach the scheduling centre
  None

ASSUME ExecutorAssumption ==
  /\ HandlerOf \in [Jobs -> Handlers]
  /\ JobOf \in [Calls -> Jobs]
  /\ Cover \subseteq Calls /\ Timed \subseteq Calls /\ MayKill \subseteq Jobs
  /\ Unheard \subseteq Calls /\ MayPanic \subseteq Calls
  /\ None \notin Jobs /\ None \notin Calls

VARIABLES
  registered,     \* the handlers in regList
  runList,        \* the jobs in runList
  ext, id, param, \* Task.Ext (with Cancel), Task.Id and Task.Param of each handler:
                  \*   the dispatch, the job and the dispatch they were set for
  call,           \* each request of runTask: "new", "refused", or the fields it has set
  killing,        \* the job a request of killTask has found in runList
  run,            \* the goroutine of each dispatch, and the fields it read
  panicked,       \* the dispatches whose function panicked
  cancelled,      \* the dispatches whose context is cancelled
  reported,       \* <<c, l>>: the goroutine of c reported a result under the log id of l
  followed        \* <<c, l>>: l was admitted when c was off the list and had not reported

vars == <<registered, runList, ext, id, param, call, killing, run, panicked, cancelled,
          reported, followed>>
task == <<ext, id, param>>
reports == <<reported, followed>>

HandlerFor(c) == HandlerOf[JobOf[c]]

Idle == [at |-> "none", ext |-> None, param |-> None]

Init ==
  /\ registered = {}
  /\ runList = {}
  /\ ext = [h \in Handlers |-> None]
  /\ id = [h \in Handlers |-> None]
  /\ param = [h \in Handlers |-> None]
  /\ call = [c \in Calls |-> "new"]
  /\ killing = None
  /\ run = [c \in Calls |-> Idle]
  /\ panicked = {} /\ cancelled = {} /\ reported = {} /\ followed = {}

-----------------------------------------------------------------------------
\* Requests.  The mutex e.mu is held between two steps of one.

Halfway == {"context", "id", "param", "listed", "started"}

Locked == killing # None \/ \E c \in Calls : call[c] \in Halfway

RegTask(h) ==
  /\ h \notin registered
  /\ registered' = registered \cup {h}
  /\ UNCHANGED <<runList, task, call, killing, run, panicked, cancelled, reports>>

\* The handler is unknown, or the job is running and is not to be covered.
Refused(c) ==
  \/ HandlerFor(c) \notin registered
  \/ JobOf[c] \in runList /\ c \notin Cover

\* Variant for the properties: the Task gets its parameters before the checks.
RefuseSetsParam(c) ==
  /\ call[c] = "new"
  /\ ~Locked
  /\ Refused(c)
  /\ call' = [call EXCEPT ![c] = "refused"]
  /\ param' = [param EXCEPT ![HandlerFor(c)] = c]
  /\ UNCHANGED <<registered, runList, ext, id, killing, run, panicked, cancelled, reports>>

Refuse(c) ==
  /\ call[c] = "new"
  /\ ~Locked
  /\ Refused(c)
  /\ call' = [call EXCEPT ![c] = "refused"]
  /\ UNCHANGED <<registered, runList, task, killing, run, panicked, cancelled, reports>>

\* A new context for the Task, after a running one was cancelled and its job taken
\* off the list: the one the Task was last dispatched for.
SetContext(c) ==
  LET h == HandlerFor(c) IN
  /\ ext' = [ext EXCEPT ![h] = c]
  /\ IF JobOf[c] \in runList
       THEN /\ cancelled' = cancelled \cup {ext[h]}
            /\ runList' = runList \ {id[h]}
       ELSE UNCHANGED <<cancelled, runList>>

\* The runs of the handler that are off the list and have still to report.
Follow(c) ==
  followed' = followed \cup
    {<<b, c>> : b \in {d \in Calls : HandlerFor(d) = HandlerFor(c) /\ run[d].at = "post"}}

\* Variant: the list is not looked at.
AdmitAlways(c) ==
  /\ call[c] = "new"
  /\ ~Locked
  /\ HandlerFor(c) \in registered
  /\ ext' = [ext EXCEPT ![HandlerFor(c)] = c]
  /\ call' = [call EXCEPT ![c] = "context"]
  /\ Follow(c)
  /\ UNCHANGED <<registered, runList, id, param, killing, run, panicked, cancelled, reported>>

Admit(c) ==
  /\ call[c] = "new"
  /\ ~Locked
  /\ ~Refused(c)
  /\ SetContext(c)
  /\ call' = [call EXCEPT ![c] = "context"]
  /\ Follow(c)
  /\ UNCHANGED <<registered, id, param, killing, run, panicked, reported>>

SetId(c) ==
  /\ call[c] = "context"
  /\ id' = [id EXCEPT ![HandlerFor(c)] = JobOf[c]]
  /\ call' = [call EXCEPT ![c] = "id"]
  /\ UNCHANGED <<registered, runList, ext, param, killing, run, panicked, cancelled, reports>>

\* Variant: the Task keeps the parameters it has.
SetParamOnce(c) ==
  /\ call[c] = "id"
  /\ param' = [param EXCEPT ![HandlerFor(c)] = IF @ = None THEN c ELSE @]
  /\ call' = [call EXCEPT ![c] = "param"]
  /\ UNCHANGED <<registered, runList, ext, id, killing, run, panicked, cancelled, reports>>

\* A callback that has left the list before reads these parameters from here on.
SetParam(c) ==
  /\ call[c] = "id"
  /\ param' = [param EXCEPT ![HandlerFor(c)] = c]
  /\ call' = [call EXCEPT ![c] = "param"]
  /\ UNCHANGED <<registered, runList, ext, id, killing, run, panicked, cancelled, reports>>

\* Variant: the job is not listed.
ListNot(c) ==
  /\ call[c] = "param"
  /\ call' = [call EXCEPT ![c] = "listed"]
  /\ UNCHANGED <<registered, runList, task, killing, run, panicked, cancelled, reports>>

List(c) ==
  /\ call[c] = "param"
  /\ runList' = runList \cup {JobOf[c]}
  /\ call' = [call EXCEPT ![c] = "listed"]
  /\ UNCHANGED <<registered, task, killing, run, panicked, cancelled, reports>>

\* The goroutine is started, and may come to its end before the request is answered.
Launch(c) ==
  /\ call[c] = "listed"
  /\ run' = [run EXCEPT ![c].at = "spawned"]
  /\ call' = [call EXCEPT ![c] = "started"]
  /\ UNCHANGED <<registered, runList, task, killing, panicked, cancelled, reports>>

\* The dispatch is answered, and the mutex given back.
Accept(c) ==
  /\ call[c] = "started"
  /\ call' = [call EXCEPT ![c] = "accepted"]
  /\ UNCHANGED <<registered, runList, task, killing, run, panicked, cancelled, reports>>

\* killTask finds the job in the list.
Kill(j) ==
  /\ j \in MayKill
  /\ ~Locked
  /\ j \in runList
  /\ killing' = j
  /\ UNCHANGED <<registered, runList, task, call, run, panicked, cancelled, reports>>

\* It cancels the Task's context and takes the job off the list; if a callback was
\* faster there is no Task, and the request panics.
KillRunning(j) ==
  /\ killing = j
  /\ killing' = None
  /\ IF j \in runList
       THEN /\ cancelled' = cancelled \cup {ext[HandlerOf[j]]}
            /\ runList' = runList \ {j}
       ELSE UNCHANGED <<cancelled, runList>>
  /\ UNCHANGED <<registered, task, call, run, panicked, reports>>

-----------------------------------------------------------------------------
\* The goroutine of a dispatch: Task.Run and the callback.

Goto(c, p) == run' = [run EXCEPT ![c].at = p]

\* It reads the context and its cancel function, then the parameters, and calls the
\* handler's function.
ReadContext(c) ==
  /\ run[c].at = "spawned"
  /\ run' = [run EXCEPT ![c] = [at |-> "context", ext |-> ext[HandlerFor(c)], param |-> None]]
  /\ UNCHANGED <<registered, runList, task, call, killing, panicked, cancelled, reports>>

Start(c) ==
  /\ run[c].at = "context"
  /\ run' = [run EXCEPT ![c] = [at |-> "running", ext |-> @.ext, param |-> param[HandlerFor(c)]]]
  /\ UNCHANGED <<registered, runList, task, call, killing, panicked, cancelled, reports>>

\* The function returns, or panics.
Return(c) ==
  /\ run[c].at = "running"
  /\ Goto(c, "delete")
  /\ panicked' = panicked \/ (c \in MayPanic /\ panicked' = panicked \cup {c})
  /\ UNCHANGED <<registered, runList, task, call, killing, cancelled, reports>>

\* Variant: the job stays listed.
DeleteNot(c) ==
  /\ run[c].at = "delete"
  /\ Goto(c, "post")
  /\ UNCHANGED <<registered, runList, task, call, killing, panicked, cancelled, reports>>

\* The callback takes off the list the job its Task names now.
Delete(c) ==
  /\ run[c].at = "delete"
  /\ runList' = runList \ {id[HandlerFor(c)]}
  /\ Goto(c, "post")
  /\ UNCHANGED <<registered, task, call, killing, panicked, cancelled, reports>>

\* It posts the result under the log id its Task has now, and a failure to post it is
\* only logged.  After a panic the context it read is cancelled.
Post(c) ==
  /\ run[c].at = "post"
  /\ Goto(c, "done")
  /\ \/ reported' = reported \cup {<<c, param[HandlerFor(c)]>>}
     \/ c \in Unheard /\ reported' = reported
  /\ cancelled' = IF c \in panicked THEN cancelled \cup {run[c].ext} ELSE cancelled
  /\ UNCHANGED <<registered, runList, task, call, killing, panicked, followed>>

\* The timeout of a context passes, long after its function returned or before.
Timeout(c) ==
  /\ c \in Timed \ cancelled
  /\ call[c] \notin {"new", "refused"}
  /\ cancelled' = cancelled \cup {c}
  /\ UNCHANGED <<registered, runList, task, call, killing, run, panicked, reports>>

-----------------------------------------------------------------------------

\* What the request goes on with once it was admitted.
Proceed(c) == SetId(c) \/ SetParam(c) \/ List(c) \/ Launch(c) \/ Accept(c)

Request(c) == Refuse(c) \/ Admit(c) \/ Proceed(c)

Goroutine(c) == ReadContext(c) \/ Start(c) \/ Return(c) \/ Delete(c) \/ Post(c)

Next ==
  \/ \E h \in Handlers : RegTask(h)
  \/ \E c \in Calls : Request(c) \/ Goroutine(c) \/ Timeout(c)
  \/ \E j \in Jobs : Kill(j) \/ KillRunning(j)

Spec == Init /\ [][Next]_vars

\* A request that holds the mutex goes on, goroutines run and functions return.
\* Nothing obliges the scheduling centre to dispatch or to kill.
Fairness ==
  /\ WF_vars(\E c \in Calls : Proceed(c))
  /\ WF_vars(\E j \in Jobs : KillRunning(j))
  /\ \A c \in Calls : WF_vars(Goroutine(c))

FairSpec == Spec /\ Fairness

-----------------------------------------------------------------------------
\* Properties.

Stages == {"none", "spawned", "context", "running", "delete", "post", "done"}

\* Every variable has its type.
TypeOK ==
  /\ registered \subseteq Handlers
  /\ runList \subseteq Jobs
  /\ ext \in [Handlers -> Calls \cup {None}]
  /\ id \in [Handlers -> Jobs \cup {None}]
  /\ param \in [Handlers -> Calls \cup {None}]
  /\ call \in [Calls -> Halfway \cup {"new", "refused", "accepted"}]
  /\ killing \in Jobs \cup {None}
  /\ run \in [Calls -> [at : Stages, ext : Calls \cup {None}, param : Calls \cup {None}]]
  /\ panicked \subseteq Calls /\ cancelled \subseteq Calls
  /\ reported \subseteq Calls \X Calls /\ followed \subseteq Calls \X Calls

\* The dispatches from their listing on, until their callback has taken them off.
UnderWay ==
  {c \in Calls :
     call[c] = "listed" \/ run[c].at \in {"spawned", "context", "running", "delete"}}

\* A handler that serves one job; one whose job is never killed or covered either.
Alone(h) == \A i, j \in Jobs : HandlerOf[i] = h /\ HandlerOf[j] = h => i = j
Quiet(h) ==
  /\ Alone(h)
  /\ \A c \in Calls : HandlerFor(c) = h => c \notin Cover /\ JobOf[c] \notin MayKill

QuietCalls == {c \in Calls : Quiet(HandlerFor(c))}

\* The runs of a job do not overlap, whatever is dispatched meanwhile.
Serial == \A c, d \in UnderWay : JobOf[c] = JobOf[d] => c = d

\* They do not when the job has its handler to itself and is not killed or covered,
\* whatever other handlers go through.
QuietSerial == \A c, d \in UnderWay \cap QuietCalls : JobOf[c] = JobOf[d] => c = d

\* The list is a list of running jobs: what idleBeat and killTask answer is true.
ListIsRunning == \A j \in runList : \E c \in UnderWay : JobOf[c] = j

\* So it is for quiet handlers, and no running job is missing from it.
QuietListed ==
  /\ \A j \in runList :
       Quiet(HandlerOf[j]) => \E c \in UnderWay : JobOf[c] = j
  /\ \A c \in UnderWay \cap QuietCalls : JobOf[c] \in runList

\* The function of a quiet handler is called with the parameters and the context of
\* its own dispatch, which nothing but its timeout or its own panic cancels.
QuietOwn ==
  \A c \in QuietCalls :
    /\ run[c].at = "running" => run[c].param = c /\ run[c].ext = c
    /\ c \in cancelled => c \in Timed \/ c \in panicked

\* COVER_EARLY cancels what it covers: of a job's runs at most one was not told to stop.
OneLive ==
  \A c, d \in UnderWay \ cancelled : JobOf[c] = JobOf[d] => c = d

\* A result is reported under the log id of the dispatch it is the result of.
ReportsOwn == \A r \in reported : r[1] = r[2]

\* A quiet handler's results are reported under the log id of their own dispatch, or,
\* as the callback frees the job first, under one that was admitted in that gap: never
\* under one that was admitted before, or refused.
QuietReports ==
  \A r \in reported : r[1] \in QuietCalls => r[1] = r[2] \/ r \in followed

\* A job that has its handler to itself is not refused for ever: it leaves the list,
\* whatever is killed or covered.
AloneFreed ==
  \A j \in Jobs : Alone(HandlerOf[j]) => (j \in runList ~> j \notin runList)

-----------------------------------------------------------------------------
\* A Task is only ever dispatched for its own handler, and the one of a listed job
\* has been.
TaskFields(h) ==
  /\ ext[h] # None => HandlerFor(ext[h]) = h
  /\ id[h] # None => HandlerOf[id[h]] = h
  /\ param[h] # None => HandlerFor(param[h]) = h
ListedTask(j) == j \in runList => ext[HandlerOf[j]] # None

\* A dispatch runs once it was launched, and the fields it reads are set.
RunFields(c) ==
  LET h == HandlerFor(c) IN
  /\ run[c].at = "none" <=> call[c] \notin {"started", "accepted"}
  /\ call[c] \in {"param", "listed"} => param[h] # None
  /\ run[c].at # "none" => ext[h] # None /\ param[h] # None
  /\ run[c].at \notin {"none", "spawned"} => run[c].ext # None
  /\ run[c].ext # None => HandlerFor(run[c].ext) = h

\* One dispatch is being accepted at a time, and the Task has its context; only some
\* jobs are ever killed.
Requests ==
  /\ \A c, d \in Calls : call[c] \in Halfway /\ call[d] \in Halfway => c = d
  /\ \A c \in Calls : call[c] \in Halfway => ext[HandlerFor(c)] = c
  /\ killing \in MayKill \cup {None}

\* The Task of a quiet handler is that of the run under way, or of the dispatch
\* about to be listed.
QuietTask(c) ==
  LET h == HandlerFor(c) IN
  /\ c \in UnderWay =>
       JobOf[c] \in runList /\ ext[h] = c /\ id[h] = JobOf[c] /\ param[h] = c
  /\ call[c] \in {"context", "id", "param"} => JobOf[c] \notin runList
  /\ call[c] \in {"id", "param"} => id[h] = JobOf[c]
  /\ call[c] = "param" => param[h] = c
  /\ run[c].at \notin {"none", "spawned"} => run[c].ext = c

\* A run that has still to report finds its own log id, or that of a dispatch which
\* followed it; one that is about to set its own is among those.
QuietFollowed(c) ==
  LET h == HandlerFor(c)
      nexts ==
        {d \in Calls : HandlerFor(d) = h /\ (d = param[h] \/ call[d] \in {"context", "id"})}
  IN  run[c].at = "post" => \A d \in nexts : d = c \/ <<c, d>> \in followed

\* The inductive invariant behind the properties of quiet handlers.
ExecutorInv ==
  /\ Requests
  /\ \A h \in Handlers : TaskFields(h)
  /\ \A j \in Jobs : ListedTask(j)
  /\ \A c \in Calls : RunFields(c)
  /\ \A c \in QuietCalls : QuietTask(c) /\ QuietFollowed(c)
  /\ QuietListed
  /\ QuietOwn
  /\ QuietReports
=============================================================================
