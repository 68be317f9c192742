------------------------- MODULE XxlExecutorProofs -------------------------
(***************************************************************************)
(* Proofs about XxlExecutor, for any jobs, handlers and dispatches.        *)
(***************************************************************************)
EXTENDS XxlExecutor, TLAPS

USE ExecutorAssumption

\* Every step keeps the types: the fields of a Task that are read have been set.
LEMMA TypeInductive ==
  ASSUME TypeOK, ExecutorInv, [Next]_vars
  PROVE  TypeOK'
<1> USE DEF TypeOK, task, reports, HandlerFor, Halfway
<1>1. ASSUME NEW h \in Handlers, RegTask(h) PROVE TypeOK'
  BY <1>1 DEF RegTask
<1>2. ASSUME NEW c \in Calls, Refuse(c) PROVE TypeOK'
  BY <1>2 DEF Refuse
<1>3. ASSUME NEW c \in Calls, Admit(c) PROVE TypeOK'
  BY <1>3 DEF Admit, Follow, SetContext, Refused, ExecutorInv, ListedTask
<1>4. ASSUME NEW c \in Calls, SetId(c) PROVE TypeOK'
  BY <1>4 DEF SetId
<1>5. ASSUME NEW c \in Calls, Launch(c) PROVE TypeOK'
  BY <1>5 DEF Launch, Stages
<1>16. ASSUME NEW c \in Calls, SetParam(c) \/ List(c) \/ Accept(c) PROVE TypeOK'
  BY <1>16 DEF SetParam, List, Accept
<1>6. ASSUME NEW c \in Calls, ReadContext(c) PROVE TypeOK'
  BY <1>6 DEF ReadContext, Stages
<1>7. ASSUME NEW c \in Calls, Start(c) PROVE TypeOK'
  BY <1>7 DEF Start, Stages
<1>8. ASSUME NEW c \in Calls, Return(c) PROVE TypeOK'
  BY <1>8 DEF Return, Goto, Stages
<1>9. ASSUME NEW c \in Calls, Delete(c) PROVE TypeOK'
  BY <1>9 DEF Delete, Goto, Stages
<1>10. ASSUME NEW c \in Calls, Post(c) PROVE TypeOK'
  <2>1. param[HandlerFor(c)] \in Calls /\ run[c].ext \in Calls
    BY <1>10 DEF Post, ExecutorInv, RunFields
  <2>2. reported' \subseteq Calls \X Calls /\ cancelled' \subseteq Calls
    BY <1>10, <2>1 DEF Post
  <2>3. QED
    BY <1>10, <2>2 DEF Post, Goto, Stages
<1>11. ASSUME NEW c \in Calls, Timeout(c) PROVE TypeOK'
  BY <1>11 DEF Timeout
<1>12. ASSUME NEW j \in Jobs, Kill(j) PROVE TypeOK'
  BY <1>12 DEF Kill, Locked
<1>13. ASSUME NEW j \in Jobs, KillRunning(j) PROVE TypeOK'
  BY <1>13 DEF KillRunning, ExecutorInv, ListedTask
<1>14. CASE UNCHANGED vars
  BY <1>14 DEF vars
<1>15. QED
  BY <1>1, <1>2, <1>3, <1>4, <1>5, <1>6, <1>7, <1>8, <1>9, <1>10, <1>11, <1>12, <1>13, <1>14, <1>16 DEF Next, Request, Proceed, Goroutine

\* A quiet handler serves one job, so the calls for it are of that job.
LEMMA QuietApart ==
  ASSUME NEW c \in QuietCalls
  PROVE  /\ JobOf[c] \notin MayKill
         /\ \A j \in Jobs : HandlerOf[j] = HandlerFor(c) => j = JobOf[c]
         /\ \A d \in Calls : HandlerFor(d) = HandlerFor(c) =>
              JobOf[d] = JobOf[c] /\ d \in QuietCalls /\ d \notin Cover
BY DEF QuietCalls, Quiet, Alone, HandlerFor

\* So a dispatch of a quiet handler never covers another.
LEMMA QuietAdmit ==
  ASSUME TypeOK, ExecutorInv, NEW c \in Calls, Admit(c)
  PROVE  /\ \A d \in QuietCalls : HandlerFor(d) = HandlerFor(c) =>
              UNCHANGED <<runList, cancelled>> /\ JobOf[d] \notin runList
         /\ \A d \in QuietCalls : HandlerFor(d) # HandlerFor(c) =>
              /\ (d \in cancelled' <=> d \in cancelled)
              /\ (JobOf[d] \in runList' <=> JobOf[d] \in runList)
         /\ ext' = [ext EXCEPT ![HandlerFor(c)] = c]
         /\ UNCHANGED <<id, param, run, panicked>>
         /\ runList' \subseteq runList
<1>1. ASSUME NEW d \in QuietCalls, HandlerFor(d) = HandlerFor(c)
      PROVE  UNCHANGED <<runList, cancelled>> /\ JobOf[d] \notin runList
  <2>1. JobOf[c] = JobOf[d] /\ c \notin Cover
    BY <1>1, QuietApart
  <2>2. JobOf[c] \notin runList
    BY <2>1 DEF Admit, Refused
  <2>3. QED
    BY <2>1, <2>2 DEF Admit, SetContext
<1>2. ASSUME NEW d \in QuietCalls, HandlerFor(d) # HandlerFor(c)
      PROVE  /\ d \in cancelled' <=> d \in cancelled
             /\ JobOf[d] \in runList' <=> JobOf[d] \in runList
  <2>1. d # ext[HandlerFor(c)] /\ JobOf[d] # id[HandlerFor(c)]
    BY <1>2 DEF ExecutorInv, TaskFields, TypeOK, HandlerFor, QuietCalls
  <2>2. QED
    BY <2>1 DEF Admit, SetContext
<1>3. QED
  BY <1>1, <1>2 DEF Admit, SetContext

\* Every step keeps the invariant.
LEMMA ExecutorInvInductive ==
  ASSUME TypeOK, ExecutorInv, [Next]_vars
  PROVE  ExecutorInv'
<1> USE DEF TypeOK, task, reports, HandlerFor, QuietCalls, UnderWay, Halfway
<1>1. ASSUME NEW h \in Handlers, RegTask(h) PROVE ExecutorInv'
  BY <1>1 DEF RegTask, ExecutorInv, Requests, TaskFields, ListedTask, RunFields, QuietTask,
       QuietListed, QuietOwn, QuietFollowed, QuietReports
<1>2. ASSUME NEW c \in Calls, Refuse(c) PROVE ExecutorInv'
  BY <1>2 DEF Refuse, ExecutorInv, Requests, TaskFields, ListedTask, RunFields, QuietTask,
       QuietListed, QuietOwn, QuietFollowed, QuietReports
<1>3. ASSUME NEW c \in Calls, Admit(c) PROVE ExecutorInv'
  <2>1. Requests'
    BY <1>3 DEF Admit, SetContext, Refused, ExecutorInv, Requests, Locked
  <2>2. \A g \in Handlers : TaskFields(g)'
    BY <1>3 DEF Admit, SetContext, Refused, ExecutorInv, TaskFields
  <2>3. \A i \in Jobs : ListedTask(i)'
    BY <1>3 DEF Admit, SetContext, Refused, ExecutorInv, ListedTask
  <2>4. \A d \in Calls : RunFields(d)'
    BY <1>3 DEF Admit, SetContext, Refused, ExecutorInv, RunFields
  <2>5. \A d \in QuietCalls : QuietTask(d)'
    <3>1. ASSUME NEW d \in QuietCalls, HandlerFor(d) = HandlerFor(c) PROVE QuietTask(d)'
      <4>1. JobOf[d] \notin runList /\ JobOf[d] \notin runList'
        BY <1>3, <3>1, QuietAdmit
      <4>2. d \notin UnderWay
        BY <4>1 DEF ExecutorInv, QuietTask
      <4>3. QED
        BY <1>3, <4>1, <4>2, QuietAdmit DEF ExecutorInv, QuietTask, Admit
    <3>2. ASSUME NEW d \in QuietCalls, HandlerFor(d) # HandlerFor(c) PROVE QuietTask(d)'
      <4>1. call'[d] = call[d] /\ run'[d] = run[d]
        BY <1>3, <3>2, QuietAdmit DEF Admit
      <4>2. /\ ext'[HandlerFor(d)] = ext[HandlerFor(d)] /\ UNCHANGED <<id, param>>
            /\ JobOf[d] \in runList' <=> JobOf[d] \in runList
        BY <1>3, <3>2, QuietAdmit
      <4>3. QED
        BY <4>1, <4>2 DEF ExecutorInv, QuietTask
    <3>3. QED
      BY <3>1, <3>2
  <2>6. QuietListed'
    <3>1. \A d \in UnderWay \cap QuietCalls : HandlerFor(d) # HandlerFor(c)
      BY <1>3, QuietAdmit DEF ExecutorInv, QuietTask
    <3>2. runList' \subseteq runList /\ UnderWay' = UnderWay
      BY <1>3, QuietAdmit DEF Admit
    <3>3. QED
      BY <1>3, <3>1, <3>2, QuietAdmit DEF ExecutorInv, QuietListed
  <2>7. QuietOwn'
    BY <1>3, QuietAdmit DEF ExecutorInv, QuietOwn
  <2>8. \A d \in QuietCalls : QuietFollowed(d)'
    BY <1>3 DEF Admit, Follow, SetContext, ExecutorInv, QuietFollowed, QuietTask
  <2>9. QuietReports'
    BY <1>3 DEF Admit, Follow, SetContext, ExecutorInv, QuietReports
  <2>10. QED
    BY <2>1, <2>2, <2>3, <2>4, <2>5, <2>6, <2>7, <2>8, <2>9 DEF ExecutorInv
<1>4. ASSUME NEW c \in Calls, SetId(c) PROVE ExecutorInv'
  <2>1. Requests'
    BY <1>4 DEF SetId, ExecutorInv, Requests
  <2>2. \A g \in Handlers : TaskFields(g)'
    BY <1>4 DEF SetId, ExecutorInv, TaskFields
  <2>3. \A i \in Jobs : ListedTask(i)'
    BY <1>4 DEF SetId, ExecutorInv, ListedTask
  <2>4. \A d \in Calls : RunFields(d)'
    BY <1>4 DEF SetId, ExecutorInv, RunFields
  <2>5. \A d \in QuietCalls : QuietTask(d)'
    BY <1>4 DEF SetId, ExecutorInv, QuietTask, Requests
  <2>6. QuietListed'
    BY <1>4 DEF SetId, ExecutorInv, QuietListed
  <2>7. QuietOwn'
    BY <1>4 DEF SetId, ExecutorInv, QuietOwn
  <2>8. \A d \in QuietCalls : QuietFollowed(d)'
    BY <1>4 DEF SetId, ExecutorInv, QuietFollowed, QuietTask
  <2>9. QuietReports'
    BY <1>4 DEF SetId, ExecutorInv, QuietReports
  <2>10. QED
    BY <2>1, <2>2, <2>3, <2>4, <2>5, <2>6, <2>7, <2>8, <2>9 DEF ExecutorInv
<1>5. ASSUME NEW c \in Calls, Launch(c) PROVE ExecutorInv'
  <2>1. Requests'
    BY <1>5 DEF Launch, ExecutorInv, Requests
  <2>2. \A g \in Handlers : TaskFields(g)'
    BY <1>5 DEF Launch, ExecutorInv, TaskFields
  <2>3. \A i \in Jobs : ListedTask(i)'
    BY <1>5 DEF Launch, ExecutorInv, ListedTask, Requests
  <2>4. \A d \in Calls : RunFields(d)'
    BY <1>5 DEF Launch, ExecutorInv, RunFields, Requests
  <2>5. \A d \in QuietCalls : QuietTask(d)'
    BY <1>5 DEF Launch, ExecutorInv, QuietTask, Requests
  <2>6. QuietListed'
    BY <1>5 DEF Launch, ExecutorInv, QuietListed
  <2>7. QuietOwn'
    BY <1>5 DEF Launch, ExecutorInv, QuietOwn
  <2>8. \A d \in QuietCalls : QuietFollowed(d)'
    BY <1>5 DEF Launch, ExecutorInv, QuietFollowed, QuietTask
  <2>9. QuietReports'
    BY <1>5 DEF Launch, ExecutorInv, QuietReports
  <2>10. QED
    BY <2>1, <2>2, <2>3, <2>4, <2>5, <2>6, <2>7, <2>8, <2>9 DEF ExecutorInv
<1>16. ASSUME NEW c \in Calls, SetParam(c) PROVE ExecutorInv'
  <2>1. Requests'
    BY <1>16 DEF SetParam, ExecutorInv, Requests
  <2>2. \A g \in Handlers : TaskFields(g)'
    BY <1>16 DEF SetParam, ExecutorInv, TaskFields
  <2>3. \A i \in Jobs : ListedTask(i)'
    BY <1>16 DEF SetParam, ExecutorInv, ListedTask, Requests
  <2>4. \A d \in Calls : RunFields(d)'
    BY <1>16 DEF SetParam, ExecutorInv, RunFields, Requests
  <2>5. \A d \in QuietCalls : QuietTask(d)'
    BY <1>16 DEF SetParam, ExecutorInv, QuietTask, Requests
  <2>6. QuietListed'
    BY <1>16 DEF SetParam, ExecutorInv, QuietListed
  <2>7. QuietOwn'
    BY <1>16 DEF SetParam, ExecutorInv, QuietOwn
  <2>8. \A d \in QuietCalls : QuietFollowed(d)'
    BY <1>16 DEF SetParam, ExecutorInv, QuietFollowed, QuietTask
  <2>9. QuietReports'
    BY <1>16 DEF SetParam, ExecutorInv, QuietReports
  <2>10. QED
    BY <2>1, <2>2, <2>3, <2>4, <2>5, <2>6, <2>7, <2>8, <2>9 DEF ExecutorInv
<1>17. ASSUME NEW c \in Calls, List(c) PROVE ExecutorInv'
  <2>1. Requests'
    BY <1>17 DEF List, ExecutorInv, Requests
  <2>2. \A g \in Handlers : TaskFields(g)'
    BY <1>17 DEF List, ExecutorInv, TaskFields
  <2>3. \A i \in Jobs : ListedTask(i)'
    BY <1>17 DEF List, ExecutorInv, ListedTask, Requests
  <2>4. \A d \in Calls : RunFields(d)'
    BY <1>17 DEF List, ExecutorInv, RunFields, Requests
  <2>5. \A d \in QuietCalls : QuietTask(d)'
    BY <1>17 DEF List, ExecutorInv, QuietTask, Requests
  <2>6. QuietListed'
    BY <1>17 DEF List, ExecutorInv, QuietListed
  <2>7. QuietOwn'
    BY <1>17 DEF List, ExecutorInv, QuietOwn
  <2>8. \A d \in QuietCalls : QuietFollowed(d)'
    BY <1>17 DEF List, ExecutorInv, QuietFollowed, QuietTask
  <2>9. QuietReports'
    BY <1>17 DEF List, ExecutorInv, QuietReports
  <2>10. QED
    BY <2>1, <2>2, <2>3, <2>4, <2>5, <2>6, <2>7, <2>8, <2>9 DEF ExecutorInv
<1>18. ASSUME NEW c \in Calls, Accept(c) PROVE ExecutorInv'
  <2>1. Requests'
    BY <1>18 DEF Accept, ExecutorInv, Requests
  <2>2. \A g \in Handlers : TaskFields(g)'
    BY <1>18 DEF Accept, ExecutorInv, TaskFields
  <2>3. \A i \in Jobs : ListedTask(i)'
    BY <1>18 DEF Accept, ExecutorInv, ListedTask, Requests
  <2>4. \A d \in Calls : RunFields(d)'
    BY <1>18 DEF Accept, ExecutorInv, RunFields, Requests
  <2>5. \A d \in QuietCalls : QuietTask(d)'
    BY <1>18 DEF Accept, ExecutorInv, QuietTask, Requests
  <2>6. QuietListed'
    BY <1>18 DEF Accept, ExecutorInv, QuietListed
  <2>7. QuietOwn'
    BY <1>18 DEF Accept, ExecutorInv, QuietOwn
  <2>8. \A d \in QuietCalls : QuietFollowed(d)'
    BY <1>18 DEF Accept, ExecutorInv, QuietFollowed, QuietTask
  <2>9. QuietReports'
    BY <1>18 DEF Accept, ExecutorInv, QuietReports
  <2>10. QED
    BY <2>1, <2>2, <2>3, <2>4, <2>5, <2>6, <2>7, <2>8, <2>9 DEF ExecutorInv
<1>6. ASSUME NEW c \in Calls, ReadContext(c) PROVE ExecutorInv'
  <2>1. Requests'
    BY <1>6 DEF ReadContext, ExecutorInv, Requests
  <2>2. \A g \in Handlers : TaskFields(g)'
    BY <1>6 DEF ReadContext, ExecutorInv, TaskFields
  <2>3. \A i \in Jobs : ListedTask(i)'
    BY <1>6 DEF ReadContext, ExecutorInv, ListedTask
  <2>4. \A d \in Calls : RunFields(d)'
    <3>1. ext[HandlerFor(c)] # None /\ HandlerFor(ext[HandlerFor(c)]) = HandlerFor(c)
      BY <1>6 DEF ReadContext, ExecutorInv, RunFields, TaskFields
    <3>2. RunFields(c)'
      BY <1>6, <3>1 DEF ReadContext, ExecutorInv, RunFields
    <3>3. \A d \in Calls \ {c} : RunFields(d)'
      BY <1>6 DEF ReadContext, ExecutorInv, RunFields
    <3>4. QED
      BY <3>2, <3>3
  <2>5. \A d \in QuietCalls : QuietTask(d)'
    BY <1>6 DEF ReadContext, ExecutorInv, QuietTask
  <2>6. QuietListed'
    BY <1>6 DEF ReadContext, ExecutorInv, QuietListed
  <2>7. QuietOwn'
    BY <1>6 DEF ReadContext, ExecutorInv, QuietOwn
  <2>8. \A d \in QuietCalls : QuietFollowed(d)'
    BY <1>6 DEF ReadContext, ExecutorInv, QuietFollowed, QuietTask
  <2>9. QuietReports'
    BY <1>6 DEF ReadContext, ExecutorInv, QuietReports
  <2>10. QED
    BY <2>1, <2>2, <2>3, <2>4, <2>5, <2>6, <2>7, <2>8, <2>9 DEF ExecutorInv
<1>7. ASSUME NEW c \in Calls, Start(c) PROVE ExecutorInv'
  <2>1. Requests'
    BY <1>7 DEF Start, ExecutorInv, Requests
  <2>2. \A g \in Handlers : TaskFields(g)'
    BY <1>7 DEF Start, ExecutorInv, TaskFields
  <2>3. \A i \in Jobs : ListedTask(i)'
    BY <1>7 DEF Start, ExecutorInv, ListedTask
  <2>4. \A d \in Calls : RunFields(d)'
    BY <1>7 DEF Start, ExecutorInv, RunFields
  <2>5. \A d \in QuietCalls : QuietTask(d)'
    BY <1>7 DEF Start, ExecutorInv, QuietTask
  <2>6. QuietListed'
    BY <1>7 DEF Start, ExecutorInv, QuietListed
  <2>7. QuietOwn'
    <3>1. c \in QuietCalls => run[c].ext = c /\ param[HandlerFor(c)] = c
      BY <1>7 DEF Start, ExecutorInv, QuietTask
    <3>2. QED
      BY <1>7, <3>1 DEF Start, ExecutorInv, QuietOwn
  <2>8. \A d \in QuietCalls : QuietFollowed(d)'
    BY <1>7 DEF Start, ExecutorInv, QuietFollowed, QuietTask
  <2>9. QuietReports'
    BY <1>7 DEF Start, ExecutorInv, QuietReports
  <2>10. QED
    BY <2>1, <2>2, <2>3, <2>4, <2>5, <2>6, <2>7, <2>8, <2>9 DEF ExecutorInv
<1>8. ASSUME NEW c \in Calls, Return(c) PROVE ExecutorInv'
  <2>1. Requests'
    BY <1>8 DEF Return, Goto, ExecutorInv, Requests
  <2>2. \A g \in Handlers : TaskFields(g)'
    BY <1>8 DEF Return, Goto, ExecutorInv, TaskFields
  <2>3. \A i \in Jobs : ListedTask(i)'
    BY <1>8 DEF Return, Goto, ExecutorInv, ListedTask
  <2>4. \A d \in Calls : RunFields(d)'
    BY <1>8 DEF Return, Goto, ExecutorInv, RunFields
  <2>5. \A d \in QuietCalls : QuietTask(d)'
    BY <1>8 DEF Return, Goto, ExecutorInv, QuietTask
  <2>6. QuietListed'
    BY <1>8 DEF Return, Goto, ExecutorInv, QuietListed
  <2>7. QuietOwn'
    BY <1>8 DEF Return, Goto, ExecutorInv, QuietOwn
  <2>8. \A d \in QuietCalls : QuietFollowed(d)'
    BY <1>8 DEF Return, Goto, ExecutorInv, QuietFollowed, QuietTask
  <2>9. QuietReports'
    BY <1>8 DEF Return, Goto, ExecutorInv, QuietReports
  <2>10. QED
    BY <2>1, <2>2, <2>3, <2>4, <2>5, <2>6, <2>7, <2>8, <2>9 DEF ExecutorInv
<1>9. ASSUME NEW c \in Calls, Delete(c) PROVE ExecutorInv'
  <2>1. Requests'
    BY <1>9 DEF Delete, Goto, ExecutorInv, Requests
  <2>2. \A g \in Handlers : TaskFields(g)'
    BY <1>9 DEF Delete, Goto, ExecutorInv, TaskFields
  <2>3. \A i \in Jobs : ListedTask(i)'
    BY <1>9 DEF Delete, Goto, ExecutorInv, ListedTask
  <2>4. \A d \in Calls : RunFields(d)'
    BY <1>9 DEF Delete, Goto, ExecutorInv, RunFields
  <2>5. \A d \in QuietCalls : QuietTask(d)'
    <3>1. \A d \in QuietCalls : HandlerFor(d) # HandlerFor(c) => JobOf[d] # id[HandlerFor(c)]
      BY DEF ExecutorInv, TaskFields
    <3>2. ASSUME NEW d \in QuietCalls, HandlerFor(d) # HandlerFor(c) PROVE QuietTask(d)'
      BY <1>9, <3>1, <3>2 DEF Delete, Goto, ExecutorInv, QuietTask
    <3>3. ASSUME NEW d \in QuietCalls, HandlerFor(d) = HandlerFor(c) PROVE QuietTask(d)'
      <4>1. c \in QuietCalls /\ JobOf[c] = JobOf[d]
        BY <3>3, QuietApart
      <4>2. d \in UnderWay => d = c
        BY <1>9, <3>3, <4>1 DEF Delete, ExecutorInv, QuietTask
      <4>3. call[d] # "id" /\ call[d] # "context"
        BY <1>9, <3>3, <4>1 DEF Delete, ExecutorInv, QuietTask
      <4>4. call[c] # "listed" /\ call[d] # "param"
        BY <1>9, <3>3, <4>1 DEF Delete, ExecutorInv, QuietTask, RunFields
      <4>5. QED
        BY <1>9, <4>2, <4>3, <4>4 DEF Delete, Goto, ExecutorInv, QuietTask
    <3>4. QED
      BY <3>2, <3>3
  <2>6. QuietListed'
    <3>1. \A d \in QuietCalls : HandlerFor(d) # HandlerFor(c) => JobOf[d] # id[HandlerFor(c)]
      BY DEF ExecutorInv, TaskFields
    <3>2. \A d \in QuietCalls \cap UnderWay : HandlerFor(d) = HandlerFor(c) => d = c
      BY <1>9, QuietApart DEF Delete, ExecutorInv, QuietTask
    <3>3. c \in QuietCalls => id[HandlerFor(c)] = JobOf[c]
      BY <1>9 DEF Delete, ExecutorInv, QuietTask
    <3>4. UnderWay' = UnderWay \ {c}
      <4>1. call[c] # "listed"
        BY <1>9 DEF Delete, ExecutorInv, RunFields
      <4>2. QED
        BY <1>9, <4>1 DEF Delete, Goto
    <3>5. runList' = runList \ {id[HandlerFor(c)]}
      BY <1>9 DEF Delete
    <3>6. \A j \in Jobs : Quiet(HandlerOf[j]) <=> Quiet(HandlerOf[j])'
      OBVIOUS
    <3>7. ASSUME NEW j \in runList', Quiet(HandlerOf[j])
          PROVE  \E d \in UnderWay' : JobOf[d] = j
      <4>1. PICK d \in UnderWay : JobOf[d] = j
        BY <3>5, <3>7 DEF ExecutorInv, QuietListed
      <4>2. d # c
        BY <3>3, <3>5, <3>7, <4>1
      <4>3. QED
        BY <3>4, <4>1, <4>2
    <3>8. ASSUME NEW d \in UnderWay' \cap QuietCalls PROVE JobOf[d] \in runList'
      <4>1. HandlerFor(d) # HandlerFor(c)
        BY <3>2, <3>4, <3>8
      <4>2. JobOf[d] \in runList
        BY <3>4, <3>8 DEF ExecutorInv, QuietListed
      <4>3. QED
        BY <3>1, <3>5, <4>1, <4>2
    <3>9. QED
      BY <3>7, <3>8 DEF QuietListed
  <2>7. QuietOwn'
    BY <1>9 DEF Delete, Goto, ExecutorInv, QuietOwn
  <2>8. \A d \in QuietCalls : QuietFollowed(d)'
    <3>1. ASSUME NEW d \in QuietCalls, d # c PROVE QuietFollowed(d)'
      BY <1>9, <3>1 DEF Delete, Goto, ExecutorInv, QuietFollowed
    <3>2. ASSUME c \in QuietCalls PROVE QuietFollowed(c)'
      <4>1. c \in UnderWay /\ param[HandlerFor(c)] = c /\ JobOf[c] \in runList
        BY <1>9, <3>2 DEF Delete, ExecutorInv, QuietTask
      <4>2. \A d \in Calls : HandlerFor(d) = HandlerFor(c) => call[d] \notin {"context", "id"}
        BY <3>2, <4>1, QuietApart DEF ExecutorInv, QuietTask
      <4>3. QED
        BY <1>9, <4>1, <4>2 DEF Delete, QuietFollowed
    <3>3. QED
      BY <3>1, <3>2
  <2>9. QuietReports'
    BY <1>9 DEF Delete, Goto, ExecutorInv, QuietReports
  <2>10. QED
    BY <2>1, <2>2, <2>3, <2>4, <2>5, <2>6, <2>7, <2>8, <2>9 DEF ExecutorInv
<1>10. ASSUME NEW c \in Calls, Post(c) PROVE ExecutorInv'
  <2>1. Requests'
    BY <1>10 DEF Post, Goto, ExecutorInv, Requests
  <2>2. \A g \in Handlers : TaskFields(g)'
    BY <1>10 DEF Post, Goto, ExecutorInv, TaskFields
  <2>3. \A i \in Jobs : ListedTask(i)'
    BY <1>10 DEF Post, Goto, ExecutorInv, ListedTask
  <2>4. \A d \in Calls : RunFields(d)'
    BY <1>10 DEF Post, Goto, ExecutorInv, RunFields
  <2>5. \A d \in QuietCalls : QuietTask(d)'
    BY <1>10 DEF Post, Goto, ExecutorInv, QuietTask
  <2>6. QuietListed'
    BY <1>10 DEF Post, Goto, ExecutorInv, QuietListed
  <2>7. QuietOwn'
    <3>1. ASSUME NEW d \in QuietCalls, d \in cancelled' \ cancelled PROVE d \in panicked
      <4>1. c \in panicked /\ d = run[c].ext
        BY <1>10, <3>1 DEF Post
      <4>2. HandlerFor(c) = HandlerFor(d)
        BY <4>1 DEF ExecutorInv, RunFields
      <4>3. c \in QuietCalls
        BY <4>2, QuietApart
      <4>4. run[c].ext = c
        BY <1>10, <4>3 DEF Post, ExecutorInv, QuietTask
      <4>5. QED
        BY <4>1, <4>4
    <3>2. QED
      BY <1>10, <3>1 DEF Post, Goto, ExecutorInv, QuietOwn
  <2>8. \A d \in QuietCalls : QuietFollowed(d)'
    BY <1>10 DEF Post, Goto, ExecutorInv, QuietFollowed, QuietTask
  <2>9. QuietReports'
    <3>1. /\ param[HandlerFor(c)] \in Calls
          /\ HandlerFor(param[HandlerFor(c)]) = HandlerFor(c)
          /\ c \in QuietCalls => QuietFollowed(c)
      BY <1>10 DEF Post, ExecutorInv, RunFields, TaskFields
    <3>2. c \in QuietCalls =>
            param[HandlerFor(c)] = c \/ <<c, param[HandlerFor(c)]>> \in followed
      BY <1>10, <3>1 DEF Post, QuietFollowed
    <3>3. QED
      BY <1>10, <3>2 DEF Post, ExecutorInv, QuietReports
  <2>10. QED
    BY <2>1, <2>2, <2>3, <2>4, <2>5, <2>6, <2>7, <2>8, <2>9 DEF ExecutorInv
<1>11. ASSUME NEW c \in Calls, Timeout(c) PROVE ExecutorInv'
  BY <1>11 DEF Timeout, ExecutorInv, Requests, TaskFields, ListedTask, RunFields, QuietTask,
       QuietListed, QuietOwn, QuietFollowed, QuietReports
<1>12. ASSUME NEW j \in Jobs, Kill(j) PROVE ExecutorInv'
  BY <1>12 DEF Kill, Locked, ExecutorInv, Requests, TaskFields, ListedTask, RunFields, QuietTask,
       QuietListed, QuietOwn, QuietFollowed, QuietReports
<1>13. ASSUME NEW j \in Jobs, KillRunning(j) PROVE ExecutorInv'
  <2>0. /\ \A d \in QuietCalls : JobOf[d] # j
        /\ \A d \in QuietCalls : d \in cancelled' <=> d \in cancelled
        /\ runList' \subseteq runList
        /\ \A i \in runList : i # j => i \in runList'
        /\ UNCHANGED <<ext, id, param, call, run, panicked>>
    <3>1. j \in MayKill
      BY <1>13 DEF KillRunning, ExecutorInv, Requests
    <3>2. \A d \in QuietCalls : HandlerFor(d) # HandlerOf[j]
      BY <3>1, QuietApart
    <3>3. \A d \in QuietCalls : d # ext[HandlerOf[j]]
      BY <3>2 DEF ExecutorInv, TaskFields
    <3>4. QED
      BY <1>13, <3>2, <3>3 DEF KillRunning
  <2>1. Requests'
    BY <1>13 DEF KillRunning, ExecutorInv, Requests
  <2>2. \A g \in Handlers : TaskFields(g)'
    BY <1>13 DEF KillRunning, ExecutorInv, TaskFields
  <2>3. \A i \in Jobs : ListedTask(i)'
    BY <1>13 DEF KillRunning, ExecutorInv, ListedTask
  <2>4. \A d \in Calls : RunFields(d)'
    BY <1>13 DEF KillRunning, ExecutorInv, RunFields
  <2>5. \A d \in QuietCalls : QuietTask(d)'
    BY <2>0 DEF ExecutorInv, QuietTask
  <2>6. QuietListed'
    BY <2>0 DEF ExecutorInv, QuietListed
  <2>7. QuietOwn'
    BY <2>0 DEF ExecutorInv, QuietOwn
  <2>8. \A d \in QuietCalls : QuietFollowed(d)'
    BY <1>13 DEF KillRunning, ExecutorInv, QuietFollowed, QuietTask
  <2>9. QuietReports'
    BY <1>13 DEF KillRunning, ExecutorInv, QuietReports
  <2>10. QED
    BY <2>1, <2>2, <2>3, <2>4, <2>5, <2>6, <2>7, <2>8, <2>9 DEF ExecutorInv
<1>14. CASE UNCHANGED vars
  BY <1>14 DEF vars, ExecutorInv, Requests, TaskFields, ListedTask, RunFields, QuietTask, QuietListed, QuietOwn, QuietFollowed, QuietReports
<1>15. QED
  BY <1>1, <1>2, <1>3, <1>4, <1>5, <1>6, <1>7, <1>8, <1>9, <1>10, <1>11, <1>12, <1>13, <1>14,
     <1>16, <1>17, <1>18 DEF Next, Request, Proceed, Goroutine

\* Hence the types and the invariant hold throughout.
LEMMA ExecutorInvariant == Spec => [](TypeOK /\ ExecutorInv)
<1>1. Init => TypeOK /\ ExecutorInv
  BY DEF Init, TypeOK, Idle, Stages, Halfway, ExecutorInv, Requests, TaskFields, ListedTask, RunFields,
         QuietTask, QuietFollowed, QuietListed, QuietOwn, QuietReports, QuietCalls, UnderWay
<1>2. QED
  BY <1>1, TypeInductive, ExecutorInvInductive, PTL DEF Spec

\* Every variable keeps its type, so that no request or goroutine reads a field of a
\* Task that was never set, however requests and callbacks interleave.
THEOREM TypeCorrect == Spec => []TypeOK
BY ExecutorInvariant, PTL

\* The runs of a job that has its handler to itself and is not killed or covered never
\* overlap, whatever is dispatched, killed or covered elsewhere.
THEOREM QuietSerialHolds == Spec => []QuietSerial
<1>1. ExecutorInv => QuietSerial
  <2> SUFFICES ASSUME ExecutorInv, NEW c \in UnderWay \cap QuietCalls,
                      NEW d \in UnderWay \cap QuietCalls, JobOf[c] = JobOf[d]
               PROVE  c = d
    BY DEF QuietSerial
  <2>1. param[HandlerFor(c)] = c /\ param[HandlerFor(d)] = d
    BY DEF ExecutorInv, QuietTask
  <2>2. QED
    BY <2>1 DEF HandlerFor
<1>2. QED
  BY <1>1, ExecutorInvariant, PTL

\* For such jobs idleBeat and killTask tell the truth: the job is listed exactly while
\* a dispatch of it is under way.
THEOREM QuietListedHolds == Spec => []QuietListed
<1>1. ExecutorInv => QuietListed
  BY DEF ExecutorInv
<1>2. QED
  BY <1>1, ExecutorInvariant, PTL

\* Their functions get the parameters and the context of their own dispatch, and no
\* other dispatch cancels that context.
THEOREM QuietOwnHolds == Spec => []QuietOwn
<1>1. ExecutorInv => QuietOwn
  BY DEF ExecutorInv
<1>2. QED
  BY <1>1, ExecutorInvariant, PTL

\* Their results are reported under their own log id, or under one whose dispatch was
\* admitted between the callback's freeing the job and its report.
THEOREM QuietReportsHolds == Spec => []QuietReports
<1>1. ExecutorInv => QuietReports
  BY DEF ExecutorInv
<1>2. QED
  BY <1>1, ExecutorInvariant, PTL
=============================================================================
