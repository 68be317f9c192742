---------------------------- MODULE OutboxProofs ----------------------------
(***************************************************************************)
(* Proofs about Outbox, for any messages, transactions, instances and      *)
(* bounds.                                                                 *)
(***************************************************************************)
EXTENDS Outbox, TLAPS

USE OutboxAssumption

\* The states of an attempt, and what becomes of one nobody listens to.
LEMMA AttemptStates ==
  /\ Free \in AttemptState
  /\ \A i \in Instances : \A p \in {"sent", "taken", "returned"} :
       [at |-> p, by |-> i] \in AttemptState
  /\ \A r \in AttemptState : Stray(r) \in AttemptState
BY DEF AttemptState, Free, Stray, Places

\* Changing one attempt leaves a table of attempts.
LEMMA AttemptUpdate ==
  ASSUME NEW f \in [Messages -> [Slots -> AttemptState]],
         NEW m \in Messages, NEW k \in Slots, NEW r \in AttemptState
  PROVE  [f EXCEPT ![m][k] = r] \in [Messages -> [Slots -> AttemptState]]
OBVIOUS

\* Every step keeps the types.
LEMMA TypeInductive == ASSUME TypeOK, [Next]_vars PROVE TypeOK'
<1> USE DEF TypeOK, database, jobs, faults, broker, Unsaved, Of
<1>1. ASSUME NEW t \in Txns, Begin(t) PROVE TypeOK'
  BY <1>1 DEF Begin
<1>2. ASSUME NEW m \in Messages, Save(m) PROVE TypeOK'
  BY <1>2 DEF Save
<1>3. ASSUME NEW t \in Txns, Rollback(t) PROVE TypeOK'
  BY <1>3 DEF Rollback
<1>4. ASSUME NEW t \in Txns, Commit(t) PROVE TypeOK'
  <2>1. tx' \in [Txns -> {"idle", "open", "committed", "aborted", "refused"}]
    BY <1>4 DEF Commit
  <2>2. row' \in [Messages -> {"none", "saved", "live", "deleted", "purged"}]
    BY <1>4 DEF Commit
  <2>3. todo' \in [Txns -> SUBSET Messages]
    BY <1>4 DEF Commit
  <2>4. QED
    BY <1>4, <2>1, <2>2, <2>3 DEF Commit
<1>5. ASSUME NEW t \in Txns, NEW m \in Messages, FirstSend(t, m) PROVE TypeOK'
  <2>1. attempt' \in [Messages -> [Slots -> AttemptState]]
    <3>1. CASE up
      <4>1. PICK k \in Slots, i2 \in Instances :
              attempt' = [attempt EXCEPT ![m][k] = [at |-> "sent", by |-> i2]]
        BY <1>5, <3>1 DEF FirstSend, Publish
      <4>2. QED
        BY <4>1, AttemptStates, AttemptUpdate
    <3>2. CASE ~up
      BY <1>5, <3>2 DEF FirstSend, Publish
    <3>3. QED
      BY <3>1, <3>2
  <2>2. QED
    BY <1>5, <2>1 DEF FirstSend
<1>6. ASSUME NEW m \in Messages, NEW k \in Slots, Take(m, k) PROVE TypeOK'
  <2>1. CASE attempt[m][k].at = "sent"
    <3>1. attempt' = [attempt EXCEPT ![m][k] = [at |-> "taken", by |-> attempt[m][k].by]]
      BY <1>6, <2>1 DEF Take, Pass
    <3>2. [at |-> "taken", by |-> attempt[m][k].by] \in AttemptState
      <4>1. attempt[m][k] \in AttemptState
        OBVIOUS
      <4>2. QED
        BY <2>1, <4>1 DEF AttemptState, Places
    <3>3. attempt' \in [Messages -> [Slots -> AttemptState]]
      BY <3>1, <3>2, AttemptUpdate
    <3>4. QED
      BY <1>6, <3>3 DEF Take
  <2>2. CASE attempt[m][k].at # "sent"
    <3>1. attempt' = [attempt EXCEPT ![m][k] = Free]
      BY <1>6, <2>2 DEF Take, Pass, End
    <3>2. attempt' \in [Messages -> [Slots -> AttemptState]]
      BY <3>1, AttemptStates, AttemptUpdate
    <3>3. QED
      BY <1>6, <3>2 DEF Take
  <2>3. QED
    BY <2>1, <2>2
<1>7. ASSUME NEW m \in Messages, NEW k \in Slots, SendBack(m, k) PROVE TypeOK'
  <2>1. CASE attempt[m][k].at = "sent"
    <3>1. attempt' = [attempt EXCEPT ![m][k] = [at |-> "returned", by |-> attempt[m][k].by]]
      BY <1>7, <2>1 DEF SendBack, Pass
    <3>2. [at |-> "returned", by |-> attempt[m][k].by] \in AttemptState
      <4>1. attempt[m][k] \in AttemptState
        OBVIOUS
      <4>2. QED
        BY <2>1, <4>1 DEF AttemptState, Places
    <3>3. attempt' \in [Messages -> [Slots -> AttemptState]]
      BY <3>1, <3>2, AttemptUpdate
    <3>4. QED
      BY <1>7, <3>3 DEF SendBack
  <2>2. CASE attempt[m][k].at # "sent"
    <3>1. attempt' = [attempt EXCEPT ![m][k] = Free]
      BY <1>7, <2>2 DEF SendBack, Pass, End
    <3>2. attempt' \in [Messages -> [Slots -> AttemptState]]
      BY <3>1, AttemptStates, AttemptUpdate
    <3>3. QED
      BY <1>7, <3>2 DEF SendBack
  <2>3. QED
    BY <2>1, <2>2
<1>8. ASSUME NEW m \in Messages, NEW k \in Slots, HearYes(m, k) PROVE TypeOK'
  <2>1. PICK r \in AttemptState : attempt' = [attempt EXCEPT ![m][k] = r]
    BY <1>8, AttemptStates DEF HearYes, Pass, End
  <2>2. attempt' \in [Messages -> [Slots -> AttemptState]]
    BY <2>1, AttemptUpdate
  <2>3. QED
    BY <1>8, <2>2 DEF HearYes
<1>9. ASSUME NEW m \in Messages, NEW k \in Slots, HearNo(m, k) PROVE TypeOK'
  <2>1. PICK r \in AttemptState : attempt' = [attempt EXCEPT ![m][k] = r]
    BY <1>9, AttemptStates DEF HearNo, Pass, End
  <2>2. attempt' \in [Messages -> [Slots -> AttemptState]]
    BY <2>1, AttemptUpdate
  <2>3. QED
    BY <1>9, <2>2 DEF HearNo
<1>25. ASSUME NEW m \in Messages, NEW k \in Slots, Nack(m, k) PROVE TypeOK'
  <2>1. attempt' \in [Messages -> [Slots -> AttemptState]]
    BY <1>25, AttemptStates, AttemptUpdate DEF Nack, End
  <2>2. QED
    BY <1>25, <2>1 DEF Nack
<1>10. ASSUME NEW i \in Instances, StartRound(i) PROVE TypeOK'
  BY <1>10 DEF StartRound, Goto
<1>11. ASSUME NEW i \in Instances, TryLock(i) PROVE TypeOK'
  BY <1>11 DEF TryLock, Goto
<1>12. ASSUME NEW i \in Instances, List(i) PROVE TypeOK'
  <2>1. UNCHANGED <<database, todo, broker, closed, faults>>
    BY <1>12 DEF List
  <2>2. job' \in [Instances -> {"down", "start", "sleep", "list", "send", "stopped"}]
    BY <1>12 DEF List, Goto
  <2>3. batch' \in [Instances -> SUBSET Messages]
    BY <1>12 DEF List, Due
  <2>4. lock' \in Instances \cup {None, Orphan}
    BY <1>12 DEF List
  <2>5. QED
    BY <2>1, <2>2, <2>3, <2>4
<1>13. ASSUME NEW i \in Instances, NEW m \in Messages, SendNext(i, m) PROVE TypeOK'
  <2>1. attempt' \in [Messages -> [Slots -> AttemptState]]
    <3>1. CASE up
      <4>1. PICK k \in Slots, i2 \in Instances :
              attempt' = [attempt EXCEPT ![m][k] = [at |-> "sent", by |-> i2]]
        BY <1>13, <3>1 DEF SendNext, Publish
      <4>2. QED
        BY <4>1, AttemptStates, AttemptUpdate
    <3>2. CASE ~up
      BY <1>13, <3>2 DEF SendNext, Publish
    <3>3. QED
      BY <3>1, <3>2
  <2>2. QED
    BY <1>13, <2>1 DEF SendNext
<1>14. ASSUME NEW i \in Instances, NextBatch(i) PROVE TypeOK'
  BY <1>14 DEF NextBatch, Goto
<1>15. ASSUME NEW i \in Instances, Close(i) PROVE TypeOK'
  BY <1>15 DEF Close
<1>16. ASSUME NEW i \in Instances, Crash(i) PROVE TypeOK'
  <2>1. attempt' \in [Messages -> [Slots -> AttemptState]]
    BY <1>16, AttemptStates DEF Crash
  <2>2. tx' \in [Txns -> {"idle", "open", "committed", "aborted", "refused"}]
    BY <1>16 DEF Crash
  <2>3. row' \in [Messages -> {"none", "saved", "live", "deleted", "purged"}]
    BY <1>16 DEF Crash
  <2>4. todo' \in [Txns -> SUBSET Messages] /\ batch' \in [Instances -> SUBSET Messages]
    BY <1>16 DEF Crash
  <2>5. QED
    BY <1>16, <2>1, <2>2, <2>3, <2>4 DEF Crash, Goto
<1>17. ASSUME NEW i \in Instances, Restart(i) PROVE TypeOK'
  BY <1>17 DEF Restart, Goto
<1>18. ASSUME NEW m \in Messages, Trigger(m) PROVE TypeOK'
  BY <1>18 DEF Trigger
<1>19. ASSUME NEW m \in Messages, Age(m) PROVE TypeOK'
  BY <1>19 DEF Age
<1>20. CASE Outage
  <2>1. PICK lost \in SUBSET Messages :
          attempt' = [m \in Messages |-> [k \in Slots |->
                       IF m \in lost THEN Free ELSE Stray(attempt[m][k])]]
    BY <1>20 DEF Outage
  <2>2. attempt' \in [Messages -> [Slots -> AttemptState]]
    BY <2>1, AttemptStates
  <2>3. up' = FALSE /\ outages < MaxOutages /\ outages' = outages + 1
    BY <1>20 DEF Outage
  <2>4. UNCHANGED <<database, todo, delivered, altered, jobs, crashes>>
    BY <1>20 DEF Outage
  <2>5. up' \in BOOLEAN
    BY <2>3
  <2>6. outages' \in 0..MaxOutages
    BY <2>3
  <2>7. QED
    BY <2>2, <2>4, <2>5, <2>6
<1>21. CASE Recover
  BY <1>21 DEF Recover
<1>22. CASE LockExpires
  BY <1>22 DEF LockExpires
<1>23. CASE Purge
  BY <1>23 DEF Purge
<1>24. CASE UNCHANGED vars
  BY <1>24 DEF vars
<1>26. QED
  BY <1>1, <1>2, <1>3, <1>4, <1>5, <1>6, <1>7, <1>8, <1>9, <1>10, <1>11, <1>12,
     <1>13, <1>14, <1>15, <1>16, <1>17, <1>18, <1>19, <1>20, <1>21, <1>22, <1>23, <1>24, <1>25
     DEF Next, Transaction, Publishing, Round

\* The types are kept for every number of messages, instances and attempts: in
\* particular a verdict is only ever awaited by an instance that is there to hear it.
THEOREM TypeCorrect == Spec => []TypeOK
<1>1. Init => TypeOK
  BY AttemptStates DEF Init, TypeOK
<1>2. QED
  BY <1>1, TypeInductive, PTL DEF Spec

\* Every step keeps the invariant.
LEMMA OutboxInvInductive ==
  ASSUME TypeOK, OutboxInv, [Next]_vars
  PROVE  OutboxInv'
<1> USE DEF TypeOK, OutboxInv, SentOnlyAfterCommit
<1> USE DEF database, jobs, faults, broker, Unsaved, Of
<1>1. ASSUME NEW t \in Txns, Begin(t) PROVE OutboxInv'
  <2>1. \A x \in Messages : InHand(x)' => tx'[TxOf[x]] \in {"committed", "refused"}
    BY <1>1 DEF Begin, InHand
  <2>2. \A x \in Messages : RowFollows(x)'
    BY <1>1 DEF Begin, RowFollows
  <2>3. \A x \in Messages : VerdictKnown(x)'
    BY <1>1 DEF Begin, VerdictKnown
  <2>4. CommitFails \/ \A y \in Txns : tx'[y] # "refused"
    BY <1>1 DEF Begin
  <2>5. QED
    BY <2>1, <2>2, <2>3, <2>4
<1>2. ASSUME NEW m \in Messages, Save(m) PROVE OutboxInv'
  <2>1. \A x \in Messages : InHand(x)' => tx'[TxOf[x]] \in {"committed", "refused"}
    BY <1>2 DEF Save, InHand
  <2>2. \A x \in Messages : RowFollows(x)'
    BY <1>2 DEF Save, RowFollows
  <2>3. \A x \in Messages : VerdictKnown(x)'
    BY <1>2 DEF Save, VerdictKnown
  <2>4. CommitFails \/ \A y \in Txns : tx'[y] # "refused"
    BY <1>2 DEF Save
  <2>5. QED
    BY <2>1, <2>2, <2>3, <2>4
<1>3. ASSUME NEW t \in Txns, Rollback(t) PROVE OutboxInv'
  <2>1. \A x \in Messages : InHand(x)' => tx'[TxOf[x]] \in {"committed", "refused"}
    BY <1>3 DEF Rollback, InHand
  <2>2. \A x \in Messages : RowFollows(x)'
    BY <1>3 DEF Rollback, RowFollows
  <2>3. \A x \in Messages : VerdictKnown(x)'
    BY <1>3 DEF Rollback, VerdictKnown
  <2>4. CommitFails \/ \A y \in Txns : tx'[y] # "refused"
    BY <1>3 DEF Rollback
  <2>5. QED
    BY <2>1, <2>2, <2>3, <2>4
<1>4. ASSUME NEW t \in Txns, Commit(t) PROVE OutboxInv'
  <2>1. \A x \in Messages : InHand(x)' => tx'[TxOf[x]] \in {"committed", "refused"}
    BY <1>4 DEF Commit, InHand
  <2>2. \A x \in Messages : RowFollows(x)'
    BY <1>4 DEF Commit, RowFollows
  <2>3. \A x \in Messages : VerdictKnown(x)'
    BY <1>4 DEF Commit, VerdictKnown
  <2>4. CommitFails \/ \A y \in Txns : tx'[y] # "refused"
    BY <1>4 DEF Commit
  <2>5. QED
    BY <2>1, <2>2, <2>3, <2>4
<1>5. ASSUME NEW t \in Txns, NEW m \in Messages, FirstSend(t, m) PROVE OutboxInv'
  <2>1. \A x \in Messages : InHand(x)' => tx'[TxOf[x]] \in {"committed", "refused"}
    BY <1>5 DEF FirstSend, Publish, Free, InHand
  <2>2. \A x \in Messages : RowFollows(x)'
    BY <1>5 DEF FirstSend, Publish, Free, RowFollows
  <2>3. \A x \in Messages : VerdictKnown(x)'
    <3>1. CASE up
      <4>1. PICK k \in Slots :
              attempt' = [attempt EXCEPT ![m][k] = [at |-> "sent", by |-> Home[t]]]
        BY <1>5, <3>1 DEF FirstSend, Publish
      <4>2. \A x \in Messages, y \in Slots :
              attempt'[x][y] = attempt[x][y] \/ attempt'[x][y].at = "sent"
        BY <4>1
      <4>3. QED
        BY <1>5, <4>2 DEF FirstSend, VerdictKnown
    <3>2. CASE ~up
      BY <1>5, <3>2 DEF FirstSend, Publish, VerdictKnown
    <3>3. QED
      BY <3>1, <3>2
  <2>4. CommitFails \/ \A y \in Txns : tx'[y] # "refused"
    BY <1>5 DEF FirstSend, Publish, Free
  <2>5. QED
    BY <2>1, <2>2, <2>3, <2>4
<1>6. ASSUME NEW m \in Messages, NEW k \in Slots, Take(m, k) PROVE OutboxInv'
  <2>1. \A x \in Messages : InHand(x)' => tx'[TxOf[x]] \in {"committed", "refused"}
    BY <1>6 DEF Take, Pass, End, Free, InHand
  <2>2. \A x \in Messages : RowFollows(x)'
    BY <1>6 DEF Take, Pass, End, Free, RowFollows
  <2>3. \A x \in Messages : VerdictKnown(x)'
    <3>1. \A x \in Messages, y \in Slots :
            \/ attempt'[x][y] = attempt[x][y]
            \/ x = m /\ attempt'[x][y].at \in {"taken", "free"}
      BY <1>6 DEF Take, Pass, End, Free
    <3>2. delivered' = delivered \cup {m}
      BY <1>6 DEF Take
    <3>3. QED
      BY <3>1, <3>2 DEF VerdictKnown
  <2>4. CommitFails \/ \A y \in Txns : tx'[y] # "refused"
    BY <1>6 DEF Take, Pass, End, Free
  <2>5. QED
    BY <2>1, <2>2, <2>3, <2>4
<1>7. ASSUME NEW m \in Messages, NEW k \in Slots, SendBack(m, k) PROVE OutboxInv'
  <2>1. \A x \in Messages : InHand(x)' => tx'[TxOf[x]] \in {"committed", "refused"}
    BY <1>7 DEF SendBack, Pass, End, Free, InHand
  <2>2. \A x \in Messages : RowFollows(x)'
    BY <1>7 DEF SendBack, Pass, End, Free, RowFollows
  <2>3. \A x \in Messages : VerdictKnown(x)'
    BY <1>7 DEF SendBack, Pass, End, Free, VerdictKnown
  <2>4. CommitFails \/ \A y \in Txns : tx'[y] # "refused"
    BY <1>7 DEF SendBack, Pass, End, Free
  <2>5. QED
    BY <2>1, <2>2, <2>3, <2>4
<1>8. ASSUME NEW m \in Messages, NEW k \in Slots, HearYes(m, k) PROVE OutboxInv'
  <2>1. \A x \in Messages : InHand(x)' => tx'[TxOf[x]] \in {"committed", "refused"}
    BY <1>8 DEF HearYes, End, Free, InHand
  <2>2. \A x \in Messages : RowFollows(x)'
    <3>1. m \in delivered \cup Unroutable
      BY <1>8 DEF HearYes, VerdictKnown
    <3>2. row'[m] = IF row[m] = "live" THEN "deleted" ELSE row[m]
      BY <1>8 DEF HearYes
    <3>3. \A x \in Messages \ {m} : row'[x] = row[x]
      BY <1>8 DEF HearYes
    <3>4. UNCHANGED <<tx, old, delivered>>
      BY <1>8 DEF HearYes
    <3>5. RowFollows(m)'
      BY <3>1, <3>2, <3>4 DEF RowFollows
    <3>6. \A x \in Messages \ {m} : RowFollows(x)'
      BY <3>3, <3>4 DEF RowFollows
    <3>7. QED
      BY <3>5, <3>6
  <2>3. \A x \in Messages : VerdictKnown(x)'
    BY <1>8 DEF HearYes, End, Free, VerdictKnown
  <2>4. CommitFails \/ \A y \in Txns : tx'[y] # "refused"
    BY <1>8 DEF HearYes, End, Free
  <2>5. QED
    BY <2>1, <2>2, <2>3, <2>4
<1>9. ASSUME NEW m \in Messages, NEW k \in Slots, HearNo(m, k) PROVE OutboxInv'
  <2>1. \A x \in Messages : InHand(x)' => tx'[TxOf[x]] \in {"committed", "refused"}
    BY <1>9 DEF HearNo, End, Free, InHand
  <2>2. \A x \in Messages : RowFollows(x)'
    BY <1>9 DEF HearNo, End, Free, RowFollows
  <2>3. \A x \in Messages : VerdictKnown(x)'
    BY <1>9 DEF HearNo, End, Free, VerdictKnown
  <2>4. CommitFails \/ \A y \in Txns : tx'[y] # "refused"
    BY <1>9 DEF HearNo, End, Free
  <2>5. QED
    BY <2>1, <2>2, <2>3, <2>4
<1>25. ASSUME NEW m \in Messages, NEW k \in Slots, Nack(m, k) PROVE OutboxInv'
  <2>1. \A x \in Messages : InHand(x)' => tx'[TxOf[x]] \in {"committed", "refused"}
    BY <1>25 DEF Nack, End, Free, InHand
  <2>2. \A x \in Messages : RowFollows(x)'
    BY <1>25 DEF Nack, End, Free, RowFollows
  <2>3. \A x \in Messages : VerdictKnown(x)'
    BY <1>25 DEF Nack, End, Free, VerdictKnown
  <2>4. CommitFails \/ \A y \in Txns : tx'[y] # "refused"
    BY <1>25 DEF Nack, End, Free
  <2>5. QED
    BY <2>1, <2>2, <2>3, <2>4
<1>10. ASSUME NEW i \in Instances, StartRound(i) PROVE OutboxInv'
  BY <1>10 DEF StartRound, Goto, InHand, RowFollows, VerdictKnown
<1>11. ASSUME NEW i \in Instances, TryLock(i) PROVE OutboxInv'
  BY <1>11 DEF TryLock, Goto, InHand, RowFollows, VerdictKnown
<1>12. ASSUME NEW i \in Instances, List(i) PROVE OutboxInv'
  <2>1. \A x \in Messages : InHand(x)' => tx'[TxOf[x]] \in {"committed", "refused"}
    <3>1. UNCHANGED <<tx, row, delivered, attempt, todo>>
      BY <1>12 DEF List
    <3>2. \A j \in Instances : batch'[j] \subseteq batch[j] \cup {m \in Messages : row[m] = "live"}
      BY <1>12 DEF List, Due
    <3>3. \A x \in Messages : InHand(x)' => InHand(x) \/ row[x] = "live"
      BY <3>1, <3>2 DEF InHand
    <3>4. QED
      BY <3>1, <3>3 DEF RowFollows
  <2>2. \A x \in Messages : RowFollows(x)'
    BY <1>12 DEF List, Goto, Due, RowFollows
  <2>3. \A x \in Messages : VerdictKnown(x)'
    BY <1>12 DEF List, Goto, Due, VerdictKnown
  <2>4. CommitFails \/ \A y \in Txns : tx'[y] # "refused"
    BY <1>12 DEF List, Goto, Due
  <2>5. QED
    BY <2>1, <2>2, <2>3, <2>4
<1>13. ASSUME NEW i \in Instances, NEW m \in Messages, SendNext(i, m) PROVE OutboxInv'
  <2>1. \A x \in Messages : InHand(x)' => tx'[TxOf[x]] \in {"committed", "refused"}
    BY <1>13 DEF SendNext, Publish, Free, InHand
  <2>2. \A x \in Messages : RowFollows(x)'
    BY <1>13 DEF SendNext, Publish, Free, RowFollows
  <2>3. \A x \in Messages : VerdictKnown(x)'
    <3>1. CASE up
      <4>1. PICK k \in Slots :
              attempt' = [attempt EXCEPT ![m][k] = [at |-> "sent", by |-> i]]
        BY <1>13, <3>1 DEF SendNext, Publish
      <4>2. \A x \in Messages, y \in Slots :
              attempt'[x][y] = attempt[x][y] \/ attempt'[x][y].at = "sent"
        BY <4>1
      <4>3. QED
        BY <1>13, <4>2 DEF SendNext, VerdictKnown
    <3>2. CASE ~up
      BY <1>13, <3>2 DEF SendNext, Publish, VerdictKnown
    <3>3. QED
      BY <3>1, <3>2
  <2>4. CommitFails \/ \A y \in Txns : tx'[y] # "refused"
    BY <1>13 DEF SendNext, Publish, Free
  <2>5. QED
    BY <2>1, <2>2, <2>3, <2>4
<1>14. ASSUME NEW i \in Instances, NextBatch(i) PROVE OutboxInv'
  BY <1>14 DEF NextBatch, Goto, InHand, RowFollows, VerdictKnown
<1>15. ASSUME NEW i \in Instances, Close(i) PROVE OutboxInv'
  BY <1>15 DEF Close, InHand, RowFollows, VerdictKnown
<1>16. ASSUME NEW i \in Instances, Crash(i) PROVE OutboxInv'
  <2>1. \A x \in Messages : InHand(x)' => tx'[TxOf[x]] \in {"committed", "refused"}
    BY <1>16 DEF Crash, Goto, Stray, Free, InHand
  <2>2. \A x \in Messages : RowFollows(x)'
    BY <1>16 DEF Crash, Goto, Stray, Free, RowFollows
  <2>3. \A x \in Messages : VerdictKnown(x)'
    BY <1>16 DEF Crash, Goto, Stray, Free, VerdictKnown
  <2>4. CommitFails \/ \A y \in Txns : tx'[y] # "refused"
    BY <1>16 DEF Crash, Goto, Stray, Free
  <2>5. QED
    BY <2>1, <2>2, <2>3, <2>4
<1>17. ASSUME NEW i \in Instances, Restart(i) PROVE OutboxInv'
  BY <1>17 DEF Restart, Goto, InHand, RowFollows, VerdictKnown
<1>18. ASSUME NEW m \in Messages, Trigger(m) PROVE OutboxInv'
  BY <1>18 DEF Trigger, InHand, RowFollows, VerdictKnown
<1>19. ASSUME NEW m \in Messages, Age(m) PROVE OutboxInv'
  <2>1. \A x \in Messages : InHand(x)' => tx'[TxOf[x]] \in {"committed", "refused"}
    BY <1>19 DEF Age, InHand
  <2>2. \A x \in Messages : RowFollows(x)'
    BY <1>19 DEF Age, RowFollows
  <2>3. \A x \in Messages : VerdictKnown(x)'
    BY <1>19 DEF Age, VerdictKnown
  <2>4. CommitFails \/ \A y \in Txns : tx'[y] # "refused"
    BY <1>19 DEF Age
  <2>5. QED
    BY <2>1, <2>2, <2>3, <2>4
<1>20. CASE Outage
  <2>1. \A x \in Messages : InHand(x)' => tx'[TxOf[x]] \in {"committed", "refused"}
    BY <1>20 DEF Outage, Stray, Free, InHand
  <2>2. \A x \in Messages : RowFollows(x)'
    BY <1>20 DEF Outage, Stray, Free, RowFollows
  <2>3. \A x \in Messages : VerdictKnown(x)'
    BY <1>20 DEF Outage, Stray, Free, VerdictKnown
  <2>4. CommitFails \/ \A y \in Txns : tx'[y] # "refused"
    BY <1>20 DEF Outage, Stray, Free
  <2>5. QED
    BY <2>1, <2>2, <2>3, <2>4
<1>21. CASE Recover
  BY <1>21 DEF Recover, InHand, RowFollows, VerdictKnown
<1>22. CASE LockExpires
  BY <1>22 DEF LockExpires, InHand, RowFollows, VerdictKnown
<1>23. CASE Purge
  <2>1. \A x \in Messages : InHand(x)' => tx'[TxOf[x]] \in {"committed", "refused"}
    BY <1>23 DEF Purge, InHand
  <2>2. \A x \in Messages : RowFollows(x)'
    BY <1>23 DEF Purge, RowFollows
  <2>3. \A x \in Messages : VerdictKnown(x)'
    BY <1>23 DEF Purge, VerdictKnown
  <2>4. CommitFails \/ \A y \in Txns : tx'[y] # "refused"
    BY <1>23 DEF Purge
  <2>5. QED
    BY <2>1, <2>2, <2>3, <2>4
<1>24. CASE UNCHANGED vars
  BY <1>24 DEF vars, InHand, RowFollows, VerdictKnown
<1>26. QED
  BY <1>1, <1>2, <1>3, <1>4, <1>5, <1>6, <1>7, <1>8, <1>9, <1>10, <1>11, <1>12,
     <1>13, <1>14, <1>15, <1>16, <1>17, <1>18, <1>19, <1>20, <1>21, <1>22, <1>23, <1>24, <1>25
     DEF Next, Transaction, Publishing, Round

\* Hence it holds throughout.
LEMMA OutboxInvInvariant == Spec => []OutboxInv
<1>1. Init => OutboxInv
  BY DEF Init, OutboxInv, SentOnlyAfterCommit, InHand, RowFollows, VerdictKnown, Free
<1>2. QED
  BY <1>1, OutboxInvInductive, TypeCorrect, PTL DEF Spec

\* Whatever the database, the broker, the lock, crashes and outages do, no message of
\* a transaction that was not asked to commit, or was rolled back, is ever sent.
THEOREM SentOnlyAfterCommitHolds == Spec => []SentOnlyAfterCommit
<1>1. OutboxInv => SentOnlyAfterCommit
  BY DEF OutboxInv
<1>2. QED
  BY <1>1, OutboxInvInvariant, PTL

\* Whatever happens, a committed message is lost only through the confirmation of a
\* message that could not be routed, or through the purge of an unsent row.
THEOREM LossExplainedHolds == Spec => []LossExplained
<1>1. TypeOK /\ OutboxInv => LossExplained
  BY DEF TypeOK, OutboxInv, RowFollows, LossExplained
<1>2. QED
  BY <1>1, OutboxInvInvariant, TypeCorrect, PTL

\* When commits are obeyed, messages can be routed and are sent within seven days,
\* no committed message is ever lost.
THEOREM NoLossHolds ==
  ASSUME Assumed
  PROVE  Spec => []NoLoss
<1>1. TypeOK /\ OutboxInv => NoLoss
  BY DEF TypeOK, OutboxInv, RowFollows, NoLoss, Assumed
<1>2. QED
  BY <1>1, OutboxInvInvariant, TypeCorrect, PTL

\* When the database obeys commits, only messages of committed transactions are sent.
THEOREM OnlyCommittedSentHolds ==
  ASSUME ~CommitFails
  PROVE  Spec => []OnlyCommittedSent
<1>1. TypeOK /\ OutboxInv => OnlyCommittedSent
  BY DEF TypeOK, OutboxInv, SentOnlyAfterCommit, OnlyCommittedSent
<1>2. QED
  BY <1>1, OutboxInvInvariant, TypeCorrect, PTL

\* When the database obeys commits, the outbox implements TransactionalDelivery: the
\* messages of a transaction become owed together, and only owed ones are delivered.
THEOREM ImplementsDelivery ==
  ASSUME ~CommitFails
  PROVE  Spec => DeliverySpec
<1>1. Init => AbstractDelivery!Init
  BY DEF Init, AbstractDelivery!Init, Owed
<1>2. TypeOK /\ OutboxInv /\ [Next]_vars => [AbstractDelivery!Next]_(AbstractDelivery!vars)
  <2> SUFFICES ASSUME TypeOK, OutboxInv, [Next]_vars, ~UNCHANGED AbstractDelivery!vars
               PROVE  AbstractDelivery!Next
    OBVIOUS
  <2> USE DEF TypeOK, Owed, AbstractDelivery!vars
  <2>1. ASSUME NEW t \in Txns, Commit(t) PROVE AbstractDelivery!Next
    <3>1. Owed' = Owed \cup AbstractDelivery!Of(t) /\ delivered' = delivered
      BY <2>1 DEF Commit, broker, AbstractDelivery!Of
    <3>2. QED
      BY <3>1 DEF AbstractDelivery!Next, AbstractDelivery!Commit
  <2>2. ASSUME NEW m \in Messages, NEW k \in Slots, Take(m, k)
        PROVE  AbstractDelivery!Next
    <3>1. m \in Owed
      BY <2>2 DEF Take, OutboxInv, SentOnlyAfterCommit, InHand
    <3>2. delivered' = delivered \cup {m} /\ Owed' = Owed
      BY <2>2 DEF Take, database
    <3>3. QED
      BY <3>1, <3>2 DEF AbstractDelivery!Next, AbstractDelivery!Deliver
  <2>3. ASSUME NEW t \in Txns, Begin(t) \/ Rollback(t) PROVE FALSE
    BY <2>3 DEF Begin, Rollback, broker
  <2>4. ASSUME NEW i \in Instances, Crash(i) PROVE FALSE
    BY <2>4 DEF Crash
  <2>5. ASSUME UNCHANGED <<tx, delivered>> PROVE FALSE
    BY <2>5
  <2>6. QED
    BY <2>1, <2>2, <2>3, <2>4, <2>5
       DEF Next, Transaction, Publishing, Round, Save, FirstSend, SendBack, Nack, HearYes, HearNo,
           StartRound, TryLock, List, NextBatch, SendNext, Close, Restart, Trigger, Age,
           Outage, Recover, LockExpires, Purge, vars, database, broker
<1>3. QED
  BY <1>1, <1>2, TypeCorrect, OutboxInvInvariant, PTL
     DEF Spec, DeliverySpec, AbstractDelivery!Spec
=============================================================================
