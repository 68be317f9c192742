-------------------------- MODULE DeadLettersProofs --------------------------
(***************************************************************************)
(* Proofs about DeadLetters, for any messages, rows, instances and bounds. *)
(***************************************************************************)
EXTENDS DeadLetters, TLAPS

\* What the proofs use of the assumption: the bounds are numbers, and nobody is no row,
\* message or instance.
LEMMA Parameters ==
  /\ MaxRetry \in Nat /\ MaxRetry > 0
  /\ MaxLosses \in Nat /\ MaxCrashes \in Nat /\ MaxTries \in Nat
  /\ None \notin Instances /\ Orphan \notin Instances /\ None # Orphan
  /\ None \notin Messages /\ None \notin Rows
BY DeadAssumption

USE Parameters

\* What a round has just retried.
LEMMA DoingTypes ==
  /\ Nothing \in Doings
  /\ \A r \in Rows : [row |-> r, how |-> "ok"] \in Doings /\ [row |-> r, how |-> "err"] \in Doings
  /\ \A d \in Doings : d.row \in Rows \cup {None}
  /\ \A d \in Doings : d.row = None /\ d.how = "none" => d = Nothing
BY DEF Doings, Nothing

\* Every step keeps the types, given what is known of the rounds.
LEMMA TypeInductive == ASSUME TypeOK, DeadInv, [Next]_vars PROVE TypeOK'
<1> USE DEF TypeOK, consumer, table, round, retrier
<1>1. ASSUME NEW m \in Messages, Deliver(m) PROVE TypeOK'
  BY <1>1 DEF Deliver, Place, Handling, DeadPlace, Places
<1>2. ASSUME NEW m \in Messages, HandleOk(m) PROVE TypeOK'
  BY <1>2 DEF HandleOk, Place, Handling, DeadPlace, Places
<1>3. ASSUME NEW m \in Messages, Ack(m) PROVE TypeOK'
  BY <1>3 DEF Ack, Place, Handling, DeadPlace, Places
<1>4. ASSUME NEW m \in Messages, HandleErr(m) PROVE TypeOK'
  BY <1>4 DEF HandleErr, Place, Handling, DeadPlace, Places
<1>5. ASSUME NEW m \in Messages, HandlePanic(m) PROVE TypeOK'
  BY <1>5 DEF HandlePanic, Place, Handling, DeadPlace, Places
<1>6. ASSUME NEW m \in Messages, SaveDead(m) PROVE TypeOK'
  <2>1. PICK r \in Rows : /\ state[r] = "none"
                          /\ msgOf' = [msgOf EXCEPT ![r] = m]
                          /\ state' = [state EXCEPT ![r] = "live"]
    BY <1>6 DEF SaveDead
  <2>2. count[r] = 0
    BY <2>1 DEF DeadInv, Counts, Counted
  <2>3. msgOf' \in [Rows -> Messages \cup {None}]
    BY <2>1
  <2>4. /\ state' \in [Rows -> RowStates]
        /\ \A s \in Rows : state'[s] = "live" => count[s] < MaxRetry
    BY <2>1, <2>2 DEF RowStates
  <2>5. QED
    BY <1>6, <2>3, <2>4 DEF SaveDead, Place, Places
<1>7. ASSUME NEW m \in Messages, AckDead(m) PROVE TypeOK'
  BY <1>7 DEF AckDead, Place, Handling, DeadPlace, Places
<1>8. ASSUME NEW m \in Messages, Lose(m) PROVE TypeOK'
  <2>1. place' \in [Messages -> Places]
    BY <1>8 DEF Lose, Place, Places
  <2>2. stale' \subseteq Messages
    BY <1>8 DEF Lose
  <2>3. losses' \in 0..MaxLosses
    BY <1>8 DEF Lose
  <2>4. QED
    BY <1>8, <2>1, <2>2, <2>3 DEF Lose
<1>9. ASSUME NEW m \in Messages, StaleEnds(m) PROVE TypeOK'
  BY <1>9 DEF StaleEnds, Place, Handling, DeadPlace, Places
<1>10. ASSUME NEW i \in Instances, StartRound(i) PROVE TypeOK'
  BY <1>10 DEF StartRound, Goto, Stages
<1>11. ASSUME NEW i \in Instances, TryLock(i) PROVE TypeOK'
  BY <1>11 DEF TryLock, Goto, Stages
<1>12. ASSUME NEW i \in Instances, List(i) PROVE TypeOK'
  <2>1. batch' \in [Instances -> SUBSET Rows]
    <3>1. batch' = batch \/ \E rows \in SUBSET Live : batch' = [batch EXCEPT ![i] = rows]
      BY <1>12 DEF List
    <3>2. \A rows \in SUBSET Live : rows \in SUBSET Rows
      BY DEF Live
    <3>3. QED
      BY <3>1, <3>2
  <2>2. snap' \in [Instances -> [Rows -> 0..MaxRetry]]
    BY <1>12 DEF List
  <2>3. job' \in [Instances -> Stages]
    BY <1>12 DEF List, Goto, Stages
  <2>4. lock' \in Instances \cup {None, Orphan}
    BY <1>12 DEF List, Unlock
  <2>5. QED
    BY <1>12, <2>1, <2>2, <2>3, <2>4 DEF List
<1>13. ASSUME NEW i \in Instances, Record(i) PROVE TypeOK'
  <2>1. doing[i] \in Doings /\ doing[i] # Nothing
    BY <1>13 DEF Record
  <2>2. doing[i].row \in Rows
    BY <2>1, DoingTypes DEF DeadInv, Rounds, Retried
  <2>3. snap[i][doing[i].row] \in 0..MaxRetry /\ snap[i][doing[i].row] < MaxRetry
    BY <2>2 DEF DeadInv, Rounds, Retried
  <2>4. count' \in [Rows -> 0..MaxRetry]
    BY <1>13, <2>2, <2>3 DEF Record
  <2>5. state' \in [Rows -> RowStates]
    BY <1>13, <2>2 DEF Record, RowStates
  <2>6. \A s \in Rows : state'[s] = "live" => count'[s] < MaxRetry
    BY <1>13, <2>2, <2>3 DEF Record
  <2>7. doing' \in [Instances -> Doings]
    BY <1>13, DoingTypes DEF Record
  <2>8. QED
    BY <1>13, <2>4, <2>5, <2>6, <2>7 DEF Record
<1>14. ASSUME NEW i \in Instances, NextBatch(i) PROVE TypeOK'
  BY <1>14 DEF NextBatch, Goto, Stages
<1>15. ASSUME NEW i \in Instances, Close(i) PROVE TypeOK'
  BY <1>15 DEF Close
<1>16. ASSUME NEW i \in Instances, Crash(i) PROVE TypeOK'
  <2>1. doing' \in [Instances -> Doings]
    BY <1>16, DoingTypes DEF Crash
  <2>2. job' \in [Instances -> Stages]
    BY <1>16 DEF Crash, Goto, Stages
  <2>3. lock' \in Instances \cup {None, Orphan} /\ crashes' \in 0..MaxCrashes
    BY <1>16 DEF Crash
  <2>4. /\ batch' \in [Instances -> SUBSET Rows]
        /\ closed' \subseteq Instances /\ listening' \subseteq Listens
    BY <1>16 DEF Crash
  <2>5. QED
    BY <1>16, <2>1, <2>2, <2>3, <2>4 DEF Crash
<1>17. ASSUME NEW i \in Instances, NEW r \in Rows, SkipRow(i, r) PROVE TypeOK'
  BY <1>17 DEF SkipRow
<1>18. ASSUME NEW i \in Instances, NEW r \in Rows, TryRow(i, r) PROVE TypeOK'
  <2>1. doing' \in [Instances -> Doings]
    <3>1. PICK d \in Doings : doing' = [doing EXCEPT ![i] = d]
      BY <1>18, DoingTypes DEF TryRow
    <3>2. QED
      BY <3>1
  <2>2. handled' \subseteq Messages
    <3>1. msgOf[r] \in Messages
      BY <1>18 DEF TryRow, DeadInv, Rounds, Listed, Counts, Counted
    <3>2. QED
      BY <1>18, <3>1 DEF TryRow
  <2>3. tries' \in [Rows -> Nat] /\ batch' \in [Instances -> SUBSET Rows]
    BY <1>18 DEF TryRow
  <2>4. QED
    BY <1>18, <2>1, <2>2, <2>3 DEF TryRow
<1>19. ASSUME NEW i \in Instances, NEW r \in Rows, TryRowPanics(i, r) PROVE TypeOK'
  <2>1. job' \in [Instances -> Stages]
    BY <1>19 DEF TryRowPanics, Goto, Stages
  <2>2. lock' \in Instances \cup {None, Orphan}
    BY <1>19 DEF TryRowPanics, Unlock
  <2>3. tries' \in [Rows -> Nat] /\ batch' \in [Instances -> SUBSET Rows]
    BY <1>19 DEF TryRowPanics
  <2>4. QED
    BY <1>19, <2>1, <2>2, <2>3 DEF TryRowPanics
<1>20. ASSUME LockExpires PROVE TypeOK'
  BY <1>20 DEF LockExpires
<1>21. ASSUME NEW i \in Instances, NEW m \in Messages, Register(i, m) PROVE TypeOK'
  BY <1>21 DEF Register
<1>22. CASE UNCHANGED vars
  BY <1>22 DEF vars
<1>23. QED
  BY <1>1, <1>2, <1>3, <1>4, <1>5, <1>6, <1>7, <1>8, <1>9,
     <1>10, <1>11, <1>12, <1>13, <1>14, <1>15, <1>16, <1>17, <1>18, <1>19, <1>20, <1>21, <1>22
     DEF Next, Consume, Round

\* What a round knows outlasts the steps that leave it alone: rows do not vanish or
\* change their message, retries and consumed messages only grow.
Growing ==
  /\ \A r \in Rows : state[r] # "none" => state'[r] # "none" /\ msgOf'[r] = msgOf[r]
  /\ \A r \in Rows : tries[r] \in Nat /\ tries'[r] \in Nat /\ tries[r] <= tries'[r]
  /\ handled \subseteq handled'

LEMMA ListedStays ==
  ASSUME TypeOK, Rounds, Growing, NEW i \in Instances,
         job'[i] = job[i], snap'[i] = snap[i], doing'[i] = doing[i],
         batch'[i] \subseteq batch[i]
  PROVE  Listed(i)'
<1>1. batch[i] \subseteq Rows /\ \A r \in Rows : snap[i][r] \in Nat
  BY DEF TypeOK
<1>2. QED
  BY <1>1 DEF Rounds, Listed, Growing, Nothing

LEMMA RetriedStays ==
  ASSUME TypeOK, Rounds, Growing, NEW i \in Instances,
         snap'[i] = snap[i], doing'[i] = doing[i]
  PROVE  Retried(i)'
<1>1. doing[i] \in Doings /\ \A r \in Rows : snap[i][r] \in Nat
  BY DEF TypeOK
<1>2. QED
  BY <1>1, DoingTypes DEF Rounds, Retried, Growing

\* Every step keeps what the rounds know.
LEMMA RoundsInductive == ASSUME TypeOK, TypeOK', DeadInv, [Next]_vars PROVE Rounds'
<1> USE DEF DeadInv
<1> DEFINE Same(i) == /\ job'[i] = job[i] /\ batch'[i] = batch[i]
                      /\ snap'[i] = snap[i] /\ doing'[i] = doing[i]
<1>a. ASSUME Growing, \A i \in Instances : Same(i) \/ (Listed(i)' /\ Retried(i)') PROVE Rounds'
  <2> SUFFICES ASSUME NEW i \in Instances PROVE Listed(i)' /\ Retried(i)'
    BY DEF Rounds
  <2>1. CASE Same(i)
    BY <1>a, <2>1, ListedStays, RetriedStays
  <2>2. QED
    BY <1>a, <2>1
<1>b. ASSUME UNCHANGED <<msgOf, state, tries>>, handled \subseteq handled' PROVE Growing
  BY <1>b DEF TypeOK, Growing
<1>c. ASSUME NEW i \in Instances, doing'[i] = Nothing, batch'[i] = {}
      PROVE  Listed(i)' /\ Retried(i)'
  BY <1>c DEF Listed, Retried, Nothing
<1>d. ASSUME NEW i \in Instances, doing[i] # Nothing
      PROVE  doing[i].row \in Rows /\ state[doing[i].row] # "none" /\ job[i] = "retry"
  BY <1>d, DoingTypes DEF TypeOK, Rounds, Listed, Retried
<1>1. ASSUME NEW m \in Messages, Deliver(m) PROVE Rounds'
  <2>1. Growing
    BY <1>1, <1>b DEF Deliver, table
  <2>2. \A i \in Instances : Same(i)
    BY <1>1 DEF Deliver, retrier, round
  <2>3. QED
    BY <2>1, <2>2, <1>a
<1>2. ASSUME NEW m \in Messages, HandleOk(m) PROVE Rounds'
  <2>1. Growing
    BY <1>2, <1>b DEF HandleOk, table
  <2>2. \A i \in Instances : Same(i)
    BY <1>2 DEF HandleOk, retrier, round
  <2>3. QED
    BY <2>1, <2>2, <1>a
<1>3. ASSUME NEW m \in Messages, Ack(m) PROVE Rounds'
  <2>1. Growing
    BY <1>3, <1>b DEF Ack, table
  <2>2. \A i \in Instances : Same(i)
    BY <1>3 DEF Ack, retrier, round
  <2>3. QED
    BY <2>1, <2>2, <1>a
<1>4. ASSUME NEW m \in Messages, HandleErr(m) PROVE Rounds'
  <2>1. Growing
    BY <1>4, <1>b DEF HandleErr, table
  <2>2. \A i \in Instances : Same(i)
    BY <1>4 DEF HandleErr, retrier, round
  <2>3. QED
    BY <2>1, <2>2, <1>a
<1>5. ASSUME NEW m \in Messages, HandlePanic(m) PROVE Rounds'
  <2>1. Growing
    BY <1>5, <1>b DEF HandlePanic, table
  <2>2. \A i \in Instances : Same(i)
    BY <1>5 DEF HandlePanic, retrier, round
  <2>3. QED
    BY <2>1, <2>2, <1>a
<1>6. ASSUME NEW m \in Messages, SaveDead(m) PROVE Rounds'
  <2>1. Growing
    BY <1>6 DEF SaveDead, TypeOK, Growing
  <2>2. \A i \in Instances : Same(i)
    BY <1>6 DEF SaveDead, retrier, round
  <2>3. QED
    BY <2>1, <2>2, <1>a
<1>7. ASSUME NEW m \in Messages, AckDead(m) PROVE Rounds'
  <2>1. Growing
    BY <1>7, <1>b DEF AckDead, table
  <2>2. \A i \in Instances : Same(i)
    BY <1>7 DEF AckDead, retrier, round
  <2>3. QED
    BY <2>1, <2>2, <1>a
<1>8. ASSUME NEW m \in Messages, Lose(m) PROVE Rounds'
  <2>1. Growing
    BY <1>8, <1>b DEF Lose, table
  <2>2. \A i \in Instances : Same(i)
    BY <1>8 DEF Lose, retrier, round
  <2>3. QED
    BY <2>1, <2>2, <1>a
<1>9. ASSUME NEW m \in Messages, StaleEnds(m) PROVE Rounds'
  <2>1. Growing
    BY <1>9, <1>b DEF StaleEnds, table
  <2>2. \A i \in Instances : Same(i)
    BY <1>9 DEF StaleEnds, retrier, round
  <2>3. QED
    BY <2>1, <2>2, <1>a
<1>10. ASSUME NEW i \in Instances, StartRound(i) PROVE Rounds'
  <2>1. Growing
    BY <1>10, <1>b DEF StartRound, table
  <2>2. \A j \in Instances \ {i} : Same(j)
    BY <1>10 DEF StartRound, TypeOK, Goto
  <2>3. Listed(i)'
    BY <1>10 DEF StartRound, Goto, Rounds, Listed, TypeOK
  <2>4. Retried(i)'
    BY <1>10, <2>1, RetriedStays DEF StartRound, TypeOK
  <2>5. QED
    BY <2>1, <2>2, <2>3, <2>4, <1>a
<1>11. ASSUME NEW i \in Instances, TryLock(i) PROVE Rounds'
  <2>1. Growing
    BY <1>11, <1>b DEF TryLock, table
  <2>2. \A j \in Instances \ {i} : Same(j)
    BY <1>11 DEF TryLock, TypeOK, Goto
  <2>3. Listed(i)'
    BY <1>11 DEF TryLock, Goto, Rounds, Listed, TypeOK
  <2>4. Retried(i)'
    BY <1>11, <2>1, RetriedStays DEF TryLock, TypeOK
  <2>5. QED
    BY <2>1, <2>2, <2>3, <2>4, <1>a
<1>12. ASSUME NEW i \in Instances, List(i) PROVE Rounds'
  <2>1. Growing
    BY <1>12, <1>b DEF List, table
  <2>2. \A j \in Instances \ {i} : Same(j)
    BY <1>12 DEF List, TypeOK, Goto
  <2>3. batch[i] = {} /\ doing[i] = Nothing /\ doing'[i] = Nothing
    BY <1>12 DEF List, Rounds, Listed, TypeOK
  <2>4. Listed(i)' /\ Retried(i)'
    <3>1. CASE job'[i] = "retry"
      <4>1. batch'[i] \subseteq Live /\ snap'[i] = count /\ UNCHANGED <<state, tries>>
        BY <1>12, <3>1 DEF List, Goto, TypeOK, table
      <4>2. \A r \in Live : /\ r \in Rows /\ state[r] # "none"
                            /\ count[r] < MaxRetry /\ count[r] <= tries[r]
        BY DEF Live, Counts, Counted, TypeOK
      <4>3. Listed(i)'
        BY <2>3, <3>1, <4>1, <4>2 DEF Listed, Nothing
      <4>4. Retried(i)'
        BY <2>3 DEF Retried, Nothing
      <4>5. QED
        BY <4>3, <4>4
    <3>2. CASE job'[i] # "retry"
      <4>1. batch'[i] = {}
        BY <1>12, <2>3, <3>2 DEF List, Goto, TypeOK
      <4>2. QED
        BY <2>3, <4>1, <1>c
    <3>3. QED
      BY <3>1, <3>2
  <2>5. QED
    BY <2>1, <2>2, <2>3, <2>4, <1>a
<1>13. ASSUME NEW i \in Instances, Record(i) PROVE Rounds'
  <2>1. Growing
    BY <1>13, <1>d DEF Record, TypeOK, Growing
  <2>2. \A j \in Instances \ {i} : Same(j)
    BY <1>13 DEF Record, TypeOK
  <2>3. Listed(i)'
    <3>1. /\ job'[i] = "retry" /\ batch'[i] = batch[i] /\ snap'[i] = snap[i]
          /\ tries' = tries /\ doing'[i] = Nothing
      BY <1>13, <1>d DEF Record, TypeOK
    <3>2. batch[i] \subseteq Rows
      BY DEF TypeOK
    <3>3. QED
      BY <2>1, <3>1, <3>2 DEF Listed, Rounds, Growing, Nothing
  <2>4. Retried(i)'
    BY <1>13 DEF Record, TypeOK, Retried, Nothing
  <2>5. QED
    BY <2>1, <2>2, <2>3, <2>4, <1>a
<1>14. ASSUME NEW i \in Instances, NextBatch(i) PROVE Rounds'
  <2>1. Growing
    BY <1>14, <1>b DEF NextBatch, table
  <2>2. \A j \in Instances \ {i} : Same(j)
    BY <1>14 DEF NextBatch, TypeOK, Goto
  <2>3. Listed(i)'
    BY <1>14 DEF NextBatch, Goto, Rounds, Listed, TypeOK
  <2>4. Retried(i)'
    BY <1>14, <2>1, RetriedStays DEF NextBatch, TypeOK
  <2>5. QED
    BY <2>1, <2>2, <2>3, <2>4, <1>a
<1>15. ASSUME NEW i \in Instances, Close(i) PROVE Rounds'
  <2>1. Growing
    BY <1>15, <1>b DEF Close, table
  <2>2. \A j \in Instances : Same(j)
    BY <1>15 DEF Close, retrier, round
  <2>3. QED
    BY <2>1, <2>2, <1>a
<1>16. ASSUME NEW i \in Instances, Crash(i) PROVE Rounds'
  <2>1. Growing
    BY <1>16, <1>b DEF Crash, table
  <2>2. \A j \in Instances \ {i} : Same(j)
    BY <1>16 DEF Crash, TypeOK, Goto
  <2>3. doing'[i] = Nothing /\ batch'[i] = {}
    BY <1>16 DEF Crash, TypeOK
  <2>4. Listed(i)' /\ Retried(i)'
    BY <2>3, <1>c
  <2>5. QED
    BY <2>1, <2>2, <2>3, <2>4, <1>a
<1>17. ASSUME NEW i \in Instances, NEW r \in Rows, SkipRow(i, r) PROVE Rounds'
  <2>1. Growing
    BY <1>17, <1>b DEF SkipRow, table
  <2>2. \A j \in Instances \ {i} : Same(j)
    BY <1>17 DEF SkipRow, TypeOK
  <2>3. Listed(i)'
    BY <1>17, <2>1, ListedStays DEF SkipRow, TypeOK
  <2>4. Retried(i)'
    BY <1>17, <2>1, RetriedStays DEF SkipRow, TypeOK
  <2>5. QED
    BY <2>1, <2>2, <2>3, <2>4, <1>a
<1>18. ASSUME NEW i \in Instances, NEW r \in Rows, TryRow(i, r) PROVE Rounds'
  <2>1. Growing
    BY <1>18 DEF TryRow, table, TypeOK, Growing
  <2>2. \A j \in Instances \ {i} : Same(j)
    BY <1>18 DEF TryRow, TypeOK
  <2>3. Listed(i)'
    <3>1. /\ job'[i] = "retry" /\ batch'[i] = batch[i] \ {r} /\ snap'[i] = snap[i]
          /\ state' = state /\ doing'[i].row = r
      BY <1>18 DEF TryRow, TypeOK, table
    <3>2. batch[i] \subseteq Rows /\ \A s \in Rows : snap[i][s] \in Nat
      BY DEF TypeOK
    <3>3. QED
      BY <2>1, <3>1, <3>2 DEF Listed, Rounds, Growing
  <2>4. Retried(i)'
    <3>1. state[r] # "none" /\ snap[i][r] < MaxRetry /\ snap[i][r] <= tries[r]
      BY <1>18 DEF TryRow, Rounds, Listed
    <3>2. snap[i][r] \in Nat /\ tries'[r] = tries[r] + 1 /\ tries[r] \in Nat
      BY <1>18 DEF TryRow, TypeOK
    <3>3. snap[i][r] < tries'[r] /\ UNCHANGED <<state, msgOf, snap>>
      BY <1>18, <3>1, <3>2 DEF TryRow, table
    <3>4. \/ doing'[i] = [row |-> r, how |-> "ok"] /\ msgOf[r] \in handled'
          \/ doing'[i] = [row |-> r, how |-> "err"]
      BY <1>18 DEF TryRow, TypeOK
    <3>5. QED
      BY <3>1, <3>3, <3>4 DEF Retried
  <2>5. QED
    BY <2>1, <2>2, <2>3, <2>4, <1>a
<1>19. ASSUME NEW i \in Instances, NEW r \in Rows, TryRowPanics(i, r) PROVE Rounds'
  <2>1. Growing
    BY <1>19 DEF TryRowPanics, table, TypeOK, Growing
  <2>2. \A j \in Instances \ {i} : Same(j)
    BY <1>19 DEF TryRowPanics, TypeOK, Goto
  <2>3. doing'[i] = Nothing /\ batch'[i] = {}
    BY <1>19 DEF TryRowPanics, TypeOK
  <2>4. Listed(i)' /\ Retried(i)'
    BY <2>3, <1>c
  <2>5. QED
    BY <2>1, <2>2, <2>3, <2>4, <1>a
<1>20. ASSUME LockExpires PROVE Rounds'
  <2>1. Growing
    BY <1>20, <1>b DEF LockExpires, table
  <2>2. \A i \in Instances : Same(i)
    BY <1>20 DEF LockExpires, retrier, round
  <2>3. QED
    BY <2>1, <2>2, <1>a
<1>21. ASSUME NEW i \in Instances, NEW m \in Messages, Register(i, m) PROVE Rounds'
  <2>1. Growing
    BY <1>21, <1>b DEF Register, table
  <2>2. \A j \in Instances : Same(j)
    BY <1>21 DEF Register, round
  <2>3. QED
    BY <2>1, <2>2, <1>a
<1>22. CASE UNCHANGED vars
  BY <1>22, <1>a, <1>b DEF vars, table, round, retrier, consumer
<1>23. QED
  BY <1>1, <1>2, <1>3, <1>4, <1>5, <1>6, <1>7, <1>8, <1>9,
     <1>10, <1>11, <1>12, <1>13, <1>14, <1>15, <1>16, <1>17, <1>18, <1>19, <1>20, <1>21, <1>22
     DEF Next, Consume, Round

\* Every step keeps the retries counted.
LEMMA CountsInductive == ASSUME TypeOK, DeadInv, [Next]_vars PROVE Counts'
<1> USE DEF DeadInv
<1>a. ASSUME UNCHANGED <<table, tries>> PROVE Counts'
  BY <1>a DEF Counts, Counted, table
<1>b. ASSUME NEW r \in Rows, state[r] # "none", UNCHANGED table,
             tries' = [tries EXCEPT ![r] = @ + 1]
      PROVE  Counts'
  BY <1>b DEF Counts, Counted, table, TypeOK
<1>1. ASSUME NEW m \in Messages, Deliver(m) PROVE Counts'
  BY <1>1, <1>a DEF Deliver
<1>2. ASSUME NEW m \in Messages, HandleOk(m) PROVE Counts'
  BY <1>2, <1>a DEF HandleOk
<1>3. ASSUME NEW m \in Messages, Ack(m) PROVE Counts'
  BY <1>3, <1>a DEF Ack
<1>4. ASSUME NEW m \in Messages, HandleErr(m) PROVE Counts'
  BY <1>4, <1>a DEF HandleErr
<1>5. ASSUME NEW m \in Messages, HandlePanic(m) PROVE Counts'
  BY <1>5, <1>a DEF HandlePanic
<1>6. ASSUME NEW m \in Messages, SaveDead(m) PROVE Counts'
  BY <1>6 DEF SaveDead, Counts, Counted, TypeOK
<1>7. ASSUME NEW m \in Messages, AckDead(m) PROVE Counts'
  BY <1>7, <1>a DEF AckDead
<1>8. ASSUME NEW m \in Messages, Lose(m) PROVE Counts'
  BY <1>8, <1>a DEF Lose
<1>9. ASSUME NEW m \in Messages, StaleEnds(m) PROVE Counts'
  BY <1>9, <1>a DEF StaleEnds
<1>10. ASSUME NEW i \in Instances, StartRound(i) PROVE Counts'
  BY <1>10, <1>a DEF StartRound
<1>11. ASSUME NEW i \in Instances, TryLock(i) PROVE Counts'
  BY <1>11, <1>a DEF TryLock
<1>12. ASSUME NEW i \in Instances, List(i) PROVE Counts'
  BY <1>12, <1>a DEF List
<1>13. ASSUME NEW i \in Instances, Record(i) PROVE Counts'
  <2>1. doing[i].row \in Rows /\ state[doing[i].row] # "none"
    BY <1>13, DoingTypes DEF Record, TypeOK, Rounds, Retried
  <2>2. snap[i][doing[i].row] \in Nat /\ snap[i][doing[i].row] + 1 <= tries[doing[i].row]
    BY <2>1, DoingTypes DEF TypeOK, Rounds, Retried
  <2>3. CASE UNCHANGED <<count, state>>
    BY <1>13, <2>3 DEF Record, Counts, Counted
  <2>4. CASE /\ count' = [count EXCEPT ![doing[i].row] = snap[i][doing[i].row] + 1]
             /\ state' = [state EXCEPT ![doing[i].row] =
                            IF snap[i][doing[i].row] + 1 >= MaxRetry THEN "deleted" ELSE "live"]
    BY <1>13, <2>1, <2>2, <2>4 DEF Record, Counts, Counted, TypeOK
  <2>5. CASE count' = count /\ state' = [state EXCEPT ![doing[i].row] = "erased"]
    BY <1>13, <2>1, <2>5 DEF Record, Counts, Counted, TypeOK
  <2>6. QED
    BY <1>13, <2>3, <2>4, <2>5 DEF Record
<1>14. ASSUME NEW i \in Instances, NextBatch(i) PROVE Counts'
  BY <1>14, <1>a DEF NextBatch
<1>15. ASSUME NEW i \in Instances, Close(i) PROVE Counts'
  BY <1>15, <1>a DEF Close
<1>16. ASSUME NEW i \in Instances, Crash(i) PROVE Counts'
  BY <1>16, <1>a DEF Crash
<1>17. ASSUME NEW i \in Instances, NEW r \in Rows, SkipRow(i, r) PROVE Counts'
  BY <1>17, <1>a DEF SkipRow
<1>18. ASSUME NEW i \in Instances, NEW r \in Rows, TryRow(i, r) PROVE Counts'
  BY <1>18, <1>b DEF TryRow, Rounds, Listed
<1>19. ASSUME NEW i \in Instances, NEW r \in Rows, TryRowPanics(i, r) PROVE Counts'
  BY <1>19, <1>b DEF TryRowPanics, Rounds, Listed
<1>20. ASSUME LockExpires PROVE Counts'
  BY <1>20, <1>a DEF LockExpires
<1>21. ASSUME NEW i \in Instances, NEW m \in Messages, Register(i, m) PROVE Counts'
  BY <1>21, <1>a DEF Register
<1>22. CASE UNCHANGED vars
  BY <1>22, <1>a DEF vars, table
<1>23. QED
  BY <1>1, <1>2, <1>3, <1>4, <1>5, <1>6, <1>7, <1>8, <1>9,
     <1>10, <1>11, <1>12, <1>13, <1>14, <1>15, <1>16, <1>17, <1>18, <1>19, <1>20, <1>21, <1>22
     DEF Next, Consume, Round

\* Every step keeps what is acknowledged next.
LEMMA KeepsInductive == ASSUME TypeOK, DeadInv, [Next]_vars PROVE Keeps'
<1> SUFFICES ASSUME Keeping, \A m \in Messages : Kept(m)
             PROVE  \A m \in Messages : Kept(m)'
  BY DEF DeadInv, Keeps, Keeping
<1> USE DEF DeadInv
<1>a. ASSUME handled \subseteq handled',
             \A m \in Messages : OnRow(m) => OnRow(m)' \/ m \in handled',
             \A m \in Messages : place'[m] = place[m] \/ Kept(m)'
      PROVE  \A m \in Messages : Kept(m)'
  BY <1>a DEF Kept
<1>b. ASSUME UNCHANGED table PROVE \A m \in Messages : OnRow(m) <=> OnRow(m)'
  BY <1>b DEF table, OnRow
<1>c. ASSUME NEW m \in Messages, UNCHANGED table, handled \subseteq handled',
             \A n \in Messages \ {m} : place'[n] = place[n], Kept(m)'
      PROVE  \A n \in Messages : Kept(n)'
  BY <1>a, <1>b, <1>c
<1>d. ASSUME UNCHANGED <<place, table>>, handled \subseteq handled'
      PROVE  \A n \in Messages : Kept(n)'
  BY <1>a, <1>b, <1>d
<1>1. ASSUME NEW m \in Messages, Deliver(m) PROVE \A n \in Messages : Kept(n)'
  <2>1. Kept(m)'
    BY <1>1 DEF Deliver, Place, Kept, Keeping, DeadPlace, Handling, TypeOK, table
  <2>2. QED
    BY <1>1, <2>1, <1>c DEF Deliver, Place, TypeOK
<1>2. ASSUME NEW m \in Messages, HandleOk(m) PROVE \A n \in Messages : Kept(n)'
  <2>1. Kept(m)'
    BY <1>2 DEF HandleOk, Place, Kept, Keeping, DeadPlace, Handling, TypeOK, table
  <2>2. QED
    BY <1>2, <2>1, <1>c DEF HandleOk, Place, TypeOK
<1>3. ASSUME NEW m \in Messages, Ack(m) PROVE \A n \in Messages : Kept(n)'
  <2>1. Kept(m)'
    BY <1>3 DEF Ack, Place, Kept, Keeping, DeadPlace, Handling, TypeOK, table
  <2>2. QED
    BY <1>3, <2>1, <1>c DEF Ack, Place, TypeOK
<1>4. ASSUME NEW m \in Messages, HandleErr(m) PROVE \A n \in Messages : Kept(n)'
  <2>1. Kept(m)'
    BY <1>4 DEF HandleErr, Place, Kept, Keeping, DeadPlace, Handling, TypeOK, table
  <2>2. QED
    BY <1>4, <2>1, <1>c DEF HandleErr, Place, TypeOK
<1>5. ASSUME NEW m \in Messages, HandlePanic(m) PROVE \A n \in Messages : Kept(n)'
  <2>1. Kept(m)'
    BY <1>5 DEF HandlePanic, Place, Kept, Keeping, DeadPlace, Handling, TypeOK, table
  <2>2. QED
    BY <1>5, <2>1, <1>c DEF HandlePanic, Place, TypeOK
<1>6. ASSUME NEW m \in Messages, SaveDead(m) PROVE \A n \in Messages : Kept(n)'
  <2>1. PICK r \in Rows : /\ state[r] = "none"
                          /\ msgOf' = [msgOf EXCEPT ![r] = m]
                          /\ state' = [state EXCEPT ![r] = "live"]
    BY <1>6 DEF SaveDead
  <2>2. \A n \in Messages : OnRow(n) => OnRow(n)'
    BY <1>6, <2>1 DEF SaveDead, OnRow, TypeOK
  <2>3. OnRow(m)'
    BY <2>1 DEF OnRow, TypeOK
  <2>4. Kept(m)'
    BY <1>6, <2>3 DEF SaveDead, Place, Kept, TypeOK
  <2>5. QED
    BY <1>6, <2>2, <2>4, <1>a DEF SaveDead, Place, TypeOK
<1>7. ASSUME NEW m \in Messages, AckDead(m) PROVE \A n \in Messages : Kept(n)'
  <2>1. Kept(m)'
    BY <1>7, <1>b DEF AckDead, Place, Kept, Keeping, DeadPlace, Handling, TypeOK, table
  <2>2. QED
    BY <1>7, <2>1, <1>c DEF AckDead, Place, TypeOK
<1>8. ASSUME NEW m \in Messages, Lose(m) PROVE \A n \in Messages : Kept(n)'
  <2>1. Kept(m)'
    BY <1>8 DEF Lose, Place, Kept, Keeping, DeadPlace, Handling, TypeOK, table
  <2>2. QED
    BY <1>8, <2>1, <1>c DEF Lose, Place, TypeOK
<1>9. ASSUME NEW m \in Messages, StaleEnds(m) PROVE \A n \in Messages : Kept(n)'
  BY <1>9, <1>d DEF StaleEnds, consumer, table
<1>10. ASSUME NEW i \in Instances, StartRound(i) PROVE \A n \in Messages : Kept(n)'
  BY <1>10, <1>d DEF StartRound, consumer, table
<1>11. ASSUME NEW i \in Instances, TryLock(i) PROVE \A n \in Messages : Kept(n)'
  BY <1>11, <1>d DEF TryLock, consumer, table
<1>12. ASSUME NEW i \in Instances, List(i) PROVE \A n \in Messages : Kept(n)'
  BY <1>12, <1>d DEF List, consumer, table
<1>13. ASSUME NEW i \in Instances, Record(i) PROVE \A n \in Messages : Kept(n)'
  <2> DEFINE r == doing[i].row
  <2>1. r \in Rows /\ state[r] # "none"
    BY <1>13, DoingTypes DEF Record, TypeOK, Rounds, Retried
  <2>2. snap[i][r] \in Nat
    BY <2>1 DEF TypeOK
  <2>3. \A n \in Messages : OnRow(n) => OnRow(n)' \/ n \in handled'
    <3> SUFFICES ASSUME NEW n \in Messages, NEW s \in Rows, msgOf[s] = n,
                        state[s] = "live" \/ (state[s] = "deleted" /\ count[s] >= MaxRetry)
                 PROVE  OnRow(n)' \/ n \in handled'
      BY DEF OnRow
    <3>1. CASE UNCHANGED <<count, state>>
      BY <1>13, <3>1 DEF Record, OnRow
    <3>2. CASE s # r
      BY <1>13, <3>2 DEF Record, OnRow, TypeOK
    <3>3. CASE doing[i].how = "ok" /\ s = r
      BY <1>13, <3>3 DEF Record, Rounds, Retried
    <3>4. CASE doing[i].how = "err" /\ s = r /\ ~UNCHANGED <<count, state>>
      <4>1. count'[r] = snap[i][r] + 1 /\ msgOf' = msgOf
        BY <1>13, <2>1, <3>4 DEF Record, TypeOK
      <4>2. state'[r] = IF snap[i][r] + 1 >= MaxRetry THEN "deleted" ELSE "live"
        BY <1>13, <2>1, <3>4 DEF Record, TypeOK
      <4>3. QED
        BY <2>1, <2>2, <3>4, <4>1, <4>2 DEF OnRow
    <3>5. QED
      BY <1>13, <3>1, <3>2, <3>3, <3>4 DEF Record
  <2>4. QED
    BY <1>13, <2>3, <1>a DEF Record, consumer
<1>14. ASSUME NEW i \in Instances, NextBatch(i) PROVE \A n \in Messages : Kept(n)'
  BY <1>14, <1>d DEF NextBatch, consumer, table
<1>15. ASSUME NEW i \in Instances, Close(i) PROVE \A n \in Messages : Kept(n)'
  BY <1>15, <1>d DEF Close, consumer, table
<1>16. ASSUME NEW i \in Instances, Crash(i) PROVE \A n \in Messages : Kept(n)'
  BY <1>16, <1>d DEF Crash, consumer, table
<1>17. ASSUME NEW i \in Instances, NEW r \in Rows, SkipRow(i, r) PROVE \A n \in Messages : Kept(n)'
  BY <1>17, <1>d DEF SkipRow, consumer, table
<1>18. ASSUME NEW i \in Instances, NEW r \in Rows, TryRow(i, r) PROVE \A n \in Messages : Kept(n)'
  BY <1>18, <1>d DEF TryRow, consumer, table
<1>19. ASSUME NEW i \in Instances, NEW r \in Rows, TryRowPanics(i, r) PROVE \A n \in Messages : Kept(n)'
  BY <1>19, <1>d DEF TryRowPanics, consumer, table
<1>20. ASSUME LockExpires PROVE \A n \in Messages : Kept(n)'
  BY <1>20, <1>d DEF LockExpires, consumer, table
<1>21. ASSUME NEW i \in Instances, NEW m \in Messages, Register(i, m) PROVE \A n \in Messages : Kept(n)'
  BY <1>21, <1>d DEF Register, consumer, table
<1>22. CASE UNCHANGED vars
  BY <1>22, <1>d DEF vars, table, consumer
<1>23. QED
  BY <1>1, <1>2, <1>3, <1>4, <1>5, <1>6, <1>7, <1>8, <1>9,
     <1>10, <1>11, <1>12, <1>13, <1>14, <1>15, <1>16, <1>17, <1>18, <1>19, <1>20, <1>21, <1>22
     DEF Next, Consume, Round

\* The lock excludes, the database accepts writes and no listener panics.
Orderly == LockSafe /\ ~DbFails /\ \A m \in Messages : "panic" \notin Results[m]

\* What such a round knows, and how often rows were retried.
FreshRounds == \A i \in Instances : Alone(i) /\ Fresh(i)
AllBounded == \A r \in Rows : Bounded(r)

\* Only the instance that has the lock has rows to retry.
LEMMA OneRound ==
  ASSUME TypeOK, DeadInv, FreshRounds, NEW i \in Instances, job[i] \in {"list", "retry"},
         NEW j \in Instances \ {i}
  PROVE  job[j] \notin {"list", "retry"} /\ batch[j] = {} /\ doing[j] = Nothing
BY DEF DeadInv, Rounds, Listed, FreshRounds, Alone

\* Every step keeps the rounds apart and their counts up to date.
LEMMA FreshInductive ==
  ASSUME Orderly, TypeOK, DeadInv, FreshRounds, [Next]_vars PROVE FreshRounds'
<1> USE DEF FreshRounds
<1>a. ASSUME UNCHANGED <<lock, round, count, state>> PROVE FreshRounds'
  BY <1>a DEF Alone, Fresh, round
<1>b. \A i \in Instances : doing[i] \in Doings /\ batch[i] \subseteq Rows
  BY DEF TypeOK
<1>1. ASSUME NEW m \in Messages, Deliver(m) PROVE FreshRounds'
  BY <1>1, <1>a DEF Deliver, table, retrier
<1>2. ASSUME NEW m \in Messages, HandleOk(m) PROVE FreshRounds'
  BY <1>2, <1>a DEF HandleOk, table, retrier
<1>3. ASSUME NEW m \in Messages, Ack(m) PROVE FreshRounds'
  BY <1>3, <1>a DEF Ack, table, retrier
<1>4. ASSUME NEW m \in Messages, HandleErr(m) PROVE FreshRounds'
  BY <1>4, <1>a DEF HandleErr, table, retrier
<1>5. ASSUME NEW m \in Messages, HandlePanic(m) PROVE FreshRounds'
  BY <1>5, <1>a DEF HandlePanic, table, retrier
<1>6. ASSUME NEW m \in Messages, SaveDead(m) PROVE FreshRounds'
  <2>1. \A r \in Rows : state[r] = "live" => state'[r] = "live"
    BY <1>6 DEF SaveDead, TypeOK
  <2>2. \A i \in Instances : (batch[i] \cup {doing[i].row}) \ {None} \subseteq Rows
    BY <1>b, DoingTypes
  <2>3. QED
    BY <1>6, <2>1, <2>2 DEF SaveDead, retrier, round, Alone, Fresh
<1>7. ASSUME NEW m \in Messages, AckDead(m) PROVE FreshRounds'
  BY <1>7, <1>a DEF AckDead, table, retrier
<1>8. ASSUME NEW m \in Messages, Lose(m) PROVE FreshRounds'
  BY <1>8, <1>a DEF Lose, table, retrier
<1>9. ASSUME NEW m \in Messages, StaleEnds(m) PROVE FreshRounds'
  BY <1>9, <1>a DEF StaleEnds, table, retrier
<1>10. ASSUME NEW i \in Instances, StartRound(i) PROVE FreshRounds'
  <2>1. \A j \in Instances : Alone(j)'
    BY <1>10 DEF StartRound, Goto, Alone, TypeOK
  <2>2. \A j \in Instances : Fresh(j)'
    BY <1>10 DEF StartRound, Fresh, table
  <2>3. QED
    BY <2>1, <2>2
<1>11. ASSUME NEW i \in Instances, TryLock(i) PROVE FreshRounds'
  <2>1. \A j \in Instances : Alone(j)'
    BY <1>11 DEF TryLock, Goto, Alone, TypeOK
  <2>2. \A j \in Instances : Fresh(j)'
    BY <1>11 DEF TryLock, Fresh, table
  <2>3. QED
    BY <2>1, <2>2
<1>12. ASSUME NEW i \in Instances, List(i) PROVE FreshRounds'
  <2>1. \A j \in Instances : Alone(j)'
    <3>1. lock = i
      BY <1>12 DEF List, Alone
    <3>2. \A j \in Instances \ {i} : job'[j] \notin {"list", "retry"}
      BY <1>12, OneRound DEF List, Goto, TypeOK
    <3>3. job'[i] = "start" \/ lock' = i
      BY <1>12, <3>1 DEF List, Goto, TypeOK
    <3>4. QED
      BY <3>2, <3>3 DEF Alone
  <2>2. doing[i] = Nothing
    BY <1>12 DEF List, DeadInv, Rounds, Listed
  <2>3. \A j \in Instances \ {i} : Fresh(j)'
    BY <1>12 DEF List, Fresh, TypeOK, table
  <2>4. Fresh(i)'
    BY <1>12, <2>2 DEF List, Fresh, TypeOK, table, Live, Nothing
  <2>5. QED
    BY <2>1, <2>3, <2>4
<1>13. ASSUME NEW i \in Instances, Record(i) PROVE FreshRounds'
  <2>1. \A j \in Instances : Alone(j)'
    BY <1>13 DEF Record, Alone
  <2>2. job[i] = "retry"
    BY <1>13 DEF Record, DeadInv, Rounds, Listed
  <2>3. \A j \in Instances \ {i} : batch'[j] = {} /\ doing'[j] = Nothing
    BY <1>13, <2>2, OneRound DEF Record, TypeOK
  <2>4. \A j \in Instances \ {i} : Fresh(j)'
    BY <2>3 DEF Fresh, Nothing
  <2>5. \A r \in batch[i] : state'[r] = state[r] /\ count'[r] = count[r]
    BY <1>13, <1>b DEF Record, DeadInv, Rounds, Listed, TypeOK
  <2>6. batch'[i] = batch[i] /\ doing'[i].row = None /\ snap' = snap
    BY <1>13 DEF Record, TypeOK, Nothing
  <2>7. Fresh(i)'
    BY <2>5, <2>6 DEF Fresh
  <2>8. QED
    BY <2>1, <2>4, <2>7
<1>14. ASSUME NEW i \in Instances, NextBatch(i) PROVE FreshRounds'
  <2>1. \A j \in Instances : Alone(j)'
    BY <1>14 DEF NextBatch, Goto, Alone, TypeOK
  <2>2. \A j \in Instances : Fresh(j)'
    BY <1>14 DEF NextBatch, Fresh, table
  <2>3. QED
    BY <2>1, <2>2
<1>15. ASSUME NEW i \in Instances, Close(i) PROVE FreshRounds'
  BY <1>15, <1>a DEF Close, table, retrier
<1>16. ASSUME NEW i \in Instances, Crash(i) PROVE FreshRounds'
  <2>1. \A j \in Instances : Alone(j)'
    BY <1>16 DEF Crash, Goto, Alone, TypeOK
  <2>2. batch'[i] = {} /\ doing'[i].row = None
    BY <1>16 DEF Crash, TypeOK, Nothing
  <2>3. \A j \in Instances \ {i} : batch'[j] = batch[j] /\ doing'[j] = doing[j]
    BY <1>16 DEF Crash, TypeOK
  <2>4. QED
    BY <1>16, <2>1, <2>2, <2>3 DEF Crash, Fresh, table
<1>17. ASSUME NEW i \in Instances, NEW r \in Rows, SkipRow(i, r) PROVE FreshRounds'
  <2>1. \A j \in Instances : Alone(j)'
    BY <1>17 DEF SkipRow, Alone
  <2>2. \A j \in Instances : Fresh(j)'
    BY <1>17 DEF SkipRow, Fresh, TypeOK, table
  <2>3. QED
    BY <2>1, <2>2
<1>18. ASSUME NEW i \in Instances, NEW r \in Rows, TryRow(i, r) PROVE FreshRounds'
  <2>1. \A j \in Instances : Alone(j)'
    BY <1>18 DEF TryRow, Alone
  <2>2. batch'[i] = batch[i] \ {r} /\ doing'[i].row = r /\ r \in batch[i]
    BY <1>18 DEF TryRow, TypeOK
  <2>3. \A j \in Instances \ {i} : batch'[j] = batch[j] /\ doing'[j] = doing[j]
    BY <1>18 DEF TryRow, TypeOK
  <2>4. QED
    BY <1>18, <2>1, <2>2, <2>3 DEF TryRow, Fresh, table
<1>19. ASSUME NEW i \in Instances, NEW r \in Rows, TryRowPanics(i, r) PROVE FreshRounds'
  BY <1>19 DEF TryRowPanics, Orderly, DeadInv, Rounds, Listed, Counts, Counted, TypeOK
<1>20. ASSUME LockExpires PROVE FreshRounds'
  <2>1. lock = Orphan
    BY <1>20 DEF LockExpires, Orderly
  <2>2. \A i \in Instances : job[i] \notin {"list", "retry"}
    BY <2>1 DEF Alone
  <2>3. QED
    BY <1>20, <2>2 DEF LockExpires, Alone, Fresh, table, round
<1>21. ASSUME NEW i \in Instances, NEW m \in Messages, Register(i, m) PROVE FreshRounds'
  BY <1>21, <1>a DEF Register, table, round
<1>22. CASE UNCHANGED vars
  BY <1>22, <1>a DEF vars, retrier, round, table
<1>23. QED
  BY <1>1, <1>2, <1>3, <1>4, <1>5, <1>6, <1>7, <1>8, <1>9,
     <1>10, <1>11, <1>12, <1>13, <1>14, <1>15, <1>16, <1>17, <1>18, <1>19, <1>20, <1>21, <1>22
     DEF Next, Consume, Round

\* Every step keeps the retries bounded.
LEMMA BoundedInductive ==
  ASSUME Orderly, TypeOK, DeadInv, FreshRounds, AllBounded, [Next]_vars PROVE AllBounded'
<1> USE DEF AllBounded
<1>a. ASSUME UNCHANGED <<state, count, tries, crashes, doing>> PROVE AllBounded'
  BY <1>a DEF Bounded, BeingCounted
<1>b. \A r \in Rows : count[r] \in Nat /\ tries[r] \in Nat /\ count[r] <= MaxRetry
  BY DEF TypeOK
<1>c. crashes \in Nat
  BY DEF TypeOK
<1>1. ASSUME NEW m \in Messages, Deliver(m) PROVE AllBounded'
  BY <1>1, <1>a DEF Deliver, table, retrier, round
<1>2. ASSUME NEW m \in Messages, HandleOk(m) PROVE AllBounded'
  BY <1>2, <1>a DEF HandleOk, table, retrier, round
<1>3. ASSUME NEW m \in Messages, Ack(m) PROVE AllBounded'
  BY <1>3, <1>a DEF Ack, table, retrier, round
<1>4. ASSUME NEW m \in Messages, HandleErr(m) PROVE AllBounded'
  BY <1>4, <1>a DEF HandleErr, table, retrier, round
<1>5. ASSUME NEW m \in Messages, HandlePanic(m) PROVE AllBounded'
  BY <1>5, <1>a DEF HandlePanic, table, retrier, round
<1>6. ASSUME NEW m \in Messages, SaveDead(m) PROVE AllBounded'
  <2>1. PICK r \in Rows : /\ state[r] = "none" /\ state' = [state EXCEPT ![r] = "live"]
    BY <1>6 DEF SaveDead
  <2>2. tries[r] = 0 /\ count[r] = 0
    BY <2>1 DEF DeadInv, Counts, Counted
  <2>3. UNCHANGED <<count, tries, crashes, doing>>
    BY <1>6 DEF SaveDead, retrier, round
  <2>4. Bounded(r)'
    BY <2>1, <2>2, <2>3, <1>c DEF Bounded, TypeOK
  <2>5. \A s \in Rows \ {r} : Bounded(s)'
    BY <2>1, <2>3 DEF Bounded, BeingCounted, TypeOK
  <2>6. QED
    BY <2>4, <2>5
<1>7. ASSUME NEW m \in Messages, AckDead(m) PROVE AllBounded'
  BY <1>7, <1>a DEF AckDead, table, retrier, round
<1>8. ASSUME NEW m \in Messages, Lose(m) PROVE AllBounded'
  BY <1>8, <1>a DEF Lose, table, retrier, round
<1>9. ASSUME NEW m \in Messages, StaleEnds(m) PROVE AllBounded'
  BY <1>9, <1>a DEF StaleEnds, table, retrier, round
<1>10. ASSUME NEW i \in Instances, StartRound(i) PROVE AllBounded'
  BY <1>10, <1>a DEF StartRound, table, retrier, round
<1>11. ASSUME NEW i \in Instances, TryLock(i) PROVE AllBounded'
  BY <1>11, <1>a DEF TryLock, table, retrier, round
<1>12. ASSUME NEW i \in Instances, List(i) PROVE AllBounded'
  BY <1>12, <1>a DEF List, table, retrier, round
<1>13. ASSUME NEW i \in Instances, Record(i) PROVE AllBounded'
  <2>0. doing[i].row \in Rows /\ job[i] = "retry"
    BY <1>13, DoingTypes DEF Record, TypeOK, DeadInv, Rounds, Listed, Retried
  <2>1. PICK r \in Rows : r = doing[i].row /\ job[i] = "retry"
    BY <2>0
  <2>2. state[r] = "live" /\ snap[i][r] = count[r]
    BY <2>1 DEF FreshRounds, Fresh
  <2>3. count[r] < MaxRetry /\ tries[r] <= count[r] + crashes + 1
    BY <2>1, <2>2, <1>b, <1>c DEF Bounded, TypeOK
  <2>4. \A j \in Instances \ {i} : doing[j] = Nothing
    BY <2>1, OneRound
  <2>5. \A s \in Rows \ {r} : ~BeingCounted(s)
    BY <2>1, <2>4 DEF BeingCounted, Nothing
  <2>6. UNCHANGED <<tries, crashes>>
    BY <1>13 DEF Record
  <2>7. \A s \in Rows \ {r} : count'[s] = count[s] /\ state'[s] = state[s]
    BY <1>13, <2>1 DEF Record, TypeOK
  <2>8. \A s \in Rows \ {r} : Bounded(s)'
    BY <2>5, <2>6, <2>7 DEF Bounded
  <2>9. Bounded(r)'
    <3>1. CASE doing[i].how = "err"
      <4>1. count'[r] = count[r] + 1 /\ state'[r] \in {"live", "deleted"}
        BY <1>13, <2>1, <2>2, <3>1 DEF Record, Orderly, TypeOK
      <4>2. QED
        BY <2>1, <2>3, <2>6, <4>1, <1>b, <1>c DEF Bounded
    <3>2. CASE doing[i].how = "ok"
      <4>1. state'[r] = "erased"
        BY <1>13, <2>1, <3>2 DEF Record, Orderly, TypeOK
      <4>2. tries[r] <= MaxRetry + crashes
        BY <2>1, <2>3, <1>b, <1>c
      <4>3. QED
        BY <2>6, <4>1, <4>2 DEF Bounded
    <3>3. QED
      BY <1>13, <3>1, <3>2 DEF Record, Orderly
  <2>10. QED
    BY <2>8, <2>9
<1>14. ASSUME NEW i \in Instances, NextBatch(i) PROVE AllBounded'
  BY <1>14, <1>a DEF NextBatch, table, retrier, round
<1>15. ASSUME NEW i \in Instances, Close(i) PROVE AllBounded'
  BY <1>15, <1>a DEF Close, table, retrier, round
<1>16. ASSUME NEW i \in Instances, Crash(i) PROVE AllBounded'
  <2>1. crashes' = crashes + 1 /\ UNCHANGED <<state, count, tries>>
    BY <1>16 DEF Crash, table
  <2> SUFFICES ASSUME NEW r \in Rows PROVE Bounded(r)'
    OBVIOUS
  <2>2. count[r] \in Nat /\ tries[r] \in Nat
    BY <1>b
  <2>3. Bounded(r)
    OBVIOUS
  <2>4. state[r] \in {"live", "deleted"} => tries[r] <= count[r] + (crashes + 1)
    BY <2>2, <2>3, <1>c DEF Bounded
  <2>5. state[r] = "erased" => tries[r] <= MaxRetry + (crashes + 1)
    BY <2>2, <2>3, <1>c DEF Bounded
  <2>6. QED
    BY <2>1, <2>4, <2>5 DEF Bounded
<1>17. ASSUME NEW i \in Instances, NEW r \in Rows, SkipRow(i, r) PROVE AllBounded'
  BY <1>17, <1>a DEF SkipRow, table, retrier, round
<1>18. ASSUME NEW i \in Instances, NEW r \in Rows, TryRow(i, r) PROVE AllBounded'
  <2>1. job[i] = "retry" /\ doing[i] = Nothing /\ r \in batch[i]
    BY <1>18 DEF TryRow
  <2>2. \A j \in Instances : doing[j] = Nothing
    BY <2>1, OneRound
  <2>3. \A s \in Rows : ~BeingCounted(s)
    BY <2>2 DEF BeingCounted, Nothing
  <2>4. state[r] = "live"
    BY <2>1 DEF FreshRounds, Fresh
  <2>5. tries[r] <= count[r] + crashes
    BY <2>3, <2>4 DEF Bounded
  <2>6. doing'[i].row = r /\ tries'[r] = tries[r] + 1
    BY <1>18 DEF TryRow, TypeOK
  <2>7. UNCHANGED <<state, count, crashes>>
    BY <1>18 DEF TryRow, table
  <2>8. Bounded(r)'
    <3>1. BeingCounted(r)'
      BY <2>6 DEF BeingCounted
    <3>2. tries'[r] <= count'[r] + crashes' + 1
      BY <2>5, <2>6, <2>7, <1>b, <1>c
    <3>3. QED
      BY <2>4, <2>7, <3>1, <3>2 DEF Bounded
  <2>9. \A s \in Rows \ {r} : Bounded(s)'
    <3>1. \A s \in Rows \ {r} : tries'[s] = tries[s]
      BY <1>18 DEF TryRow, TypeOK
    <3>2. QED
      BY <2>3, <2>7, <3>1 DEF Bounded
  <2>10. QED
    BY <2>8, <2>9
<1>19. ASSUME NEW i \in Instances, NEW r \in Rows, TryRowPanics(i, r) PROVE AllBounded'
  BY <1>19 DEF TryRowPanics, Orderly, DeadInv, Rounds, Listed, Counts, Counted, TypeOK
<1>20. ASSUME LockExpires PROVE AllBounded'
  BY <1>20, <1>a DEF LockExpires, table, retrier, round
<1>21. ASSUME NEW i \in Instances, NEW m \in Messages, Register(i, m) PROVE AllBounded'
  BY <1>21, <1>a DEF Register, table, round
<1>22. CASE UNCHANGED vars
  BY <1>22, <1>a DEF vars, retrier, round, table
<1>23. QED
  BY <1>1, <1>2, <1>3, <1>4, <1>5, <1>6, <1>7, <1>8, <1>9,
     <1>10, <1>11, <1>12, <1>13, <1>14, <1>15, <1>16, <1>17, <1>18, <1>19, <1>20, <1>21, <1>22
     DEF Next, Consume, Round

\* The types and the invariant hold together.
LEMMA DeadInvariant == Spec => [](TypeOK /\ DeadInv)
<1>1. Init => TypeOK
  BY DEF Init, TypeOK, Places, RowStates, Stages, Doings, Nothing
<1>2. Init => DeadInv
  BY DEF Init, DeadInv, Rounds, Listed, Retried, Counts, Counted, Keeps, Kept, Nothing
<1>3. TypeOK /\ DeadInv /\ [Next]_vars => TypeOK' /\ DeadInv'
  <2> SUFFICES ASSUME TypeOK, DeadInv, [Next]_vars PROVE TypeOK' /\ DeadInv'
    OBVIOUS
  <2>1. TypeOK'
    BY TypeInductive
  <2>2. QED
    BY <2>1, RoundsInductive, CountsInductive, KeepsInductive DEF DeadInv
<1>4. QED
  BY <1>1, <1>2, <1>3, PTL DEF Spec

\* Every reachable state has its types, and no row counts more than the configured retries.
THEOREM TypeCorrect == Spec => []TypeOK
BY DeadInvariant, PTL

\* No row is given up before its listener was called as often as is configured, whatever
\* fails and however many instances work on the same rows.
THEOREM GivenUpLateHolds == Spec => []GivenUpLate
<1>1. TypeOK /\ DeadInv => GivenUpLate
  BY DEF TypeOK, DeadInv, Counts, Counted, GivenUpLate
<1>2. QED
  BY <1>1, DeadInvariant, PTL

\* With explicit acknowledgements and a dead-letter queue no message is lost, whatever
\* listeners do and whatever fails.
THEOREM NoLossHolds == ASSUME ~AutoAck, UseDead PROVE Spec => []NoLoss
<1>1. DeadInv => NoLoss
  BY DEF DeadInv, Keeps, Keeping, Kept, NoLoss
<1>2. QED
  BY <1>1, DeadInvariant, PTL

\* In an orderly service the stronger invariant holds too.
LEMMA RetryInvariant == ASSUME Orderly PROVE Spec => [](TypeOK /\ DeadInv /\ RetryInv)
<1>1. RetryInv <=> FreshRounds /\ AllBounded
  BY DEF RetryInv, FreshRounds, AllBounded
<1>2. Init => FreshRounds /\ AllBounded
  BY DEF Init, FreshRounds, Alone, Fresh, AllBounded, Bounded, Nothing
<1>3. TypeOK /\ DeadInv /\ FreshRounds /\ AllBounded /\ [Next]_vars
        => FreshRounds' /\ AllBounded'
  BY FreshInductive, BoundedInductive
<1>4. QED
  BY <1>1, <1>2, <1>3, DeadInvariant, PTL DEF Spec

\* The retries of a row are bounded by the configured number, and one more for each crash
\* of a process, when the lock excludes and listeners return.
THEOREM RetriesBoundedHolds == ASSUME Orderly PROVE Spec => []RetriesBounded
<1>1. TypeOK /\ DeadInv /\ RetryInv => RetriesBounded
  <2> SUFFICES ASSUME TypeOK, DeadInv, RetryInv, NEW r \in Rows
               PROVE  tries[r] <= MaxRetry + crashes
    BY DEF RetriesBounded
  <2>1. /\ count[r] \in Nat /\ tries[r] \in Nat /\ crashes \in Nat /\ count[r] <= MaxRetry
        /\ state[r] \in RowStates
    BY DEF TypeOK
  <2>2. CASE state[r] = "none"
    BY <2>1, <2>2 DEF DeadInv, Counts, Counted
  <2>3. CASE BeingCounted(r)
    <3>1. state[r] = "live"
      BY <2>3 DEF RetryInv, Fresh, BeingCounted
    <3>2. count[r] < MaxRetry /\ tries[r] <= count[r] + crashes + 1
      BY <2>1, <3>1 DEF RetryInv, Bounded, TypeOK
    <3>3. QED
      BY <2>1, <3>2
  <2>4. CASE state[r] # "none" /\ ~BeingCounted(r)
    BY <2>1, <2>4 DEF RetryInv, Bounded, RowStates
  <2>5. QED
    BY <2>2, <2>3, <2>4
<1>2. QED
  BY <1>1, RetryInvariant, PTL

\* Under the same conditions the listener is only called for rows that are live.
THEOREM RetriesLiveHolds == ASSUME Orderly PROVE Spec => RetriesLive
<1>1. TypeOK /\ DeadInv /\ RetryInv /\ [Next]_vars
        => [\A r \in Rows : tries'[r] # tries[r] => state[r] = "live"]_vars
  <2> SUFFICES ASSUME TypeOK, RetryInv, Next, NEW s \in Rows, tries'[s] # tries[s]
               PROVE  state[s] = "live"
    OBVIOUS
  <2>1. ASSUME NEW i \in Instances, NEW r \in Rows, TryRow(i, r) \/ TryRowPanics(i, r)
        PROVE  state[s] = "live"
    <3>1. s = r /\ r \in batch[i]
      BY <2>1 DEF TryRow, TryRowPanics, TypeOK
    <3>2. QED
      BY <3>1 DEF RetryInv, Fresh
  <2>2. ASSUME UNCHANGED tries PROVE FALSE
    BY <2>2
  <2>3. QED
    BY <2>1, <2>2
       DEF Next, Consume, Round, Deliver, HandleOk, Ack, HandleErr, HandlePanic, SaveDead,
           AckDead, Lose, StaleEnds, StartRound, TryLock, List, Record, NextBatch, SkipRow,
           Close, Crash, Register, LockExpires
<1>2. QED
  BY <1>1, RetryInvariant, PTL DEF Spec, RetriesLive
=============================================================================
