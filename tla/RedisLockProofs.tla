--------------------------- MODULE RedisLockProofs ---------------------------
(***************************************************************************)
(* Proofs about RedisLock: its types, that the functions of its careful    *)
(* clients never overlap and that only the owner of the key gives it up,   *)
(* for any number of clients of any kind and any times.                    *)
(***************************************************************************)
EXTENDS RedisLock, TLAPS

USE TimeAssumption, ClientAssumption

\* The three states of a renewLock goroutine are states of it, for any times.
LEMMA RenewerStates ==
  /\ NoRenewer \in RenewerState
  /\ Sleeping(RenewEvery) \in RenewerState
  /\ Renewing \in RenewerState
  /\ \A r \in RenewerState : r.at = "sleep" /\ r.left > 0 => Older(r) \in RenewerState
BY DEF RenewerState, NoRenewer, Sleeping, Renewing, Older

\* Starting, advancing or ending one goroutine leaves a table of goroutines.
LEMMA RenewerUpdate ==
  ASSUME NEW f \in [Clients -> [Slots -> RenewerState]],
         NEW c \in Clients, NEW s \in Slots, NEW r \in RenewerState
  PROVE  [f EXCEPT ![c][s] = r] \in [Clients -> [Slots -> RenewerState]]
OBVIOUS

\* What is known of a careful client.
LEMMA CarefulClients ==
  /\ Careful \subseteq Clients
  /\ \A c \in Careful : Depth[c] <= 1
  /\ \A c \in Careful \cap Long :
       Path[c] = "ctx" /\ "release" \notin Faults[c] /\ "renew" \notin Faults[c]
BY DEF Careful

\* The types are kept whatever the paths, faults and crashes are: in particular the
\* timers of Lock, Unlock and renewLock never run below zero or above their start.
THEOREM TypeCorrect == Spec => []TypeOK
<1>1. Init => TypeOK
  BY RenewerStates DEF Init, TypeOK, PCs
<1>2. TypeOK /\ [Next]_vars => TypeOK'
  <2> SUFFICES ASSUME TypeOK, [Next]_vars PROVE TypeOK'
    OBVIOUS
  <2> USE DEF TypeOK, PCs, Goto, CanSet, SetKey, DeleteOwn
  <2>1. ASSUME NEW c \in Clients, CallLock(c) PROVE TypeOK'
    BY <2>1 DEF CallLock
  <2>2. ASSUME NEW c \in Clients, CallWithoutDeadline(c) PROVE TypeOK'
    BY <2>2 DEF CallWithoutDeadline
  <2>3. ASSUME NEW c \in Clients, AcquireOk(c) PROVE TypeOK'
    BY <2>3 DEF AcquireOk
  <2>4. ASSUME NEW c \in Clients, AcquireBusy(c) PROVE TypeOK'
    <3>1. CASE Path[c] = "try"
      BY <2>4, <3>1 DEF AcquireBusy
    <3>2. CASE Path[c] = "ctx"
      <4>1. wait' \in [Clients -> 0..MaxWait]
        BY <2>4, <3>2 DEF AcquireBusy
      <4>2. QED
        BY <2>4, <3>2, <4>1 DEF AcquireBusy
    <3>3. QED
      BY <2>4, <3>1, <3>2 DEF AcquireBusy
  <2>5. ASSUME NEW c \in Clients, AcquireErr(c) PROVE TypeOK'
    <3>1. /\ owner' \in Clients \cup {None, Orphan} /\ ttl' \in 0..Expire
          /\ owner' = None <=> ttl' = 0
      BY <2>5 DEF AcquireErr
    <3>2. pc' = [pc EXCEPT ![c] = "unlock"] /\ UNCHANGED <<state, expire, depth, wait, renewer>>
      BY <2>5 DEF AcquireErr
    <3>3. QED
      BY <3>1, <3>2
  <2>6. ASSUME NEW c \in Clients, CtxDone(c) PROVE TypeOK'
    BY <2>6 DEF CtxDone
  <2>7. ASSUME NEW c \in Clients, Enter(c) PROVE TypeOK'
    <3>1. renewer' \in [Clients -> [Slots -> RenewerState]]
      <4>1. CASE state[c] = 1
        BY <2>7, <4>1 DEF Enter
      <4>2. CASE state[c] = 0
        <5>1. PICK s \in Slots :
                renewer' = [renewer EXCEPT ![c][s] = Sleeping(RenewEvery)]
          BY <2>7, <4>2 DEF Enter
        <5>2. QED
          BY <5>1, RenewerStates, RenewerUpdate
      <4>3. QED
        BY <4>1, <4>2
    <3>2. state' \in [Clients -> {0, 1}] /\ expire' \in [Clients -> {InitTTL, Expire}]
      BY <2>7 DEF Enter
    <3>3. pc' \in [Clients -> PCs] /\ depth' \in [Clients -> Nat] /\ \A d \in Clients : depth'[d] <= Depth[d]
      BY <2>7 DEF Enter
    <3>4. \A d \in Clients :
            pc'[d] \in {"acquire", "won", "blocked"} => depth'[d] < Depth[d]
      BY <2>7 DEF Enter
    <3>5. QED
      BY <2>7, <3>1, <3>2, <3>3, <3>4 DEF Enter
  <2>8. ASSUME NEW c \in Clients, Return(c) PROVE TypeOK'
    BY <2>8 DEF Return
  <2>9. ASSUME NEW c \in Clients, Release(c) PROVE TypeOK'
    BY <2>9 DEF Release
  <2>10. ASSUME NEW c \in Clients, ReleaseErr(c) PROVE TypeOK'
    BY <2>10 DEF ReleaseErr
  <2>11. ASSUME NEW c \in Clients, ClearState(c) PROVE TypeOK'
    BY <2>11 DEF ClearState
  <2>12. ASSUME NEW c \in Clients, NEW s \in Slots, Wake(c, s) PROVE TypeOK'
    BY <2>12, RenewerStates DEF Wake
  <2>13. ASSUME NEW c \in Clients, NEW s \in Slots, Renew(c, s) PROVE TypeOK'
    <3>1. renewer' \in [Clients -> [Slots -> RenewerState]]
      <4>1. PICK r \in {Sleeping(RenewEvery), NoRenewer} :
              renewer' = [renewer EXCEPT ![c][s] = r]
        BY <2>13 DEF Renew
      <4>2. QED
        BY <4>1, RenewerStates, RenewerUpdate
    <3>2. /\ owner' \in Clients \cup {None, Orphan} /\ ttl' \in 0..Expire
          /\ owner' = None <=> ttl' = 0
      BY <2>13 DEF Renew
    <3>3. UNCHANGED <<state, expire, pc, depth, wait>>
      BY <2>13 DEF Renew
    <3>4. QED
      BY <3>1, <3>2, <3>3
  <2>14. ASSUME NEW c \in Clients, NEW s \in Slots, RenewErr(c, s) PROVE TypeOK'
    BY <2>14, RenewerStates DEF RenewErr
  <2>15. CASE Tick
    <3>1. \A c \in Clients, s \in Slots : Older(renewer[c][s]) \in RenewerState
      BY <2>15, RenewerStates DEF Tick, Prompt, Older, NoRenewer
    <3>2. renewer' \in [Clients -> [Slots -> RenewerState]]
      BY <2>15, <3>1 DEF Tick
    <3>3. QED
      BY <2>15, <3>2 DEF Tick, Prompt
  <2>16. ASSUME NEW c \in Clients, Crash(c) PROVE TypeOK'
    BY <2>16, RenewerStates DEF Crash
  <2>17. CASE UNCHANGED vars
    BY <2>17 DEF vars
  <2>18. QED
    BY <2>1, <2>2, <2>3, <2>4, <2>5, <2>6, <2>7, <2>8, <2>9, <2>10, <2>11, <2>12,
       <2>13, <2>14, <2>15, <2>16, <2>17 DEF Next, Step, Goroutine
<1>3. QED
  BY <1>1, <1>2, PTL DEF Spec

\* The invariant is inductive: whoever is inside has the key, and while it does a
\* renewal is due before the key expires.
LEMMA LockInvInductive ==
  ASSUME TypeOK, TypeOK', LockInv, [Next]_vars
  PROVE  LockInv'
<1> USE DEF LockInv, HoldsKey, LongExpiry, StateFollows, RenewedInTime, Holding
<1> USE CarefulClients DEF TypeOK, PCs, Goto, CanSet, SetKey, DeleteOwn
<1>1. ASSUME NEW c \in Clients, CallLock(c) PROVE LockInv'
  BY <1>1 DEF CallLock
<1>2. ASSUME NEW c \in Clients, CallWithoutDeadline(c) PROVE LockInv'
  BY <1>2 DEF CallWithoutDeadline
<1>3. ASSUME NEW c \in Clients, AcquireOk(c) PROVE LockInv'
  BY <1>3 DEF AcquireOk
<1>4. ASSUME NEW c \in Clients, AcquireBusy(c) PROVE LockInv'
  BY <1>4 DEF AcquireBusy
<1>5. ASSUME NEW c \in Clients, AcquireErr(c) PROVE LockInv'
  <2>1. \A d \in Careful : HoldsKey(d)'
    BY <1>5 DEF AcquireErr
  <2>2. \A d \in Careful : pc'[d] # "ready" => depth'[d] = 0
    BY <1>5 DEF AcquireErr
  <2>3. \A d \in Careful \cap Long : LongExpiry(d)' /\ StateFollows(d)'
    BY <1>5 DEF AcquireErr
  <2>4. ASSUME NEW d \in Careful \cap Long PROVE RenewedInTime(d)'
    <3>1. CASE d = c
      BY <1>5, <3>1 DEF AcquireErr
    <3>2. CASE d # c
      BY <1>5, <3>2 DEF AcquireErr
    <3>3. QED
      BY <3>1, <3>2
  <2>5. QED
    BY <2>1, <2>2, <2>3, <2>4
<1>6. ASSUME NEW c \in Clients, CtxDone(c) PROVE LockInv'
  BY <1>6 DEF CtxDone
<1>7. ASSUME NEW c \in Clients, Enter(c) PROVE LockInv'
  <2>1. \A d \in Careful : HoldsKey(d)'
    BY <1>7 DEF Enter
  <2>2. \A d \in Careful : pc'[d] # "ready" => depth'[d] = 0
    BY <1>7 DEF Enter
  <2>3. \A d \in Careful \cap Long : LongExpiry(d)' /\ StateFollows(d)'
    BY <1>7 DEF Enter
  <2>4. ASSUME NEW d \in Careful \cap Long PROVE RenewedInTime(d)'
    <3>1. CASE d = c
      <4>1. state[c] = 0 /\ owner = c /\ ttl = Expire
        BY <1>7, <3>1 DEF Enter
      <4>2. PICK s \in Slots :
              /\ renewer[c][s] = NoRenewer
              /\ renewer' = [renewer EXCEPT ![c][s] = Sleeping(RenewEvery)]
        <5> HIDE DEF LockInv, TypeOK
        <5>1. state[c] # 1
          BY <4>1
        <5>2. QED
          BY <1>7, <5>1, Zenon DEF Enter
      <4>3. renewer'[c][s].at = "sleep" /\ renewer'[c][s].left < ttl'
        BY <1>7, <4>1, <4>2 DEF Enter, Sleeping
      <4>4. owner' = c /\ ttl' > 0 /\ pc'[c] # "won"
        BY <1>7, <4>1 DEF Enter
      <4>5. QED
        BY <3>1, <4>3, <4>4
    <3>2. CASE d # c
      BY <1>7, <3>2 DEF Enter
    <3>3. QED
      BY <3>1, <3>2
  <2>5. QED
    BY <2>1, <2>2, <2>3, <2>4
<1>8. ASSUME NEW c \in Clients, Return(c) PROVE LockInv'
  <2>1. \A d \in Careful : HoldsKey(d)'
    BY <1>8 DEF Return
  <2>2. ASSUME NEW d \in Careful, pc'[d] # "ready" PROVE depth'[d] = 0
    <3>1. CASE d = c
      <4>0. depth[c] \in Nat /\ Depth[c] \in Nat /\ depth[c] <= Depth[c] /\ Depth[c] <= 1
        BY <3>1
      <4>1. depth[c] = 1 /\ depth'[c] = depth[c] - 1
        BY <1>8, <4>0 DEF Return
      <4>2. QED
        BY <3>1, <4>1
    <3>2. CASE d # c
      BY <1>8, <2>2, <3>2 DEF Return
    <3>3. QED
      BY <3>1, <3>2
  <2>3. \A d \in Careful \cap Long : LongExpiry(d)' /\ StateFollows(d)'
    BY <1>8 DEF Return
  <2>4. ASSUME NEW d \in Careful \cap Long PROVE RenewedInTime(d)'
    <3>1. CASE d = c
      BY <1>8, <3>1 DEF Return
    <3>2. CASE d # c
      BY <1>8, <3>2 DEF Return
    <3>3. QED
      BY <3>1, <3>2
  <2>5. QED
    BY <2>1, <2>2, <2>3, <2>4
<1>9. ASSUME NEW c \in Clients, Release(c) PROVE LockInv'
  <2>1. \A d \in Careful : HoldsKey(d)'
    BY <1>9 DEF Release
  <2>2. \A d \in Careful : pc'[d] # "ready" => depth'[d] = 0
    BY <1>9 DEF Release
  <2>3. \A d \in Careful \cap Long : LongExpiry(d)' /\ StateFollows(d)'
    BY <1>9 DEF Release
  <2>4. \A d \in Careful \cap Long : RenewedInTime(d)'
    BY <1>9 DEF Release
  <2>5. QED
    BY <2>1, <2>2, <2>3, <2>4
<1>10. ASSUME NEW c \in Clients, ReleaseErr(c) PROVE LockInv'
  BY <1>10 DEF ReleaseErr
<1>11. ASSUME NEW c \in Clients, ClearState(c) PROVE LockInv'
  <2>1. \A d \in Careful : HoldsKey(d)'
    BY <1>11 DEF ClearState
  <2>2. \A d \in Careful : pc'[d] # "ready" => depth'[d] = 0
    BY <1>11 DEF ClearState
  <2>3. \A d \in Careful \cap Long : LongExpiry(d)' /\ StateFollows(d)'
    BY <1>11 DEF ClearState
  <2>4. \A d \in Careful \cap Long : RenewedInTime(d)'
    BY <1>11 DEF ClearState
  <2>5. QED
    BY <2>1, <2>2, <2>3, <2>4
<1>12. ASSUME NEW c \in Clients, NEW s \in Slots, Wake(c, s) PROVE LockInv'
  BY <1>12 DEF Wake, Sleeping, Renewing, NoRenewer
<1>13. ASSUME NEW c \in Clients, NEW s \in Slots, Renew(c, s) PROVE LockInv'
  <2>1. \A d \in Careful : HoldsKey(d)'
    BY <1>13 DEF Renew, Sleeping, Renewing, NoRenewer
  <2>2. \A d \in Careful : pc'[d] # "ready" => depth'[d] = 0
    BY <1>13 DEF Renew, Sleeping, Renewing, NoRenewer
  <2>3. \A d \in Careful \cap Long : LongExpiry(d)' /\ StateFollows(d)'
    BY <1>13 DEF Renew, Sleeping, Renewing, NoRenewer
  <2>4. ASSUME NEW d \in Careful \cap Long PROVE RenewedInTime(d)'
    <3>1. CASE d = c
      BY <1>13, <3>1 DEF Renew, Sleeping, Renewing, NoRenewer
    <3>2. CASE d # c
      <4>1. renewer'[d] = renewer[d] /\ UNCHANGED <<state, pc>>
        BY <1>13, <3>2 DEF Renew
      <4>2. owner = d => UNCHANGED <<owner, ttl>>
        BY <1>13, <3>2 DEF Renew
      <4>3. QED
        BY <4>1, <4>2
    <3>3. QED
      BY <3>1, <3>2
  <2>5. QED
    BY <2>1, <2>2, <2>3, <2>4
<1>14. ASSUME NEW c \in Clients, NEW s \in Slots, RenewErr(c, s) PROVE LockInv'
  <2>1. \A d \in Careful : HoldsKey(d)'
    BY <1>14 DEF RenewErr, Sleeping, Renewing, NoRenewer
  <2>2. \A d \in Careful : pc'[d] # "ready" => depth'[d] = 0
    BY <1>14 DEF RenewErr, Sleeping, Renewing, NoRenewer
  <2>3. \A d \in Careful \cap Long : LongExpiry(d)' /\ StateFollows(d)'
    BY <1>14 DEF RenewErr, Sleeping, Renewing, NoRenewer
  <2>4. ASSUME NEW d \in Careful \cap Long PROVE RenewedInTime(d)'
    <3>1. CASE d = c
      BY <1>14, <3>1 DEF RenewErr, Sleeping, Renewing, NoRenewer
    <3>2. CASE d # c
      BY <1>14, <3>2 DEF RenewErr, Sleeping, Renewing, NoRenewer
    <3>3. QED
      BY <3>1, <3>2
  <2>5. QED
    BY <2>1, <2>2, <2>3, <2>4
<1>15. CASE Tick
  <2>0. ASSUME NEW d \in Careful \cap Long, Holding(d)
        PROVE  /\ owner = d /\ ttl > 1
               /\ \E s \in Slots : /\ renewer[d][s].at = "sleep"
                                   /\ renewer[d][s].left > 0
                                   /\ renewer[d][s].left < ttl
    <3>1. PICK s \in Slots :
            \/ renewer[d][s].at = "acquire"
            \/ renewer[d][s].at = "sleep" /\ renewer[d][s].left < ttl
      BY <2>0
    <3>2. renewer[d][s].at = "sleep" /\ renewer[d][s].left > 0
      BY <1>15, <3>1 DEF Tick, Prompt, NoRenewer
    <3>3. QED
      BY <2>0, <3>1, <3>2 DEF RenewerState
  <2>1. ASSUME NEW d \in Careful PROVE HoldsKey(d)'
    <3>1. CASE d \in Long
      BY <1>15, <2>0, <3>1 DEF Tick, Prompt
    <3>2. CASE d \notin Long
      BY <1>15, <3>2 DEF Tick, Prompt
    <3>3. QED
      BY <3>1, <3>2
  <2>2. \A d \in Careful : pc'[d] # "ready" => depth'[d] = 0
    BY <1>15 DEF Tick, Prompt, Older, Sleeping, NoRenewer, RenewerState
  <2>3. \A d \in Careful \cap Long : LongExpiry(d)' /\ StateFollows(d)'
    BY <1>15 DEF Tick, Prompt, Older, Sleeping, NoRenewer, RenewerState
  <2>4. ASSUME NEW d \in Careful \cap Long PROVE RenewedInTime(d)'
    <3>1. pc'[d] # "won"
      BY <1>15 DEF Tick, Prompt
    <3>2. ASSUME Holding(d)'
          PROVE  /\ owner' = d /\ ttl' > 0
                 /\ \E s \in Slots : /\ renewer'[d][s].at = "sleep"
                                     /\ renewer'[d][s].left < ttl'
      <4>1. Holding(d)
        BY <1>15, <3>2 DEF Tick
      <4>2. owner' = d /\ ttl' = ttl - 1 /\ ttl' > 0
        BY <1>15, <2>0, <4>1 DEF Tick
      <4>3. PICK s \in Slots : /\ renewer[d][s].at = "sleep"
                               /\ renewer[d][s].left > 0
                               /\ renewer[d][s].left < ttl
        BY <2>0, <4>1
      <4>4. renewer'[d][s] = [at |-> "sleep", left |-> renewer[d][s].left - 1]
        BY <1>15, <4>3 DEF Tick, Older, Sleeping
      <4>5. QED
        BY <4>2, <4>3, <4>4 DEF RenewerState
    <3>3. QED
      BY <3>1, <3>2
  <2>5. QED
    BY <2>1, <2>2, <2>3, <2>4
<1>16. ASSUME NEW c \in Clients, Crash(c) PROVE LockInv'
  BY <1>16 DEF Crash
<1>17. CASE UNCHANGED vars
  BY <1>17 DEF vars
<1>18. QED
  BY <1>1, <1>2, <1>3, <1>4, <1>5, <1>6, <1>7, <1>8, <1>9, <1>10, <1>11, <1>12,
     <1>13, <1>14, <1>15, <1>16, <1>17 DEF Next, Step, Goroutine

\* The readme's promise holds for careful clients, for every number of them and of
\* others, however long their functions run: no two of them run at the same time.
THEOREM CarefulExclusionHolds == Spec => []CarefulExclusion
<1>1. Init => LockInv
  BY CarefulClients DEF Init, LockInv, HoldsKey, LongExpiry, StateFollows, RenewedInTime, Holding
<1>2. TypeOK /\ TypeOK' /\ LockInv /\ [Next]_vars => LockInv'
  BY LockInvInductive
<1>3. LockInv => CarefulExclusion
  BY DEF LockInv, HoldsKey, CarefulExclusion, Inside
<1>4. QED
  BY <1>1, <1>2, <1>3, TypeCorrect, PTL DEF Spec

\* Without any assumption, with nested calls, every fault and crashes: no call and no
\* late renewal of another object takes an object's key from it.
THEOREM OnlyOwnerTakesKey == Spec => KeyTakenOnlyByOwner
<1> DEFINE Safe(c) ==
      owner = c /\ owner' # c =>
        \/ pc[c] = "unlock" /\ owner' = None
        \/ ttl = 1 /\ owner' = None /\ Inside' = Inside
        \/ c \in Mortal /\ owner' = Orphan /\ renewer'[c] = [s \in Slots |-> NoRenewer]
<1>1. TypeOK /\ [Next]_vars => \A c \in Clients : Safe(c)
  <2> SUFFICES ASSUME TypeOK, [Next]_vars, NEW d \in Clients, owner = d, owner' # d
               PROVE  Safe(d)
    OBVIOUS
  <2> USE DEF TypeOK, CanSet, SetKey, DeleteOwn
  <2>1. ASSUME NEW c \in Clients, Release(c) \/ ReleaseErr(c) PROVE Safe(d)
    BY <2>1 DEF Release, ReleaseErr
  <2>2. CASE Tick
    BY <2>2 DEF Tick, Inside
  <2>3. ASSUME NEW c \in Clients, Crash(c) PROVE Safe(d)
    BY <2>3 DEF Crash
  <2>4. ASSUME NEW c \in Clients, AcquireOk(c) \/ AcquireErr(c) PROVE FALSE
    BY <2>4 DEF AcquireOk, AcquireErr
  <2>5. ASSUME NEW c \in Clients, NEW s \in Slots, Renew(c, s) \/ RenewErr(c, s)
        PROVE  FALSE
    BY <2>5 DEF Renew, RenewErr
  <2>6. QED
    BY <2>1, <2>2, <2>3, <2>4, <2>5 DEF Next, Step, Goroutine, CallLock,
       CallWithoutDeadline, AcquireBusy, CtxDone, Enter, Return, ClearState, Wake, vars
<1>2. TypeOK /\ [Next]_vars => [\A c \in Clients : Safe(c)]_vars
  BY <1>1
<1>3. QED
  BY <1>2, TypeCorrect, PTL DEF Spec, KeyTakenOnlyByOwner
=============================================================================
