------------------------------ MODULE RedisLock ------------------------------
(***************************************************************************)
(* The renewed Redis lock of src/redis/redis.go, over one Redis key.       *)
(*                                                                         *)
(* A client is one *lock object, used through LockFunc, LockFuncWithContext*)
(* or TryLockFunc: take the lock, run the function if that succeeded, and  *)
(* call Unlock in any case (it is deferred before the result is looked at).*)
(* Each successful first acquisition starts a renewLock goroutine.         *)
(*                                                                         *)
(* Time is counted in ticks of about ten seconds: the code's values are    *)
(* Expire = 6 (SetExpire(60)), RenewEvery = 5 (50 s) and InitTTL = 1 (a    *)
(* lock whose SetExpire was not called yet gets go-zero's tolerance of     *)
(* 500 ms, gone at the next tick).  A step that computes or makes one call *)
(* to Redis takes less than a tick, and so does a whole call with its      *)
(* function, unless the client is in Long.                                 *)
(***************************************************************************)
EXTENDS Naturals

CONSTANTS
  Clients,      \* lock objects of the key, each with its own random id
  None,         \* the key does not exist
  Orphan,       \* the key holds the id of an object of a dead process
  Slots,        \* names of the renewLock goroutines of one object
  Room,         \* the goroutines there is room for at each object (a bound)
  Path,         \* the method each client uses: "lock", "ctx" or "try"
  Long,         \* the clients whose function may run for more than a tick
  Depth,        \* how deep the calls of each object nest (a bound)
  InitTTL,      \* ticks the key lives before SetExpire was called
  Expire,       \* ticks the key lives after SetExpire(60)
  RenewEvery,   \* ticks renewLock sleeps (50 seconds)
  Mortal,       \* the clients whose process may die
  MaxWait,      \* ticks until the deadline of a LockWithContext call
  Faults        \* the Redis calls of each client that may fail

ASSUME TimeAssumption ==
  /\ InitTTL \in Nat /\ Expire \in Nat /\ RenewEvery \in Nat /\ MaxWait \in Nat
  /\ 0 < InitTTL /\ InitTTL <= Expire
  /\ 0 < RenewEvery /\ RenewEvery < Expire

ASSUME ClientAssumption ==
  /\ None \notin Clients /\ Orphan \notin Clients /\ None # Orphan
  /\ Path \in [Clients -> {"lock", "ctx", "try"}]
  /\ Long \subseteq Clients /\ Mortal \subseteq Clients
  /\ Depth \in [Clients -> Nat]
  /\ Room \in [Clients -> SUBSET Slots]
  /\ Faults \in [Clients -> SUBSET {"acquire", "release", "renew"}]

VARIABLES
  owner,        \* the value of the key in Redis
  ttl,          \* ticks until the key expires, 0 without a key
  state,        \* lock.state of each object
  expire,       \* RedisLock.seconds of each object, in ticks of the TTL it gives
  pc,           \* where each client's current call is
  depth,        \* how many functions of the client are running
  wait,         \* ticks left until the deadline of the client's call
  renewer       \* the renewLock goroutines of each object

vars == <<owner, ttl, state, expire, pc, depth, wait, renewer>>

NoRenewer == [at |-> "none", left |-> 0]
Sleeping(n) == [at |-> "sleep", left |-> n]
Renewing == [at |-> "acquire", left |-> 0]

RenewerState == [at : {"none", "sleep", "acquire"}, left : 0..RenewEvery]

PCs == {"ready", "acquire", "won", "blocked", "unlock", "clear"}

Inside == {c \in Clients : depth[c] > 0}

Init ==
  /\ owner = None
  /\ ttl = 0
  /\ state = [c \in Clients |-> 0]
  /\ expire = [c \in Clients |-> InitTTL]
  /\ pc = [c \in Clients |-> "ready"]
  /\ depth = [c \in Clients |-> 0]
  /\ wait = [c \in Clients |-> 0]
  /\ renewer = [c \in Clients |-> [s \in Slots |-> NoRenewer]]

-----------------------------------------------------------------------------
\* The two scripts go-zero's RedisLock runs in Redis.

\* Acquire's script sets the key for its own id or when there is no key.
CanSet(c) == owner \in {None, c}

SetKey(c) ==
  /\ owner' = c
  /\ ttl' = expire[c]

\* Release's script deletes the key only when it holds the caller's id.
DeleteOwn(c) ==
  IF owner = c
    THEN owner' = None /\ ttl' = 0
    ELSE UNCHANGED <<owner, ttl>>

-----------------------------------------------------------------------------
\* Lock, LockWithContext and TryLock, up to their result.

Goto(c, p) == pc' = [pc EXCEPT ![c] = p]

\* A call starts.  LockWithContext calls SetExpire before it acquires; the
\* others only once they have acquired.  The bound on goroutines is here.
CallLock(c) ==
  /\ pc[c] = "ready"
  /\ depth[c] < Depth[c]
  /\ \E s \in Room[c] : renewer[c][s] = NoRenewer
  /\ Goto(c, "acquire")
  /\ expire' = IF Path[c] = "ctx" THEN [expire EXCEPT ![c] = Expire] ELSE expire
  /\ UNCHANGED <<owner, ttl, state, depth, wait, renewer>>

\* LockWithContext refuses a context without a deadline.
CallWithoutDeadline(c) ==
  /\ pc[c] = "ready"
  /\ depth[c] < Depth[c]
  /\ Path[c] = "ctx"
  /\ Goto(c, "unlock")
  /\ UNCHANGED <<owner, ttl, state, expire, depth, wait, renewer>>

AcquireOk(c) ==
  /\ pc[c] = "acquire"
  /\ CanSet(c)
  /\ SetKey(c)
  /\ Goto(c, "won")
  /\ UNCHANGED <<state, expire, depth, wait, renewer>>

\* Variant for the properties: TryLock reports success without looking at ok.
AcquireBusyIgnored(c) ==
  /\ pc[c] = "acquire"
  /\ ~CanSet(c)
  /\ Goto(c, "won")
  /\ UNCHANGED <<owner, ttl, state, expire, depth, wait, renewer>>

\* The key is another's.  TryLock returns false, LockWithContext waits for the
\* context to end; Lock tries again every 10 ms, which changes nothing here.
AcquireBusy(c) ==
  /\ pc[c] = "acquire"
  /\ ~CanSet(c)
  /\ \/ Path[c] = "try" /\ Goto(c, "unlock") /\ wait' = wait
     \/ Path[c] = "ctx" /\ Goto(c, "blocked") /\ wait' = [wait EXCEPT ![c] = MaxWait]
  /\ UNCHANGED <<owner, ttl, state, expire, depth, renewer>>

\* Redis answers with an error, or its answer is lost: the script may have run.
AcquireErr(c) ==
  /\ pc[c] = "acquire"
  /\ "acquire" \in Faults[c]
  /\ Goto(c, "unlock")
  /\ \/ UNCHANGED <<owner, ttl>>
     \/ CanSet(c) /\ SetKey(c)
  /\ UNCHANGED <<state, expire, depth, wait, renewer>>

\* The deadline of the context passes.
CtxDone(c) ==
  /\ pc[c] = "blocked"
  /\ wait[c] = 0
  /\ Goto(c, "unlock")
  /\ UNCHANGED <<owner, ttl, state, expire, depth, wait, renewer>>

\* Variant: the renewal is not started.
EnterNoRenewal(c) ==
  /\ pc[c] = "won"
  /\ Goto(c, "ready")
  /\ depth' = [depth EXCEPT ![c] = @ + 1]
  /\ expire' = [expire EXCEPT ![c] = Expire]
  /\ state' = [state EXCEPT ![c] = 1]
  /\ UNCHANGED <<owner, ttl, wait, renewer>>

\* The key is ours: set the expiry for the calls to come, and unless the object
\* believes it holds the lock already, note that it does and start renewing.
Enter(c) ==
  /\ pc[c] = "won"
  /\ Goto(c, "ready")
  /\ depth' = [depth EXCEPT ![c] = @ + 1]
  /\ expire' = [expire EXCEPT ![c] = Expire]
  /\ \/ state[c] = 1 /\ UNCHANGED <<state, renewer>>
     \/ /\ state[c] = 0
        /\ state' = [state EXCEPT ![c] = 1]
        /\ \E s \in Room[c] :
             /\ renewer[c][s] = NoRenewer
             /\ renewer' = [renewer EXCEPT ![c][s] = Sleeping(RenewEvery)]
  /\ UNCHANGED <<owner, ttl, wait>>

-----------------------------------------------------------------------------
\* The function returns, and Unlock.

\* Variant: the deferred Unlock is missing.
ReturnWithoutUnlock(c) ==
  /\ pc[c] = "ready"
  /\ depth[c] > 0
  /\ depth' = [depth EXCEPT ![c] = @ - 1]
  /\ UNCHANGED <<owner, ttl, state, expire, pc, wait, renewer>>

Return(c) ==
  /\ pc[c] = "ready"
  /\ depth[c] > 0
  /\ depth' = [depth EXCEPT ![c] = @ - 1]
  /\ Goto(c, "unlock")
  /\ UNCHANGED <<owner, ttl, state, expire, wait, renewer>>

\* Release: only when it deleted the key does Unlock go on to clear the state.
Release(c) ==
  /\ pc[c] = "unlock"
  /\ DeleteOwn(c)
  /\ Goto(c, IF owner = c THEN "clear" ELSE "ready")
  /\ UNCHANGED <<state, expire, depth, wait, renewer>>

ReleaseErr(c) ==
  /\ pc[c] = "unlock"
  /\ "release" \in Faults[c]
  /\ UNCHANGED <<owner, ttl>> \/ DeleteOwn(c)
  /\ Goto(c, "ready")
  /\ UNCHANGED <<state, expire, depth, wait, renewer>>

ClearState(c) ==
  /\ pc[c] = "clear"
  /\ state' = [state EXCEPT ![c] = 0]
  /\ Goto(c, "ready")
  /\ UNCHANGED <<owner, ttl, expire, depth, wait, renewer>>

-----------------------------------------------------------------------------
\* renewLock.

\* Variant: renewLock does not look at the state.
WakeAlways(c, s) ==
  /\ renewer[c][s] = Sleeping(0)
  /\ renewer' = [renewer EXCEPT ![c][s] = Renewing]
  /\ UNCHANGED <<owner, ttl, state, expire, pc, depth, wait>>

\* The sleep is over: stop if the lock was given back, or go on to renew it.
Wake(c, s) ==
  /\ renewer[c][s] = Sleeping(0)
  /\ renewer' = [renewer EXCEPT ![c][s] = IF state[c] = 0 THEN NoRenewer ELSE Renewing]
  /\ UNCHANGED <<owner, ttl, state, expire, pc, depth, wait>>

\* Variant: the renewal sets the key whoever has it.
RenewSteals(c, s) ==
  /\ renewer[c][s] = Renewing
  /\ SetKey(c)
  /\ renewer' = [renewer EXCEPT ![c][s] = Sleeping(RenewEvery)]
  /\ UNCHANGED <<state, expire, pc, depth, wait>>

\* The state may have changed since Wake read it.
Renew(c, s) ==
  /\ renewer[c][s] = Renewing
  /\ IF CanSet(c)
       THEN /\ SetKey(c)
            /\ renewer' = [renewer EXCEPT ![c][s] = Sleeping(RenewEvery)]
       ELSE /\ renewer' = [renewer EXCEPT ![c][s] = NoRenewer]
            /\ UNCHANGED <<owner, ttl>>
  /\ UNCHANGED <<state, expire, pc, depth, wait>>

\* The error is dropped and the goroutine ends as if the lock were another's.
RenewErr(c, s) ==
  /\ renewer[c][s] = Renewing
  /\ "renew" \in Faults[c]
  /\ renewer' = [renewer EXCEPT ![c][s] = NoRenewer]
  /\ \/ UNCHANGED <<owner, ttl>>
     \/ CanSet(c) /\ SetKey(c)
  /\ UNCHANGED <<state, expire, pc, depth, wait>>

-----------------------------------------------------------------------------
\* Time and crashes.

\* What must be over before a tick: the steps that take less than one.
Prompt ==
  /\ \A c \in Clients :
       /\ pc[c] \notin {"won", "clear"}
       /\ pc[c] = "blocked" => wait[c] > 0
       /\ c \notin Long => depth[c] = 0 /\ pc[c] # "unlock"
  /\ \A c \in Clients, s \in Slots :
       renewer[c][s] = NoRenewer \/ (renewer[c][s].at = "sleep" /\ renewer[c][s].left > 0)

Older(r) == IF r.at = "sleep" THEN Sleeping(r.left - 1) ELSE r

Tick ==
  /\ Prompt
  /\ ttl' = IF ttl > 0 THEN ttl - 1 ELSE 0
  /\ owner' = IF ttl > 1 THEN owner ELSE None
  /\ wait' = [c \in Clients |-> IF pc[c] = "blocked" THEN wait[c] - 1 ELSE wait[c]]
  /\ renewer' = [c \in Clients |-> [s \in Slots |-> Older(renewer[c][s])]]
  /\ UNCHANGED <<state, expire, pc, depth>>

\* The client's process dies; the key keeps its id, which no object has now.
\* Its successor is a new lock object.
Crash(c) ==
  /\ c \in Mortal
  /\ owner' = IF owner = c THEN Orphan ELSE owner
  /\ state' = [state EXCEPT ![c] = 0]
  /\ expire' = [expire EXCEPT ![c] = InitTTL]
  /\ pc' = [pc EXCEPT ![c] = "ready"]
  /\ depth' = [depth EXCEPT ![c] = 0]
  /\ wait' = [wait EXCEPT ![c] = 0]
  /\ renewer' = [renewer EXCEPT ![c] = [s \in Slots |-> NoRenewer]]
  /\ ttl' = ttl

-----------------------------------------------------------------------------

Step(c) ==
  \/ AcquireOk(c) \/ AcquireBusy(c) \/ AcquireErr(c) \/ CtxDone(c) \/ Enter(c)
  \/ Return(c) \/ Release(c) \/ ReleaseErr(c) \/ ClearState(c)

Goroutine(c, s) == Wake(c, s) \/ Renew(c, s) \/ RenewErr(c, s)

Next ==
  \/ \E c \in Clients : CallLock(c) \/ CallWithoutDeadline(c) \/ Step(c) \/ Crash(c)
  \/ \E c \in Clients, s \in Slots : Goroutine(c, s)
  \/ Tick

Spec == Init /\ [][Next]_vars

\* There is something that time changes.
Timed ==
  \/ ttl > 0
  \/ \E c \in Clients : pc[c] = "blocked" \/ \E s \in Slots : renewer[c][s].at = "sleep"

\* Calls that were made go on, functions return, goroutines run, and time passes as
\* long as it changes something: there is no room in a tick for endless calls.  Nobody
\* is obliged to call, and nothing is obliged to fail.
Fairness ==
  /\ <>[]~Timed \/ []<><<Tick>>_vars
  /\ \A c \in Clients : WF_vars(Step(c))
  /\ \A c \in Clients, s \in Slots : WF_vars(Goroutine(c, s))

FairSpec == Spec /\ Fairness

-----------------------------------------------------------------------------
\* Properties.

\* Every variable has its type; timers stay within the times the code gives, and
\* there is a key exactly while it has time to live.
TypeOK ==
  /\ owner \in Clients \cup {None, Orphan}
  /\ ttl \in 0..Expire
  /\ owner = None <=> ttl = 0
  /\ state \in [Clients -> {0, 1}]
  /\ expire \in [Clients -> {InitTTL, Expire}]
  /\ pc \in [Clients -> PCs]
  /\ depth \in [Clients -> Nat] /\ \A c \in Clients : depth[c] <= Depth[c]
  /\ wait \in [Clients -> 0..MaxWait]
  /\ renewer \in [Clients -> [Slots -> RenewerState]]
  /\ \A c \in Clients : pc[c] \in {"acquire", "won", "blocked"} => depth[c] < Depth[c]

\* What the readme promises of a lock obtained from this package: two functions
\* under the same key never run at the same time.
MutualExclusion == \A c, d \in Inside : c = d

\* The clients the lock keeps its promise to: their calls do not nest, and if their
\* function may be long they use LockWithContext and only their acquisitions fail.
Careful ==
  {c \in Clients :
     Depth[c] <= 1 /\ (c \in Long => Path[c] = "ctx" /\ Faults[c] \subseteq {"acquire"})}

\* Whatever the others do, nest, fail or die in the middle of, two functions of
\* careful clients under the same key never run at the same time.
CarefulExclusion == \A c, d \in Inside \cap Careful : c = d

\* A key of an object goes away only through that object's own Unlock, the death
\* of its process, or the passing of the time to live it had: no call of another
\* object, and no late renewal, takes it.
KeyTakenOnlyByOwner ==
  [][\A c \in Clients :
       owner = c /\ owner' # c =>
         \/ pc[c] = "unlock" /\ owner' = None
         \/ ttl = 1 /\ owner' = None /\ Inside' = Inside
         \/ c \in Mortal /\ owner' = Orphan /\ renewer'[c] = [s \in Slots |-> NoRenewer]]_vars

\* The key does not outlive its use: once its object is in no call, or its process
\* is dead, the key is freed in the end, whatever a renewer that read the state
\* just before Unlock cleared it does.  That takes a careful client whose Unlock does
\* not fail: an Unlock that fails, or comes when the key has expired, leaves the state
\* set, and renewLock takes the key back and renews it for the life of the process.
KeyFreed ==
  /\ \A c \in Careful :
       "release" \notin Faults[c]
         => (owner = c /\ pc[c] = "ready" /\ depth[c] = 0 ~> owner # c)
  /\ owner = Orphan ~> owner # Orphan

\* The same of every object in no call.
AllFreed == \A c \in Clients : owner = c /\ pc[c] = "ready" /\ depth[c] = 0 ~> owner # c

\* A waiter of LockWithContext obtains a key that becomes free a full tick before
\* its deadline, unless another takes it.
WaiterRetries ==
  \A c \in Clients :
    pc[c] = "blocked" /\ owner = None /\ wait[c] > 1
      ~> owner # None \/ depth[c] > 0

-----------------------------------------------------------------------------
\* A client has the key from winning it to the return of its function.
HoldsKey(c) == depth[c] > 0 \/ pc[c] = "won" => owner = c /\ ttl > 0

\* An object in a call asks for the long expiry once it may win the key.
LongExpiry(c) ==
  pc[c] \in {"acquire", "won"} \/ state[c] = 1 => expire[c] = Expire

\* The state is set as long as the function runs, and clear between calls.
StateFollows(c) ==
  /\ depth[c] > 0 => state[c] = 1
  /\ pc[c] \in {"ready", "acquire", "won", "blocked"} /\ depth[c] = 0 => state[c] = 0

\* An object that has not released yet has the key and a renewal on its way that
\* comes before the key expires.
Holding(c) == state[c] = 1 /\ pc[c] # "clear"

RenewedInTime(c) ==
  /\ pc[c] = "won" => ttl = Expire
  /\ Holding(c) =>
       /\ owner = c /\ ttl > 0
       /\ \E s \in Slots :
            \/ renewer[c][s].at = "acquire"
            \/ renewer[c][s].at = "sleep" /\ renewer[c][s].left < ttl

\* The inductive invariant behind CarefulExclusion.
LockInv ==
  /\ \A c \in Careful : HoldsKey(c)
  /\ \A c \in Careful : pc[c] # "ready" => depth[c] = 0
  /\ \A c \in Careful \cap Long : LongExpiry(c) /\ StateFollows(c) /\ RenewedInTime(c)
=============================================================================
