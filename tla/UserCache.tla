------------------------------ MODULE UserCache ------------------------------
(***************************************************************************)
(* The middlewares of src/handler/handler.go that give a request its user  *)
(* or context.  AmazonUserMiddleware finds the user of a token in a cache  *)
(* in Redis, and when there is none asks for it under a lock, so that one  *)
(* request asks and the others find what it stored; cache entries have no  *)
(* time to live.  The lock is a new lock object for every request, used    *)
(* through LockFunc: until its SetExpire has been called and renewed the   *)
(* key lives 500 ms only (see RedisLock), less than a slow answer takes.   *)
(***************************************************************************)
EXTENDS Naturals, FiniteSets

CONSTANTS
  Requests,
  Tokens,
  None,
  Mixes,          \* the requests considered: which are made together
  MaxTroubles     \* a bound on the failures and lost locks of a token

\* What is known of a request: the middleware it comes to, AmazonUserMiddleware ("user")
\* in production or not ("fixed") or RequestContextMiddleware ("request"); its token, if
\* it has one after "Bearer "; and whether its x-request-context header can be decoded.
\* Of its handler: whether it calls another service, and the steps an error takes to it at
\* most, 0 when it has none of its own.
Profiles ==
  [kind : {"user", "fixed", "request"}, token : Tokens \cup {None}, header : BOOLEAN,
   calls : BOOLEAN, steps : Nat]

RequestsKnown ==
  /\ IsFiniteSet(Requests)
  /\ None \notin Tokens \cup Requests
  /\ Mixes \subseteq [Requests -> Profiles]
  /\ MaxTroubles \in Nat

VARIABLES
  profile,        \* what the requests are
  pc,             \* where each request is
  cache,          \* the users in Redis: of the token, or None
  holder,         \* the request whose lock object has the token's lock, or None
  renewing,       \* requests whose lock object has a renewLock that goes on
  user,           \* amazonUser: "own", "empty" (allocated, never decoded) or "nil"
  json,           \* amazonUserJson: "own" or ""
  context,        \* what the context holds under RequestContextKey
  answers,        \* what was written to the client
  fetches,        \* history: how often the user of a token was asked for
  troubles        \* history: failures met and locks lost, of each token

vars ==
  <<profile, pc, cache, holder, renewing, user, json, context, answers, fetches, troubles>>
request == <<user, json, answers>>
redis == <<cache, holder, renewing>>
history == <<fetches, troubles>>

Init ==
  /\ profile \in Mixes
  /\ pc = [r \in Requests |-> "new"]
  /\ cache = [t \in Tokens |-> None]
  /\ holder = [t \in Tokens |-> None]
  /\ renewing = {}
  /\ user = [r \in Requests |-> "empty"]
  /\ json = [r \in Requests |-> ""]
  /\ context = [r \in Requests |-> "none"]
  /\ answers = [r \in Requests |-> {}]
  /\ fetches = [t \in Tokens |-> 0] /\ troubles = [t \in Tokens |-> 0]

Kind(r) == profile[r].kind
Token(r) == profile[r].token

Goto(r, p) == pc' = [pc EXCEPT ![r] = p]

\* next(w, r): the handler runs, with the user or request context in its context.
ToHandler(r, c) == Goto(r, "handler") /\ context' = [context EXCEPT ![r] = c]

Answer(r, a) == answers' = [answers EXCEPT ![r] = @ \cup {a}]
Trouble(t) ==
  /\ troubles[t] < MaxTroubles
  /\ troubles' = [troubles EXCEPT ![t] = @ + 1]

-----------------------------------------------------------------------------
\* RequestContextMiddleware: a header that cannot be decoded is only logged.
Resolve(r) ==
  /\ pc[r] = "new" /\ Kind(r) = "request"
  /\ ToHandler(r, IF profile[r].header THEN "request" ELSE "none")
  /\ UNCHANGED <<profile, redis, request, history>>

-----------------------------------------------------------------------------
\* AmazonUserMiddleware.

\* Outside production the user is always the same one.
FixedUser(r) ==
  /\ pc[r] = "new" /\ Kind(r) = "fixed"
  /\ user' = [user EXCEPT ![r] = "own"] /\ json' = [json EXCEPT ![r] = "own"]
  /\ ToHandler(r, "user")
  /\ UNCHANGED <<profile, redis, answers, history>>

NoToken(r) ==
  /\ pc[r] = "new" /\ Kind(r) = "user"
  /\ Token(r) = None
  /\ Answer(r, 401)
  /\ Goto(r, "done")
  /\ UNCHANGED <<profile, redis, user, json, context, history>>

Cached(r) == cache[Token(r)] # None

\* A look that finds no user, or fails, which counts as the same.
Missed(t) == IF cache[t] = None THEN troubles' = troubles ELSE Trouble(t)

\* The first look into the cache.
Look(r) ==
  /\ pc[r] = "new" /\ Kind(r) = "user"
  /\ Token(r) # None
  /\ \/ /\ Cached(r)
        /\ user' = [user EXCEPT ![r] = "own"] /\ json' = [json EXCEPT ![r] = "own"]
        /\ ToHandler(r, "user")
        /\ troubles' = troubles
     \/ /\ Missed(Token(r))
        /\ Goto(r, "lock")
        /\ UNCHANGED <<user, json, context>>
  /\ UNCHANGED <<profile, redis, answers, fetches>>

\* Lock tries again every 10 ms until the lock is free.
TakeLock(r) ==
  /\ pc[r] = "lock"
  /\ holder[Token(r)] = None
  /\ holder' = [holder EXCEPT ![Token(r)] = r]
  /\ renewing' = renewing \cup {r}
  /\ Goto(r, "again")
  /\ UNCHANGED <<profile, cache, request, context, history>>

\* When Redis fails LockFunc returns without running the function, and its error is
\* dropped: the handler runs with a user that nobody has filled in.
LockFails(r) ==
  /\ pc[r] = "lock"
  /\ Trouble(Token(r))
  /\ ToHandler(r, "user")
  /\ UNCHANGED <<profile, redis, request, fetches>>

\* Variant for the properties: no second look under the lock.
LookNoMore(r) ==
  /\ pc[r] = "again"
  /\ Goto(r, "ask")
  /\ UNCHANGED <<profile, redis, request, context, history>>

\* The second look, under the lock.  A user that is cached now is not decoded.
LookAgain(r) ==
  /\ pc[r] = "again"
  /\ \/ /\ Cached(r)
        /\ json' = [json EXCEPT ![r] = "own"]
        /\ Goto(r, "unlock")
        /\ troubles' = troubles
     \/ /\ Missed(Token(r))
        /\ Goto(r, "ask")
        /\ json' = json
  /\ UNCHANGED <<profile, redis, user, answers, context, fetches>>

Asks(r) ==
  /\ pc[r] = "ask"
  /\ fetches' = [fetches EXCEPT ![Token(r)] = @ + 1]
  /\ UNCHANGED <<profile, redis, context>>

\* Variant for the properties: the error is not answered.
AskSilent(r) ==
  /\ Asks(r)
  /\ \/ /\ user' = [user EXCEPT ![r] = "own"] /\ json' = [json EXCEPT ![r] = "own"]
        /\ Goto(r, "store")
        /\ UNCHANGED <<answers, troubles>>
     \/ /\ user' = [user EXCEPT ![r] = "nil"] /\ json' = json
        /\ Goto(r, "unlock")
        /\ Trouble(Token(r)) /\ answers' = answers

\* getUserInfo.  An error is answered with 401 and leaves no user; an answer that is not
\* as expected, or none, is a panic, which the deferred Unlock is part of.
Ask(r) ==
  /\ Asks(r)
  /\ \/ /\ user' = [user EXCEPT ![r] = "own"] /\ json' = [json EXCEPT ![r] = "own"]
        /\ Goto(r, "store")
        /\ UNCHANGED <<answers, troubles>>
     \/ /\ user' = [user EXCEPT ![r] = "nil"] /\ json' = json
        /\ Answer(r, 401)
        /\ Goto(r, "unlock")
        /\ Trouble(Token(r))
     \/ /\ Goto(r, "unwind")
        /\ Trouble(Token(r))
        /\ UNCHANGED request

\* The user is stored without a time to live; a failure is not looked at.
Store(r) ==
  /\ pc[r] = "store"
  /\ \/ cache' = [cache EXCEPT ![Token(r)] = Token(r)] /\ troubles' = troubles
     \/ cache' = cache /\ Trouble(Token(r))
  /\ Goto(r, "unlock")
  /\ UNCHANGED <<profile, holder, renewing, request, context, fetches>>

\* Unlock.  When the key has expired, or Release fails, the state of the lock object stays
\* set, and its renewLock goes on.
Release(r) ==
  IF holder[Token(r)] = r
    THEN \/ /\ holder' = [holder EXCEPT ![Token(r)] = None]
            /\ renewing' = renewing \ {r}
            /\ troubles' = troubles
         \/ Trouble(Token(r)) /\ UNCHANGED <<holder, renewing>>
    ELSE UNCHANGED <<holder, renewing, troubles>>

Unlock(r) ==
  /\ pc[r] = "unlock"
  /\ Release(r)
  /\ ToHandler(r, "user")
  /\ UNCHANGED <<profile, cache, request, fetches>>

\* The same while a panic unwinds the stack.
Unwind(r) ==
  /\ pc[r] = "unwind"
  /\ Release(r)
  /\ Goto(r, "panic")
  /\ UNCHANGED <<profile, cache, request, context, fetches>>

\* The requests that run the function of LockFunc, or Unlock after it.
Inside == {r \in Requests : pc[r] \in {"again", "ask", "store", "unlock", "unwind"}}

\* The key expires: nobody renews it, or it is still the first one, which lives 500 ms.
\* That is trouble only to a holder who is not done.
Expire(t) ==
  /\ holder[t] # None
  /\ IF holder[t] \in renewing \cap Inside THEN Trouble(t) ELSE troubles' = troubles
  /\ holder' = [holder EXCEPT ![t] = None]
  /\ UNCHANGED <<profile, pc, cache, renewing, request, context, fetches>>

\* renewLock wakes up: it takes the key when it finds it free, and ends when another has
\* it or Redis fails.
Renew(r) ==
  /\ r \in renewing
  /\ \/ /\ holder[Token(r)] = None
        /\ holder' = [holder EXCEPT ![Token(r)] = r]
        /\ UNCHANGED <<renewing, troubles>>
     \/ /\ IF holder[Token(r)] \in {None, r} THEN Trouble(Token(r)) ELSE troubles' = troubles
        /\ renewing' = renewing \ {r}
        /\ holder' = holder
  /\ UNCHANGED <<profile, pc, cache, request, context, fetches>>

\* Variant for the properties: a panic that is only logged.
RecoverSilent(r) ==
  /\ pc[r] = "panic"
  /\ Goto(r, "done")
  /\ UNCHANGED <<profile, redis, request, context, history>>

\* GlobalErrorMiddleware recovers a panic and answers.
Recover(r) ==
  /\ pc[r] = "panic"
  /\ Answer(r, 500)
  /\ Goto(r, "done")
  /\ UNCHANGED <<profile, redis, user, json, context, history>>

-----------------------------------------------------------------------------

Works(r) ==
  \/ Resolve(r) \/ FixedUser(r) \/ NoToken(r) \/ Look(r)
  \/ TakeLock(r) \/ LookAgain(r) \/ Ask(r) \/ Store(r) \/ Unlock(r)
  \/ Unwind(r) \/ Recover(r)

Middleware(r) == Works(r) \/ LockFails(r)

Lock == (\E t \in Tokens : Expire(t)) \/ \E r \in Requests : Renew(r)

Next == Lock \/ \E r \in Requests : Middleware(r)

Spec == Init /\ [][Next]_vars

-----------------------------------------------------------------------------
\* Properties.

TypeOK ==
  /\ profile \in Mixes
  /\ pc \in [Requests -> {"new", "lock", "again", "ask", "store", "unlock", "unwind",
                          "panic", "handler", "answer", "done"}]
  /\ cache \in [Tokens -> Tokens \cup {None}]
  /\ holder \in [Tokens -> Requests \cup {None}]
  /\ renewing \subseteq Requests
  /\ user \in [Requests -> {"own", "empty", "nil"}]
  /\ json \in [Requests -> {"own", ""}]
  /\ context \in [Requests -> {"none", "request", "user"}]
  /\ answers \in [Requests -> SUBSET Nat]
  /\ fetches \in [Tokens -> Nat] /\ troubles \in [Tokens -> Nat]

\* However many requests come with a token at the same time, its user is asked for once,
\* and once more for each failure or lost lock.
OneFetch == \A t \in Tokens : fetches[t] <= 1 + troubles[t]

\* Why: the requests with a token that will ask for its user if nothing comes between, and
\* one more that may get the lock when no user is cached and the lock is not held, with
\* somebody to renew it, by one that asks or stores.
Askers(t) ==
  {r \in Requests : Token(r) = t /\ (pc[r] = "ask" \/ (pc[r] = "again" /\ cache[t] = None))}
Guarded(t) ==
  holder[t] \in renewing /\ pc[holder[t]] \in {"again", "ask", "store"}
Open(t) == IF cache[t] = None /\ ~Guarded(t) THEN 1 ELSE 0
FetchAt(t) ==
  /\ holder[t] # None => Token(holder[t]) = t
  /\ fetches[t] + Cardinality(Askers(t)) + Open(t) <= 1 + troubles[t]
FetchInv == \A t \in Tokens : FetchAt(t)

\* GetLoginUser, in the handler, which has the user in its context, and in a service that
\* the handler calls by gRPC, which gets the JSON in the metadata.
LoginUser(r) == IF context[r] = "user" THEN user[r] ELSE "nil"
RemoteUser(r) == IF json[r] = "" THEN "nil" ELSE json[r]

\* The handler of a request gets its user, and so do the services it calls; or, when
\* another request has stored the user while this one waited for the lock, only they do;
\* or neither, after a failure of the lock or an answer of 401.
TrueAt(r) ==
  pc[r] = "handler" /\ Kind(r) # "request" =>
    \/ LoginUser(r) = "own" /\ RemoteUser(r) = "own"
    \/ LoginUser(r) = "empty" /\ RemoteUser(r) = "own" /\ Cached(r)
    \/ LoginUser(r) = "empty" /\ RemoteUser(r) = "nil" /\ troubles[Token(r)] > 0
    \/ LoginUser(r) = "nil" /\ RemoteUser(r) = "nil" /\ 401 \in answers[r]
UserTrue == \A r \in Requests : TrueAt(r)

\* Why: what is known of a request's user at each place of the middleware.
Locking == {"lock", "again", "ask", "store", "unlock", "unwind"}
UserAt(r) ==
  /\ pc[r] \in Locking => Kind(r) = "user" /\ Token(r) \in Tokens
  /\ pc[r] \in {"new", "lock", "again", "ask"} => user[r] = "empty" /\ json[r] = ""
  /\ pc[r] = "store" => user[r] = "own" /\ json[r] = "own"
  /\ pc[r] = "unlock" =>
       \/ user[r] = "own" /\ json[r] = "own"
       \/ user[r] = "empty" /\ json[r] = "own" /\ Cached(r)
       \/ user[r] = "nil" /\ json[r] = "" /\ 401 \in answers[r]
  /\ pc[r] = "handler" /\ Kind(r) # "request" =>
       /\ context[r] = "user"
       /\ Token(r) \notin Tokens => user[r] = "own" /\ json[r] = "own"
  /\ r \in renewing => Token(r) \in Tokens
UserInv == \A r \in Requests : TrueAt(r) /\ UserAt(r)

\* Without the exceptions: the handler and the services it calls see the same user, and
\* nothing is answered before the handler runs.
SameUser == \A r \in Requests : pc[r] = "handler" => LoginUser(r) = RemoteUser(r)
AnsweredOnce == \A r \in Requests : pc[r] = "handler" => answers[r] = {}
=============================================================================
