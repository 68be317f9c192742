--------------------------- MODULE RequestsProofs ---------------------------
(***************************************************************************)
(* Requests, for any requests, tokens, lists of nodes and errors: first    *)
(* what the steps of each part keep, the user middleware (UserCache), the  *)
(* client of JSON-RPC (JsonRpcClient) and the way of an error (ErrorPath); *)
(* then that each step of the server is one of theirs, or leaves them      *)
(* alone; and the theorems about the server.                               *)
(***************************************************************************)
EXTENDS Requests, FiniteSetTheorems, WellFoundedInduction, TLAPS

\* The instances count as this module does.
LEMMA SameCount ==
  ASSUME NEW S
  PROVE  /\ Users!IsFiniteSet(S) <=> IsFiniteSet(S)
         /\ Users!Cardinality(S) = Cardinality(S)
         /\ Rpc!Cardinality(S) = Cardinality(S)
BY DEF Users!IsFiniteSet, IsFiniteSet, Users!Cardinality, Cardinality, Rpc!Cardinality

\* What RequestAssumption says of the requests and bounds.
LEMMA Bounds ==
  /\ Users!RequestsKnown
  /\ IsFiniteSet(Requests) /\ MaxNodes \in Nat \ {0} /\ MaxChanges \in Nat
BY RequestAssumption, SameCount DEF Users!RequestsKnown

-----------------------------------------------------------------------------
\* The user middleware.

LEMMA TokensKnown ==
  ASSUME Users!RequestsKnown, Users!TypeOK, NEW r \in Requests
  PROVE  Users!Token(r) \in Tokens \cup {None}
<1>1. profile \in [Requests -> Users!Profiles]
  BY DEF Users!RequestsKnown, Users!TypeOK
<1>2. profile[r] \in Users!Profiles
  BY <1>1
<1>3. QED
  BY <1>2 DEF Users!Profiles, Users!Token

\* What a step leaves, whichever it is: no request changes its profile, no user leaves the
\* cache and no trouble is forgotten.
Lasting ==
  /\ profile' = profile
  /\ \A t \in Tokens : cache[t] # None => cache'[t] # None
  /\ \A t \in Tokens : troubles[t] > 0 => troubles'[t] > 0

\* The steps of one request keep the types, last, and do not touch what is known of another
\* request; the lock's steps do not touch what is known of any.
Untouched(q) ==
  /\ pc'[q] = pc[q] /\ user'[q] = user[q] /\ json'[q] = json[q]
  /\ context'[q] = context[q] /\ answers'[q] = answers[q]
  /\ q \in renewing' => q \in renewing

LEMMA UntouchedKept ==
  ASSUME NEW q \in Requests, Users!TrueAt(q), Users!UserAt(q), Lasting, Untouched(q)
  PROVE  Users!TrueAt(q)' /\ Users!UserAt(q)'
<1>1. /\ Users!Kind(q)' = Users!Kind(q) /\ Users!Token(q)' = Users!Token(q)
      /\ Users!LoginUser(q)' = Users!LoginUser(q) /\ Users!RemoteUser(q)' = Users!RemoteUser(q)
  BY DEF Lasting, Untouched, Users!Kind, Users!Token, Users!LoginUser, Users!RemoteUser
<1>2. Users!Token(q) \in Tokens /\ Users!Cached(q) => Users!Cached(q)'
  BY <1>1 DEF Lasting, Users!Cached
<1>3. Users!Token(q) \in Tokens /\ troubles[Users!Token(q)] > 0 => (troubles[Users!Token(q)] > 0)'
  BY <1>1 DEF Lasting
<1>4. Users!UserAt(q)'
  BY <1>1, <1>2 DEF Untouched, Users!UserAt, Users!Locking
<1>5. CASE pc[q] = "handler" /\ Users!Kind(q) # "request" /\ Users!Token(q) \notin Tokens
  BY <1>1, <1>4, <1>5 DEF Untouched, Users!TrueAt, Users!UserAt, Users!LoginUser, Users!RemoteUser
<1>6. CASE pc[q] = "handler" /\ Users!Kind(q) # "request" /\ Users!Token(q) \in Tokens
  BY <1>1, <1>2, <1>3, <1>4, <1>6 DEF Untouched, Users!TrueAt, Users!LoginUser, Users!RemoteUser
<1>7. CASE ~ (pc[q] = "handler" /\ Users!Kind(q) # "request")
  BY <1>1, <1>4, <1>7 DEF Untouched, Users!TrueAt, Users!LoginUser, Users!RemoteUser
<1>8. QED
  BY <1>4, <1>5, <1>6, <1>7

\* The steps that answer, meet a trouble or ask for a user.
LEMMA AnswerTyped ==
  ASSUME Users!TypeOK, NEW r \in Requests, NEW a \in Nat, Users!Answer(r, a)
  PROVE  answers' \in [Requests -> SUBSET Nat]
<1>1. \A s \in SUBSET Nat : s \cup {a} \in SUBSET Nat
  OBVIOUS
<1>2. QED
  BY <1>1 DEF Users!Answer, Users!TypeOK

LEMMA TroubleCounted ==
  ASSUME troubles \in [Tokens -> Nat], NEW t \in Tokens, Users!Trouble(t)
  PROVE  /\ troubles' \in [Tokens -> Nat] /\ troubles'[t] > 0
         /\ \A u \in Tokens : troubles[u] > 0 => troubles'[u] > 0
BY DEF Users!Trouble

LEMMA UserStored ==
  ASSUME Users!TypeOK, NEW t \in Tokens, cache' = [cache EXCEPT ![t] = t], None \notin Tokens
  PROVE  /\ cache' \in [Tokens -> Tokens \cup {None}]
         /\ \A u \in Tokens : cache[u] # None => cache'[u] # None
BY DEF Users!TypeOK

LEMMA LockTaken ==
  ASSUME Users!TypeOK, NEW t \in Tokens, NEW r \in Requests, holder' = [holder EXCEPT ![t] = r]
  PROVE  holder' \in [Tokens -> Requests \cup {None}]
BY DEF Users!TypeOK

LEMMA FetchCounted ==
  ASSUME fetches \in [Tokens -> Nat], NEW t \in Tokens, fetches' = [fetches EXCEPT ![t] = @ + 1]
  PROVE  fetches' \in [Tokens -> Nat]
OBVIOUS

LEMMA UserStep ==
  ASSUME Users!RequestsKnown, Users!TypeOK, Users!UserInv, [Users!Next]_Users!vars
  PROVE  Users!TypeOK' /\ Users!UserInv'
<1> DEFINE Kept == Users!TypeOK' /\ Lasting
           Others(r) == \A q \in Requests \ {r} : Untouched(q)
           Own(r) == Users!TrueAt(r)' /\ Users!UserAt(r)'
<1>1. ASSUME NEW r \in Requests, Kept, Others(r), Own(r) PROVE Users!UserInv'
  BY <1>1, UntouchedKept DEF Users!UserInv
<1>2. ASSUME Kept, \A q \in Requests : Untouched(q) PROVE Users!UserInv'
  BY <1>2, UntouchedKept DEF Users!UserInv
<1>3. ASSUME NEW r \in Requests PROVE Users!Token(r) \in Tokens \cup {None}
  BY TokensKnown
<1>4. ASSUME NEW r \in Requests PROVE Users!TrueAt(r) /\ Users!UserAt(r)
  BY DEF Users!UserInv
<1>n. 401 \in Nat /\ 500 \in Nat
  OBVIOUS
<1>s. ASSUME NEW r \in Requests, Lasting
      PROVE  Users!Kind(r)' = Users!Kind(r) /\ Users!Token(r)' = Users!Token(r)
  BY <1>s DEF Lasting, Users!Kind, Users!Token
<1>r. ASSUME NEW r \in renewing PROVE Users!Token(r) \in Tokens
  <2>1. r \in Requests
    BY <1>r DEF Users!TypeOK
  <2>2. Users!UserAt(r)
    BY <2>1, <1>4
  <2>3. QED
    BY <1>r, <2>2, Zenon DEF Users!UserAt
<1> USE DEF Users!Goto, Users!ToHandler, Users!Missed,
      Users!request, Users!redis, Users!history
<1>5. ASSUME NEW r \in Requests, Users!Resolve(r) PROVE Users!TypeOK' /\ Users!UserInv'
  <2>1. Users!TypeOK'
    BY <1>5 DEF Users!Resolve, Users!TypeOK
  <2>2. Lasting
    BY <1>5 DEF Users!Resolve, Users!TypeOK, Lasting
  <2>3. Others(r)
    BY <1>5 DEF Users!Resolve, Users!TypeOK, Users!Answer, Untouched
  <2>e. pc'[r] = "handler" /\ Users!Kind(r) = "request"
    BY <1>5 DEF Users!Resolve, Users!TypeOK, Users!Answer, Users!Cached
  <2>g. r \in renewing' => Users!Token(r) \in Tokens
    BY <1>r, <1>5 DEF Users!Resolve, Users!redis
  <2>4. Own(r)
    BY <1>4, <1>s, <2>2, <2>e, <2>g
       DEF Users!TrueAt, Users!UserAt, Users!Locking, Users!LoginUser, Users!RemoteUser
  <2>5. QED
    BY <1>1, <2>1, <2>2, <2>3, <2>4
<1>6. ASSUME NEW r \in Requests, Users!FixedUser(r) PROVE Users!TypeOK' /\ Users!UserInv'
  <2>1. Users!TypeOK'
    BY <1>6 DEF Users!FixedUser, Users!TypeOK
  <2>2. Lasting
    BY <1>6 DEF Users!FixedUser, Users!TypeOK, Lasting
  <2>3. Others(r)
    BY <1>6 DEF Users!FixedUser, Users!TypeOK, Users!Answer, Untouched
  <2>e. /\ pc'[r] = "handler" /\ context'[r] = "user"
        /\ user'[r] = "own" /\ json'[r] = "own"
    BY <1>6 DEF Users!FixedUser, Users!TypeOK, Users!Answer, Users!Cached
  <2>g. r \in renewing' => Users!Token(r) \in Tokens
    BY <1>r, <1>6 DEF Users!FixedUser, Users!redis
  <2>4. Own(r)
    BY <1>4, <1>s, <2>2, <2>e, <2>g
       DEF Users!TrueAt, Users!UserAt, Users!Locking, Users!LoginUser, Users!RemoteUser
  <2>5. QED
    BY <1>1, <2>1, <2>2, <2>3, <2>4
<1>7. ASSUME NEW r \in Requests, Users!NoToken(r) PROVE Users!TypeOK' /\ Users!UserInv'
  <2>a. answers' = answers \/ Users!Answer(r, 401)
    BY <1>7 DEF Users!NoToken
  <2>b. answers' \in [Requests -> SUBSET Nat]
    BY <1>n, <2>a, AnswerTyped DEF Users!TypeOK
  <2>1. Users!TypeOK'
    BY <1>7, <2>b DEF Users!NoToken, Users!TypeOK
  <2>2. Lasting
    BY <1>7, <2>b DEF Users!NoToken, Users!TypeOK, Lasting
  <2>3. Others(r)
    BY <1>7 DEF Users!NoToken, Users!TypeOK, Users!Answer, Untouched
  <2>e. pc'[r] = "done"
    BY <1>7, <2>b DEF Users!NoToken, Users!TypeOK, Users!Answer, Users!Cached
  <2>g. r \in renewing' => Users!Token(r) \in Tokens
    BY <1>r, <1>7, <2>b DEF Users!NoToken, Users!redis
  <2>4. Own(r)
    BY <1>4, <1>s, <2>2, <2>e, <2>g
       DEF Users!TrueAt, Users!UserAt, Users!Locking, Users!LoginUser, Users!RemoteUser
  <2>5. QED
    BY <1>1, <2>1, <2>2, <2>3, <2>4
<1>8. ASSUME NEW r \in Requests, Users!Look(r) PROVE Users!TypeOK' /\ Users!UserInv'
  <2>t. Users!Token(r) \in Tokens
    BY <1>3, <1>4, <1>8 DEF Users!Look, Users!UserAt, Users!Locking
  <2>c. troubles' = troubles \/ Users!Trouble(Users!Token(r))
    BY <1>8 DEF Users!Look
  <2>d. /\ troubles' \in [Tokens -> Nat]
        /\ \A u \in Tokens : troubles[u] > 0 => troubles'[u] > 0
    BY <2>t, <2>c, TroubleCounted DEF Users!TypeOK
  <2>1. Users!TypeOK'
    BY <1>8, <2>t, <2>d DEF Users!Look, Users!TypeOK
  <2>2. Lasting
    BY <1>8, <2>t, <2>d DEF Users!Look, Users!TypeOK, Lasting
  <2>3. Others(r)
    BY <1>8 DEF Users!Look, Users!TypeOK, Users!Answer, Untouched
  <2>e. /\ pc[r] = "new" /\ Users!Kind(r) = "user"
        /\ \/ /\ pc'[r] = "handler" /\ context'[r] = "user"
              /\ user'[r] = "own" /\ json'[r] = "own"
           \/ pc'[r] = "lock" /\ user'[r] = user[r] /\ json'[r] = json[r]
    BY <1>8, <2>t, <2>d DEF Users!Look, Users!TypeOK, Users!Answer, Users!Cached
  <2>g. r \in renewing' => Users!Token(r) \in Tokens
    BY <1>r, <1>8, <2>t, <2>d DEF Users!Look
  <2>4. Own(r)
    BY <1>4, <1>s, <2>2, <2>t, <2>e, <2>g
       DEF Users!TrueAt, Users!UserAt, Users!Locking, Users!LoginUser, Users!RemoteUser
  <2>5. QED
    BY <1>1, <2>1, <2>2, <2>3, <2>4
<1>9. ASSUME NEW r \in Requests, Users!TakeLock(r) PROVE Users!TypeOK' /\ Users!UserInv'
  <2>t. Users!Token(r) \in Tokens
    BY <1>3, <1>4, <1>9 DEF Users!TakeLock, Users!UserAt, Users!Locking
  <2>1. Users!TypeOK'
    BY <1>9, <2>t DEF Users!TakeLock, Users!TypeOK
  <2>2. Lasting
    BY <1>9, <2>t DEF Users!TakeLock, Users!TypeOK, Lasting
  <2>3. Others(r)
    BY <1>9 DEF Users!TakeLock, Users!TypeOK, Users!Answer, Untouched
  <2>e. /\ pc[r] = "lock" /\ pc'[r] = "again"
        /\ user'[r] = user[r] /\ json'[r] = json[r]
    BY <1>9, <2>t DEF Users!TakeLock, Users!TypeOK, Users!Answer, Users!Cached
  <2>g. r \in renewing' => Users!Token(r) \in Tokens
    BY <1>r, <1>9, <2>t DEF Users!TakeLock
  <2>4. Own(r)
    BY <1>4, <1>s, <2>2, <2>t, <2>e, <2>g
       DEF Users!TrueAt, Users!UserAt, Users!Locking, Users!LoginUser, Users!RemoteUser
  <2>5. QED
    BY <1>1, <2>1, <2>2, <2>3, <2>4
<1>10. ASSUME NEW r \in Requests, Users!LockFails(r) PROVE Users!TypeOK' /\ Users!UserInv'
  <2>t. Users!Token(r) \in Tokens
    BY <1>3, <1>4, <1>10 DEF Users!LockFails, Users!UserAt, Users!Locking
  <2>c. troubles' = troubles \/ Users!Trouble(Users!Token(r))
    BY <1>10 DEF Users!LockFails
  <2>d. /\ troubles' \in [Tokens -> Nat]
        /\ \A u \in Tokens : troubles[u] > 0 => troubles'[u] > 0
    BY <2>t, <2>c, TroubleCounted DEF Users!TypeOK
  <2>1. Users!TypeOK'
    BY <1>10, <2>t, <2>d DEF Users!LockFails, Users!TypeOK
  <2>2. Lasting
    BY <1>10, <2>t, <2>d DEF Users!LockFails, Users!TypeOK, Lasting
  <2>3. Others(r)
    BY <1>10 DEF Users!LockFails, Users!TypeOK, Users!Answer, Untouched
  <2>e. /\ pc[r] = "lock" /\ pc'[r] = "handler" /\ context'[r] = "user"
        /\ user'[r] = user[r] /\ json'[r] = json[r] /\ troubles'[Users!Token(r)] > 0
    BY <1>10, <2>t, TroubleCounted DEF Users!LockFails, Users!TypeOK
  <2>g. r \in renewing' => Users!Token(r) \in Tokens
    BY <1>r, <1>10, <2>t, <2>d DEF Users!LockFails
  <2>o. Users!Kind(r)' = Users!Kind(r) /\ Users!Token(r)' = Users!Token(r)
    BY <1>s, <2>2
  <2>w. Users!TrueAt(r) /\ Users!UserAt(r)
    BY <1>4
  <2>u. Users!UserAt(r)'
    BY <2>w, <2>o, <2>t, <2>e, <2>g DEF Users!UserAt, Users!Locking
  <2>v. Users!TrueAt(r)'
    BY <2>w, <2>o, <2>t, <2>e
       DEF Users!TrueAt, Users!UserAt, Users!Locking, Users!LoginUser, Users!RemoteUser
  <2>4. Own(r)
    BY <2>u, <2>v
  <2>5. QED
    BY <1>1, <2>1, <2>2, <2>3, <2>4
<1>11. ASSUME NEW r \in Requests, Users!LookAgain(r) PROVE Users!TypeOK' /\ Users!UserInv'
  <2>t. Users!Token(r) \in Tokens
    BY <1>3, <1>4, <1>11 DEF Users!LookAgain, Users!UserAt, Users!Locking
  <2>c. troubles' = troubles \/ Users!Trouble(Users!Token(r))
    BY <1>11 DEF Users!LookAgain
  <2>d. /\ troubles' \in [Tokens -> Nat]
        /\ \A u \in Tokens : troubles[u] > 0 => troubles'[u] > 0
    BY <2>t, <2>c, TroubleCounted DEF Users!TypeOK
  <2>1. Users!TypeOK'
    BY <1>11, <2>t, <2>d DEF Users!LookAgain, Users!TypeOK
  <2>2. Lasting
    BY <1>11, <2>t, <2>d DEF Users!LookAgain, Users!TypeOK, Lasting
  <2>3. Others(r)
    BY <1>11 DEF Users!LookAgain, Users!TypeOK, Users!Answer, Untouched
  <2>e. /\ pc[r] = "again" /\ user'[r] = user[r]
        /\ \/ pc'[r] = "unlock" /\ json'[r] = "own" /\ Users!Cached(r)'
           \/ pc'[r] = "ask" /\ json'[r] = json[r]
    BY <1>11 DEF Users!LookAgain, Users!TypeOK, Users!Cached, Users!Token
  <2>g. r \in renewing' => Users!Token(r) \in Tokens
    BY <1>r, <1>11, <2>t, <2>d DEF Users!LookAgain
  <2>4. Own(r)
    BY <1>4, <1>s, <2>2, <2>t, <2>e, <2>g
       DEF Users!TrueAt, Users!UserAt, Users!Locking, Users!LoginUser, Users!RemoteUser
  <2>5. QED
    BY <1>1, <2>1, <2>2, <2>3, <2>4
<1>12. ASSUME NEW r \in Requests, Users!Ask(r) PROVE Users!TypeOK' /\ Users!UserInv'
  <2>t. Users!Token(r) \in Tokens
    BY <1>3, <1>4, <1>12 DEF Users!Ask, Users!Asks, Users!UserAt, Users!Locking
  <2>a. answers' = answers \/ Users!Answer(r, 401)
    BY <1>12 DEF Users!Ask, Users!Asks
  <2>b. answers' \in [Requests -> SUBSET Nat]
    BY <1>n, <2>a, AnswerTyped DEF Users!TypeOK
  <2>c. troubles' = troubles \/ Users!Trouble(Users!Token(r))
    BY <1>12 DEF Users!Ask, Users!Asks
  <2>d. /\ troubles' \in [Tokens -> Nat]
        /\ \A u \in Tokens : troubles[u] > 0 => troubles'[u] > 0
    BY <2>t, <2>c, TroubleCounted DEF Users!TypeOK
  <2>f. fetches' \in [Tokens -> Nat]
    BY <2>t, <1>12, FetchCounted DEF Users!Ask, Users!Asks, Users!TypeOK
  <2>1. Users!TypeOK'
    BY <1>12, <2>t, <2>b, <2>d, <2>f DEF Users!Ask, Users!Asks, Users!TypeOK
  <2>2. Lasting
    BY <1>12, <2>t, <2>b, <2>d, <2>f DEF Users!Ask, Users!Asks, Users!TypeOK, Lasting
  <2>h. /\ pc[r] = "ask" /\ context' = context /\ renewing' = renewing
        /\ \/ /\ user' = [user EXCEPT ![r] = "own"] /\ json' = [json EXCEPT ![r] = "own"]
              /\ pc' = [pc EXCEPT ![r] = "store"] /\ answers' = answers
           \/ /\ user' = [user EXCEPT ![r] = "nil"] /\ json' = json
              /\ pc' = [pc EXCEPT ![r] = "unlock"] /\ Users!Answer(r, 401)
           \/ pc' = [pc EXCEPT ![r] = "unwind"] /\ UNCHANGED <<user, json, answers>>
    BY <1>12 DEF Users!Ask, Users!Asks
  <2>3. Others(r)
    <3> SUFFICES ASSUME NEW q \in Requests \ {r} PROVE Untouched(q)
      OBVIOUS
    <3>1. user'[q] = user[q] /\ json'[q] = json[q] /\ pc'[q] = pc[q]
      BY <2>h DEF Users!TypeOK
    <3>2. answers'[q] = answers[q]
      BY <2>h DEF Users!TypeOK, Users!Answer
    <3>3. QED
      BY <2>h, <3>1, <3>2 DEF Untouched
  <2>e. /\ pc[r] = "ask"
        /\ \/ pc'[r] = "store" /\ user'[r] = "own" /\ json'[r] = "own"
           \/ /\ pc'[r] = "unlock" /\ user'[r] = "nil" /\ json'[r] = json[r]
              /\ 401 \in answers'[r]
           \/ pc'[r] = "unwind"
    <3>1. ASSUME Users!Answer(r, 401) PROVE 401 \in answers'[r]
      <4>1. answers'[r] = answers[r] \cup {401}
        BY <3>1 DEF Users!Answer, Users!TypeOK
      <4>2. QED
        BY <4>1
    <3>2. QED
      BY <2>h, <3>1 DEF Users!TypeOK
  <2>g. r \in renewing' => Users!Token(r) \in Tokens
    BY <1>r, <1>12, <2>t, <2>b, <2>d, <2>f DEF Users!Ask, Users!Asks
  <2>4. Own(r)
    BY <1>4, <1>s, <2>2, <2>t, <2>e, <2>g
       DEF Users!TrueAt, Users!UserAt, Users!Locking, Users!LoginUser, Users!RemoteUser
  <2>5. QED
    BY <1>1, <2>1, <2>2, <2>3, <2>4
<1>13. ASSUME NEW r \in Requests, Users!Store(r) PROVE Users!TypeOK' /\ Users!UserInv'
  <2>t. Users!Token(r) \in Tokens
    BY <1>3, <1>4, <1>13 DEF Users!Store, Users!UserAt, Users!Locking
  <2>c. troubles' = troubles \/ Users!Trouble(Users!Token(r))
    BY <1>13 DEF Users!Store
  <2>d. /\ troubles' \in [Tokens -> Nat]
        /\ \A u \in Tokens : troubles[u] > 0 => troubles'[u] > 0
    BY <2>t, <2>c, TroubleCounted DEF Users!TypeOK
  <2>i. /\ cache' \in [Tokens -> Tokens \cup {None}]
        /\ \A u \in Tokens : cache[u] # None => cache'[u] # None
    BY <2>t, <1>13, UserStored DEF Users!Store, Users!TypeOK, Users!RequestsKnown
  <2>1. Users!TypeOK'
    BY <1>13, <2>d, <2>i DEF Users!Store, Users!TypeOK
  <2>2. Lasting
    BY <1>13, <2>d, <2>i DEF Users!Store, Lasting
  <2>3. Others(r)
    BY <1>13 DEF Users!Store, Users!TypeOK, Users!Answer, Untouched
  <2>e. /\ pc[r] = "store" /\ pc'[r] = "unlock"
        /\ user'[r] = user[r] /\ json'[r] = json[r]
    BY <1>13, <2>t, <2>d DEF Users!Store, Users!TypeOK, Users!Answer, Users!Cached
  <2>g. r \in renewing' => Users!Token(r) \in Tokens
    BY <1>r, <1>13, <2>t, <2>d DEF Users!Store
  <2>4. Own(r)
    BY <1>4, <1>s, <2>2, <2>t, <2>e, <2>g
       DEF Users!TrueAt, Users!UserAt, Users!Locking, Users!LoginUser, Users!RemoteUser
  <2>5. QED
    BY <1>1, <2>1, <2>2, <2>3, <2>4
<1>14. ASSUME NEW r \in Requests, Users!Unlock(r) PROVE Users!TypeOK' /\ Users!UserInv'
  <2>t. Users!Token(r) \in Tokens
    BY <1>3, <1>4, <1>14 DEF Users!Unlock, Users!Release, Users!UserAt, Users!Locking
  <2>c. troubles' = troubles \/ Users!Trouble(Users!Token(r))
    BY <1>14 DEF Users!Unlock, Users!Release
  <2>d. /\ troubles' \in [Tokens -> Nat]
        /\ \A u \in Tokens : troubles[u] > 0 => troubles'[u] > 0
    BY <2>t, <2>c, TroubleCounted DEF Users!TypeOK
  <2>1. Users!TypeOK'
    BY <1>14, <2>t, <2>d DEF Users!Unlock, Users!Release, Users!TypeOK
  <2>2. Lasting
    BY <1>14, <2>t, <2>d DEF Users!Unlock, Users!Release, Users!TypeOK, Lasting
  <2>3. Others(r)
    BY <1>14 DEF Users!Unlock, Users!Release, Users!TypeOK, Users!Answer, Untouched
  <2>e. /\ pc[r] = "unlock" /\ pc'[r] = "handler" /\ context'[r] = "user"
        /\ user'[r] = user[r] /\ json'[r] = json[r] /\ answers'[r] = answers[r]
        /\ cache' = cache
    BY <1>14, <2>t, <2>d DEF Users!Unlock, Users!Release, Users!TypeOK, Users!Answer, Users!Cached
  <2>g. r \in renewing' => Users!Token(r) \in Tokens
    BY <1>r, <1>14, <2>t, <2>d DEF Users!Unlock, Users!Release
  <2>o. Users!Kind(r)' = Users!Kind(r) /\ Users!Token(r)' = Users!Token(r)
    BY <1>s, <2>2
  <2>w. Users!TrueAt(r) /\ Users!UserAt(r)
    BY <1>4
  <2>u. Users!UserAt(r)'
    BY <2>w, <2>o, <2>t, <2>e, <2>g DEF Users!UserAt, Users!Locking
  <2>x. \/ user'[r] = "own" /\ json'[r] = "own"
        \/ user'[r] = "empty" /\ json'[r] = "own" /\ Users!Cached(r)'
        \/ user'[r] = "nil" /\ json'[r] = "" /\ 401 \in answers'[r]
    BY <2>w, <2>o, <2>e DEF Users!UserAt, Users!Cached
  <2>v. Users!TrueAt(r)'
    BY <2>x, <2>e DEF Users!TrueAt, Users!LoginUser, Users!RemoteUser
  <2>4. Own(r)
    BY <2>u, <2>v
  <2>5. QED
    BY <1>1, <2>1, <2>2, <2>3, <2>4
<1>15. ASSUME NEW r \in Requests, Users!Unwind(r) PROVE Users!TypeOK' /\ Users!UserInv'
  <2>t. Users!Token(r) \in Tokens
    BY <1>3, <1>4, <1>15 DEF Users!Unwind, Users!Release, Users!UserAt, Users!Locking
  <2>c. troubles' = troubles \/ Users!Trouble(Users!Token(r))
    BY <1>15 DEF Users!Unwind, Users!Release
  <2>d. /\ troubles' \in [Tokens -> Nat]
        /\ \A u \in Tokens : troubles[u] > 0 => troubles'[u] > 0
    BY <2>t, <2>c, TroubleCounted DEF Users!TypeOK
  <2>1. Users!TypeOK'
    BY <1>15, <2>t, <2>d DEF Users!Unwind, Users!Release, Users!TypeOK
  <2>2. Lasting
    BY <1>15, <2>t, <2>d DEF Users!Unwind, Users!Release, Users!TypeOK, Lasting
  <2>3. Others(r)
    BY <1>15 DEF Users!Unwind, Users!Release, Users!TypeOK, Users!Answer, Untouched
  <2>e. pc'[r] = "panic"
    BY <1>15, <2>t, <2>d DEF Users!Unwind, Users!Release, Users!TypeOK, Users!Answer, Users!Cached
  <2>g. r \in renewing' => Users!Token(r) \in Tokens
    BY <1>r, <1>15, <2>t, <2>d DEF Users!Unwind, Users!Release
  <2>4. Own(r)
    BY <1>4, <1>s, <2>2, <2>t, <2>e, <2>g
       DEF Users!TrueAt, Users!UserAt, Users!Locking, Users!LoginUser, Users!RemoteUser
  <2>5. QED
    BY <1>1, <2>1, <2>2, <2>3, <2>4
<1>16. ASSUME NEW r \in Requests, Users!Recover(r) PROVE Users!TypeOK' /\ Users!UserInv'
  <2>a. answers' = answers \/ Users!Answer(r, 500)
    BY <1>16 DEF Users!Recover
  <2>b. answers' \in [Requests -> SUBSET Nat]
    BY <1>n, <2>a, AnswerTyped DEF Users!TypeOK
  <2>1. Users!TypeOK'
    BY <1>16, <2>b DEF Users!Recover, Users!TypeOK
  <2>2. Lasting
    BY <1>16, <2>b DEF Users!Recover, Users!TypeOK, Lasting
  <2>3. Others(r)
    BY <1>16 DEF Users!Recover, Users!TypeOK, Users!Answer, Untouched
  <2>e. pc'[r] = "done"
    BY <1>16, <2>b DEF Users!Recover, Users!TypeOK, Users!Answer, Users!Cached
  <2>g. r \in renewing' => Users!Token(r) \in Tokens
    BY <1>r, <1>16, <2>b DEF Users!Recover, Users!redis
  <2>4. Own(r)
    BY <1>4, <1>s, <2>2, <2>e, <2>g
       DEF Users!TrueAt, Users!UserAt, Users!Locking, Users!LoginUser, Users!RemoteUser
  <2>5. QED
    BY <1>1, <2>1, <2>2, <2>3, <2>4
<1>17. ASSUME NEW r \in Requests, Users!Renew(r) PROVE Users!TypeOK' /\ Users!UserInv'
  <2>t. Users!Token(r) \in Tokens
    BY <1>r, <1>17 DEF Users!Renew
  <2>c. troubles' = troubles \/ Users!Trouble(Users!Token(r))
    BY <1>17 DEF Users!Renew
  <2>d. /\ troubles' \in [Tokens -> Nat]
        /\ \A u \in Tokens : troubles[u] > 0 => troubles'[u] > 0
    BY <2>t, <2>c, TroubleCounted DEF Users!TypeOK
  <2>1. Users!TypeOK'
    <3>1. holder' \in [Tokens -> Requests \cup {None}]
      BY <1>17, <2>t, LockTaken DEF Users!Renew, Users!TypeOK
    <3>2. QED
      BY <1>17, <2>d, <3>1 DEF Users!Renew, Users!TypeOK
  <2>2. Lasting
    BY <1>17, <2>t, <2>d DEF Users!Renew, Users!TypeOK, Lasting
  <2>3. \A q \in Requests : Untouched(q)
    BY <1>17 DEF Users!Renew, Untouched
  <2>4. QED
    BY <1>2, <2>1, <2>2, <2>3
<1>18. ASSUME NEW t \in Tokens, Users!Expire(t) PROVE Users!TypeOK' /\ Users!UserInv'
  <2>c. troubles' = troubles \/ Users!Trouble(t)
    BY <1>18 DEF Users!Expire
  <2>d. /\ troubles' \in [Tokens -> Nat]
        /\ \A u \in Tokens : troubles[u] > 0 => troubles'[u] > 0
    BY <2>c, TroubleCounted DEF Users!TypeOK
  <2>1. Users!TypeOK' /\ Lasting
    BY <1>18, <2>d DEF Users!Expire, Users!TypeOK, Lasting
  <2>2. \A q \in Requests : Untouched(q)
    BY <1>18 DEF Users!Expire, Untouched
  <2>3. QED
    BY <1>2, <2>1, <2>2
<1>19. CASE UNCHANGED Users!vars
  <2>1. Users!TypeOK' /\ Lasting
    BY <1>19 DEF Users!vars, Users!TypeOK, Lasting
  <2>2. \A q \in Requests : Untouched(q)
    BY <1>19 DEF Users!vars, Untouched
  <2>3. QED
    BY <1>2, <2>1, <2>2
<1>20. QED
  BY <1>5, <1>6, <1>7, <1>8, <1>9, <1>10, <1>11, <1>12, <1>13, <1>14, <1>15, <1>16, <1>17, <1>18, <1>19
     DEF Users!Next, Users!Lock, Users!Middleware, Users!Works

-----------------------------------------------------------------------------
\* How often the user of a token is asked for.

\* A step of the request r: what is known of other requests and other tokens stays.
OfRequest(r) ==
  /\ profile' = profile /\ renewing' \subseteq Requests
  /\ \A q \in Requests \ {r} : pc'[q] = pc[q] /\ (q \in renewing' <=> q \in renewing)
  /\ \A t \in Tokens \ {Users!Token(r)} :
       /\ cache'[t] = cache[t] /\ holder'[t] = holder[t]
       /\ fetches'[t] = fetches[t] /\ troubles'[t] = troubles[t]

LEMMA AskersFinite ==
  ASSUME Users!RequestsKnown, NEW t
  PROVE  /\ IsFiniteSet(Users!Askers(t)) /\ Cardinality(Users!Askers(t)) \in Nat
         /\ IsFiniteSet(Users!Askers(t)') /\ Cardinality(Users!Askers(t)') \in Nat
<1>1. Users!Askers(t) \in SUBSET Requests /\ Users!Askers(t)' \in SUBSET Requests
  BY DEF Users!Askers
<1>f. IsFiniteSet(Requests)
  BY SameCount DEF Users!RequestsKnown
<1>2. IsFiniteSet(Users!Askers(t)) /\ IsFiniteSet(Users!Askers(t)')
  BY <1>1, <1>f, FS_Subset
<1>3. QED
  BY <1>2, FS_CardinalityType

\* A step of one request adds it to those who will ask, or removes it, or leaves them.
LEMMA AskersCounted ==
  ASSUME Users!RequestsKnown, NEW t, NEW r \in Requests, OfRequest(r), cache'[t] = cache[t]
  PROVE  Cardinality(Users!Askers(t)') + (IF r \in Users!Askers(t) THEN 1 ELSE 0)
           = Cardinality(Users!Askers(t)) + (IF r \in Users!Askers(t)' THEN 1 ELSE 0)
<1> DEFINE A == Users!Askers(t)
           B == Users!Askers(t)'
<1>1. A \ {r} = B \ {r}
  BY DEF OfRequest, Users!Askers, Users!Token
<1>2. /\ IsFiniteSet(A) /\ Cardinality(A) \in Nat
      /\ IsFiniteSet(B) /\ Cardinality(B) \in Nat
  BY AskersFinite
<1>3. Cardinality(A \ {r}) = IF r \in A THEN Cardinality(A) - 1 ELSE Cardinality(A)
  BY <1>2, FS_RemoveElement
<1>4. Cardinality(B \ {r}) = IF r \in B THEN Cardinality(B) - 1 ELSE Cardinality(B)
  BY <1>2, FS_RemoveElement
<1> HIDE DEF A, B
<1>5. Cardinality(B) + (IF r \in A THEN 1 ELSE 0) = Cardinality(A) + (IF r \in B THEN 1 ELSE 0)
  BY <1>1, <1>2, <1>3, <1>4
<1>6. QED
  BY <1>5 DEF A, B

\* Such a step can disturb what is known of the token of its request only.
LEMMA OtherToken ==
  ASSUME Users!RequestsKnown, Users!TypeOK, NEW r \in Requests, OfRequest(r),
         NEW t \in Tokens, t # Users!Token(r), Users!FetchAt(t)
  PROVE  Users!FetchAt(t)'
<1>1. r \notin Users!Askers(t) /\ r \notin Users!Askers(t)'
  BY DEF OfRequest, Users!Askers, Users!Token
<1>2. Cardinality(Users!Askers(t)') = Cardinality(Users!Askers(t))
  BY <1>1, AskersCounted, AskersFinite DEF OfRequest
<1>3. holder[t] # None => Users!Token(holder[t]) = t
  BY DEF Users!FetchAt
<1>4. holder[t] # r /\ holder'[t] = holder[t] /\ cache'[t] = cache[t]
  BY <1>3 DEF OfRequest, Users!RequestsKnown
<1>5. holder[t] \in renewing \/ holder[t] \in renewing' => holder[t] \in Requests
  <2>1. holder[t] \in Requests \cup {None}
    BY DEF Users!TypeOK
  <2>2. None \notin renewing
    BY DEF Users!TypeOK, Users!RequestsKnown
  <2>3. ASSUME holder[t] = None PROVE holder[t] \notin renewing'
    BY <2>2, <2>3, <1>4 DEF OfRequest, Users!RequestsKnown, Users!TypeOK
  <2>4. QED
    BY <2>1, <2>2, <2>3
<1>6. Users!Guarded(t)' <=> Users!Guarded(t)
  BY <1>4, <1>5 DEF Users!Guarded, OfRequest
<1>7. Users!Open(t)' = Users!Open(t)
  BY <1>4, <1>6 DEF Users!Open
<1>8. (holder[t] # None => Users!Token(holder[t]) = t)'
  BY <1>3, <1>4 DEF OfRequest, Users!Token
<1>9. fetches'[t] = fetches[t] /\ troubles'[t] = troubles[t]
  BY DEF OfRequest
<1>10. QED
  BY <1>2, <1>7, <1>8, <1>9, SameCount DEF Users!FetchAt

LEMMA OwnToken ==
  ASSUME Users!RequestsKnown, Users!TypeOK, Users!FetchInv, NEW r \in Requests, OfRequest(r),
         \A t \in Tokens : t = Users!Token(r) => Users!FetchAt(t)'
  PROVE  Users!FetchInv'
<1> SUFFICES ASSUME NEW t \in Tokens PROVE Users!FetchAt(t)'
  BY DEF Users!FetchInv
<1>1. Users!FetchAt(t)
  BY DEF Users!FetchInv
<1>2. CASE t = Users!Token(r)
  BY <1>2
<1>3. CASE t # Users!Token(r)
  BY <1>1, <1>3, OtherToken
<1>4. QED
  BY <1>2, <1>3

LEMMA TroubleMet ==
  ASSUME troubles \in [Tokens -> Nat], NEW t \in Tokens,
         troubles' = troubles \/ Users!Trouble(t)
  PROVE  /\ troubles' \in [Tokens -> Nat]
         /\ \A u \in Tokens \ {t} : troubles'[u] = troubles[u]
         /\ troubles'[t] = troubles[t] + (IF troubles' = troubles THEN 0 ELSE 1)
BY DEF Users!Trouble

Working == {"again", "ask", "store"}
Places ==
  Working \cup {"new", "lock", "unlock", "unwind", "panic", "handler", "answer", "done"}

\* A request that neither was nor is working under the lock does not count.
LEMMA QuietStep ==
  ASSUME Users!RequestsKnown, Users!TypeOK, Users!FetchInv, NEW r \in Requests,
         profile' = profile, cache' = cache, holder' = holder, renewing' = renewing,
         fetches' = fetches, \A q \in Requests \ {r} : pc'[q] = pc[q],
         \/ troubles' = troubles
         \/ Users!Token(r) \in Tokens /\ Users!Trouble(Users!Token(r)),
         pc[r] \notin Working, pc'[r] \notin Working
  PROVE  Users!FetchInv'
<1>1. /\ \A u \in Tokens \ {Users!Token(r)} : troubles'[u] = troubles[u]
      /\ Users!Token(r) \in Tokens => troubles'[Users!Token(r)] >= troubles[Users!Token(r)]
      /\ troubles \in [Tokens -> Nat] /\ troubles' \in [Tokens -> Nat]
  <2>1. troubles \in [Tokens -> Nat]
    BY DEF Users!TypeOK
  <2>2. CASE troubles' = troubles
    BY <2>1, <2>2
  <2>3. CASE Users!Token(r) \in Tokens /\ Users!Trouble(Users!Token(r))
    BY <2>1, <2>3, TroubleMet
  <2>4. QED
    BY <2>2, <2>3
<1>2. OfRequest(r)
  BY <1>1 DEF OfRequest, Users!TypeOK
<1>3. ASSUME NEW t \in Tokens, t = Users!Token(r) PROVE Users!FetchAt(t)'
  <2>1. Users!FetchAt(t)
    BY DEF Users!FetchInv
  <2>2. Users!Askers(t)' = Users!Askers(t)
    BY DEF Working, Users!Askers, Users!Token
  <2>3. holder[t] \in renewing => holder[t] \in Requests
    BY DEF Users!TypeOK
  <2>g. \A q \in Requests : pc'[q] \in Working <=> pc[q] \in Working
    OBVIOUS
  <2>4. Users!Guarded(t)' <=> Users!Guarded(t)
    BY <2>3, <2>g DEF Users!Guarded, Working
  <2>5. Users!Open(t)' = Users!Open(t) /\ Users!Open(t) \in Nat
    BY <2>4 DEF Users!Open
  <2>6. Cardinality(Users!Askers(t)) \in Nat
    BY AskersFinite
  <2>7. (holder[t] # None => Users!Token(holder[t]) = t)'
    BY <2>1 DEF Users!FetchAt, Users!Token
  <2>8. fetches[t] \in Nat /\ troubles[t] \in Nat /\ troubles'[t] \in Nat
    BY <1>1 DEF Users!TypeOK
  <2>t. fetches[t] + Cardinality(Users!Askers(t)) + Users!Open(t) <= 1 + troubles[t]
    BY <2>1, SameCount DEF Users!FetchAt
  <2>r. troubles[t] <= troubles'[t]
    BY <1>1, <1>3, <2>8
  <2>9. fetches'[t] + Cardinality(Users!Askers(t)') + Users!Open(t)' <= 1 + troubles'[t]
    BY <2>r, <2>t, <2>2, <2>5, <2>6, <2>8
  <2>10. QED
    BY <2>7, <2>9, SameCount DEF Users!FetchAt
<1>4. QED
  BY <1>2, <1>3, OwnToken

\* The steps under the lock, by what they do to the sum of FetchAt.
LEMMA CountedStep ==
  ASSUME Users!RequestsKnown, Users!TypeOK, Users!FetchInv, NEW r \in Requests, OfRequest(r),
         NEW t \in Tokens, t = Users!Token(r), cache'[t] = cache[t],
         NEW f \in Nat, fetches'[t] = fetches[t] + f,
         NEW d \in Nat, troubles'[t] = troubles[t] + d,
         (holder[t] # None => Users!Token(holder[t]) = t)',
         f + (IF r \in Users!Askers(t)' THEN 1 ELSE 0) + Users!Open(t)'
           <= d + (IF r \in Users!Askers(t) THEN 1 ELSE 0) + Users!Open(t)
  PROVE  Users!FetchInv'
<1> DEFINE A == Cardinality(Users!Askers(t))
           B == Cardinality(Users!Askers(t)')
<1>1. Users!FetchAt(t)
  BY DEF Users!FetchInv
<1>2. A \in Nat /\ B \in Nat
  BY AskersFinite
<1>3. B + (IF r \in Users!Askers(t) THEN 1 ELSE 0) = A + (IF r \in Users!Askers(t)' THEN 1 ELSE 0)
  BY AskersCounted
<1>4. fetches[t] \in Nat /\ troubles[t] \in Nat
  BY DEF Users!TypeOK
<1>5. Users!Open(t) \in Nat /\ Users!Open(t)' \in Nat
  BY DEF Users!Open
<1>6. fetches[t] + A + Users!Open(t) <= 1 + troubles[t]
  BY <1>1, SameCount DEF Users!FetchAt
<1> HIDE DEF A, B
<1>7. fetches'[t] + B + Users!Open(t)' <= 1 + troubles'[t]
  BY <1>2, <1>3, <1>4, <1>5, <1>6
<1>8. fetches'[t] + Cardinality(Users!Askers(t)') + Users!Open(t)' <= 1 + troubles'[t]
  BY <1>7 DEF B
<1>9. Users!FetchAt(t)'
  BY <1>8, SameCount DEF Users!FetchAt
<1>10. QED
  BY <1>9, OwnToken

\* Each failure and lost lock lets the user be asked for once more, and nothing else does.
LEMMA FetchStep ==
  ASSUME Users!RequestsKnown, Users!TypeOK, Users!UserInv, Users!FetchInv, [Users!Next]_Users!vars
  PROVE  Users!FetchInv'
<1> USE DEF Users!Goto, Users!ToHandler, Users!request, Users!redis, Users!history
<1>1. ASSUME NEW r \in Requests, pc[r] \in Users!Locking \/ r \in renewing
      PROVE  Users!Token(r) \in Tokens
  BY <1>1, Zenon DEF Users!UserInv, Users!UserAt
<1>2. /\ None \notin Requests /\ None \notin renewing /\ renewing \subseteq Requests
      /\ holder \in [Tokens -> Requests \cup {None}] /\ troubles \in [Tokens -> Nat]
      /\ fetches \in [Tokens -> Nat] /\ pc \in [Requests -> Places]
  BY DEF Users!RequestsKnown, Users!TypeOK, Places, Working
<1>3. \A t \in Tokens : holder[t] # None => Users!Token(holder[t]) = t
  BY DEF Users!FetchInv, Users!FetchAt
<1>t. profile' = profile => \A r : Users!Token(r)' = Users!Token(r)
  BY DEF Users!Token
<1>4. ASSUME NEW r \in Requests,
             Users!Resolve(r) \/ Users!FixedUser(r) \/ Users!NoToken(r) \/ Users!Recover(r)
      PROVE  Users!FetchInv'
  <2>1. /\ profile' = profile /\ cache' = cache /\ holder' = holder /\ renewing' = renewing
        /\ fetches' = fetches /\ troubles' = troubles
        /\ pc[r] \notin Working /\ pc'[r] \notin Working
        /\ \A q \in Requests \ {r} : pc'[q] = pc[q]
    BY <1>2, <1>4
       DEF Working, Users!Resolve, Users!FixedUser, Users!NoToken, Users!Recover
  <2>2. QED
    BY <2>1, QuietStep
<1>5. ASSUME NEW r \in Requests, Users!Look(r) \/ Users!LockFails(r) PROVE Users!FetchInv'
  <2>1. Users!Token(r) \in Tokens
    BY <1>1, <1>5, TokensKnown DEF Users!Look, Users!LockFails, Users!Locking
  <2>2. /\ profile' = profile /\ cache' = cache /\ holder' = holder /\ renewing' = renewing
        /\ fetches' = fetches /\ (troubles' = troubles \/ Users!Trouble(Users!Token(r)))
        /\ pc[r] \notin Working /\ pc'[r] \notin Working
        /\ \A q \in Requests \ {r} : pc'[q] = pc[q]
    BY <1>2, <1>5 DEF Working, Users!Look, Users!LockFails, Users!Missed
  <2>3. QED
    BY <2>1, <2>2, QuietStep
<1>6. ASSUME NEW r \in Requests, Users!TakeLock(r) PROVE Users!FetchInv'
  <2> DEFINE t == Users!Token(r)
  <2>1. t \in Tokens
    BY <1>1, <1>6 DEF Users!TakeLock, Users!Locking
  <2>2. OfRequest(r) /\ fetches' = fetches /\ troubles' = troubles /\ cache' = cache
    BY <1>2, <1>6, <2>1 DEF OfRequest, Users!TakeLock
  <2>3. PICK u \in Tokens : u = t
    BY <2>1
  <2>4. (holder[u] # None => Users!Token(holder[u]) = u)'
    BY <1>2, <1>6, <2>1, <2>3, <1>t DEF Users!TakeLock
  <2>5. r \notin Users!Askers(u) /\ ~Users!Guarded(u)
    BY <1>2, <1>6, <2>3 DEF Users!TakeLock, Users!Askers, Users!Guarded
  <2>6. Users!Guarded(u)'
    BY <1>2, <1>6, <2>3 DEF Users!TakeLock, Users!Guarded
  <2>7. r \in Users!Askers(u)' => cache[u] = None
    BY <1>2, <1>6, <2>3 DEF Users!TakeLock, Users!Askers
  <2>8. 0 + (IF r \in Users!Askers(u)' THEN 1 ELSE 0) + Users!Open(u)'
          <= 0 + (IF r \in Users!Askers(u) THEN 1 ELSE 0) + Users!Open(u)
    BY <2>5, <2>6, <2>7 DEF Users!Open
  <2>9. fetches'[u] = fetches[u] + 0 /\ troubles'[u] = troubles[u] + 0 /\ cache'[u] = cache[u]
    BY <1>2, <2>2
  <2>10. QED
    BY <2>2, <2>3, <2>4, <2>8, <2>9, CountedStep
<1>7. ASSUME NEW r \in Requests, Users!LookAgain(r) PROVE Users!FetchInv'
  <2>1. Users!Token(r) \in Tokens
    BY <1>1, <1>7 DEF Users!LookAgain, Users!Locking
  <2>2. PICK t \in Tokens : t = Users!Token(r)
    BY <2>1
  <2>3. /\ profile' = profile /\ cache' = cache /\ holder' = holder /\ renewing' = renewing
        /\ fetches' = fetches /\ (troubles' = troubles \/ Users!Trouble(t))
        /\ pc[r] = "again" /\ (pc'[r] = "unlock" \/ pc'[r] = "ask")
        /\ \A q \in Requests \ {r} : pc'[q] = pc[q]
    BY <1>2, <1>7, <2>2 DEF Users!LookAgain, Users!Missed
  <2>4. \/ pc'[r] = "unlock" /\ troubles' = troubles /\ cache[t] # None
        \/ pc'[r] = "ask" /\ cache[t] = None /\ troubles' = troubles
        \/ pc'[r] = "ask" /\ cache[t] # None /\ Users!Trouble(t)
    BY <1>2, <1>7, <2>2 DEF Users!LookAgain, Users!Missed, Users!Cached
  <2>5. OfRequest(r)
    BY <1>2, <2>2, <2>3, TroubleMet DEF OfRequest
  <2>6. (holder[t] # None => Users!Token(holder[t]) = t)'
    BY <1>3, <1>t, <2>3
  <2>7. cache[t] = None => (Users!Guarded(t)' <=> Users!Guarded(t))
    BY <1>2, <2>3, <2>4 DEF Users!Guarded
  <2>8. Users!Open(t)' = Users!Open(t) /\ Users!Open(t) \in Nat
    BY <2>3, <2>7 DEF Users!Open
  <2>9. r \in Users!Askers(t)' <=> pc'[r] = "ask"
    BY <1>t, <2>2, <2>3 DEF Users!Askers
  <2>10. r \in Users!Askers(t) <=> cache[t] = None
    BY <2>2, <2>3 DEF Users!Askers
  <2>11. PICK d \in {0, 1} : troubles'[t] = troubles[t] + d /\ (cache[t] # None /\ pc'[r] = "ask" => d = 1)
    BY <1>2, <2>4, TroubleMet DEF Users!Trouble
  <2>12. 0 + (IF r \in Users!Askers(t)' THEN 1 ELSE 0) + Users!Open(t)'
           <= d + (IF r \in Users!Askers(t) THEN 1 ELSE 0) + Users!Open(t)
    BY <2>4, <2>8, <2>9, <2>10, <2>11
  <2>13. fetches'[t] = fetches[t] + 0 /\ cache'[t] = cache[t]
    BY <1>2, <2>3
  <2>14. QED
    BY <2>2, <2>5, <2>6, <2>11, <2>12, <2>13, CountedStep
<1>8. ASSUME NEW r \in Requests, Users!Ask(r) PROVE Users!FetchInv'
  <2>1. Users!Token(r) \in Tokens
    BY <1>1, <1>8 DEF Users!Ask, Users!Asks, Users!Locking
  <2>2. PICK t \in Tokens : t = Users!Token(r)
    BY <2>1
  <2>3. /\ profile' = profile /\ cache' = cache /\ holder' = holder /\ renewing' = renewing
        /\ fetches' = [fetches EXCEPT ![t] = @ + 1]
        /\ pc[r] = "ask"
        /\ \/ pc'[r] = "store" /\ troubles' = troubles
           \/ (pc'[r] = "unlock" \/ pc'[r] = "unwind") /\ Users!Trouble(t)
        /\ \A q \in Requests \ {r} : pc'[q] = pc[q]
    BY <1>2, <1>8, <2>2 DEF Users!Ask, Users!Asks
  <2>4. OfRequest(r)
    BY <1>2, <2>2, <2>3, TroubleMet DEF OfRequest
  <2>5. (holder[t] # None => Users!Token(holder[t]) = t)'
    BY <1>3, <1>t, <2>3
  <2>6. pc'[r] = "store" => (Users!Guarded(t)' <=> Users!Guarded(t))
    BY <1>2, <2>3 DEF Users!Guarded
  <2>7. /\ Users!Open(t)' \in {0, 1} /\ Users!Open(t) \in {0, 1}
        /\ pc'[r] = "store" => Users!Open(t)' = Users!Open(t)
    BY <2>3, <2>6 DEF Users!Open
  <2>8. r \notin Users!Askers(t)' /\ r \in Users!Askers(t)
    BY <2>2, <2>3 DEF Users!Askers
  <2>9. PICK d \in {0, 1} : troubles'[t] = troubles[t] + d /\ (pc'[r] # "store" => d = 1)
    BY <1>2, <2>3, TroubleMet DEF Users!Trouble
  <2>10. 1 + (IF r \in Users!Askers(t)' THEN 1 ELSE 0) + Users!Open(t)'
           <= d + (IF r \in Users!Askers(t) THEN 1 ELSE 0) + Users!Open(t)
    BY <2>7, <2>8, <2>9
  <2>11. fetches'[t] = fetches[t] + 1 /\ cache'[t] = cache[t]
    BY <1>2, <2>3
  <2>12. QED
    BY <2>2, <2>4, <2>5, <2>9, <2>10, <2>11, CountedStep
<1>9. ASSUME NEW r \in Requests, Users!Unlock(r) \/ Users!Unwind(r) PROVE Users!FetchInv'
  <2>1. Users!Token(r) \in Tokens
    BY <1>1, <1>9 DEF Users!Unlock, Users!Unwind, Users!Locking
  <2>2. PICK t \in Tokens : t = Users!Token(r)
    BY <2>1
  <2>3. /\ profile' = profile /\ cache' = cache /\ fetches' = fetches
        /\ \/ /\ holder[t] = r /\ holder' = [holder EXCEPT ![t] = None]
              /\ renewing' = renewing \ {r}
           \/ holder' = holder /\ renewing' = renewing
        /\ (troubles' = troubles \/ Users!Trouble(t))
        /\ pc[r] \notin Working /\ pc'[r] \notin Working
        /\ \A q \in Requests \ {r} : pc'[q] = pc[q]
    BY <1>2, <1>9, <2>2 DEF Users!Unlock, Users!Unwind, Users!Release, Working
  <2>4. OfRequest(r)
    BY <1>2, <2>2, <2>3, TroubleMet DEF OfRequest
  <2>5. (holder[t] # None => Users!Token(holder[t]) = t)'
    BY <1>2, <1>3, <1>t, <2>3
  <2>6. \A q \in Requests : pc'[q] \in Working <=> pc[q] \in Working
    BY <2>3
  <2>7. Users!Guarded(t)' <=> Users!Guarded(t)
    BY <1>2, <2>3, <2>6 DEF Users!Guarded, Working
  <2>8. Users!Open(t)' = Users!Open(t) /\ Users!Open(t) \in Nat
    BY <2>3, <2>7 DEF Users!Open
  <2>9. r \notin Users!Askers(t)' /\ r \notin Users!Askers(t)
    BY <2>3 DEF Users!Askers, Working
  <2>10. PICK d \in {0, 1} : troubles'[t] = troubles[t] + d
    BY <1>2, <2>3, TroubleMet
  <2>11. 0 + (IF r \in Users!Askers(t)' THEN 1 ELSE 0) + Users!Open(t)'
           <= d + (IF r \in Users!Askers(t) THEN 1 ELSE 0) + Users!Open(t)
    BY <2>8, <2>9, <2>10
  <2>12. fetches'[t] = fetches[t] + 0 /\ cache'[t] = cache[t]
    BY <1>2, <2>3
  <2>13. QED
    BY <2>2, <2>4, <2>5, <2>10, <2>11, <2>12, CountedStep
<1>10. ASSUME NEW r \in Requests, Users!Renew(r) PROVE Users!FetchInv'
  <2>1. Users!Token(r) \in Tokens
    BY <1>1, <1>10 DEF Users!Renew
  <2>2. PICK t \in Tokens : t = Users!Token(r)
    BY <2>1
  <2>3. /\ profile' = profile /\ cache' = cache /\ fetches' = fetches /\ pc' = pc /\ r \in renewing
        /\ \/ /\ holder[t] = None /\ holder' = [holder EXCEPT ![t] = r]
              /\ renewing' = renewing /\ troubles' = troubles
           \/ /\ IF holder[t] \in {None, r} THEN Users!Trouble(t) ELSE troubles' = troubles
              /\ renewing' = renewing \ {r} /\ holder' = holder
    BY <1>10, <2>2 DEF Users!Renew
  <2>4. OfRequest(r)
    BY <1>2, <2>2, <2>3, TroubleMet DEF OfRequest
  <2>5. (holder[t] # None => Users!Token(holder[t]) = t)'
    BY <1>2, <1>3, <1>t, <2>2, <2>3
  <2>6. PICK d \in {0, 1} : troubles'[t] = troubles[t] + d /\ (holder'[t] = r /\ r \notin renewing' => d = 1)
    BY <1>2, <2>3, TroubleMet DEF Users!Trouble
  <2>7. r \in Users!Askers(t)' <=> r \in Users!Askers(t)
    BY <1>t, <2>3 DEF Users!Askers
  <2>8. Users!Guarded(t) => Users!Guarded(t)' \/ d = 1
    BY <1>2, <2>3, <2>6 DEF Users!Guarded
  <2>9. Users!Open(t)' <= d + Users!Open(t) /\ Users!Open(t) \in Nat /\ Users!Open(t)' \in Nat
    BY <2>3, <2>8 DEF Users!Open
  <2>10. 0 + (IF r \in Users!Askers(t)' THEN 1 ELSE 0) + Users!Open(t)'
           <= d + (IF r \in Users!Askers(t) THEN 1 ELSE 0) + Users!Open(t)
    BY <2>7, <2>9
  <2>11. fetches'[t] = fetches[t] + 0 /\ cache'[t] = cache[t]
    BY <1>2, <2>3
  <2>12. QED
    BY <2>2, <2>4, <2>5, <2>6, <2>10, <2>11, CountedStep
<1>11. ASSUME NEW t \in Tokens, Users!Expire(t) PROVE Users!FetchInv'
  <2>1. PICK r \in Requests : holder[t] = r
    BY <1>2, <1>11 DEF Users!Expire
  <2>2. t = Users!Token(r)
    BY <1>2, <1>3, <2>1
  <2>3. /\ profile' = profile /\ cache' = cache /\ fetches' = fetches /\ pc' = pc
        /\ holder' = [holder EXCEPT ![t] = None] /\ renewing' = renewing
        /\ IF r \in renewing \cap Users!Inside THEN Users!Trouble(t) ELSE troubles' = troubles
    BY <1>11, <2>1 DEF Users!Expire
  <2>4. OfRequest(r)
    BY <1>2, <2>2, <2>3, TroubleMet DEF OfRequest
  <2>5. (holder[t] # None => Users!Token(holder[t]) = t)'
    BY <1>2, <2>3
  <2>6. PICK d \in {0, 1} : troubles'[t] = troubles[t] + d /\ (r \in renewing \cap Users!Inside => d = 1)
    BY <1>2, <2>3, TroubleMet DEF Users!Trouble
  <2>7. r \in Users!Askers(t)' <=> r \in Users!Askers(t)
    BY <1>t, <2>3 DEF Users!Askers
  <2>8. Users!Guarded(t) => d = 1
    BY <2>1, <2>6 DEF Users!Guarded, Users!Inside
  <2>9. Users!Open(t)' <= d + Users!Open(t) /\ Users!Open(t) \in Nat /\ Users!Open(t)' \in Nat
    BY <2>3, <2>8 DEF Users!Open
  <2>10. 0 + (IF r \in Users!Askers(t)' THEN 1 ELSE 0) + Users!Open(t)'
           <= d + (IF r \in Users!Askers(t) THEN 1 ELSE 0) + Users!Open(t)
    BY <2>7, <2>9
  <2>11. fetches'[t] = fetches[t] + 0 /\ cache'[t] = cache[t]
    BY <1>2, <2>3
  <2>12. QED
    BY <2>2, <2>4, <2>5, <2>6, <2>10, <2>11, CountedStep
<1>12. ASSUME NEW r \in Requests, Users!Store(r) PROVE Users!FetchInv'
  <2>1. Users!Token(r) \in Tokens
    BY <1>1, <1>12 DEF Users!Store, Users!Locking
  <2>2. PICK t \in Tokens : t = Users!Token(r)
    BY <2>1
  <2>3. /\ profile' = profile /\ fetches' = fetches /\ holder' = holder /\ renewing' = renewing
        /\ \/ cache' = [cache EXCEPT ![t] = t] /\ troubles' = troubles
           \/ cache' = cache /\ Users!Trouble(t)
        /\ pc[r] = "store" /\ pc'[r] = "unlock"
        /\ \A q \in Requests \ {r} : pc'[q] = pc[q]
    BY <1>2, <1>12, <2>2 DEF Users!Store
  <2>c. cache \in [Tokens -> Tokens \cup {None}] /\ None \notin Tokens
    BY DEF Users!TypeOK, Users!RequestsKnown
  <2>4. OfRequest(r)
    BY <1>2, <2>c, <2>2, <2>3, TroubleMet DEF OfRequest
  <2>5. (holder[t] # None => Users!Token(holder[t]) = t)'
    BY <1>3, <1>t, <2>3
  <2>6. Users!Askers(t)' \in SUBSET Users!Askers(t)
    BY <1>t, <2>c, <2>3 DEF Users!Askers
  <2>7. Cardinality(Users!Askers(t)') <= Cardinality(Users!Askers(t))
    BY <2>6, AskersFinite, FS_Subset
  <2>8. /\ Cardinality(Users!Askers(t)) \in Nat /\ Cardinality(Users!Askers(t)') \in Nat
        /\ fetches[t] \in Nat /\ troubles[t] \in Nat
    BY <1>2, AskersFinite
  <2>9. PICK d \in {0, 1} : troubles'[t] = troubles[t] + d /\ (cache'[t] = None => d = 1)
    BY <1>2, <2>c, <2>3, TroubleMet DEF Users!Trouble
  <2>10. Users!Open(t)' <= d /\ Users!Open(t) \in Nat /\ Users!Open(t)' \in Nat
    BY <2>9 DEF Users!Open
  <2>11. fetches[t] + Cardinality(Users!Askers(t)) + Users!Open(t) <= 1 + troubles[t]
    BY SameCount DEF Users!FetchInv, Users!FetchAt
  <2>12. fetches'[t] + Cardinality(Users!Askers(t)') + Users!Open(t)' <= 1 + troubles'[t]
    BY <2>3, <2>7, <2>8, <2>9, <2>10, <2>11
  <2>13. Users!FetchAt(t)'
    BY <2>5, <2>12, SameCount DEF Users!FetchAt
  <2>14. QED
    BY <2>2, <2>4, <2>13, OwnToken
<1>13. CASE UNCHANGED Users!vars
  BY <1>13 DEF Users!vars, Users!FetchInv, Users!FetchAt, Users!Askers, Users!Open, Users!Guarded, Users!Token
<1>14. QED
  BY <1>4, <1>5, <1>6, <1>7, <1>8, <1>9, <1>10, <1>11, <1>12, <1>13
     DEF Users!Next, Users!Lock, Users!Middleware, Users!Works

-----------------------------------------------------------------------------
\* The JSON-RPC client.

\* The next place is one of the list it is computed for.
LEMMA FollowingBelow ==
  ASSUME NEW i \in Nat, NEW n \in Nat, n > 0
  PROVE  Rpc!Following(i, n) \in Nat /\ Rpc!Following(i, n) < n
BY DEF Rpc!Following

\* Whatever the list does, a call that has not been overtaken finds the node it looks for.
LEMMA SelectorStep ==
  ASSUME Rpc!SelectorInv, [Rpc!Next]_Rpc!vars
  PROVE  Rpc!SelectorInv'
<1> USE DEF Rpc!SelectorInv, Rpc!Stages, Rpc!Goto, Rpc!Returns, Rpc!selector, Rpc!list
<1>1. CASE Rpc!Change
  BY <1>1 DEF Rpc!Change
<1>2. ASSUME NEW c \in Requests, Rpc!Begin(c) PROVE Rpc!SelectorInv'
  BY <1>2 DEF Rpc!Begin
<1>3. ASSUME NEW c \in Requests, Rpc!GetServices(c) PROVE Rpc!SelectorInv'
  BY <1>3 DEF Rpc!GetServices
<1>4. ASSUME NEW c \in Requests, Rpc!Write(c) PROVE Rpc!SelectorInv'
  <2>1. index' \in Nat /\ index' < services[c] /\ length' = services[c]
    BY <1>4, FollowingBelow DEF Rpc!Write
  <2>2. \A d \in Requests : d # c /\ at[d] = "pick" => d \in stale'
    BY <1>4 DEF Rpc!Write, Rpc!Overtaken
  <2>3. QED
    BY <1>4, <2>1, <2>2 DEF Rpc!Write
<1>5. ASSUME NEW c \in Requests, Rpc!Pick(c) PROVE Rpc!SelectorInv'
  BY <1>5 DEF Rpc!Pick
<1>6. ASSUME NEW c \in Requests, Rpc!GetRequestContext(c) \/ Rpc!Post(c) PROVE Rpc!SelectorInv'
  BY <1>6 DEF Rpc!GetRequestContext, Rpc!Post
<1>7. CASE UNCHANGED Rpc!vars
  BY <1>7 DEF Rpc!vars
<1>8. QED
  BY <1>1, <1>2, <1>3, <1>4, <1>5, <1>6, <1>7 DEF Rpc!Next, Rpc!Step

LEMMA RpcTypeStep ==
  ASSUME Rpc!TypeOK, Rpc!SelectorInv, [Rpc!Next]_Rpc!vars
  PROVE  Rpc!TypeOK'
<1>a. IsFiniteSet(Requests) /\ MaxNodes \in Nat \ {0} /\ MaxChanges \in Nat
  BY Bounds
<1> USE DEF Rpc!TypeOK, Rpc!Stages, Rpc!Goto, Rpc!Returns, Rpc!selector, Rpc!list
<1>p. \A i \in Rpc!Places : i \in Nat /\ i < MaxNodes
  BY <1>a DEF Rpc!Places
<1>q. \A i \in Nat : i < MaxNodes => i \in Rpc!Places
  BY <1>a DEF Rpc!Places
<1>1. CASE Rpc!Change
  BY <1>1, <1>a DEF Rpc!Change
<1>2. ASSUME NEW c \in Requests, Rpc!Begin(c) PROVE Rpc!TypeOK'
  BY <1>2 DEF Rpc!Begin
<1>3. ASSUME NEW c \in Requests, Rpc!GetServices(c) PROVE Rpc!TypeOK'
  BY <1>3 DEF Rpc!GetServices
<1>4. ASSUME NEW c \in Requests, Rpc!Write(c) PROVE Rpc!TypeOK'
  <2>1. services[c] \in 1..MaxNodes /\ read[c] \in Nat
    BY <1>4, <1>p DEF Rpc!Write, Rpc!SelectorInv
  <2>2. index' \in Rpc!Places
    BY <1>4, <1>a, <1>q, <2>1, FollowingBelow DEF Rpc!Write
  <2>3. Rpc!Overtaken(c) \in SUBSET Requests
    BY DEF Rpc!Overtaken
  <2>4. Cardinality(Rpc!Overtaken(c)) \in Nat
    BY <1>a, <2>3, FS_Subset, FS_CardinalityType
  <2>5. races' \in Nat
    BY <1>4, <2>4, SameCount DEF Rpc!Write
  <2>6. stale' \subseteq Requests
    BY <1>4, <2>3 DEF Rpc!Write
  <2>7. QED
    BY <1>4, <2>1, <2>2, <2>5, <2>6 DEF Rpc!Write
<1>5. ASSUME NEW c \in Requests, Rpc!Pick(c) PROVE Rpc!TypeOK'
  <2>1. picks' \in [Rpc!Places -> Nat]
    BY <1>5 DEF Rpc!Pick
  <2>2. QED
    BY <1>5, <2>1 DEF Rpc!Pick
<1>6. ASSUME NEW c \in Requests, Rpc!GetRequestContext(c) \/ Rpc!Post(c) PROVE Rpc!TypeOK'
  BY <1>6 DEF Rpc!GetRequestContext, Rpc!Post
<1>7. CASE UNCHANGED Rpc!vars
  BY <1>7 DEF Rpc!vars
<1>8. QED
  BY <1>1, <1>2, <1>3, <1>4, <1>5, <1>6, <1>7 DEF Rpc!Next, Rpc!Step

-----------------------------------------------------------------------------
\* How often a place is picked.

At(x, i) == IF i = x THEN 1 ELSE 0
Up(x, i) == IF 1 <= i /\ i <= x THEN 1 ELSE 0

\* The next place moves every place of the list alike, any other two apart by one at most.
LEMMA TurnFollows ==
  ASSUME NEW n \in Nat, NEW x \in 0..n - 1, NEW i \in 0..n - 1, NEW j \in 0..n - 1
  PROVE  LET y == Rpc!Following(x, n)
         IN  At(y, i) + Up(x, i) + Up(y, j) = At(y, j) + Up(x, j) + Up(y, i)
BY DEF Rpc!Following, At, Up

LEMMA TurnJumps ==
  ASSUME NEW x \in Nat, NEW y \in Nat, NEW i \in Nat, NEW j \in Nat
  PROVE  At(y, i) + Up(x, i) + Up(y, j) <= At(y, j) + Up(x, j) + Up(y, i) + 1
BY DEF At, Up

\* A write by a call makes those stale that it overtakes, and itself no longer.
LEMMA StaleCounted ==
  ASSUME stale \subseteq Requests, NEW c \in Requests, Rpc!Write(c)
  PROVE  /\ Cardinality(stale) \in Nat /\ Cardinality(stale') \in Nat
         /\ Cardinality(Rpc!Overtaken(c)) \in Nat
         /\ Cardinality(stale') + (IF c \in stale THEN 1 ELSE 0)
              <= Cardinality(stale) + Cardinality(Rpc!Overtaken(c))
         /\ \A d \in Rpc!Overtaken(c) : Cardinality(Rpc!Overtaken(c)) >= 1
<1> DEFINE O == Rpc!Overtaken(c)
           S == stale \ {c}
<1>1. O \in SUBSET Requests /\ S \in SUBSET Requests /\ stale \in SUBSET Requests
  BY DEF Rpc!Overtaken
<1>2. IsFiniteSet(O) /\ IsFiniteSet(S) /\ IsFiniteSet(stale)
  BY <1>1, Bounds, FS_Subset
<1>3. Cardinality(O) \in Nat /\ Cardinality(S) \in Nat /\ Cardinality(stale) \in Nat
  BY <1>2, FS_CardinalityType
<1>4. stale' = S \cup O
  BY DEF Rpc!Write
<1>5. /\ IsFiniteSet(S \cup O)
      /\ Cardinality(S \cup O) = Cardinality(S) + Cardinality(O) - Cardinality(S \cap O)
  BY <1>2, FS_Union
<1>6. Cardinality(S \cap O) \in Nat /\ Cardinality(S \cup O) \in Nat
  BY <1>2, <1>5, FS_Intersection, FS_CardinalityType
<1>7. Cardinality(S) = IF c \in stale THEN Cardinality(stale) - 1 ELSE Cardinality(stale)
  BY <1>2, FS_RemoveElement
<1>8. \A d \in O : Cardinality(O) >= 1
  BY <1>2, <1>3, FS_EmptySet
<1> HIDE DEF O, S
<1>9. /\ Cardinality(stale') \in Nat
      /\ Cardinality(stale') + (IF c \in stale THEN 1 ELSE 0) <= Cardinality(stale) + Cardinality(O)
  BY <1>3, <1>4, <1>5, <1>6, <1>7
<1>10. QED
  BY <1>3, <1>8, <1>9 DEF O

\* A place looked at through the state before and after: what Level says.
LEMMA LevelAs ==
  ASSUME NEW i, NEW j
  PROVE  Rpc!Level(i, j) <=>
           picks[i] + Rpc!Coming(i) + Up(index, j) + Cardinality(stale)
             <= picks[j] + Rpc!Coming(j) + Up(index, i) + 2 * races
BY SameCount DEF Rpc!Level, Rpc!Turn, Up

\* Only a write by a call that was overtaken, one that overtakes, and the pick of a call
\* that was overtaken move the places apart.
LEMMA BalanceStep ==
  ASSUME Rpc!TypeOK, Rpc!SelectorInv, Rpc!BalanceInv, [Rpc!Next]_Rpc!vars
  PROVE  Rpc!BalanceInv'
<1> USE DEF Rpc!Goto, Rpc!Returns, Rpc!selector, Rpc!list
<1>a. IsFiniteSet(Requests) /\ IsFiniteSet(stale) /\ stale \subseteq Requests
  BY Bounds, FS_Subset DEF Rpc!TypeOK
<1>b. Cardinality(stale) \in Nat
  BY <1>a, FS_CardinalityType
<1>t. /\ index \in Nat /\ nodes \in Nat /\ nodes <= MaxNodes /\ MaxNodes \in Nat
      /\ at \in [Requests -> Rpc!Stages] /\ read \in [Requests -> Nat]
      /\ services \in [Requests -> Nat] /\ races \in Nat /\ changes \in Nat
      /\ picks \in [Rpc!Places -> Nat] /\ \A i \in 0..nodes - 1 : i \in Rpc!Places /\ i \in Nat
  BY Bounds DEF Rpc!TypeOK, Rpc!SelectorInv, Rpc!Places
\* Steps that leave the selector and no place that a call picks.
<1>s. ASSUME UNCHANGED <<index, length, stale, picks, races, nodes, changes>>,
             NEW c \in Requests, \A d \in Requests \ {c} : at'[d] = at[d],
             at[c] # "pick" /\ at'[c] # "pick"
      PROVE  \A i, j \in 0..nodes - 1 : Rpc!Level(i, j) => Rpc!Level(i, j)'
  BY <1>s DEF Rpc!Level, Rpc!Coming, Rpc!Turn
<1>1. CASE Rpc!Change
  <2>1. changes' # 0
    BY <1>1, <1>t DEF Rpc!Change
  <2>2. QED
    BY <1>1, <2>1 DEF Rpc!Change, Rpc!BalanceInv
<1>2. ASSUME NEW c \in Requests, Rpc!Begin(c) PROVE Rpc!BalanceInv'
  <2>1. \A i, j \in 0..nodes - 1 : Rpc!Level(i, j) => Rpc!Level(i, j)'
    BY <1>2, <1>s, <1>t DEF Rpc!Begin
  <2>2. UNCHANGED <<index, nodes, changes, stale>>
    BY <1>2 DEF Rpc!Begin
  <2>3. /\ \A d, e \in Requests \ stale : at'[d] = "pick" /\ at'[e] = "pick" => d = e
        /\ \A d \in Requests \ stale : at'[d] \in {"list", "write"} => read'[d] = index
    BY <1>2, <1>t DEF Rpc!Begin, Rpc!BalanceInv
  <2>4. ASSUME changes = 0
        PROVE  /\ \A d \in stale : at'[d] \in {"list", "write", "pick"}
               /\ \A d \in Requests :
                    /\ at'[d] \in {"list", "write"} => read'[d] < nodes
                    /\ at'[d] \in {"write", "pick"} => services'[d] = nodes
    BY <1>2, <1>t, <1>a, <2>4 DEF Rpc!Begin, Rpc!BalanceInv
  <2>5. QED
    BY <2>1, <2>2, <2>3, <2>4 DEF Rpc!BalanceInv
<1>3. ASSUME NEW c \in Requests, Rpc!GetServices(c) PROVE Rpc!BalanceInv'
  <2>1. \A i, j \in 0..nodes - 1 : Rpc!Level(i, j) => Rpc!Level(i, j)'
    BY <1>3, <1>s, <1>t DEF Rpc!GetServices
  <2>2. UNCHANGED <<index, nodes, changes, stale>>
    BY <1>3 DEF Rpc!GetServices
  <2>3. /\ \A d, e \in Requests \ stale : at'[d] = "pick" /\ at'[e] = "pick" => d = e
        /\ \A d \in Requests \ stale : at'[d] \in {"list", "write"} => read'[d] = index
    BY <1>3, <1>t DEF Rpc!GetServices, Rpc!BalanceInv
  <2>4. ASSUME changes = 0
        PROVE  /\ \A d \in stale : at'[d] \in {"list", "write", "pick"}
               /\ \A d \in Requests :
                    /\ at'[d] \in {"list", "write"} => read'[d] < nodes
                    /\ at'[d] \in {"write", "pick"} => services'[d] = nodes
    BY <1>3, <1>t, <1>a, <2>4 DEF Rpc!GetServices, Rpc!BalanceInv
  <2>5. QED
    BY <2>1, <2>2, <2>3, <2>4 DEF Rpc!BalanceInv
<1>6. ASSUME NEW c \in Requests, Rpc!GetRequestContext(c) \/ Rpc!Post(c) PROVE Rpc!BalanceInv'
  <2>1. \A i, j \in 0..nodes - 1 : Rpc!Level(i, j) => Rpc!Level(i, j)'
    BY <1>6, <1>s, <1>t DEF Rpc!GetRequestContext, Rpc!Post
  <2>2. UNCHANGED <<index, nodes, changes, stale>>
    BY <1>6 DEF Rpc!GetRequestContext, Rpc!Post
  <2>3. /\ \A d, e \in Requests \ stale : at'[d] = "pick" /\ at'[e] = "pick" => d = e
        /\ \A d \in Requests \ stale : at'[d] \in {"list", "write"} => read'[d] = index
    BY <1>6, <1>t DEF Rpc!GetRequestContext, Rpc!Post, Rpc!BalanceInv
  <2>4. ASSUME changes = 0
        PROVE  /\ \A d \in stale : at'[d] \in {"list", "write", "pick"}
               /\ \A d \in Requests :
                    /\ at'[d] \in {"list", "write"} => read'[d] < nodes
                    /\ at'[d] \in {"write", "pick"} => services'[d] = nodes
    BY <1>6, <1>t, <1>a, <2>4 DEF Rpc!GetRequestContext, Rpc!Post, Rpc!BalanceInv
  <2>5. QED
    BY <2>1, <2>2, <2>3, <2>4 DEF Rpc!BalanceInv
<1>7. CASE UNCHANGED Rpc!vars
  BY <1>7 DEF Rpc!vars, Rpc!BalanceInv, Rpc!Level, Rpc!Coming, Rpc!Turn
<1>4. ASSUME NEW c \in Requests, Rpc!Write(c) PROVE Rpc!BalanceInv'
  <2> DEFINE O == Rpc!Overtaken(c)
             K == Cardinality(Rpc!Overtaken(c))
  <2>1. /\ at[c] = "write" /\ at' = [at EXCEPT ![c] = "pick"]
        /\ index' = Rpc!Following(read[c], services[c])
        /\ stale' = (stale \ {c}) \cup O /\ races' = races + K
        /\ UNCHANGED <<nodes, changes, read, services, picks>>
    BY <1>4, SameCount DEF Rpc!Write
  <2>2. /\ c \notin stale'
        /\ \A d \in Requests : d # c /\ at[d] \in {"list", "write", "pick"} => d \in stale'
    BY <2>1 DEF Rpc!Overtaken
  <2>3. \A d \in Requests \ stale' : at'[d] \in {"list", "write", "pick"} => d = c
    BY <1>t, <2>1, <2>2
  <2>4. /\ \A d, e \in Requests \ stale' : at'[d] = "pick" /\ at'[e] = "pick" => d = e
        /\ \A d \in Requests \ stale' : at'[d] \in {"list", "write"} => read'[d] = index'
    BY <1>t, <2>1, <2>3
  <2>5. ASSUME changes = 0
        PROVE  /\ index' < nodes'
               /\ \A d \in stale' : at'[d] \in {"list", "write", "pick"}
               /\ \A d \in Requests :
                    /\ at'[d] \in {"list", "write"} => read'[d] < nodes'
                    /\ at'[d] \in {"write", "pick"} => services'[d] = nodes'
    <3>1. services[c] = nodes /\ read[c] < nodes
      BY <2>1, <2>5 DEF Rpc!BalanceInv
    <3>2. index' < nodes
      BY <1>t, <2>1, <3>1, FollowingBelow
    <3>3. \A d \in stale' : at'[d] \in {"list", "write", "pick"}
      BY <1>t, <2>1, <2>5 DEF Rpc!BalanceInv, Rpc!Overtaken
    <3>4. \A d \in Requests :
            /\ at'[d] \in {"list", "write"} => read[d] < nodes
            /\ at'[d] \in {"write", "pick"} => services[d] = nodes
      BY <1>t, <2>1, <2>5, <3>1 DEF Rpc!BalanceInv
    <3>5. QED
      BY <2>1, <3>2, <3>3, <3>4
  <2>6. ASSUME changes = 0, NEW i \in 0..nodes - 1, NEW j \in 0..nodes - 1
        PROVE  Rpc!Level(i, j)'
    <3> DEFINE x == index
               y == index'
               S == Cardinality(stale)
               T == Cardinality(stale')
               P == Rpc!Coming(i)
               Q == Rpc!Coming(j)
    <3>1. services[c] = nodes /\ read[c] < nodes /\ x < nodes /\ (c \notin stale => read[c] = x)
      BY <2>1, <2>6 DEF Rpc!BalanceInv
    <3>2. y \in Nat /\ y < nodes
      BY <1>t, <2>1, <3>1, FollowingBelow
    <3>3. i \in Nat /\ j \in Nat /\ picks[i] \in Nat /\ picks[j] \in Nat
      BY <1>t
    <3>4. picks[i] + P + Up(x, j) + S <= picks[j] + Q + Up(x, i) + 2 * races
      BY <2>6, LevelAs DEF Rpc!BalanceInv
    <3>5. /\ S \in Nat /\ T \in Nat /\ K \in Nat /\ T + (IF c \in stale THEN 1 ELSE 0) <= S + K
          /\ \A d \in O : K >= 1
      BY <1>4, <1>a, StaleCounted
    <3>6. P \in {0, 1} /\ Q \in {0, 1} /\ Q <= K
      <4>1. ASSUME Q = 1 PROVE K >= 1
        <5>1. PICK d \in Requests \ stale : at[d] = "pick"
          BY <4>1 DEF Rpc!Coming
        <5>2. d \in O
          BY <2>1, <5>1 DEF Rpc!Overtaken
        <5>3. QED
          BY <3>5, <5>2
      <4>2. P \in {0, 1} /\ Q \in {0, 1}
        BY DEF Rpc!Coming
      <4>3. QED
        BY <3>5, <4>1, <4>2
    <3>7. Rpc!Coming(i)' = At(y, i) /\ Rpc!Coming(j)' = At(y, j)
      BY <1>t, <2>1, <2>2 DEF Rpc!Coming, At
    <3>8. /\ Up(x, i) \in Nat /\ Up(x, j) \in Nat /\ Up(y, i) \in Nat /\ Up(y, j) \in Nat
          /\ At(y, i) \in Nat /\ At(y, j) \in Nat
      BY DEF Up, At
    <3>9. IF c \in stale
            THEN At(y, i) + Up(x, i) + Up(y, j) <= At(y, j) + Up(x, j) + Up(y, i) + 1
            ELSE At(y, i) + Up(x, i) + Up(y, j) = At(y, j) + Up(x, j) + Up(y, i)
      BY <1>t, <2>1, <3>1, <3>2, <3>3, TurnFollows, TurnJumps
    <3> HIDE DEF S, T, P, Q, K
    <3>10. picks[i] + At(y, i) + Up(y, j) + T <= picks[j] + At(y, j) + Up(y, i) + 2 * (races + K)
      BY <1>t, <3>3, <3>4, <3>5, <3>6, <3>8, <3>9
    <3>11. picks'[i] + Rpc!Coming(i)' + Up(index, j)' + Cardinality(stale)'
             <= picks'[j] + Rpc!Coming(j)' + Up(index, i)' + 2 * races'
      BY <2>1, <3>7, <3>10 DEF T, Up
    <3>12. QED
      BY <3>11, SameCount DEF Rpc!Level, Rpc!Turn, Up
  <2>7. QED
    BY <2>1, <2>4, <2>5, <2>6 DEF Rpc!BalanceInv
<1>5. ASSUME NEW c \in Requests, Rpc!Pick(c) PROVE Rpc!BalanceInv'
  <2>1. /\ at[c] = "pick" /\ (at' = [at EXCEPT ![c] = "panic"] \/ at' = [at EXCEPT ![c] = "context"])
        /\ stale' = stale \ {c}
        /\ UNCHANGED <<index, nodes, changes, races, read, services>>
    BY <1>5 DEF Rpc!Pick
  <2>2. /\ \A d, e \in Requests \ stale' : at'[d] = "pick" /\ at'[e] = "pick" => d = e
        /\ \A d \in Requests \ stale' : at'[d] \in {"list", "write"} => read'[d] = index'
    BY <1>t, <2>1 DEF Rpc!BalanceInv
  <2>3. ASSUME changes = 0
        PROVE  /\ index' < nodes'
               /\ \A d \in stale' : at'[d] \in {"list", "write", "pick"}
               /\ \A d \in Requests :
                    /\ at'[d] \in {"list", "write"} => read'[d] < nodes'
                    /\ at'[d] \in {"write", "pick"} => services'[d] = nodes'
    BY <1>t, <1>a, <2>1, <2>3 DEF Rpc!BalanceInv
  <2>4. ASSUME changes = 0, NEW i \in 0..nodes - 1, NEW j \in 0..nodes - 1
        PROVE  Rpc!Level(i, j)'
    <3> DEFINE S == Cardinality(stale)
               T == Cardinality(stale')
               P == Rpc!Coming(i)
               Q == Rpc!Coming(j)
    <3>1. index \in Rpc!Places /\ picks' = [picks EXCEPT ![index] = @ + 1]
      <4>1. ~Rpc!Overruns(c)
        BY <1>t, <2>1, <2>4 DEF Rpc!BalanceInv, Rpc!Overruns
      <4>2. QED
        BY <1>5, <4>1 DEF Rpc!Pick, Rpc!TypeOK
    <3>2. /\ i \in Nat /\ j \in Nat /\ picks[i] \in Nat /\ picks[j] \in Nat
          /\ picks'[i] = picks[i] + At(index, i) /\ picks'[j] = picks[j] + At(index, j)
      BY <1>t, <3>1 DEF At
    <3>3. picks[i] + P + Up(index, j) + S <= picks[j] + Q + Up(index, i) + 2 * races
      BY <2>4, LevelAs DEF Rpc!BalanceInv
    <3>4. T \in Nat /\ T = IF c \in stale THEN S - 1 ELSE S
      BY <1>a, <1>b, <2>1, FS_RemoveElement, FS_CardinalityType
    <3>5. /\ At(index, i) \in {0, 1} /\ At(index, j) \in {0, 1} /\ P \in Nat /\ Q \in Nat
          /\ Up(index, i) \in Nat /\ Up(index, j) \in Nat
      BY DEF At, Up, Rpc!Coming
    <3>6. CASE c \in stale
      <4>1. Rpc!Coming(i)' = P /\ Rpc!Coming(j)' = Q
        BY <1>t, <2>1, <3>6 DEF Rpc!Coming
      <4> HIDE DEF S, T, P, Q
      <4>2. picks'[i] + P + Up(index, j) + T <= picks'[j] + Q + Up(index, i) + 2 * races
        BY <1>t, <1>b, <3>2, <3>3, <3>4, <3>5, <3>6 DEF S
      <4>3. QED
        BY <2>1, <4>1, <4>2, SameCount DEF T, Rpc!Level, Rpc!Turn, Up
    <3>7. CASE c \notin stale
      <4>1. Rpc!Coming(i)' = 0 /\ Rpc!Coming(j)' = 0
        BY <1>t, <2>1, <3>7 DEF Rpc!Coming, Rpc!BalanceInv
      <4>2. P = At(index, i) /\ Q = At(index, j)
        BY <2>1, <3>7 DEF Rpc!Coming, At
      <4> HIDE DEF S, T, P, Q
      <4>3. picks'[i] + 0 + Up(index, j) + T <= picks'[j] + 0 + Up(index, i) + 2 * races
        BY <1>t, <1>b, <3>2, <3>3, <3>4, <3>5, <3>7, <4>2 DEF S
      <4>4. QED
        BY <2>1, <4>1, <4>3, SameCount DEF T, Rpc!Level, Rpc!Turn, Up
    <3>8. QED
      BY <3>6, <3>7
  <2>5. QED
    BY <2>1, <2>2, <2>3, <2>4 DEF Rpc!BalanceInv
<1>8. QED
  BY <1>1, <1>2, <1>3, <1>4, <1>5, <1>6, <1>7 DEF Rpc!Next, Rpc!Step

-----------------------------------------------------------------------------
\* The way of an error.

\* A set of places has a last one: the sets of places above its members shrink, and they
\* are finite.
LEMMA LastOne ==
  ASSUME NEW n \in Nat, NEW S \in SUBSET (0..n), S # {}
  PROVE  \E x \in S : \A y \in S : x >= y
<1> DEFINE R == StrictSubsetOrdering(0..n)
           Above(x) == {y \in S : y > x}
           T == {Above(x) : x \in S}
<1>1. IsFiniteSet(0..n)
  BY FS_Interval
<1>2. IsWellFoundedOn(R, SUBSET (0..n))
  BY <1>1, FS_StrictSubsetOrderingWellFounded, FS_FiniteSubsetsOfFinite
<1>3. T \subseteq SUBSET (0..n) /\ T # {}
  OBVIOUS
<1>4. PICK a \in T : \A b \in T : ~ (<<b, a>> \in R)
  <2> HIDE DEF R, T
  <2>1. QED
    BY <1>2, <1>3, WFMin
<1>5. PICK x \in S : a = Above(x)
  BY <1>4
<1>6. ASSUME NEW y \in S, y > x PROVE FALSE
  <2>1. x \in Int /\ y \in Int /\ \A z \in S : z \in Int
    OBVIOUS
  <2>a. y \in Above(x) /\ y \notin Above(y)
    BY <1>6, <2>1
  <2>b. ASSUME NEW z \in S, z > y PROVE z > x
    BY <1>6, <2>1, <2>b
  <2>2. Above(y) \subseteq Above(x) /\ Above(y) # Above(x)
    BY <2>a, <2>b
  <2>3. Above(y) \in SUBSET (0..n) /\ Above(x) \in SUBSET (0..n)
    OBVIOUS
  <2> HIDE DEF Above
  <2>4. <<Above(y), Above(x)>> \in R
    BY <2>2, <2>3 DEF StrictSubsetOrdering
  <2>5. QED
    BY <1>4, <1>5, <1>6, <2>4
<1>7. QED
  BY <1>6

LEMMA MadeBound ==
  ASSUME NEW o, NEW j \in Seq(Steps)
  PROVE  MadeAt(o, j) \in SUBSET (0..Len(j))
BY DEF MadeAt

\* The last of the biz errors made on the way is that one and no other.
LEMMA LastMadeIs ==
  ASSUME NEW o, NEW j \in Seq(Steps), MadeAt(o, j) # {}
  PROVE  /\ LastMade(o, j) \in MadeAt(o, j) /\ LastMade(o, j) \in 0..Len(j)
         /\ \A k \in MadeAt(o, j) : LastMade(o, j) >= k
         /\ \A x \in MadeAt(o, j) : (\A k \in MadeAt(o, j) : x >= k) => x = LastMade(o, j)
<1>1. MadeAt(o, j) \in SUBSET (0..Len(j)) /\ Len(j) \in Nat
  BY MadeBound
<1>2. \E x \in MadeAt(o, j) : \A k \in MadeAt(o, j) : x >= k
  BY <1>1, LastOne
<1>3. LastMade(o, j) \in MadeAt(o, j) /\ \A k \in MadeAt(o, j) : LastMade(o, j) >= k
  BY <1>2 DEF LastMade
<1>4. \A x \in MadeAt(o, j) : (\A k \in MadeAt(o, j) : x >= k) => x = LastMade(o, j)
  <2> SUFFICES ASSUME NEW x \in MadeAt(o, j), \A k \in MadeAt(o, j) : x >= k
               PROVE  x = LastMade(o, j)
    OBVIOUS
  <2>1. x >= LastMade(o, j) /\ LastMade(o, j) >= x
    BY <1>3
  <2>2. x \in Nat /\ LastMade(o, j) \in Nat
    BY <1>1, <1>3
  <2>3. QED
    BY <2>1, <2>2
<1>5. QED
  BY <1>1, <1>3, <1>4

\* One step more.
LEMMA Appended ==
  ASSUME NEW j \in Seq(Steps), NEW s \in Steps
  PROVE  /\ Append(j, s) \in Seq(Steps) /\ Len(j) \in Nat
         /\ Len(Append(j, s)) = Len(j) + 1 /\ Append(j, s)[Len(j) + 1] = s
         /\ \A k \in 1..Len(j) : Append(j, s)[k] = j[k]
         /\ DOMAIN j = 1..Len(j) /\ DOMAIN Append(j, s) = 1..Len(j) + 1
         /\ Append(j, s) # << >>
OBVIOUS

Biz == {"biz", "newbiz"}
Comm == {"comm", "newcomm"}

LEMMA MadeAppended ==
  ASSUME NEW o, NEW j \in Seq(Steps), NEW s \in Steps
  PROVE  /\ s \in Biz => MadeAt(o, Append(j, s)) = MadeAt(o, j) \cup {Len(j) + 1}
         /\ s \notin Biz => MadeAt(o, Append(j, s)) = MadeAt(o, j)
<1>1. s \in Biz => {i \in DOMAIN Append(j, s) : Append(j, s)[i] \in Biz} =
                     {i \in DOMAIN j : j[i] \in Biz} \cup {Len(j) + 1}
  BY Appended
<1>2. s \notin Biz => {i \in DOMAIN Append(j, s) : Append(j, s)[i] \in Biz} =
                        {i \in DOMAIN j : j[i] \in Biz}
  BY Appended
<1>3. QED
  BY <1>1, <1>2 DEF MadeAt, Biz

LEMMA LastMadeAppended ==
  ASSUME NEW o, NEW j \in Seq(Steps), NEW s \in Steps
  PROVE  /\ s \in Biz => MadeAt(o, Append(j, s)) # {} /\ LastMade(o, Append(j, s)) = Len(j) + 1
         /\ s \notin Biz => /\ MadeAt(o, Append(j, s)) = MadeAt(o, j)
                            /\ LastMade(o, Append(j, s)) = LastMade(o, j)
<1>1. CASE s \in Biz
  <2>a. MadeAt(o, Append(j, s)) = MadeAt(o, j) \cup {Len(j) + 1}
    BY <1>1, MadeAppended
  <2>b. MadeAt(o, j) \in SUBSET (0..Len(j)) /\ Len(j) \in Nat
    BY MadeBound
  <2>1. Len(j) + 1 \in MadeAt(o, Append(j, s))
    BY <2>a
  <2>2. \A k \in MadeAt(o, Append(j, s)) : Len(j) + 1 >= k
    BY <2>a, <2>b
  <2>3. QED
    BY <1>1, <2>1, <2>2, LastMadeIs, Appended
<1>2. CASE s \notin Biz
  <2>1. MadeAt(o, Append(j, s)) = MadeAt(o, j)
    BY <1>2, MadeAppended
  <2>2. QED
    BY <1>2, <2>1 DEF LastMade
<1>3. QED
  BY <1>1, <1>2

LEMMA CommOnlyAppended ==
  ASSUME NEW j \in Seq(Steps), NEW s \in Steps, NEW m \in Nat
  PROVE  /\ \A i \in 0..Len(j) + 1 : CommOnly(Append(j, s), m, i) <=> CommOnly(j, m, i)
         /\ m <= Len(j) =>
              (CommOnly(Append(j, s), m, Len(j) + 2) <=> CommOnly(j, m, Len(j) + 1) /\ s \in Comm)
<1>1. \A i \in 0..Len(j) + 1 : \A k \in m + 1..i - 1 : Append(j, s)[k] = j[k]
  BY Appended
<1>2. m <= Len(j) => m + 1..(Len(j) + 2) - 1 = (m + 1..(Len(j) + 1) - 1) \cup {Len(j) + 1}
  BY Appended
<1>3. \A k \in m + 1..(Len(j) + 1) - 1 : Append(j, s)[k] = j[k]
  BY Appended
<1>4. QED
  BY <1>1, <1>2, <1>3, Appended DEF CommOnly, Comm

\* What is carried, and what vanishes, one step further.
LEMMA CarriedAppended ==
  ASSUME NEW o, NEW j \in Seq(Steps), NEW s \in Steps
  PROVE  /\ s \in Biz => Carried(o, Append(j, s))
         /\ s \in Comm => (Carried(o, Append(j, s)) <=> Carried(o, j))
         /\ s \in {"grpc", "json"} => ~Carried(o, Append(j, s))
<1> DEFINE p == LastMade(o, j)
           n == Len(j)
<1>1. CASE s \in Biz
  <2>1. CommOnly(Append(j, s), n + 1, n + 2)
    BY Appended DEF CommOnly
  <2>a. MadeAt(o, Append(j, s)) # {} /\ LastMade(o, Append(j, s)) = n + 1
    BY <1>1, LastMadeAppended
  <2>b. Len(Append(j, s)) + 1 = n + 2
    BY Appended
  <2>2. /\ MadeAt(o, Append(j, s)) # {} /\ LastMade(o, Append(j, s)) = n + 1
        /\ Len(Append(j, s)) + 1 = n + 2
    BY <2>a, <2>b
  <2>3. Carried(o, Append(j, s))
    BY <2>1, <2>2 DEF Carried
  <2>4. QED
    BY <1>1, <2>3 DEF Biz, Comm
<1>2. CASE s \notin Biz
  <2>1. MadeAt(o, j) # {} => p \in 0..n /\ p \in Nat
    BY LastMadeIs
  <2>2. MadeAt(o, j) # {} =>
          (CommOnly(Append(j, s), p, n + 2) <=> CommOnly(j, p, n + 1) /\ s \in Comm)
    BY <2>1, CommOnlyAppended, Appended
  <2>3. Carried(o, Append(j, s)) <=> Carried(o, j) /\ s \in Comm
    BY <1>2, <2>2, LastMadeAppended, Appended DEF Carried
  <2>4. QED
    BY <1>2, <2>3 DEF Comm, Biz
<1>3. QED
  BY <1>1, <1>2

LEMMA VanishesAppended ==
  ASSUME NEW o, NEW j \in Seq(Steps), NEW s \in Steps
  PROVE  Vanishes(o, Append(j, s)) <=>
           \/ Vanishes(o, j)
           \/ IsBiz(o) /\ Head(o).code = OK /\ s = "grpc" /\ CommOnly(j, 0, Len(j) + 1)
<1>1. \A i \in DOMAIN j : /\ i \in 0..Len(j) + 1 /\ i \in DOMAIN Append(j, s)
                          /\ Append(j, s)[i] = j[i]
  BY Appended
<1>2. \A i \in 0..Len(j) + 1 : CommOnly(Append(j, s), 0, i) <=> CommOnly(j, 0, i)
  BY CommOnlyAppended
<1>3. \A i \in DOMAIN Append(j, s) : i \in DOMAIN j \/ i = Len(j) + 1
  BY Appended
<1>4. Len(j) + 1 \in DOMAIN Append(j, s) /\ Len(j) + 1 \in 0..Len(j) + 1
  BY Appended
<1>5. QED
  BY <1>1, <1>2, <1>3, <1>4, Appended DEF Vanishes

\* A biz error under comm errors only is the last one made.
LEMMA CommMade ==
  ASSUME NEW o, NEW j \in Seq(Steps), NEW m \in MadeAt(o, j), CommOnly(j, m, Len(j) + 1)
  PROVE  Carried(o, j) /\ m = LastMade(o, j)
<1>1. MadeAt(o, j) \in SUBSET (0..Len(j)) /\ Len(j) \in Nat
  BY MadeBound
<1>2. ASSUME NEW k \in MadeAt(o, j), k > m PROVE FALSE
  <2>1. k \in m + 1..(Len(j) + 1) - 1 /\ k # 0
    BY <1>1, <1>2
  <2>2. j[k] \in Comm /\ j[k] \in Biz
    BY <2>1 DEF MadeAt, CommOnly, Comm, Biz
  <2>3. QED
    BY <2>2 DEF Comm, Biz
<1>3. \A k \in MadeAt(o, j) : m >= k
  BY <1>1, <1>2
<1>4. m = LastMade(o, j)
  BY <1>3, LastMadeIs
<1>5. QED
  BY <1>4 DEF Carried

\* A further step drops no earlier error but by a gRPC call, those over a biz error that is
\* carried to it.
LEMMA DroppedAppended ==
  ASSUME NEW o, NEW j \in Seq(Steps), NEW s \in Steps, NEW i \in 1..Len(j)
  PROVE  Dropped(o, Append(j, s), i) <=>
           \/ Dropped(o, j, i)
           \/ j[i] = "newcomm" /\ s = "grpc" /\ Carried(o, j) /\ LastMade(o, j) < i
<1> DEFINE n == Len(j)
           k == Append(j, s)
<1>1. /\ n \in Nat /\ k[i] = j[i] /\ DOMAIN j = 1..n /\ DOMAIN k = 1..n + 1
      /\ k[n + 1] = s /\ \A h \in 1..n : k[h] = j[h]
  BY Appended
<1>2. MadeAt(o, j) \subseteq 0..n /\ MadeAt(o, j) \subseteq MadeAt(o, k)
  BY MadeBound, MadeAppended
<1>3. \A m \in MadeAt(o, k) : m < i => m \in MadeAt(o, j)
  BY <1>1, MadeAppended
<1>4. \A m \in MadeAt(o, j) : \A h \in 1..n + 1 : CommOnly(k, m, h) <=> CommOnly(j, m, h)
  BY <1>1, <1>2, CommOnlyAppended
<1> HIDE DEF k
<1>5. Dropped(o, k, i) <=>
        /\ j[i] = "newcomm"
        /\ \E m \in MadeAt(o, j), h \in 1..n + 1 :
             m < i /\ i < h /\ k[h] = "grpc" /\ CommOnly(j, m, h)
  BY <1>1, <1>2, <1>3, <1>4 DEF Dropped
<1>6. ASSUME j[i] = "newcomm", NEW m \in MadeAt(o, j), m < i, s = "grpc", CommOnly(j, m, n + 1)
      PROVE  Carried(o, j) /\ LastMade(o, j) < i
  BY <1>6, CommMade
<1>7. ASSUME j[i] = "newcomm", s = "grpc", Carried(o, j), LastMade(o, j) < i
      PROVE  \E m \in MadeAt(o, j) : m < i /\ CommOnly(j, m, n + 1)
  BY <1>7, LastMadeIs DEF Carried
<1>8. \A h \in 1..n + 1 : h \in 1..n \/ h = n + 1
  BY <1>1
<1>9. \A h \in 1..n : h \in 1..n + 1 /\ k[h] = j[h]
  BY <1>1
<1>10. i < n + 1 /\ n + 1 \in 1..n + 1
  BY <1>1
<1>11. ASSUME Dropped(o, k, i)
       PROVE  \/ Dropped(o, j, i)
              \/ j[i] = "newcomm" /\ s = "grpc" /\ Carried(o, j) /\ LastMade(o, j) < i
  BY <1>1, <1>5, <1>6, <1>8, <1>9, <1>11 DEF Dropped
<1>12. Dropped(o, j, i) => Dropped(o, k, i)
  BY <1>1, <1>5, <1>9 DEF Dropped
<1>13. j[i] = "newcomm" /\ s = "grpc" /\ Carried(o, j) /\ LastMade(o, j) < i => Dropped(o, k, i)
  BY <1>1, <1>5, <1>7, <1>10
<1>14. QED
  BY <1>11, <1>12, <1>13 DEF k

\* The errors with a text of their own, after one step more: the new one, and the others but
\* for those that a gRPC call drops.
LEMMA RenamedAppended ==
  ASSUME NEW o, NEW j \in Seq(Steps), NEW s \in Steps
  PROVE  /\ Renamed(o, Append(j, s), Len(j) + 1) <=> s \in {"newbiz", "newcomm"}
         /\ \A i \in 1..Len(j) :
              Renamed(o, Append(j, s), i) <=>
                /\ Renamed(o, j, i)
                /\ ~ (s = "grpc" /\ Carried(o, j) /\ LastMade(o, j) < i)
<1>1. ASSUME NEW i \in 1..Len(j)
      PROVE  Renamed(o, Append(j, s), i) <=>
               /\ Renamed(o, j, i)
               /\ ~ (s = "grpc" /\ Carried(o, j) /\ LastMade(o, j) < i)
  <2>1. Append(j, s)[i] = j[i]
    BY Appended
  <2>2. ASSUME j[i] = "newbiz" PROVE ~ (Carried(o, j) /\ LastMade(o, j) < i)
    <3>1. i \in MadeAt(o, j)
      BY <2>2, Appended DEF MadeAt
    <3>2. LastMade(o, j) >= i /\ LastMade(o, j) \in Nat
      BY <3>1, LastMadeIs
    <3>3. QED
      BY <3>2
  <2>3. QED
    BY <2>1, <2>2, DroppedAppended DEF Renamed
<1>2. ~Dropped(o, Append(j, s), Len(j) + 1)
  BY Appended DEF Dropped
<1>3. QED
  BY <1>1, <1>2, Appended DEF Renamed

LEMMA GrowsAppended ==
  ASSUME NEW j \in Seq(Steps), NEW s \in Steps
  PROVE  /\ \A i \in 1..Len(j) - 1 : Grows(Append(j, s), i) <=> Grows(j, i)
         /\ j # << >> => (Grows(Append(j, s), Len(j)) <=> j[Len(j)] = "grpc" /\ s # "grpc")
<1>1. \A i \in 1..Len(j) - 1 : i \in 1..Len(j) /\ i + 1 \in 1..Len(j)
  BY Appended
<1>2. j # << >> => Len(j) \in 1..Len(j)
  OBVIOUS
<1>3. QED
  BY <1>1, <1>2, Appended DEF Grows

\* What a text has grown by after one step more: nothing, when the new error has one of its
\* own or is a gRPC call's that carries the last biz error, which keeps its text; and one
\* more when it is that of a gRPC call that is wrapped.
LEMMA TextAppended ==
  ASSUME NEW o, NEW j \in Seq(Steps), NEW s \in Steps
  PROVE  /\ s \in {"newbiz", "newcomm"} => TextAt(o, Append(j, s), Len(j) + 1) = 0
         /\ s \notin {"newbiz", "newcomm"} /\ ~ (s = "grpc" /\ Carried(o, j)) =>
              TextAt(o, Append(j, s), Len(j) + 1) =
                IF j # << >> /\ j[Len(j)] = "grpc" /\ s # "grpc"
                  THEN TextAt(o, j, Len(j)) + 1 ELSE TextAt(o, j, Len(j))
         /\ s = "grpc" /\ Carried(o, j) =>
              TextAt(o, Append(j, s), Len(j) + 1) = TextAt(o, j, LastMade(o, j))
         /\ MadeAt(o, j) # {} =>
              TextAt(o, Append(j, s), LastMade(o, j)) = TextAt(o, j, LastMade(o, j))
         /\ TextAt(o, j, Len(j)) \in Nat
<1> DEFINE n == Len(j)
           k == Append(j, s)
           p == LastMade(o, j)
<1>1. n \in Nat /\ (j # << >> <=> n > 0)
  BY Appended
<1>2. /\ Renamed(o, k, n + 1) <=> s \in {"newbiz", "newcomm"}
      /\ \A i \in 1..n :
           Renamed(o, k, i) <=> Renamed(o, j, i) /\ ~ (s = "grpc" /\ Carried(o, j) /\ p < i)
  BY RenamedAppended
<1>3. /\ \A i \in 1..n - 1 : Grows(k, i) <=> Grows(j, i)
      /\ n > 0 => (Grows(k, n) <=> j[n] = "grpc" /\ s # "grpc")
  BY <1>1, GrowsAppended
<1>4. MadeAt(o, j) # {} => p \in 0..n
  BY LastMadeIs
<1> HIDE DEF k, n, p
<1>5. ASSUME s \in {"newbiz", "newcomm"} PROVE TextAt(o, k, n + 1) = 0
  <2>1. Growths(o, k, n + 1) = {}
    BY <1>1, <1>2, <1>5 DEF Growths
  <2>2. QED
    BY <2>1, FS_EmptySet DEF TextAt
<1>6. IsFiniteSet(Growths(o, j, n)) /\ Cardinality(Growths(o, j, n)) \in Nat
  <2>1. Growths(o, j, n) \in SUBSET (1..n - 1)
    BY DEF Growths
  <2>2. IsFiniteSet(1..n - 1)
    BY <1>1, FS_Interval
  <2>3. QED
    BY <2>1, <2>2, FS_Subset, FS_CardinalityType
<1>7. ASSUME s \notin {"newbiz", "newcomm"}, ~ (s = "grpc" /\ Carried(o, j))
      PROVE  TextAt(o, k, n + 1) =
               IF j # << >> /\ j[n] = "grpc" /\ s # "grpc"
                 THEN TextAt(o, j, n) + 1 ELSE TextAt(o, j, n)
  <2>1. \A i \in 1..n + 1 : Renamed(o, k, i) <=> i # n + 1 /\ Renamed(o, j, i)
    BY <1>1, <1>2, <1>7
  <2>2. \A i \in 1..n - 1 :
          (\A h \in i + 1..n + 1 : ~Renamed(o, k, h)) <=> (\A h \in i + 1..n : ~Renamed(o, j, h))
    <3>1. \A i \in 1..n - 1 : \A h \in i + 1..n : h \in i + 1..n + 1 /\ h \in 1..n + 1 /\ h # n + 1
      BY <1>1
    <3>2. \A i \in 1..n - 1 : \A h \in i + 1..n + 1 : h \in 1..n + 1 /\ (h # n + 1 => h \in i + 1..n)
      BY <1>1
    <3>3. QED
      BY <2>1, <3>1, <3>2
  <2>3. n > 0 => \A h \in n + 1..n + 1 : ~Renamed(o, k, h)
    BY <1>1, <2>1
  <2>4. \A i \in 1..(n + 1) - 1 : i \in 1..n - 1 \/ (i = n /\ n > 0)
    BY <1>1
  <2>5. \A i \in 1..n - 1 : i \in 1..(n + 1) - 1 /\ i # n
    BY <1>1
  <2>6. \A i \in 1..n - 1 : i \in Growths(o, k, n + 1) <=> i \in Growths(o, j, n)
    BY <1>3, <2>2, <2>5 DEF Growths
  <2>7. n > 0 => (n \in Growths(o, k, n + 1) <=> j[n] = "grpc" /\ s # "grpc")
    BY <1>1, <1>3, <2>3 DEF Growths
  <2>8. n \notin Growths(o, j, n)
    BY <1>1 DEF Growths
  <2>9. Growths(o, k, n + 1) \subseteq 1..(n + 1) - 1 /\ Growths(o, j, n) \subseteq 1..n - 1
    BY DEF Growths
  <2>10. CASE j # << >> /\ j[n] = "grpc" /\ s # "grpc"
    <3>1. Growths(o, k, n + 1) = Growths(o, j, n) \cup {n}
      BY <1>1, <2>4, <2>6, <2>7, <2>9, <2>10
    <3>2. QED
      BY <1>6, <2>8, <2>10, <3>1, FS_AddElement DEF TextAt
  <2>11. CASE ~ (j # << >> /\ j[n] = "grpc" /\ s # "grpc")
    <3>1. Growths(o, k, n + 1) = Growths(o, j, n)
      BY <1>1, <2>4, <2>6, <2>7, <2>8, <2>9, <2>11
    <3>2. QED
      BY <2>11, <3>1 DEF TextAt
  <2>12. QED
    BY <2>10, <2>11
<1>8. ASSUME MadeAt(o, j) # {} PROVE TextAt(o, k, p) = TextAt(o, j, p)
  <2>1. \A i \in 1..p : i \in 1..n /\ ~ (p < i)
    BY <1>1, <1>4, <1>8
  <2>2. \A i \in 1..p - 1 : i \in 1..n - 1 /\ \A h \in i + 1..p : h \in 1..p
    BY <1>1, <1>4, <1>8
  <2>3. Growths(o, k, p) = Growths(o, j, p)
    BY <1>2, <1>3, <2>1, <2>2 DEF Growths
  <2>4. QED
    BY <2>3 DEF TextAt
<1>9. ASSUME s = "grpc", Carried(o, j) PROVE TextAt(o, k, n + 1) = TextAt(o, j, p)
  <2>1. /\ MadeAt(o, j) # {} /\ p \in 0..n /\ p \in MadeAt(o, j)
        /\ \A i \in p + 1..(n + 1) - 1 : j[i] \in Comm
    BY <1>9, LastMadeIs DEF Carried, CommOnly, Comm, n, p
  <2>2. p # 0 => p \in 1..n /\ j[p] \in Biz
    BY <2>1 DEF MadeAt, Biz
  <2>3. \A i \in p..n : i # 0 => ~Grows(k, i)
    <3>1. \A i \in p..n : i # 0 => i \in 1..n /\ j[i] # "grpc"
      BY <1>1, <2>1, <2>2 DEF Biz, Comm
    <3>2. \A i \in p..n : i # 0 => k[i] # "grpc"
      BY <3>1, Appended DEF k, n
    <3>3. QED
      BY <3>2 DEF Grows
  <2>4. \A i \in 1..(n + 1) - 1 : i \in 1..p - 1 \/ (i \in p..n /\ i # 0)
    BY <1>1, <2>1
  <2>5. \A i \in 1..p - 1 : i \in 1..(n + 1) - 1 /\ i \in 1..n - 1
    BY <1>1, <2>1
  <2>6. \A i \in 1..p - 1 :
          (\A h \in i + 1..n + 1 : ~Renamed(o, k, h)) <=> (\A h \in i + 1..p : ~Renamed(o, j, h))
    <3>1. \A i \in 1..p - 1 : \A h \in i + 1..p : h \in i + 1..n + 1 /\ h \in 1..n /\ ~ (p < h)
      BY <1>1, <2>1
    <3>2. \A i \in 1..p - 1 : \A h \in i + 1..n + 1 :
            h \in i + 1..p \/ (h \in 1..n /\ p < h) \/ h = n + 1
      BY <1>1, <2>1
    <3>3. QED
      BY <1>2, <1>9, <3>1, <3>2
  <2>7. Growths(o, k, n + 1) = Growths(o, j, p)
    BY <1>3, <2>3, <2>4, <2>5, <2>6 DEF Growths
  <2>8. QED
    BY <2>7 DEF TextAt
<1>10. TextAt(o, j, n) \in Nat
  BY <1>6 DEF TextAt
<1>11. QED
  BY <1>5, <1>7, <1>8, <1>9, <1>10 DEF k, n, p

\* Calls by gRPC and JSON-RPC after the last biz error, one step further.
LEMMA HopsAppended ==
  ASSUME NEW o, NEW j \in Seq(Steps), NEW s \in Steps, MadeAt(o, j) # {}, s \notin Biz
  PROVE  ByGrpc(Append(j, s), LastMade(o, Append(j, s))) <=>
           /\ ByGrpc(j, LastMade(o, j))
           /\ HopsAfter(j, LastMade(o, j)) # {} \/ s = "json" => s = "grpc"
<1> DEFINE n == Len(j)
           k == Append(j, s)
           p == LastMade(o, j)
<1>1. LastMade(o, k) = p /\ p \in 0..n /\ n \in Nat
  BY LastMadeAppended, LastMadeIs
<1>2. Len(k) = n + 1 /\ k[n + 1] = s /\ \A i \in 1..n : k[i] = j[i]
  BY Appended
<1> HIDE DEF n, k, p
<1>3. \A i \in p + 1..n : i \in 1..n /\ i \in p + 1..n + 1
  BY <1>1
<1>4. \A i \in p + 1..n + 1 : i \in p + 1..n \/ i = n + 1
  BY <1>1
<1>5. /\ \A i \in p + 1..n : i \in HopsAfter(k, p) <=> i \in HopsAfter(j, p)
      /\ n + 1 \in HopsAfter(k, p) <=> s \in {"grpc", "json"}
      /\ HopsAfter(k, p) \subseteq p + 1..n + 1 /\ HopsAfter(j, p) \subseteq p + 1..n
  BY <1>1, <1>2, <1>3 DEF HopsAfter, n
<1>6. \A h \in p + 1..n : /\ \A i \in h..n : i \in h..n + 1 /\ k[i] = j[i]
                          /\ \A i \in h..n + 1 : i \in h..n \/ i = n + 1
                          /\ n + 1 \in h..n + 1
  BY <1>1, <1>2
<1>7. \A i \in n + 1..n + 1 : i = n + 1
  BY <1>1
<1>8. ByGrpc(k, p) <=> \A h \in HopsAfter(k, p) : \A i \in h..n + 1 : k[i] = "grpc"
  BY <1>2 DEF ByGrpc
<1>9. ByGrpc(j, p) <=> \A h \in HopsAfter(j, p) : \A i \in h..n : j[i] = "grpc"
  BY DEF ByGrpc, n
<1>10. ASSUME ByGrpc(k, p)
       PROVE  ByGrpc(j, p) /\ (HopsAfter(j, p) # {} \/ s = "json" => s = "grpc")
  <2>1. \A h \in HopsAfter(j, p) : h \in HopsAfter(k, p) /\ h \in p + 1..n
    BY <1>5
  <2>2. ByGrpc(j, p)
    BY <1>6, <1>8, <1>9, <1>10, <2>1
  <2>3. HopsAfter(j, p) # {} => k[n + 1] = "grpc"
    BY <1>6, <1>8, <1>10, <2>1
  <2>4. s = "json" => k[n + 1] = "grpc"
    BY <1>1, <1>5, <1>8, <1>10
  <2>5. QED
    BY <1>2, <2>2, <2>3, <2>4
<1>11. ASSUME ByGrpc(j, p), HopsAfter(j, p) # {} \/ s = "json" => s = "grpc"
       PROVE  ByGrpc(k, p)
  <2> SUFFICES ASSUME NEW h \in HopsAfter(k, p), NEW i \in h..n + 1 PROVE k[i] = "grpc"
    BY <1>8
  <2>1. CASE h = n + 1
    BY <1>2, <1>5, <1>7, <1>11, <2>1
  <2>2. CASE h \in p + 1..n
    <3>1. h \in HopsAfter(j, p)
      BY <1>5, <2>2
    <3>2. CASE i \in h..n
      BY <1>6, <1>9, <1>11, <2>2, <3>1, <3>2
    <3>3. CASE i = n + 1
      BY <1>2, <1>11, <3>1, <3>3
    <3>4. QED
      BY <1>6, <2>2, <3>2, <3>3
  <2>3. QED
    BY <1>4, <1>5, <2>1, <2>2
<1>12. QED
  BY <1>1, <1>10, <1>11 DEF k, p

\* A biz error is carried exactly until the first call.
LEMMA CarriedHops ==
  ASSUME NEW o, NEW j \in Seq(Steps), MadeAt(o, j) # {}
  PROVE  /\ Carried(o, j) <=> HopsAfter(j, LastMade(o, j)) = {}
         /\ j # << >> /\ j[Len(j)] = "grpc" => Len(j) \in HopsAfter(j, LastMade(o, j))
         /\ HopsAfter(j, LastMade(o, j)) # {} /\ ByGrpc(j, LastMade(o, j)) =>
              j # << >> /\ j[Len(j)] = "grpc"
<1> DEFINE n == Len(j)
           p == LastMade(o, j)
<1>1. p \in MadeAt(o, j) /\ p \in 0..n /\ n \in Nat /\ \A k \in MadeAt(o, j) : p >= k
  BY LastMadeIs
<1>2. \A i \in p + 1..n : j[i] \in Steps /\ j[i] \notin Biz
  <2> SUFFICES ASSUME NEW i \in p + 1..n PROVE j[i] \in Steps /\ j[i] \notin Biz
    OBVIOUS
  <2>1. i \in 1..n /\ i > p
    BY <1>1
  <2>2. i \notin MadeAt(o, j)
    BY <1>1, <2>1
  <2>3. QED
    BY <2>1, <2>2 DEF MadeAt, Biz
<1>3. p # 0 => j[p] \in Biz
  BY <1>1 DEF MadeAt, Biz
<1>4. (n + 1) - 1 = n
  BY <1>1
<1>5. Carried(o, j) <=> HopsAfter(j, p) = {}
  BY <1>2, <1>4 DEF Carried, CommOnly, HopsAfter, Steps, Biz
<1>6. ASSUME j # << >>, j[n] = "grpc" PROVE n \in HopsAfter(j, p)
  <2>1. n # 0 /\ p # n
    BY <1>3, <1>6 DEF Biz
  <2>2. n \in p + 1..n
    BY <1>1, <2>1
  <2>3. QED
    BY <1>6, <2>2 DEF HopsAfter
<1>7. ASSUME HopsAfter(j, p) # {}, ByGrpc(j, p) PROVE j # << >> /\ j[n] = "grpc"
  <2>1. PICK h \in HopsAfter(j, p) : TRUE
    BY <1>7
  <2>2. n \in h..n /\ n # 0
    BY <1>1, <2>1 DEF HopsAfter
  <2>3. QED
    BY <1>7, <2>1, <2>2 DEF ByGrpc
<1>8. QED
  BY <1>5, <1>6, <1>7

-----------------------------------------------------------------------------
\* The layers of an error.

LEMMA LayerTyped ==
  ASSUME NEW kind \in {"plain", "response", "status", "biz", "comm"},
         NEW code \in Nat, NEW text \in Nat
  PROVE  /\ Layer(kind, code, text) \in Layers
         /\ Layer(kind, code, text).kind = kind /\ Layer(kind, code, text).code = code
         /\ Layer(kind, code, text).text = text
         /\ <<Layer(kind, code, text)>> \in Seq(Layers) /\ <<Layer(kind, code, text)>> # << >>
         /\ Head(<<Layer(kind, code, text)>>) = Layer(kind, code, text)
BY DEF Layer, Layers

LEMMA Wrapped ==
  ASSUME NEW e \in Seq(Layers), NEW l \in Layers
  PROVE  /\ <<l>> \o e \in Seq(Layers) /\ <<l>> \o e # << >> /\ Head(<<l>> \o e) = l
         /\ Len(<<l>> \o e) = Len(e) + 1 /\ (<<l>> \o e)[1] = l
         /\ \A i \in 1..Len(e) : (<<l>> \o e)[i + 1] = e[i]
OBVIOUS

\* The first biz error is the outer one, if that is one, and that of its cause otherwise.
LEMMA FirstBizWrapped ==
  ASSUME NEW e \in Seq(Layers), NEW l \in Layers
  PROVE  /\ l.kind = "biz" => FirstBiz(<<l>> \o e) = {l}
         /\ l.kind # "biz" => FirstBiz(<<l>> \o e) = FirstBiz(e)
<1> DEFINE f == <<l>> \o e
           n == Len(e)
           First(g) == {k \in BizLayers(g) : \A i \in BizLayers(g) : k <= i}
<1>1. /\ n \in Nat /\ f \in Seq(Layers) /\ DOMAIN f = 1..n + 1 /\ DOMAIN e = 1..n
      /\ f[1] = l /\ \A i \in 1..n : f[i + 1] = e[i]
  BY Wrapped
<1> HIDE DEF f, n
<1>2. BizLayers(f) = {i \in 1..n + 1 : f[i].kind = "biz"} /\ BizLayers(e) = {i \in 1..n : e[i].kind = "biz"}
  BY <1>1 DEF BizLayers
<1>3. CASE l.kind = "biz"
  <2>1. 1 \in BizLayers(f) /\ \A k \in BizLayers(f) : k \in Nat /\ 1 <= k
    BY <1>1, <1>2, <1>3
  <2>2. First(f) = {1}
    BY <2>1
  <2>3. FirstBiz(f) = {f[i] : i \in First(f)}
    BY DEF FirstBiz
  <2>4. FirstBiz(f) = {l}
    BY <1>1, <2>2, <2>3
  <2>5. QED
    BY <1>3, <2>4 DEF f
<1>4. CASE l.kind # "biz"
  <2>1. \A i \in 1..n : i \in BizLayers(e) <=> i + 1 \in BizLayers(f)
    BY <1>1, <1>2
  <2>2. \A k \in BizLayers(f) : k \in Nat /\ k # 1 /\ k - 1 \in BizLayers(e) /\ (k - 1) + 1 = k
    BY <1>1, <1>2, <1>4
  <2>3. \A i \in BizLayers(e) : i \in 1..n /\ i + 1 \in BizLayers(f) /\ (i + 1) - 1 = i
    BY <1>1, <1>2, <2>1
  <2>4. \A k \in First(f) : k - 1 \in First(e) /\ f[k] = e[k - 1]
    <3> SUFFICES ASSUME NEW k \in First(f) PROVE k - 1 \in First(e) /\ f[k] = e[k - 1]
      OBVIOUS
    <3>1. k \in BizLayers(f) /\ k - 1 \in BizLayers(e) /\ k \in Nat /\ (k - 1) + 1 = k /\ k - 1 \in 1..n
      BY <2>2, <2>3
    <3>2. ASSUME NEW i \in BizLayers(e) PROVE k - 1 <= i
      <4>1. i + 1 \in BizLayers(f) /\ i \in Nat
        BY <1>1, <2>3
      <4>2. k <= i + 1
        BY <4>1
      <4>3. QED
        BY <3>1, <4>1, <4>2
    <3>3. f[k] = e[k - 1]
      BY <1>1, <3>1
    <3>4. QED
      BY <3>1, <3>2, <3>3
  <2>5. \A i \in First(e) : i + 1 \in First(f) /\ f[i + 1] = e[i]
    <3> SUFFICES ASSUME NEW i \in First(e) PROVE i + 1 \in First(f) /\ f[i + 1] = e[i]
      OBVIOUS
    <3>1. i \in BizLayers(e) /\ i + 1 \in BizLayers(f) /\ i \in 1..n /\ i \in Nat
      BY <1>1, <2>3
    <3>2. ASSUME NEW k \in BizLayers(f) PROVE i + 1 <= k
      <4>1. k - 1 \in BizLayers(e) /\ k \in Nat
        BY <2>2
      <4>2. i <= k - 1
        BY <4>1
      <4>3. QED
        BY <3>1, <4>1, <4>2
    <3>3. QED
      BY <1>1, <3>1, <3>2
  <2>6. FirstBiz(f) = {f[i] : i \in First(f)} /\ FirstBiz(e) = {e[i] : i \in First(e)}
    BY DEF FirstBiz
  <2> HIDE DEF First
  <2>7. FirstBiz(f) = FirstBiz(e)
    BY <2>4, <2>5, <2>6
  <2>8. QED
    BY <1>4, <2>7 DEF f
<1>5. QED
  BY <1>3, <1>4

LEMMA FirstBizNone == FirstBiz(NoError) = {}
BY DEF FirstBiz, BizLayers, NoError

\* A lone layer.
LEMMA FirstBizAlone ==
  ASSUME NEW l \in Layers
  PROVE  FirstBiz(<<l>>) = IF l.kind = "biz" THEN {l} ELSE {}
<1>1. << >> \in Seq(Layers) /\ <<l>> \o << >> = <<l>>
  OBVIOUS
<1>2. QED
  BY <1>1, FirstBizWrapped, FirstBizNone DEF NoError

LEMMA FirstBizTyped ==
  ASSUME NEW e \in Seq(Layers)
  PROVE  FirstBiz(e) \subseteq Layers
BY DEF FirstBiz, BizLayers

IsStatus(f, code, text) ==
  /\ f \in Seq(Layers) /\ f # NoError /\ FirstBiz(f) = {}
  /\ Head(f).kind = "status" /\ Head(f).code = code /\ Head(f).text = text

LEMMA StatusTyped ==
  ASSUME NEW code \in Nat, NEW text \in Nat
  PROVE  IsStatus(Status(code, text), code, text)
<1> DEFINE l == Layer("status", code, text)
<1>1. l \in Layers /\ l.kind = "status" /\ l.code = code /\ l.text = text
  BY LayerTyped
<1> HIDE DEF l
<1>2. <<l>> \in Seq(Layers) /\ <<l>> # << >> /\ Head(<<l>>) = l
  BY <1>1
<1>3. FirstBiz(<<l>>) = {}
  BY <1>1, FirstBizAlone
<1>4. Status(code, text) = <<l>>
  BY DEF Status, l
<1>5. QED
  BY <1>1, <1>2, <1>3, <1>4 DEF IsStatus, NoError

LEMMA OriginTyped ==
  ASSUME Codes \subseteq Nat, NEW o \in Origins
  PROVE  /\ o \in Seq(Layers) /\ o # NoError /\ Head(o) \in Layers /\ Head(o).kind # "status"
         /\ Head(o).text = 0
         /\ FirstBiz(o) = IF IsBiz(o) THEN {BizError(Head(o).code, 0)} ELSE {}
<1> DEFINE Lone(l) == /\ o = <<l>> /\ l.kind # "status" /\ l.text = 0
                      /\ l.kind = "biz" => l = BizError(l.code, 0)
<1>1. PICK l \in Layers : Lone(l)
  <2>1. CASE o = Plain(0)
    <3>1. Layer("plain", 0, 0) \in Layers
      BY LayerTyped
    <3>2. QED
      BY <2>1, <3>1 DEF Plain, Layer
  <2>2. CASE o = ResponseError(0)
    <3>1. Layer("response", 0, 0) \in Layers
      BY LayerTyped
    <3>2. QED
      BY <2>2, <3>1 DEF ResponseError, Layer
  <2>3. CASE o = <<CommError(500, 0)>>
    <3>1. Layer("comm", 500, 0) \in Layers
      BY LayerTyped
    <3>2. QED
      BY <2>3, <3>1 DEF CommError, Layer
  <2>4. ASSUME NEW c \in Codes, o = <<BizError(c, 0)>> PROVE \E l \in Layers : Lone(l)
    <3>1. Layer("biz", c, 0) \in Layers
      BY LayerTyped
    <3>2. QED
      BY <2>4, <3>1 DEF BizError, Layer
  <2>5. QED
    BY <2>1, <2>2, <2>3, <2>4 DEF Origins
<1>2. o \in Seq(Layers) /\ o # NoError /\ Head(o) = l
  BY <1>1 DEF NoError
<1>3. QED
  BY <1>1, <1>2, FirstBizAlone DEF IsBiz

LEMMA OnWayStart ==
  ASSUME Codes \subseteq Nat, NEW o \in Origins
  PROVE  OnWay(o, o, << >>)
<1> DEFINE j == << >>
<1>1. j \in Seq(Steps) /\ Len(j) = 0 /\ DOMAIN j = {}
  OBVIOUS
<1>2. MadeAt(o, j) = IF IsBiz(o) THEN {0} ELSE {}
  BY <1>1 DEF MadeAt
<1>3. ~Vanishes(o, j)
  BY <1>1 DEF Vanishes
<1>4. IsBiz(o) => LastMade(o, j) = 0
  BY <1>1, <1>2, LastMadeIs
<1>5. TextAt(o, j, 0) = 0
  <2>1. Growths(o, j, 0) = {}
    BY DEF Growths
  <2>2. QED
    BY <2>1, FS_EmptySet DEF TextAt
<1>6. Carried(o, j) <=> IsBiz(o)
  <2>1. CommOnly(j, 0, 1)
    BY DEF CommOnly
  <2>2. IsBiz(o) => CommOnly(j, LastMade(o, j), Len(j) + 1)
    BY <1>1, <1>4, <2>1
  <2>3. QED
    BY <1>2, <2>2 DEF Carried
<1> HIDE DEF j
<1>7. FirstBiz(o) = IF Carried(o, j) THEN {BizError(CodeOf(o, LastMade(o, j)), TextAt(o, j, LastMade(o, j)))} ELSE {}
  BY <1>4, <1>5, <1>6, OriginTyped DEF CodeOf
<1>8. OnWay(o, o, j)
  BY <1>1, <1>3, <1>5, <1>7, OriginTyped DEF OnWay, j
<1>9. QED
  BY <1>8 DEF j

\* What the text of an error becomes when it is wrapped or sent on.
LEMMA TextOnWay ==
  ASSUME NEW o, NEW e \in Seq(Layers), e # NoError, NEW j \in Seq(Steps), OnWay(e, o, j),
         NEW s \in {"biz", "comm", "json"}
  PROVE  /\ Head(e) \in Layers /\ Text(e) \in Nat
         /\ Text(e) = TextAt(o, Append(j, s), Len(j) + 1)
<1>1. s \in Steps /\ s \notin {"newbiz", "newcomm"} /\ s # "grpc"
  BY DEF Steps
<1>2. TextAt(o, Append(j, s), Len(j) + 1) =
        IF j # << >> /\ j[Len(j)] = "grpc" THEN TextAt(o, j, Len(j)) + 1 ELSE TextAt(o, j, Len(j))
  BY <1>1, TextAppended
<1>3. TextAt(o, j, Len(j)) \in Nat
  BY <1>1, TextAppended
<1>4. /\ Head(e).kind = "status" <=> j # << >> /\ j[Len(j)] = "grpc"
      /\ Head(e).text = TextAt(o, j, Len(j))
  BY DEF OnWay
<1>5. Head(e) \in Layers
  BY DEF NoError
<1>6. QED
  BY <1>2, <1>3, <1>4, <1>5 DEF Text

\* A biz error that is put over an error is the last one made.
LEMMA BizOnWay ==
  ASSUME NEW o, NEW e \in Seq(Layers), NEW j \in Seq(Steps), ~Vanishes(o, j),
         NEW s \in Biz, NEW text \in Nat, text = TextAt(o, Append(j, s), Len(j) + 1)
  PROVE  /\ <<BizError(500, text)>> \o e \in Seq(Layers)
         /\ OnWay(<<BizError(500, text)>> \o e, o, Append(j, s))
<1> DEFINE f == <<BizError(500, text)>> \o e
           k == Append(j, s)
<1>1. s \in Steps /\ s # "grpc"
  BY DEF Biz, Steps
<1>2. BizError(500, text) \in Layers /\ BizError(500, text).kind = "biz" /\ BizError(500, text).text = text
  BY LayerTyped DEF BizError
<1>3. f \in Seq(Layers) /\ f # NoError /\ Head(f) = BizError(500, text) /\ FirstBiz(f) = {BizError(500, text)}
  BY <1>2, Wrapped, FirstBizWrapped DEF NoError
<1>4. ~Vanishes(o, k)
  BY <1>1, VanishesAppended
<1>a. Carried(o, k) /\ LastMade(o, k) = Len(j) + 1
  BY <1>1, CarriedAppended, LastMadeAppended
<1>5. Carried(o, k) /\ LastMade(o, k) = Len(j) + 1 /\ Len(k) = Len(j) + 1 /\ k[Len(k)] = s /\ Len(j) \in Nat
  BY <1>1, <1>a, Appended
<1>6. CodeOf(o, LastMade(o, k)) = 500
  BY <1>5 DEF CodeOf
<1> HIDE DEF f, k
<1>7. OnWay(f, o, k)
  BY <1>1, <1>2, <1>3, <1>4, <1>5, <1>6 DEF OnWay, k
<1>8. QED
  BY <1>3, <1>7 DEF f, k

\* A comm error that is put over an error leaves its biz error.
LEMMA CommOnWay ==
  ASSUME NEW o, NEW e \in Seq(Layers), e # NoError, NEW j \in Seq(Steps), OnWay(e, o, j),
         NEW s \in Comm, NEW text \in Nat, text = TextAt(o, Append(j, s), Len(j) + 1)
  PROVE  /\ <<CommError(500, text)>> \o e \in Seq(Layers)
         /\ OnWay(<<CommError(500, text)>> \o e, o, Append(j, s))
<1> DEFINE f == <<CommError(500, text)>> \o e
           k == Append(j, s)
           p == LastMade(o, j)
<1>1. s \in Steps /\ s # "grpc" /\ s \notin Biz
  BY DEF Biz, Comm, Steps
<1>2. CommError(500, text) \in Layers /\ CommError(500, text).kind = "comm" /\ CommError(500, text).text = text
  BY LayerTyped DEF CommError
<1>3. f \in Seq(Layers) /\ f # NoError /\ Head(f) = CommError(500, text) /\ FirstBiz(f) = FirstBiz(e)
  BY <1>2, Wrapped, FirstBizWrapped DEF NoError
<1>4. ~Vanishes(o, k)
  BY <1>1, VanishesAppended DEF OnWay
<1>5. /\ Carried(o, k) <=> Carried(o, j)
      /\ LastMade(o, k) = p /\ Len(k) = Len(j) + 1 /\ k[Len(k)] = s
  BY <1>1, CarriedAppended, LastMadeAppended, Appended
<1>6. Carried(o, j) => TextAt(o, k, p) = TextAt(o, j, p)
  BY <1>1, TextAppended DEF Carried
<1>7. FirstBiz(e) = IF Carried(o, j) THEN {BizError(CodeOf(o, p), TextAt(o, j, p))} ELSE {}
  BY DEF OnWay
<1> HIDE DEF f, k, p
<1>8. FirstBiz(f) = IF Carried(o, k) THEN {BizError(CodeOf(o, LastMade(o, k)), TextAt(o, k, LastMade(o, k)))} ELSE {}
  BY <1>3, <1>5, <1>6, <1>7
<1>9. OnWay(f, o, k)
  BY <1>1, <1>2, <1>3, <1>4, <1>5, <1>8 DEF OnWay, k
<1>10. QED
  BY <1>3, <1>9 DEF f, k

\* The error of a JSON-RPC call has no biz error among its layers.
LEMMA JsonOnWay ==
  ASSUME NEW o, NEW j \in Seq(Steps), ~Vanishes(o, j),
         NEW text \in Nat, text = TextAt(o, Append(j, "json"), Len(j) + 1)
  PROVE  /\ ResponseError(text) \in Seq(Layers)
         /\ OnWay(ResponseError(text), o, Append(j, "json"))
<1> DEFINE f == ResponseError(text)
           k == Append(j, "json")
<1>1. "json" \in Steps
  BY DEF Steps
<1>2. /\ Layer("response", 0, text) \in Layers /\ Layer("response", 0, text).kind = "response"
      /\ f \in Seq(Layers) /\ f # << >> /\ Head(f) = Layer("response", 0, text)
      /\ Head(f).text = text /\ Head(f).kind = "response"
  BY LayerTyped DEF ResponseError
<1>3. FirstBiz(f) = {}
  BY <1>2, FirstBizAlone DEF ResponseError
<1>4. ~Vanishes(o, k)
  BY <1>1, VanishesAppended
<1>a. "json" \notin Biz /\ "json" \notin Comm
  BY DEF Biz, Comm
<1>b. ~Carried(o, k)
  BY <1>1, <1>a, CarriedAppended
<1>5. Len(k) = Len(j) + 1 /\ k[Len(k)] = "json" /\ ~Carried(o, k)
  BY <1>1, <1>b, Appended
<1> HIDE DEF f, k
<1>6. OnWay(f, o, k)
  BY <1>2, <1>3, <1>4, <1>5 DEF OnWay, k, NoError
<1>7. QED
  BY <1>2, <1>6 DEF f, k

\* A gRPC call makes a status of the biz error that it is given, which keeps its text and
\* its code; of a code 0 it makes none.  Any other error, but a status, becomes Unknown.
LEMMA GrpcOnWay ==
  ASSUME Codes \subseteq Nat, NEW o \in Origins,
         NEW e \in Seq(Layers), e # NoError, NEW j \in Seq(Steps), OnWay(e, o, j)
  PROVE  GrpcCall(e) \in Seq(Layers) /\ OnWay(GrpcCall(e), o, Append(j, "grpc"))
<1> DEFINE f == GrpcCall(e)
           k == Append(j, "grpc")
           n == Len(j)
           p == LastMade(o, j)
           b == BizError(CodeOf(o, p), TextAt(o, j, p))
<1>1. "grpc" \in Steps /\ "grpc" \notin Biz /\ "grpc" \notin {"newbiz", "newcomm"}
  BY DEF Steps, Biz
<1>2. /\ Head(e) \in Layers /\ ~Vanishes(o, j)
      /\ Head(e).kind = "status" <=> j # << >> /\ j[n] = "grpc"
      /\ Head(e).text = TextAt(o, j, n)
      /\ FirstBiz(e) = IF Carried(o, j) THEN {b} ELSE {}
      /\ Head(e).kind = "status" =>
           IF MadeAt(o, j) # {} /\ ByGrpc(j, p)
             THEN Head(e).code = CodeOf(o, p) /\ Head(e).text = TextAt(o, j, p)
             ELSE Head(e).code = Unknown
  BY DEF OnWay, NoError
<1>3. LastMade(o, k) = p /\ MadeAt(o, k) = MadeAt(o, j)
  BY <1>1, LastMadeAppended
<1>a. "grpc" \notin Comm
  BY DEF Comm
<1>b. ~Carried(o, k)
  BY <1>1, <1>a, CarriedAppended
<1>4. Len(k) = n + 1 /\ k[Len(k)] = "grpc" /\ k # << >> /\ ~Carried(o, k)
  BY <1>1, <1>b, Appended
<1>5. MadeAt(o, j) # {} => (ByGrpc(k, p) <=> ByGrpc(j, p)) /\ TextAt(o, k, p) = TextAt(o, j, p)
  BY <1>1, <1>3, HopsAppended, TextAppended
<1>6. CodeOf(o, p) \in Nat /\ Head(e).text \in Nat /\ Unknown \in Nat
  BY <1>2, OriginTyped DEF CodeOf, Layers, Unknown
<1>7. Vanishes(o, k) <=> IsBiz(o) /\ Head(o).code = OK /\ CommOnly(j, 0, n + 1)
  BY <1>1, <1>2, VanishesAppended
<1> HIDE DEF f, k, n, p
<1>8. CASE Carried(o, j)
  <2>1. FirstBiz(e) = {b} /\ MadeAt(o, j) # {} /\ p \in MadeAt(o, j) /\ CommOnly(j, p, n + 1)
    BY <1>2, <1>8, LastMadeIs DEF Carried, n, p
  <2>2. p \in 0..n /\ (p = 0 => IsBiz(o))
    <3>1. p \in 0..n
      BY <2>1, LastMadeIs DEF n, p
    <3>2. p = 0 => IsBiz(o)
      BY <2>1, Appended DEF MadeAt
    <3>3. QED
      BY <3>1, <3>2
  <2>t. TextAt(o, j, p) \in Nat
    <3>1. b \in Layers
      BY <2>1, FirstBizTyped
    <3>2. QED
      BY <3>1 DEF Layers, BizError, Layer
  <2>3. b.code = CodeOf(o, p) /\ b.text = TextAt(o, j, p)
    BY DEF BizError, Layer
  <2>4. f = IF CodeOf(o, p) = OK THEN NoError ELSE Status(CodeOf(o, p), TextAt(o, j, p))
    <3>1. (CHOOSE x \in FirstBiz(e) : TRUE) = b
      BY <2>1
    <3>2. ErrorInterceptor(e) =
            IF CodeOf(o, p) = OK THEN NoError ELSE Status(CodeOf(o, p), TextAt(o, j, p))
      BY <2>1, <2>3, <3>1 DEF ErrorInterceptor
    <3>3. Head(Status(CodeOf(o, p), TextAt(o, j, p))).kind = "status"
      BY DEF Status, Layer
    <3>4. QED
      BY <3>2, <3>3 DEF f, GrpcCall, Received
  <2>5. CASE CodeOf(o, p) = OK
    <3>1. p = 0 /\ IsBiz(o) /\ Head(o).code = OK
      BY <2>2, <2>5 DEF CodeOf, OK
    <3>2. f = NoError /\ Vanishes(o, k)
      BY <1>7, <2>1, <2>4, <2>5, <3>1
    <3>3. f \in Seq(Layers) /\ OnWay(f, o, k)
      BY <3>2 DEF OnWay, NoError
    <3>4. QED
      BY <3>3 DEF f, k
  <2>6. CASE CodeOf(o, p) # OK
    <3>1. /\ f \in Seq(Layers) /\ f # NoError
          /\ Head(f).kind = "status" /\ Head(f).code = CodeOf(o, p)
          /\ Head(f).text = TextAt(o, j, p) /\ FirstBiz(f) = {}
      <4>1. f = Status(CodeOf(o, p), TextAt(o, j, p))
        BY <2>4, <2>6
      <4>2. IsStatus(f, CodeOf(o, p), TextAt(o, j, p))
        BY <1>6, <2>t, <4>1, StatusTyped
      <4>3. QED
        BY <4>2 DEF IsStatus
    <3>2. ~Vanishes(o, k)
      <4>1. ASSUME IsBiz(o), Head(o).code = OK, CommOnly(j, 0, n + 1) PROVE FALSE
        <5>1. 0 \in MadeAt(o, j)
          BY <4>1 DEF MadeAt
        <5>2. p = 0
          BY <4>1, <5>1, CommMade DEF n, p
        <5>3. QED
          BY <2>6, <4>1, <5>2 DEF CodeOf
      <4>2. QED
        BY <1>7, <4>1
    <3>3. TextAt(o, k, n + 1) = TextAt(o, j, p)
      BY <1>1, <1>8, TextAppended DEF k, n, p
    <3>4. ByGrpc(j, p)
      BY <1>8, <2>1, CarriedHops DEF ByGrpc, p
    <3>5. OnWay(f, o, k)
      BY <1>3, <1>4, <1>5, <2>1, <3>1, <3>2, <3>3, <3>4 DEF OnWay
    <3>6. QED
      BY <3>1, <3>5 DEF f, k
  <2>7. QED
    BY <2>5, <2>6
<1>9. CASE ~Carried(o, j)
  <2>1. FirstBiz(e) = {} /\ f = Received(e)
    BY <1>2, <1>9 DEF f, GrpcCall, ErrorInterceptor
  <2>2. ~Vanishes(o, k)
    <3>1. ASSUME IsBiz(o), CommOnly(j, 0, n + 1) PROVE FALSE
      <4>1. 0 \in MadeAt(o, j)
        BY <3>1 DEF MadeAt
      <4>2. QED
        BY <1>9, <3>1, <4>1, CommMade DEF n
    <3>2. QED
      BY <1>7, <3>1
  <2>3. TextAt(o, k, n + 1) = TextAt(o, j, n)
    BY <1>1, <1>9, TextAppended DEF k, n
  <2>4. CASE Head(e).kind = "status"
    <3>1. f = e
      BY <2>1, <2>4 DEF Received
    <3>2. OnWay(e, o, k)
      BY <1>2, <1>3, <1>4, <1>5, <2>1, <2>2, <2>3, <2>4 DEF OnWay
    <3>3. QED
      BY <3>1, <3>2 DEF f, k
  <2>5. CASE Head(e).kind # "status"
    <3>1. f = Status(Unknown, Head(e).text)
      BY <2>1, <2>5 DEF Received, Text
    <3>2. /\ f \in Seq(Layers) /\ f # NoError
          /\ Head(f).kind = "status" /\ Head(f).code = Unknown
          /\ Head(f).text = TextAt(o, j, n) /\ FirstBiz(f) = {}
      <4>1. IsStatus(f, Unknown, Head(e).text)
        BY <1>6, <3>1, StatusTyped
      <4>2. Head(e).text = TextAt(o, j, n)
        BY <1>2 DEF n
      <4>3. QED
        BY <4>1, <4>2 DEF IsStatus
    <3>3. ~ (MadeAt(o, j) # {} /\ ByGrpc(j, p))
      BY <1>2, <1>9, <2>5, CarriedHops DEF n, p
    <3>4. OnWay(f, o, k)
      BY <1>3, <1>4, <1>5, <2>2, <2>3, <3>2, <3>3 DEF OnWay
    <3>5. QED
      BY <3>2, <3>4 DEF f, k
  <2>6. QED
    BY <2>4, <2>5
<1>10. QED
  BY <1>8, <1>9

\* What is known of an error on its way is known after every step of it.
LEMMA PassedOnWay ==
  ASSUME Codes \subseteq Nat, NEW o \in Origins,
         NEW e \in Seq(Layers), e # NoError, NEW j \in Seq(Steps), OnWay(e, o, j),
         NEW s \in Steps
  PROVE  Passed(e, s) \in Seq(Layers) /\ OnWay(Passed(e, s), o, Append(j, s))
<1>1. ~Vanishes(o, j)
  BY DEF OnWay
<1>2. s \in {"newbiz", "newcomm"} => 0 \in Nat /\ TextAt(o, Append(j, s), Len(j) + 1) = 0
  BY TextAppended
<1>3. s \in {"biz", "comm", "json"} =>
        Text(e) \in Nat /\ Text(e) = TextAt(o, Append(j, s), Len(j) + 1)
  BY TextOnWay
<1>4. CASE s = "biz"
  <2>1. s \in Biz /\ Passed(e, s) = <<BizError(500, Text(e))>> \o e
    BY <1>4 DEF Biz, Passed, WrapBiz
  <2>2. Text(e) \in Nat /\ Text(e) = TextAt(o, Append(j, s), Len(j) + 1)
    BY <1>3, <1>4
  <2>3. QED
    BY <1>1, <2>1, <2>2, BizOnWay
<1>5. CASE s = "newbiz"
  <2>1. s \in Biz /\ Passed(e, s) = <<BizError(500, 0)>> \o e
    BY <1>5 DEF Biz, Passed, WrapNewBiz
  <2>2. 0 \in Nat /\ 0 = TextAt(o, Append(j, s), Len(j) + 1)
    BY <1>2, <1>5
  <2>3. QED
    BY <1>1, <2>1, <2>2, BizOnWay
<1>6. CASE s = "comm"
  <2>1. s \in Comm /\ Passed(e, s) = <<CommError(500, Text(e))>> \o e
    BY <1>6 DEF Comm, Passed, WrapComm
  <2>2. Text(e) \in Nat /\ Text(e) = TextAt(o, Append(j, s), Len(j) + 1)
    BY <1>3, <1>6
  <2>3. QED
    BY <2>1, <2>2, CommOnWay
<1>7. CASE s = "newcomm"
  <2>1. s \in Comm /\ Passed(e, s) = <<CommError(500, 0)>> \o e
    BY <1>7 DEF Comm, Passed, WrapNewComm
  <2>2. 0 \in Nat /\ 0 = TextAt(o, Append(j, s), Len(j) + 1)
    BY <1>2, <1>7
  <2>3. QED
    BY <2>1, <2>2, CommOnWay
<1>8. CASE s = "grpc"
  BY <1>8, GrpcOnWay DEF Passed
<1>9. CASE s = "json"
  BY <1>1, <1>3, <1>9, JsonOnWay DEF Passed, JsonCall
<1>10. QED
  BY <1>4, <1>5, <1>6, <1>7, <1>8, <1>9 DEF Steps

\* What is answered is what Shown says of the way.
LEMMA ResponseShown ==
  ASSUME NEW o, NEW e \in Seq(Layers), NEW j \in Seq(Steps), OnWay(e, o, j)
  PROVE  Response(e) = Shown(o, j)
<1> DEFINE n == Len(j)
           p == LastMade(o, j)
           c == CodeOf(o, p)
           text == TextAt(o, j, p)
<1>1. CASE e = NoError
  BY <1>1 DEF OnWay, Response, Shown
<1>2. CASE e # NoError
  <2>1. /\ ~Vanishes(o, j) /\ Response(e) = ExceptionFail(e)
        /\ Head(e).kind = "status" <=> j # << >> /\ j[n] = "grpc"
        /\ FirstBiz(e) = IF Carried(o, j) THEN {BizError(c, text)} ELSE {}
        /\ Head(e).kind = "status" =>
             IF MadeAt(o, j) # {} /\ ByGrpc(j, p)
               THEN Head(e).code = c /\ Head(e).text = text ELSE Head(e).code = Unknown
    BY <1>2 DEF OnWay, Response
  <2>2. MadeAt(o, j) # {} =>
          /\ Carried(o, j) <=> HopsAfter(j, p) = {}
          /\ Head(e).kind = "status" => HopsAfter(j, p) # {}
          /\ HopsAfter(j, p) # {} /\ ByGrpc(j, p) => Head(e).kind = "status"
    BY <2>1, CarriedHops
  <2>3. Shown(o, j) = IF MadeAt(o, j) # {} /\ Reaches(j, p, c) THEN Result(c, text) ELSE ServerError
    BY <2>1 DEF Shown
  <2> HIDE DEF n, p, c, text
  <2>4. CASE Carried(o, j)
    <3>1. MadeAt(o, j) # {} /\ Reaches(j, p, c) /\ Head(e).kind # "status"
      BY <2>2, <2>4 DEF Carried, Reaches
    <3>2. (CHOOSE b \in FirstBiz(e) : TRUE) = BizError(c, text) /\ FirstBiz(e) # {}
      BY <2>1, <2>4
    <3>3. BizError(c, text).code = c /\ BizError(c, text).text = text
      BY DEF BizError, Layer
    <3>4. ExceptionFail(e) = Result(c, text)
      BY <3>1, <3>2, <3>3 DEF ExceptionFail
    <3>5. QED
      BY <2>1, <2>3, <3>1, <3>4
  <2>5. CASE ~Carried(o, j) /\ Head(e).kind = "status" /\ Head(e).code # Unknown
    <3>1. MadeAt(o, j) # {} /\ ByGrpc(j, p) /\ Head(e).code = c /\ Head(e).text = text
      BY <2>1, <2>5
    <3>2. ExceptionFail(e) = Result(c, text)
      BY <2>5, <3>1 DEF ExceptionFail
    <3>3. Reaches(j, p, c)
      BY <2>5, <3>1 DEF Reaches
    <3>4. QED
      BY <2>1, <2>3, <3>1, <3>2, <3>3
  <2>6. CASE ~Carried(o, j) /\ ~ (Head(e).kind = "status" /\ Head(e).code # Unknown)
    <3>1. ExceptionFail(e) = ServerError
      BY <2>1, <2>6 DEF ExceptionFail
    <3>2. ~ (MadeAt(o, j) # {} /\ Reaches(j, p, c))
      BY <2>1, <2>2, <2>6 DEF Reaches
    <3>3. QED
      BY <2>1, <2>3, <3>1, <3>2
  <2>7. QED
    BY <2>4, <2>5, <2>6
<1>3. QED
  BY <1>1, <1>2

\* An answer has a number for its code.
LEMMA ResponseTyped ==
  ASSUME NEW e \in Seq(Layers)
  PROVE  Response(e).code \in Nat
<1>1. e # NoError => Head(e) \in Layers
  BY DEF NoError
<1>2. FirstBiz(e) # {} => (CHOOSE b \in FirstBiz(e) : TRUE) \in Layers
  BY FirstBizTyped
<1>3. QED
  BY <1>1, <1>2 DEF Response, ExceptionFail, Result, Success, ServerError, Layers

-----------------------------------------------------------------------------
\* The server as a whole.

\* A request leaves its handler, or is answered: to the middlewares a step of the handler.
Leaves(r) ==
  /\ pc[r] \in {"handler", "answer"}
  /\ \E p \in {"panic", "answer", "done"} : Users!Goto(r, p)
  /\ answers' = answers \/ \E a \in Nat : Users!Answer(r, a)
  /\ UNCHANGED <<profile, cache, holder, renewing, user, json, context, fetches, troubles>>

\* Each step is one of the middlewares, or leaves them alone but for the place and the
\* answer of a request whose handler runs; and one of the client of JSON-RPC, or leaves it
\* alone.
LEMMA Sides ==
  ASSUME TypeOK, [Next]_vars
  PROVE  /\ [Users!Next]_Users!vars \/ \E r \in Requests : Leaves(r)
         /\ [Rpc!Next]_Rpc!vars
<1> USE DEF request, call, Users!vars, Rpc!vars
<1>1. CASE Change
  BY <1>1 DEF Change, Rpc!Next, Rpc!Change
<1>2. CASE Lock
  BY <1>2 DEF Lock, Users!Next
<1>3. ASSUME NEW r \in Requests, Works(r) \/ LockFails(r)
      PROVE  Users!Next /\ UNCHANGED Rpc!vars
  BY <1>3 DEF Works, LockFails, Users!Next, Users!Middleware
<1>4. ASSUME NEW r \in Requests, Call(r) \/ CallGoesOn(r)
      PROVE  Rpc!Next /\ UNCHANGED Users!vars
  <2>1. Rpc!Next
    BY <1>4 DEF Call, CallGoesOn, Rpc!Next
  <2>2. context' = context
    BY <1>4 DEF Call, CallGoesOn, Rpc!Begin, Rpc!Step, Rpc!GetServices, Rpc!Write, Rpc!Pick,
                Rpc!GetRequestContext, Rpc!Post
  <2>3. UNCHANGED request
    BY <1>4 DEF Call, CallGoesOn
  <2>4. QED
    BY <2>1, <2>2, <2>3
<1>5. ASSUME NEW r \in Requests, Panic(r) \/ Finish(r) PROVE Leaves(r) /\ UNCHANGED Rpc!vars
  BY <1>5 DEF Panic, Finish, Leaves
<1>6. ASSUME NEW r \in Requests, Pass(r) PROVE UNCHANGED Users!vars /\ UNCHANGED Rpc!vars
  BY <1>6 DEF Pass
<1>7. ASSUME NEW r \in Requests, Respond(r) PROVE Leaves(r) /\ UNCHANGED Rpc!vars
  <2>1. Response(error[r]).code \in Nat
    BY ResponseTyped DEF TypeOK
  <2>2. QED
    BY <1>7, <2>1 DEF Respond, Leaves
<1>8. CASE UNCHANGED vars
  BY <1>8 DEF vars
<1>9. QED
  BY <1>1, <1>2, <1>3, <1>4, <1>5, <1>6, <1>7, <1>8 DEF Next, Handles

\* A request that leaves its handler takes nothing from what is known of the users.
LEMMA LeavesStep ==
  ASSUME Users!RequestsKnown, Users!TypeOK, Users!UserInv, Users!FetchInv,
         NEW r \in Requests, Leaves(r)
  PROVE  Users!TypeOK' /\ Users!UserInv' /\ Users!FetchInv'
<1>1. /\ pc' \in [Requests -> Places] /\ pc'[r] \in {"panic", "answer", "done"}
      /\ \A q \in Requests \ {r} : pc'[q] = pc[q]
  <2>1. pc \in [Requests -> Places]
    BY DEF Users!TypeOK, Places, Working
  <2>2. PICK p \in {"panic", "answer", "done"} : pc' = [pc EXCEPT ![r] = p]
    BY DEF Leaves, Users!Goto
  <2>3. p \in Places
    BY DEF Places
  <2>4. QED
    BY <2>1, <2>2, <2>3
<1>2. answers' \in [Requests -> SUBSET Nat]
  BY AnswerTyped DEF Leaves, Users!TypeOK
<1>3. Users!TypeOK'
  BY <1>1, <1>2 DEF Leaves, Users!TypeOK, Places, Working
<1>4. Lasting
  BY DEF Leaves, Lasting
<1>5. \A q \in Requests \ {r} : Untouched(q)
  <2>1. \A q \in Requests \ {r} : answers'[q] = answers[q]
    BY DEF Leaves, Users!Answer, Users!TypeOK
  <2>2. QED
    BY <1>1, <2>1 DEF Leaves, Untouched
<1>6. Users!TrueAt(r)' /\ Users!UserAt(r)'
  <2>1. Users!UserAt(r)
    BY DEF Users!UserInv
  <2>2. r \in renewing' => Users!Token(r)' \in Tokens
    BY <2>1 DEF Leaves, Users!UserAt, Users!Token
  <2>3. QED
    BY <1>1, <2>2 DEF Users!TrueAt, Users!UserAt, Users!Locking
<1>7. Users!UserInv'
  BY <1>4, <1>5, <1>6, UntouchedKept DEF Users!UserInv
<1>8. pc[r] \notin Working /\ pc'[r] \notin Working
  BY <1>1 DEF Leaves, Working
<1>9. Users!FetchInv'
  BY <1>1, <1>8, QuietStep DEF Leaves
<1>10. QED
  BY <1>3, <1>7, <1>9

-----------------------------------------------------------------------------
\* What is known of a request's error.

ErrorsTyped ==
  /\ origin \in [Requests -> Origins \cup {NoError}]
  /\ error \in [Requests -> Seq(Layers)] /\ journey \in [Requests -> Seq(Steps)]
  /\ \A r \in Requests : Len(journey[r]) <= profile[r].steps

\* A request whose error stays, and that stays where it is once it has one.
LEMMA SameWay ==
  ASSUME NEW r \in Requests, WayAt(r),
         origin'[r] = origin[r], error'[r] = error[r], journey'[r] = journey[r],
         pc[r] \in {"answer", "done"} => pc'[r] \in {"answer", "done"}
  PROVE  WayAt(r)'
<1>1. OnWay(error[r], origin[r], journey[r])' <=> OnWay(error'[r], origin'[r], journey'[r])
  OBVIOUS
<1>2. QED
  BY <1>1, Zenon DEF WayAt

\* A call that has returned has a result.
LEMMA ReturnedStep ==
  ASSUME Rpc!TypeOK, [Rpc!Next]_Rpc!vars, NEW r \in Requests, Returned(r)
  PROVE  Returned(r)'
<1> USE DEF Rpc!Goto, Rpc!Returns, Rpc!TypeOK, Returned
<1>1. CASE Rpc!Change
  BY <1>1 DEF Rpc!Change
<1>2. ASSUME NEW c \in Requests, Rpc!Begin(c) PROVE Returned(r)'
  BY <1>2 DEF Rpc!Begin
<1>3. ASSUME NEW c \in Requests, Rpc!GetServices(c) PROVE Returned(r)'
  BY <1>3 DEF Rpc!GetServices
<1>4. ASSUME NEW c \in Requests, Rpc!Write(c) PROVE Returned(r)'
  BY <1>4 DEF Rpc!Write
<1>5. ASSUME NEW c \in Requests, Rpc!Pick(c) PROVE Returned(r)'
  BY <1>5 DEF Rpc!Pick
<1>6. ASSUME NEW c \in Requests, Rpc!GetRequestContext(c) PROVE Returned(r)'
  BY <1>6 DEF Rpc!GetRequestContext
<1>7. ASSUME NEW c \in Requests, Rpc!Post(c) PROVE Returned(r)'
  BY <1>7 DEF Rpc!Post
<1>8. CASE UNCHANGED Rpc!vars
  BY <1>8 DEF Rpc!vars
<1>9. QED
  BY <1>1, <1>2, <1>3, <1>4, <1>5, <1>6, <1>7, <1>8 DEF Rpc!Next, Rpc!Step

\* The middlewares have done with a request that has got to its answer.
LEMMA WorksPlaces ==
  ASSUME Users!TypeOK, NEW r \in Requests, Users!Works(r) \/ Users!LockFails(r)
  PROVE  pc[r] \notin {"answer", "done"} /\ \A q \in Requests \ {r} : pc'[q] = pc[q]
<1> USE DEF Users!Goto, Users!ToHandler, Users!TypeOK
<1>1. CASE Users!Resolve(r) \/ Users!FixedUser(r) \/ Users!NoToken(r) \/ Users!Look(r)
  BY <1>1 DEF Users!Resolve, Users!FixedUser, Users!NoToken, Users!Look
<1>2. CASE Users!TakeLock(r) \/ Users!LockFails(r) \/ Users!LookAgain(r)
  BY <1>2 DEF Users!TakeLock, Users!LockFails, Users!LookAgain
<1>3. CASE Users!Ask(r) \/ Users!Store(r)
  BY <1>3 DEF Users!Ask, Users!Asks, Users!Store
<1>4. CASE Users!Unlock(r) \/ Users!Unwind(r) \/ Users!Recover(r)
  BY <1>4 DEF Users!Unlock, Users!Unwind, Users!Recover
<1>5. QED
  BY <1>1, <1>2, <1>3, <1>4 DEF Users!Works

\* The error that a handler ends with is one of those made below it.
LEMMA MadeTyped ==
  ASSUME Rpc!TypeOK, NEW r \in Requests, Returned(r), NEW e \in Made(r),
         at[r] = IF profile[r].calls THEN "returned" ELSE "idle"
  PROVE  e \in Origins \cup {NoError}
<1>1. CASE profile[r].calls
  <2>1. result[r] \in {"reply", "plain", "comm", "response"} /\ e = CallError(r)
    BY <1>1 DEF Rpc!TypeOK, Returned, Made
  <2>2. QED
    BY <2>1 DEF CallError, Origins
<1>2. CASE ~profile[r].calls
  BY <1>2 DEF Made
<1>3. QED
  BY <1>1, <1>2

LEMMA StepsCounted ==
  ASSUME Users!TypeOK, NEW r \in Requests
  PROVE  profile[r].steps \in Nat
<1>1. profile \in [Requests -> Users!Profiles]
  BY Bounds DEF Users!TypeOK, Users!RequestsKnown
<1>2. QED
  BY <1>1 DEF Users!Profiles

\* No request changes what it is.
LEMMA ProfileStep ==
  ASSUME TypeOK, [Next]_vars
  PROVE  profile' = profile
<1>1. ASSUME NEW r \in Requests, Users!Middleware(r) PROVE profile' = profile
  BY <1>1 DEF Users!Middleware, Users!Works, Users!Resolve, Users!FixedUser, Users!NoToken,
     Users!Look, Users!TakeLock, Users!LockFails, Users!LookAgain, Users!Ask, Users!Asks,
     Users!Store, Users!Unlock, Users!Unwind, Users!Recover
<1>2. ASSUME Users!Lock PROVE profile' = profile
  BY <1>2 DEF Users!Lock, Users!Expire, Users!Renew
<1>3. ASSUME UNCHANGED Users!vars PROVE profile' = profile
  BY <1>3 DEF Users!vars
<1>4. ASSUME NEW r \in Requests, Leaves(r) PROVE profile' = profile
  BY <1>4 DEF Leaves
<1>5. QED
  BY <1>1, <1>2, <1>3, <1>4, Sides DEF Users!Next

LEMMA WayStep ==
  ASSUME TypeOK, WayInv, [Next]_vars
  PROVE  ErrorsTyped' /\ WayInv'
<1>1. /\ Users!TypeOK /\ Rpc!TypeOK /\ ErrorsTyped /\ Codes \subseteq Nat
      /\ \A q \in Requests : WayAt(q) /\ Returned(q)
  BY RequestAssumption DEF TypeOK, WayInv, ErrorsTyped
<1>2. profile' = profile
  BY ProfileStep
<1>3. \A q \in Requests : Returned(q)'
  BY <1>1, Sides, ReturnedStep
<1>4. ASSUME \A q \in Requests : WayAt(q)' PROVE WayInv'
  BY <1>3, <1>4 DEF WayInv
<1>5. ASSUME UNCHANGED way,
             \A q \in Requests : pc[q] \in {"answer", "done"} => pc'[q] \in {"answer", "done"}
      PROVE  ErrorsTyped' /\ WayInv'
  <2>1. ErrorsTyped'
    BY <1>1, <1>2, <1>5 DEF ErrorsTyped, way
  <2>2. \A q \in Requests : WayAt(q)'
    BY <1>1, <1>5, SameWay DEF way
  <2>3. QED
    BY <1>4, <2>1, <2>2
<1>6. CASE Change \/ Lock \/ UNCHANGED vars
  <2>1. UNCHANGED way /\ pc' = pc
    BY <1>6 DEF Change, Lock, vars, request, Users!Lock, Users!Expire, Users!Renew
  <2>2. QED
    BY <1>5, <2>1
<1>7. ASSUME NEW r \in Requests, Works(r) \/ LockFails(r) PROVE ErrorsTyped' /\ WayInv'
  BY <1>1, <1>5, <1>7, WorksPlaces DEF Works, LockFails
<1>8. ASSUME NEW r \in Requests, Call(r) \/ CallGoesOn(r) PROVE ErrorsTyped' /\ WayInv'
  BY <1>5, <1>8 DEF Call, CallGoesOn, request
<1>9. ASSUME NEW r \in Requests, Panic(r) \/ Respond(r) PROVE ErrorsTyped' /\ WayInv'
  BY <1>1, <1>5, <1>9 DEF Panic, Respond, Users!Goto, Users!TypeOK
<1>10. ASSUME NEW r \in Requests, Finish(r) PROVE ErrorsTyped' /\ WayInv'
  <2>1. PICK e \in Made(r) : error' = [error EXCEPT ![r] = e] /\ origin' = [origin EXCEPT ![r] = e]
    BY <1>10 DEF Finish
  <2>2. e \in Origins \cup {NoError}
    BY <1>1, <1>10, MadeTyped DEF Finish
  <2>3. e \in Seq(Layers)
    <3>1. << >> \in Seq(Layers)
      OBVIOUS
    <3>2. e \in Origins => e \in Seq(Layers)
      BY <1>1, OriginTyped
    <3>3. QED
      BY <2>2, <3>1, <3>2 DEF NoError
  <2>4. pc[r] = "handler" /\ pc' = [pc EXCEPT ![r] = "answer"] /\ journey' = journey
    BY <1>10 DEF Finish, Users!Goto
  <2>5. ErrorsTyped'
    BY <1>1, <1>2, <2>1, <2>2, <2>3, <2>4 DEF ErrorsTyped
  <2>6. \A q \in Requests \ {r} : WayAt(q)'
    BY <1>1, <2>1, <2>4, SameWay DEF ErrorsTyped, Users!TypeOK
  <2>7. WayAt(r)'
    <3>1. origin[r] = NoError /\ journey[r] = << >>
      BY <1>1, <2>4 DEF WayAt
    <3>2. error'[r] = e /\ origin'[r] = e /\ journey'[r] = << >> /\ pc'[r] = "answer"
      BY <1>1, <2>1, <2>4, <3>1 DEF ErrorsTyped, Users!TypeOK
    <3>3. e # NoError => OnWay(e, e, << >>)
      BY <1>1, <2>2, OnWayStart
    <3>4. QED
      BY <3>2, <3>3, Zenon DEF WayAt
  <2>8. QED
    BY <1>4, <2>5, <2>6, <2>7
<1>11. ASSUME NEW r \in Requests, Pass(r) PROVE ErrorsTyped' /\ WayInv'
  <2>1. PICK s \in Steps : /\ error' = [error EXCEPT ![r] = Passed(@, s)]
                           /\ journey' = [journey EXCEPT ![r] = Append(@, s)]
    BY <1>11 DEF Pass
  <2>2. /\ error[r] # NoError /\ Len(journey[r]) < profile[r].steps
        /\ origin' = origin /\ pc' = pc
    BY <1>11 DEF Pass, request
  <2>3. /\ error[r] \in Seq(Layers) /\ journey[r] \in Seq(Steps) /\ origin[r] \in Origins \cup {NoError}
        /\ error'[r] = Passed(error[r], s) /\ journey'[r] = Append(journey[r], s)
        /\ \A q \in Requests \ {r} : error'[q] = error[q] /\ journey'[q] = journey[q]
    BY <1>1, <2>1 DEF ErrorsTyped
  <2>4. origin[r] # NoError /\ OnWay(error[r], origin[r], journey[r])
    BY <1>1, <2>2 DEF WayAt
  <2>5. /\ Passed(error[r], s) \in Seq(Layers)
        /\ OnWay(Passed(error[r], s), origin[r], Append(journey[r], s))
    BY <1>1, <2>2, <2>3, <2>4, PassedOnWay
  <2>6. ErrorsTyped'
    <3>1. Append(journey[r], s) \in Seq(Steps) /\ Len(Append(journey[r], s)) = Len(journey[r]) + 1
      BY <2>3, Appended
    <3>2. error' \in [Requests -> Seq(Layers)] /\ journey' \in [Requests -> Seq(Steps)]
      BY <1>1, <2>1, <2>3, <2>5, <3>1 DEF ErrorsTyped
    <3>3. Len(journey'[r]) <= profile[r].steps
      BY <1>1, <2>2, <2>3, <3>1, StepsCounted, Appended
    <3>4. QED
      BY <1>1, <1>2, <2>2, <2>3, <3>2, <3>3 DEF ErrorsTyped
  <2>7. \A q \in Requests \ {r} : WayAt(q)'
    BY <1>1, <2>2, <2>3, SameWay
  <2>8. WayAt(r)'
    <3>1. pc'[r] \in {"answer", "done"}
      BY <1>1, <2>2, <2>4 DEF WayAt
    <3>2. QED
      BY <2>2, <2>3, <2>4, <2>5, <3>1, Zenon DEF WayAt
  <2>9. QED
    BY <1>4, <2>6, <2>7, <2>8
<1>12. QED
  BY <1>6, <1>7, <1>8, <1>9, <1>10, <1>11 DEF Next, Handles

-----------------------------------------------------------------------------
\* The theorems.

\* The inductive invariant: the types, and why each part of the server is correct.
Inv ==
  /\ TypeOK
  /\ Users!UserInv /\ Users!FetchInv
  /\ Rpc!SelectorInv /\ Rpc!BalanceInv
  /\ WayInv

LEMMA InvStart == Init => Inv
<1> SUFFICES ASSUME Init PROVE Inv
  OBVIOUS
<1>1. Users!Init /\ Rpc!Init
  BY DEF Init
<1>2. Users!TypeOK
  BY <1>1, Bounds DEF Users!RequestsKnown, Users!Init, Users!TypeOK
<1>3. Users!UserInv
  BY <1>1 DEF Users!Init, Users!UserInv, Users!TrueAt, Users!UserAt, Users!Locking
<1>4. Users!FetchInv
  <2> SUFFICES ASSUME NEW t \in Tokens PROVE Users!FetchAt(t)
    BY DEF Users!FetchInv
  <2>1. Users!Askers(t) = {}
    BY <1>1 DEF Users!Init, Users!Askers
  <2>2. Cardinality(Users!Askers(t)) = 0
    BY <2>1, FS_EmptySet
  <2>3. Users!Open(t) \in {0, 1}
    BY DEF Users!Open
  <2>4. holder[t] = None /\ fetches[t] = 0 /\ troubles[t] = 0
    BY <1>1 DEF Users!Init
  <2>5. QED
    BY <2>2, <2>3, <2>4, SameCount DEF Users!FetchAt
<1>5. Rpc!TypeOK
  BY <1>1, Bounds DEF Rpc!Init, Rpc!TypeOK, Rpc!Stages, Rpc!Places
<1>6. Rpc!SelectorInv
  BY <1>1, Bounds DEF Rpc!Init, Rpc!SelectorInv, Rpc!Stages
<1>7. Rpc!BalanceInv
  <2>1. \A i, j \in 0..nodes - 1 : Rpc!Level(i, j)
    <3> SUFFICES ASSUME NEW i \in 0..nodes - 1, NEW j \in 0..nodes - 1 PROVE Rpc!Level(i, j)
      OBVIOUS
    <3>1. picks[i] = 0 /\ picks[j] = 0
      BY <1>1, Bounds DEF Rpc!Init, Rpc!Places
    <3>2. Rpc!Coming(i) = 0 /\ Rpc!Coming(j) = 0
      BY <1>1 DEF Rpc!Init, Rpc!Coming
    <3>3. Rpc!Turn(i) = 0 /\ Rpc!Turn(j) = 0
      BY <1>1 DEF Rpc!Init, Rpc!Turn
    <3>4. Cardinality(stale) = 0 /\ races = 0
      BY <1>1, FS_EmptySet DEF Rpc!Init
    <3>5. QED
      BY <3>1, <3>2, <3>3, <3>4, SameCount DEF Rpc!Level
  <2>2. QED
    BY <1>1, <2>1, Bounds DEF Rpc!Init, Rpc!BalanceInv
<1>8. ErrorsTyped
  <2>1. << >> \in Seq(Layers) /\ << >> \in Seq(Steps) /\ Len(<< >>) = 0
    OBVIOUS
  <2>2. QED
    BY <1>2, <2>1, StepsCounted DEF Init, ErrorsTyped, NoError
<1>9. WayInv
  BY <1>1 DEF Init, WayInv, WayAt, Returned, Rpc!Init
<1>10. QED
  BY <1>2, <1>3, <1>4, <1>5, <1>6, <1>7, <1>8, <1>9 DEF Inv, TypeOK, ErrorsTyped

LEMMA InvStep == Inv /\ [Next]_vars => Inv'
<1> SUFFICES ASSUME Inv, [Next]_vars PROVE Inv'
  OBVIOUS
<1>1. /\ TypeOK /\ Users!TypeOK /\ Rpc!TypeOK /\ Users!RequestsKnown
      /\ Users!UserInv /\ Users!FetchInv /\ Rpc!SelectorInv /\ Rpc!BalanceInv /\ WayInv
  BY Bounds DEF Inv, TypeOK
<1>2. Users!TypeOK' /\ Users!UserInv' /\ Users!FetchInv'
  <2>1. CASE [Users!Next]_Users!vars
    BY <1>1, <2>1, UserStep, FetchStep
  <2>2. ASSUME NEW r \in Requests, Leaves(r) PROVE Users!TypeOK' /\ Users!UserInv' /\ Users!FetchInv'
    BY <1>1, <2>2, LeavesStep
  <2>3. QED
    BY <1>1, <2>1, <2>2, Sides
<1>3. Rpc!TypeOK' /\ Rpc!SelectorInv' /\ Rpc!BalanceInv'
  <2>1. [Rpc!Next]_Rpc!vars
    BY <1>1, Sides
  <2>2. QED
    BY <1>1, <2>1, RpcTypeStep, SelectorStep, BalanceStep
<1>4. ErrorsTyped' /\ WayInv'
  BY <1>1, WayStep
<1>5. QED
  BY <1>2, <1>3, <1>4 DEF Inv, TypeOK, ErrorsTyped

LEMMA InvHolds == Spec => []Inv
BY InvStart, InvStep, PTL DEF Spec

\* Every variable of the server has its type, for any requests, tokens, nodes and errors.
THEOREM TypeCorrect == Spec => []TypeOK
<1>1. Inv => TypeOK
  BY DEF Inv
<1>2. QED
  BY <1>1, InvHolds, PTL

\* The user of a token is asked for once, and once more for each failure or lost lock: for
\* any number of requests that come with it at the same time.
THEOREM OneFetchHolds == Spec => []OneFetch
<1>1. Inv => OneFetch
  <2> SUFFICES ASSUME Inv, NEW t \in Tokens PROVE fetches[t] <= 1 + troubles[t]
    BY DEF OneFetch, Users!OneFetch
  <2>1. /\ Users!FetchAt(t) /\ fetches[t] \in Nat /\ troubles[t] \in Nat
    BY DEF Inv, TypeOK, Users!TypeOK, Users!FetchInv
  <2>2. Cardinality(Users!Askers(t)) \in Nat
    BY Bounds, AskersFinite
  <2>3. Users!Open(t) \in Nat
    BY DEF Users!Open
  <2>4. fetches[t] + Cardinality(Users!Askers(t)) + Users!Open(t) <= 1 + troubles[t]
    BY <2>1, SameCount DEF Users!FetchAt
  <2>5. QED
    BY <2>1, <2>2, <2>3, <2>4
<1>2. QED
  BY <1>1, InvHolds, PTL

\* The handler of a request, of any number of them, gets its user, in its own context and
\* in what it sends on, with the exceptions that UserTrue names and no others.
THEOREM UserTrueHolds == Spec => []UserTrue
<1>1. Inv => UserTrue
  BY DEF Inv, UserTrue, Users!UserInv, Users!UserTrue
<1>2. QED
  BY <1>1, InvHolds, PTL

\* A call panics for a node that its list does not have only when another call, with a
\* longer list, has written the index since: for any number of calls, nodes and changes.
THEOREM PanicExplainedHolds == Spec => []PanicExplained
<1>1. Inv => PanicExplained
  BY DEF Inv, PanicExplained, Rpc!SelectorInv, Rpc!PanicExplained, Rpc!Overruns
<1>2. QED
  BY <1>1, InvHolds, PTL

\* While the list of nodes is the same no node has been picked more often than another by
\* more than one, and two for each time a call was overtaken.
THEOREM BalancedHolds == Spec => []Balanced
<1>1. Inv => Balanced
  <2> SUFFICES ASSUME Inv, changes = 0, NEW i \in 0..nodes - 1, NEW j \in 0..nodes - 1
               PROVE  picks[i] <= picks[j] + 1 + 2 * races
    BY DEF Balanced, Rpc!Balanced
  <2>1. /\ Rpc!Level(i, j) /\ Rpc!TypeOK
    BY DEF Inv, TypeOK, Rpc!BalanceInv
  <2>2. picks[i] \in Nat /\ picks[j] \in Nat /\ races \in Nat
    BY <2>1, Bounds DEF Rpc!TypeOK, Rpc!Places
  <2>3. stale \in SUBSET Requests
    BY <2>1 DEF Rpc!TypeOK
  <2>4. Cardinality(stale) \in Nat
    BY <2>3, Bounds, FS_Subset, FS_CardinalityType
  <2>5. /\ Rpc!Coming(i) \in {0, 1} /\ Rpc!Coming(j) \in {0, 1}
        /\ Rpc!Turn(i) \in {0, 1} /\ Rpc!Turn(j) \in {0, 1}
    BY DEF Rpc!Coming, Rpc!Turn
  <2>6. Rpc!Coming(j) = 1 /\ Rpc!Turn(i) = 1 => Rpc!Turn(j) = 1
    BY <2>1, Bounds DEF Rpc!Coming, Rpc!Turn, Rpc!TypeOK, Rpc!Places
  <2>7. QED
    BY <2>1, <2>2, <2>4, <2>5, <2>6, SameCount DEF Rpc!Level
<1>2. QED
  BY <1>1, InvHolds, PTL

\* The answer shows the last biz error that was made on the way of an error, and that the
\* system is busy otherwise: for any error, of any code, and a way of any length.
THEOREM ErrorShownHolds == Spec => []ErrorShown
<1>1. Inv => ErrorShown
  <2> SUFFICES ASSUME Inv, NEW r \in Requests, origin[r] # NoError
               PROVE  Response(error[r]) = Shown(origin[r], journey[r])
    BY DEF ErrorShown
  <2>1. error[r] \in Seq(Layers) /\ journey[r] \in Seq(Steps)
    BY DEF Inv, TypeOK
  <2>2. OnWay(error[r], origin[r], journey[r])
    BY DEF Inv, WayInv, WayAt
  <2>3. QED
    BY <2>1, <2>2, ResponseShown
<1>2. QED
  BY <1>1, InvHolds, PTL
=============================================================================
