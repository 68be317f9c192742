------------------------------ MODULE Requests ------------------------------
(***************************************************************************)
(* Requests of one HTTP server at the same time: each comes through the    *)
(* middlewares (UserCache) to a handler, which may call a JSON-RPC service *)
(* (JsonRpcClient) with the context it was given, and answers with what    *)
(* Response makes of its error (ErrorPath).  The handlers are those of the *)
(* framework's users: one call at most, any error of theirs or the call's. *)
(***************************************************************************)
EXTENDS ErrorPath

CONSTANTS Requests, Tokens, None, Mixes, MaxTroubles, MaxNodes, MaxChanges

VARIABLES
  profile, pc, cache, holder, renewing, user, json, context, answers, fetches, troubles,
  index, nodes, at, read, services, result, length, stale, picks, races, changes,
  error,          \* the error of each request, on its way to the answer
  origin, journey \* history: the error that was made, and the steps it has taken

Users == INSTANCE UserCache
Rpc == INSTANCE JsonRpcClient WITH Callers <- Requests

ASSUME RequestAssumption ==
  /\ Users!RequestsKnown
  /\ MaxNodes \in Nat \ {0} /\ MaxChanges \in Nat
  /\ Codes \subseteq Nat

\* The context of a request is the one its call is given.
request == <<profile, pc, cache, holder, renewing, user, json, answers, fetches, troubles>>
call == <<index, nodes, at, read, services, result, length, stale, picks, races, changes>>
way == <<error, origin, journey>>
vars == <<request, context, call, way>>

Init ==
  /\ Users!Init /\ Rpc!Init
  /\ error = [r \in Requests |-> NoError]
  /\ origin = error
  /\ journey = [r \in Requests |-> << >>]

Works(r) == Users!Works(r) /\ UNCHANGED <<call, way>>
LockFails(r) == Users!LockFails(r) /\ UNCHANGED <<call, way>>
Lock == Users!Lock /\ UNCHANGED <<call, way>>

\* The call of a handler, if it makes one.
Call(r) == pc[r] = "handler" /\ profile[r].calls /\ Rpc!Begin(r) /\ UNCHANGED <<request, way>>
CallGoesOn(r) == Rpc!Step(r) /\ UNCHANGED <<request, way>>
Change == Rpc!Change /\ UNCHANGED <<request, way>>

\* A panic of the call unwinds to GlobalErrorMiddleware.
Panic(r) ==
  /\ pc[r] = "handler" /\ at[r] = "panic"
  /\ Users!Goto(r, "panic")
  /\ UNCHANGED <<profile, cache, holder, renewing, user, json, context, answers, fetches, troubles,
                 call, way>>

\* The error of Client.Call, or those that are made below a handler that makes none.
CallError(r) ==
  CASE result[r] = "reply" -> NoError
    [] result[r] = "plain" -> Plain(0)
    [] result[r] = "comm" -> <<CommError(500, 0)>>
    [] result[r] = "response" -> ResponseError(0)

Made(r) ==
  IF profile[r].calls THEN {CallError(r)}
  ELSE IF profile[r].steps > 0 THEN Origins ELSE {NoError}

Finish(r) ==
  /\ pc[r] = "handler"
  /\ at[r] = IF profile[r].calls THEN "returned" ELSE "idle"
  /\ \E e \in Made(r) : error' = [error EXCEPT ![r] = e] /\ origin' = [origin EXCEPT ![r] = e]
  /\ Users!Goto(r, "answer")
  /\ UNCHANGED <<profile, cache, holder, renewing, user, json, context, answers, fetches, troubles,
                 call, journey>>

Pass(r) ==
  /\ pc[r] = "answer"
  /\ error[r] # NoError /\ Len(journey[r]) < profile[r].steps
  /\ \E s \in Steps :
       /\ error' = [error EXCEPT ![r] = Passed(@, s)]
       /\ journey' = [journey EXCEPT ![r] = Append(@, s)]
  /\ UNCHANGED <<request, context, call, origin>>

Respond(r) ==
  /\ pc[r] = "answer"
  /\ Users!Answer(r, Response(error[r]).code)
  /\ Users!Goto(r, "done")
  /\ UNCHANGED <<profile, cache, holder, renewing, user, json, context, fetches, troubles, call, way>>

Handles(r) == Call(r) \/ CallGoesOn(r) \/ Panic(r) \/ Finish(r) \/ Pass(r) \/ Respond(r)

Next ==
  \/ Change \/ Lock
  \/ \E r \in Requests : Works(r) \/ LockFails(r) \/ Handles(r)

\* Nobody waits for ever but for the lock: Redis, the user service and the service called
\* answer or fail.  A key that nobody renews expires.
Lapse(t) == holder[t] # None /\ holder[t] \notin renewing /\ Users!Expire(t) /\ UNCHANGED <<call, way>>

Spec ==
  /\ Init /\ [][Next]_vars
  /\ \A r \in Requests : WF_vars(Works(r)) /\ WF_vars(Handles(r))
  /\ \A t \in Tokens : WF_vars(Lapse(t))

-----------------------------------------------------------------------------
\* Properties.

TypeOK ==
  /\ Users!TypeOK /\ Rpc!TypeOK
  /\ origin \in [Requests -> Origins \cup {NoError}]
  /\ error \in [Requests -> Seq(Layers)] /\ journey \in [Requests -> Seq(Steps)]
  /\ \A r \in Requests : Len(journey[r]) <= profile[r].steps

\* However many requests come with a token at the same time, its user is asked for once,
\* and once more for each failure or lost lock.
OneFetch == Users!OneFetch

\* The handler and the services it calls by gRPC get the user of the request, except after
\* a second look into the cache, a failure of the lock or an answer of 401.
UserTrue == Users!UserTrue

\* A call looks for a node that its list does not have only when it was overtaken by one
\* with a longer list.
PanicExplained == Rpc!PanicExplained

\* Calls are spread over the nodes, up to what overtaking calls undo.
Balanced == Rpc!Balanced

\* The answer to an error shows the code and the message of the last biz error that was
\* made on its way, however often comm errors wrap it and however many gRPC calls it takes
\* afterwards, and that the system is busy otherwise.
ErrorShown ==
  \A r \in Requests :
    pc[r] \in {"answer", "done"} /\ origin[r] # NoError =>
      Response(error[r]) = Shown(origin[r], journey[r])

\* Why: a request has an error from the end of its handler on, as its journey has made it.
WayAt(r) ==
  IF origin[r] = NoError
    THEN error[r] = NoError /\ journey[r] = << >>
    ELSE pc[r] \in {"answer", "done"} /\ OnWay(error[r], origin[r], journey[r])
Returned(r) == at[r] = "returned" => result[r] # "none"
WayInv == \A r \in Requests : WayAt(r) /\ Returned(r)

\* What the readme says: whatever wraps a biz error, its message is shown.
BizShown ==
  \A r \in Requests :
    pc[r] \in {"answer", "done"} /\ origin[r] # NoError =>
      (IsBiz(origin[r]) /\ Range(journey[r]) \subseteq {"comm", "grpc"} =>
         Response(error[r]) = Result(Head(origin[r]).code, 0))

\* Without the exceptions: the handler and the services it calls see the same user, who is
\* not told 401 before; no call panics, the nodes take turns.
SameUser == Users!SameUser
AnsweredOnce == Users!AnsweredOnce
NoPanic == Rpc!NoPanic
TakeTurns == Rpc!TakeTurns

\* renewLock of a lock object that was not unlocked keeps the key for ever.
HeldForEver(r) ==
  <>[](\E z \in renewing \ Users!Inside : profile[z].token = profile[r].token)

\* Every request is answered, whatever fails or panics on its way, unless it has a token
\* whose lock an earlier request could not unlock.
Answered == \A r \in Requests : <>(pc[r] = "done" /\ answers[r] # {}) \/ HeldForEver(r)

\* The same without the exception.
AllAnswered == \A r \in Requests : <>(pc[r] = "done" /\ answers[r] # {})
=============================================================================
