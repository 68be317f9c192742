--------------------------- MODULE JsonRpcClient ---------------------------
(***************************************************************************)
(* The JSON-RPC client of src/jsonrpc/jsonrpc.go: Client.Call, and the     *)
(* RoundRobinSelector that all calls of a service share, whose index they  *)
(* read, write and read again without a lock.                              *)
(*                                                                         *)
(* A node is its place in the list of the discovery, so that a list is its *)
(* length; it may change between any two steps.                            *)
(***************************************************************************)
EXTENDS Naturals, FiniteSets

CONSTANTS
  Callers,        \* calls of one service, in goroutines of their own
  MaxNodes,       \* a bound on the nodes of a list
  MaxChanges      \* a bound on changes of the list

VARIABLES
  index,          \* roundRobinSelector.index
  nodes,          \* how many nodes the discovery lists
  at,             \* where each call is
  read,           \* the index it read
  services,       \* the list it was given
  result,         \* what Call returned
  context,        \* what each caller's context holds under RequestContextKey
  length,         \* history: the list of the call that wrote the index last
  stale,          \* history: calls in which another has written the index meanwhile
  picks,          \* history: how often each place was picked
  races,          \* history: how often a call was overtaken by the write of another
  changes         \* history: changes of the list

\* The context is the caller's, who may change it at any time.
vars == <<index, nodes, at, read, services, result, length, stale, picks, races, changes>>
selector == <<index, length, stale, picks, races>>
list == <<nodes, changes>>

Places == 0..MaxNodes - 1
Stages == {"idle", "list", "write", "pick", "context", "post", "returned", "panic"}

Init ==
  /\ index = 0
  /\ nodes \in 1..MaxNodes
  /\ at = [c \in Callers |-> "idle"]
  /\ read = [c \in Callers |-> 0]
  /\ services = [c \in Callers |-> 0]
  /\ result = [c \in Callers |-> "none"]
  /\ length = 1 /\ stale = {} /\ races = 0 /\ changes = 0
  /\ picks = [i \in Places |-> 0]

\* The list of the discovery changes, possibly to an empty one.
Change ==
  /\ changes < MaxChanges
  /\ changes' = changes + 1
  /\ nodes' \in (0..MaxNodes) \ {nodes}
  /\ UNCHANGED <<selector, at, read, services, result, context>>

Goto(c, p) == at' = [at EXCEPT ![c] = p]
Returns(c, r) == Goto(c, "returned") /\ result' = [result EXCEPT ![c] = r]

-----------------------------------------------------------------------------
\* Selector.

\* The service is looked up in discoveryMap, and its selector's index is read.
Begin(c) ==
  /\ at[c] = "idle"
  /\ \/ Goto(c, "list") /\ read' = [read EXCEPT ![c] = index] /\ result' = result
     \/ Returns(c, "comm") /\ read' = read
  /\ UNCHANGED <<selector, list, services, context>>

GetServices(c) ==
  /\ at[c] = "list"
  /\ services' = [services EXCEPT ![c] = nodes]
  /\ IF nodes = 0 THEN Returns(c, "comm") ELSE Goto(c, "write") /\ result' = result
  /\ UNCHANGED <<selector, list, read, context>>

\* Variants for the properties: the index is not advanced, or wraps one node late.
NotFollowing(i, n) == IF i > n - 1 THEN 0 ELSE i
FollowingLate(i, n) == IF i + 1 > n THEN 0 ELSE i + 1

Following(i, n) == IF i + 1 > n - 1 THEN 0 ELSE i + 1

\* The calls that have read the index, or are about to read it again.
Overtaken(c) == {d \in Callers : d # c /\ at[d] \in {"list", "write", "pick"}}

Write(c) ==
  /\ at[c] = "write"
  /\ index' = Following(read[c], services[c])
  /\ Goto(c, "pick")
  /\ length' = services[c]
  /\ stale' = (stale \ {c}) \cup Overtaken(c)
  /\ races' = races + Cardinality(Overtaken(c))
  /\ UNCHANGED <<list, read, services, result, picks, context>>

\* services[index] panics when there is no such node.
Overruns(c) == at[c] = "pick" /\ index >= services[c]

Pick(c) ==
  /\ at[c] = "pick"
  /\ IF Overruns(c)
       THEN Goto(c, "panic") /\ picks' = picks
       ELSE Goto(c, "context") /\ picks' = [picks EXCEPT ![index] = @ + 1]
  /\ stale' = stale \ {c}
  /\ UNCHANGED <<index, length, races, list, read, services, result, context>>

-----------------------------------------------------------------------------
\* The rest of Call.

\* GetRequestContext: the assertion that the value is a RequestContext panics for the
\* user that AmazonUserMiddleware keeps under the same key.
GetRequestContext(c) ==
  /\ at[c] = "context"
  /\ Goto(c, IF context[c] = "user" THEN "panic" ELSE "post")
  /\ UNCHANGED <<selector, list, read, services, result, context>>

\* The post and its answer: an error of the network or of the JSON ("plain"), a status
\* other than 200 ("comm"), an error of the service ("response"), or the reply.
Post(c) ==
  /\ at[c] = "post"
  /\ \E r \in {"reply", "plain", "comm", "response"} : Returns(c, r)
  /\ UNCHANGED <<selector, list, read, services, context>>

-----------------------------------------------------------------------------

Step(c) == GetServices(c) \/ Write(c) \/ Pick(c) \/ GetRequestContext(c) \/ Post(c)

Next == Change \/ \E c \in Callers : Begin(c) \/ Step(c)

Spec == Init /\ [][Next]_vars

-----------------------------------------------------------------------------
\* Properties.

TypeOK ==
  /\ index \in Places /\ nodes \in 0..MaxNodes
  /\ at \in [Callers -> Stages]
  /\ read \in [Callers -> Places]
  /\ services \in [Callers -> 0..MaxNodes]
  /\ result \in [Callers -> {"none", "reply", "plain", "comm", "response"}]
  /\ length \in 1..MaxNodes
  /\ stale \subseteq Callers
  /\ picks \in [Places -> Nat] /\ races \in Nat /\ changes \in 0..MaxChanges

\* A call looks for a node that its list does not have only when another call, which
\* was given a longer list, has written the index since this one did: without a race
\* the selector never panics, however the list shrinks.
PanicExplained ==
  \A c \in Callers : Overruns(c) => c \in stale /\ length > services[c]

\* Why: the index is a place in the list of the call that wrote it last, and of every
\* call that is about to read it again and has not been overtaken.
SelectorInv ==
  /\ index \in Nat /\ length \in Nat /\ index < length
  /\ nodes \in Nat /\ services \in [Callers -> Nat] /\ read \in [Callers -> Nat]
  /\ at \in [Callers -> Stages]
  /\ \A c \in Callers :
       /\ at[c] \in {"write", "pick"} => services[c] > 0
       /\ at[c] = "pick" /\ c \notin stale => index < services[c]

\* The selector spreads the calls: while the list is the same, no node has been picked
\* more often than another by more than one, and two for each time a call was overtaken.
Balanced ==
  changes = 0 => \A i, j \in 0..nodes - 1 : picks[i] <= picks[j] + 1 + 2 * races

\* Why: what a place was picked, with the pick that the call which wrote the index last is
\* about to make, less its turn in the round that the index is in, is the same for every
\* place, but for the writes and picks of overtaken calls; each may move it by one.
Turn(i) == IF 1 <= i /\ i <= index THEN 1 ELSE 0
Coming(i) == IF i = index /\ \E c \in Callers \ stale : at[c] = "pick" THEN 1 ELSE 0
Level(i, j) ==
  picks[i] + Coming(i) + Turn(j) + Cardinality(stale) <= picks[j] + Coming(j) + Turn(i) + 2 * races
BalanceInv ==
  /\ \A c, d \in Callers \ stale : at[c] = "pick" /\ at[d] = "pick" => c = d
  /\ \A c \in Callers \ stale : at[c] \in {"list", "write"} => read[c] = index
  /\ changes = 0 =>
       /\ index < nodes
       /\ \A c \in stale : at[c] \in {"list", "write", "pick"}
       /\ \A c \in Callers :
            /\ at[c] \in {"list", "write"} => read[c] < nodes
            /\ at[c] \in {"write", "pick"} => services[c] = nodes
       /\ \A i, j \in 0..nodes - 1 : Level(i, j)

\* Without the exceptions: no call panics, and the nodes take turns.
NoPanic == \A c \in Callers : ~Overruns(c)
TakeTurns == changes = 0 => \A i, j \in 0..nodes - 1 : picks[i] <= picks[j] + 1
=============================================================================
