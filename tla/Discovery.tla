------------------------------ MODULE Discovery ------------------------------
(***************************************************************************)
(* The discovery of a service's nodes for rpcx and JSON-RPC clients:       *)
(* src/reg/consul/consul_discovery.go, a loop of queries that Consul       *)
(* answers after five seconds at most, and src/reg/nacos/nacos_discovery.go*)
(* which fetches the list once and is called back when it changes; and of  *)
(* gRPC clients: src/reg/nacos/builder.go and resolver.go, whose callback  *)
(* hands each list through a pipe to the goroutine that updates the client.*)
(*                                                                         *)
(* A list is a version number: 0 before the first one, and one more for    *)
(* every change in the registry.  Any of its servers may answer, with the  *)
(* version that it knows (AllowStale: true), so an answer may be older     *)
(* than the one before.  Each stored list is announced to the watchers by  *)
(* goroutines of their own, one for each channel, which read d.pairs       *)
(* without its lock; a slice is copied word by word, so one of them may    *)
(* see the array of one list with the length of another.                   *)
(***************************************************************************)
EXTENDS Naturals, Sequences

CONSTANTS
  Sources,        \* the registries considered, of "consul", "nacos" and "grpc"
  Servers,        \* the servers of the registry
  Watchers,       \* those that call WatchService
  Senders,        \* a bound: goroutines that announce to one watcher at a time
  Capacity,       \* how many lists a channel holds (10)
  Partial,        \* the versions with a node that is not enabled
  MaxChanges,     \* a bound on changes of the list
  MaxErrors,      \* a bound on failing calls to the registry
  MayClose        \* the discovery may be closed

DiscoveryParameters ==
  /\ Sources \subseteq {"consul", "nacos", "grpc"}
  /\ Servers # {}
  /\ Capacity \in Nat \ {0}
  /\ MaxChanges \in Nat /\ MaxErrors \in Nat /\ MayClose \in BOOLEAN

ASSUME DiscoveryAssumption == DiscoveryParameters

VARIABLES
  source,         \* the registry
  listed,         \* the version it lists
  replica,        \* the version that each server knows
  known,          \* the version that the Nacos client holds
  pc,             \* where the watching goroutine, or the callback, is
  got,            \* the list it was given
  pairs,          \* d.pairs, or what the gRPC client was given last
  raw,            \* it was built without looking at Enable
  since,          \* what the last server knew when pairs was stored, 0 before that
  watch,          \* each watcher: "no", "on" (its channel is in d.chans), "off"
  shut,           \* the watchers whose channel was closed
  chan,           \* the lists in each channel
  sender,         \* what each announcing goroutine does and has read
  view,           \* the list each watcher received last
  closed, errors

vars == <<source, listed, replica, known, pc, got, pairs, raw, since, watch, shut, chan, sender,
          view, closed, errors>>
remote == <<source, listed, replica, errors>>
shown == <<pairs, raw, since>>
store == <<known, pc, got, shown>>
channels == <<watch, shut, chan, view, closed>>

Versions == 0..MaxChanges + 1
Lists == [body : Versions, size : Versions]
Whole(v) == [body |-> v, size |-> v]
Idle == [at |-> "none", body |-> 0, size |-> 0]

Init ==
  /\ source \in Sources
  /\ listed = 1 /\ replica = [s \in Servers |-> 1] /\ known = 0
  /\ pc = CASE source = "consul" -> "query" [] source = "nacos" -> "fetch" [] OTHER -> "build"
  /\ got = 0 /\ pairs = 0 /\ raw = FALSE /\ since = 0
  /\ watch = [w \in Watchers |-> "no"] /\ shut = {}
  /\ chan = [w \in Watchers |-> << >>]
  /\ sender = [w \in Watchers |-> [i \in Senders |-> Idle]]
  /\ view = [w \in Watchers |-> Whole(0)]
  /\ closed = FALSE /\ errors = 0

\* NewDiscovery, or Build, has returned.
Ready == pairs > 0

-----------------------------------------------------------------------------
\* The registry.

Change ==
  /\ listed <= MaxChanges
  /\ listed' = listed + 1
  /\ UNCHANGED <<source, replica, errors, store, channels, sender>>

CatchUp(s) ==
  /\ replica[s] < listed
  /\ replica' = [replica EXCEPT ![s] = listed]
  /\ UNCHANGED <<source, listed, errors, store, channels, sender>>

\* What the registry may answer, whichever server is asked.
Answers == {replica[s] : s \in Servers}

Fails ==
  /\ errors < MaxErrors
  /\ errors' = errors + 1
  /\ UNCHANGED <<source, listed, replica>>

\* When a list is stored, the version of the server that is furthest behind is noted.
Least(v) == v \in Answers /\ \A u \in Answers : v <= u
Note == \E v \in Answers : Least(v) /\ since' = v

-----------------------------------------------------------------------------
\* Consul: the loop of Discovery.watch, which waits and asks again after an error.

\* Variant for the properties: the loop ends with the first error.
QueryOnce ==
  /\ pc = "query"
  /\ \/ got' \in Answers /\ pc' = "store" /\ UNCHANGED remote
     \/ Fails /\ got' = got /\ pc' = "ended"
  /\ UNCHANGED <<known, shown, channels, sender>>

\* Variant for the properties: an error is taken for a service without nodes.
QueryEmpties ==
  /\ pc = "query"
  /\ \/ got' \in Answers /\ pc' = "store" /\ UNCHANGED remote
     \/ Fails /\ got' = 0 /\ pc' = "store"
  /\ UNCHANGED <<known, shown, channels, sender>>

Query ==
  /\ pc = "query"
  /\ \/ got' \in Answers /\ pc' = "store" /\ UNCHANGED remote
     \/ Fails /\ UNCHANGED <<got, pc>>
  /\ UNCHANGED <<known, shown, channels, sender>>

-----------------------------------------------------------------------------
\* Nacos: fetch, Subscribe until it succeeds, and the callback.

\* An error ends the process (logx.Must).
Fetch ==
  /\ pc = "fetch"
  /\ \/ /\ pairs' \in Answers /\ known' = pairs'
        /\ pc' = "subscribe"
        /\ Note
        /\ UNCHANGED remote
     \/ Fails /\ pc' = "dead" /\ UNCHANGED <<pairs, since, known>>
  /\ UNCHANGED <<got, raw, channels, sender>>

Subscribe ==
  /\ source = "nacos" /\ pc = "subscribe"
  /\ \/ pc' = "idle" /\ UNCHANGED remote
     \/ Fails /\ pc' = pc
  /\ UNCHANGED <<known, got, shown, channels, sender>>

\* The client calls back with a list that is not the one it holds.
CallBack ==
  /\ pc = "idle"
  /\ got' \in Answers \ {known} /\ known' = got'
  /\ pc' = "store"
  /\ UNCHANGED <<remote, shown, channels, sender>>

-----------------------------------------------------------------------------
\* gRPC: Build, and populateEndpoints at the other end of the pipe.

\* The callback is called with the hosts of GetService before its error is looked at:
\* a failed call hands an empty list over.
Build ==
  /\ pc = "build"
  /\ \/ got' \in Answers /\ known' = got' /\ UNCHANGED remote
     \/ Fails /\ UNCHANGED <<got, known>>
  /\ pc' = "store"
  /\ UNCHANGED <<shown, channels, sender>>

\* The pipe has no buffer: the callback returns once populateEndpoints has its list.
\* The first list was Build's own, and without one Build returns the error.
HandedOver ==
  IF got = 0 THEN "dead" ELSE IF pairs = 0 THEN "subscribe" ELSE "idle"

UpdateState ==
  /\ source = "grpc" /\ pc = "store"
  /\ pairs' = got /\ raw' = TRUE /\ Note
  /\ pc' = HandedOver
  /\ UNCHANGED <<remote, known, got, channels, sender>>

\* Nobody looks at the error of Subscribe: the client is never called back.
SubscribeOnce ==
  /\ source = "grpc" /\ pc = "subscribe"
  /\ \/ pc' = "idle" /\ UNCHANGED remote
     \/ Fails /\ pc' = "deaf"
  /\ UNCHANGED <<known, got, shown, channels, sender>>

\* After Close populateEndpoints sees that its context is done, or takes one more list;
\* once it has returned, a callback waits at the pipe for ever.
Finish ==
  /\ source = "grpc" /\ closed
  /\ pc \in {"subscribe", "idle", "deaf", "store"}
  /\ pc' = "dead"
  /\ UNCHANGED <<remote, known, got, shown, channels, sender>>

-----------------------------------------------------------------------------
\* Consul and Nacos: storing the list and announcing it.

\* What comes after the announcement: the next query, or the next callback.
Onward == IF source = "consul" THEN "query" ELSE "idle"

\* Variant for the properties: only a list that differs from the last is announced.
StoreQuiet ==
  /\ pc = "store"
  /\ pairs' = got /\ Note
  /\ raw' = (source = "nacos")
  /\ pc' = IF got = pairs THEN Onward ELSE "notify"
  /\ UNCHANGED <<remote, known, got, channels, sender>>

Store ==
  /\ source # "grpc" /\ pc = "store"
  /\ pairs' = got /\ Note
  /\ raw' = (source = "nacos")
  /\ pc' = "notify"
  /\ UNCHANGED <<remote, known, got, channels, sender>>

\* A goroutine is started for every channel.
Free(w) == {i \in Senders : sender[w][i] = Idle}
Announce(ws) ==
  /\ \A w \in ws : Free(w) # {}
  /\ sender' = [w \in Watchers |->
       IF w \in ws THEN [sender[w] EXCEPT ![CHOOSE i \in Free(w) : TRUE].at = "new"] ELSE sender[w]]
On == {w \in Watchers : watch[w] = "on"}

Notify ==
  /\ pc = "notify"
  /\ Announce(On)
  /\ pc' = Onward
  /\ UNCHANGED <<remote, known, got, shown, channels>>

\* The goroutine evaluates d.pairs, and sends it when there is room in the channel; a
\* send on a closed channel panics and is recovered, and after a minute it gives up.
SetSender(w, i, s) == sender' = [sender EXCEPT ![w][i] = s]

ReadBody(w, i) ==
  /\ sender[w][i].at = "new"
  /\ SetSender(w, i, [at |-> "half", body |-> pairs, size |-> 0])
  /\ UNCHANGED <<remote, store, channels>>

ReadSize(w, i) ==
  /\ sender[w][i].at = "half"
  /\ SetSender(w, i, [at |-> "send", body |-> sender[w][i].body, size |-> pairs])
  /\ UNCHANGED <<remote, store, channels>>

Send(w, i) ==
  /\ sender[w][i].at = "send"
  /\ SetSender(w, i, Idle)
  /\ IF w \in shut \/ Len(chan[w]) = Capacity
       THEN chan' = chan
       ELSE chan' = [chan EXCEPT ![w] = Append(@, [body |-> sender[w][i].body,
                                                   size |-> sender[w][i].size])]
  /\ UNCHANGED <<remote, store, watch, shut, view, closed>>

-----------------------------------------------------------------------------
\* The watchers.

\* GetServices and WatchService.
Watch(w) ==
  /\ source # "grpc" /\ Ready /\ pc # "dead" /\ watch[w] = "no"
  /\ watch' = [watch EXCEPT ![w] = "on"]
  /\ view' = [view EXCEPT ![w] = Whole(pairs)]
  /\ UNCHANGED <<remote, store, shut, chan, sender, closed>>

Receive(w) ==
  /\ watch[w] = "on" /\ chan[w] # << >>
  /\ view' = [view EXCEPT ![w] = Head(chan[w])]
  /\ chan' = [chan EXCEPT ![w] = Tail(@)]
  /\ UNCHANGED <<remote, store, watch, shut, sender, closed>>

RemoveWatcher(w) ==
  /\ watch[w] = "on"
  /\ watch' = [watch EXCEPT ![w] = "off"]
  /\ UNCHANGED <<remote, store, shut, chan, sender, view, closed>>

\* Consul's Close closes the channels, and the loop goes on; the one of Nacos closes a
\* channel that nobody reads; the resolver's cancels the context of populateEndpoints.
Close ==
  /\ MayClose /\ Ready /\ ~closed
  /\ closed' = TRUE
  /\ shut' = IF source = "consul" THEN shut \cup On ELSE shut
  /\ UNCHANGED <<remote, store, sender, watch, chan, view>>

-----------------------------------------------------------------------------

Loop ==
  \/ Query \/ Fetch \/ Subscribe \/ CallBack \/ Store \/ Notify
  \/ Build \/ UpdateState \/ SubscribeOnce \/ Finish
Sender(w, i) == ReadBody(w, i) \/ ReadSize(w, i) \/ Send(w, i)

Next ==
  \/ Change \/ Loop \/ Close
  \/ \E s \in Servers : CatchUp(s)
  \/ \E w \in Watchers :
       \/ Watch(w) \/ Receive(w) \/ RemoveWatcher(w)
       \/ \E i \in Senders : Sender(w, i)

Spec == Init /\ [][Next]_vars

\* The servers catch up, queries and calls end, goroutines run, and watchers read.
Fairness ==
  /\ \A s \in Servers : WF_vars(CatchUp(s))
  /\ WF_vars(Loop)
  /\ \A w \in Watchers : WF_vars(Receive(w)) /\ \A i \in Senders : WF_vars(Sender(w, i))

FairSpec == Spec /\ Fairness

-----------------------------------------------------------------------------
\* Properties.

\* Every variable has its type: the loop of queries never ends, and no channel holds
\* more than it can.
TypeOK ==
  /\ source \in Sources
  /\ listed \in Versions \ {0} /\ replica \in [Servers -> Versions \ {0}]
  /\ {known, got, pairs, since} \subseteq Versions
  /\ pc \in {"store", "notify"} \cup
       (IF source = "consul" THEN {"query"}
                             ELSE {"fetch", "build", "subscribe", "idle", "deaf", "dead"})
  /\ raw \in BOOLEAN
  /\ watch \in [Watchers -> {"no", "on", "off"}] /\ shut \subseteq Watchers
  /\ chan \in [Watchers -> Seq(Lists)]
  /\ \A w \in Watchers : Len(chan[w]) <= Capacity
  /\ sender \in [Watchers -> [Senders -> [at : {"none", "new", "half", "send"},
                                          body : Versions, size : Versions]]]
  /\ view \in [Watchers -> Lists]
  /\ closed \in BOOLEAN /\ errors \in 0..MaxErrors

List == INSTANCE ServiceList WITH shown <- pairs

\* GetServices shows lists the registry has had, none older than what every server
\* knew when the one before was stored, and a failed call takes none away: the
\* discovery implements ServiceList.
ListSpec == List!Spec

\* The same without the allowance for servers: it never goes back to an older list.
NeverBack == [][pairs' >= pairs]_pairs

\* When the registry's list stays as it is, GetServices shows it in the end, and so the
\* resolver shows the gRPC client, unless it could not subscribe.
CaughtUp == <>[](pc \in {"dead", "deaf"} \/ pairs = listed)

\* The same without the exception.
CaughtUpAlways == <>[](pc = "dead" \/ pairs = listed)

UpToDate(w) == watch[w] = "on" /\ w \notin shut => view[w] = Whole(listed)

\* With Consul, every watcher holds the current list in the end, whatever order the
\* announcements came in, because each query announces its list again.
WatchersCaughtUp == source = "consul" => \A w \in Watchers : <>[]UpToDate(w)

\* The same of either registry.
AllCaughtUp == \A w \in Watchers : <>[]UpToDate(w)

\* No watcher is given the array of one list with the length of another.
Untorn == \A w \in Watchers : view[w].body = view[w].size

\* GetServices shows enabled nodes only.
EnabledOnly == ~(raw /\ source # "consul" /\ pairs \in Partial)
=============================================================================
