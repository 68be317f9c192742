------------------------------ MODULE RabbitConn ------------------------------
(***************************************************************************)
(* The connection to RabbitMQ and who uses it: Conn, RegisterListener and  *)
(* doStartListener up to the delivery of messages, and GetChannel, of      *)
(* src/rabbitmq/rabbitmq.go.                                               *)
(*                                                                         *)
(* All goroutines share one connection.  Its loss is noticed by a watcher, *)
(* a goroutine that newConn and reConnect start for each connection, and   *)
(* by whoever asks for a channel: each of them calls reConnect, which      *)
(* dials under a mutex and, when that fails, sleeps for a second with the  *)
(* mutex and starts a goroutine that tries again.                          *)
(***************************************************************************)
EXTENDS FiniteSets, Naturals

CONSTANTS
  Main,           \* the goroutine that calls RegisterListener
  Consumers,      \* the listeners, each with a goroutine that is restarted when it ends
  Publishers,     \* goroutines that call GetChannel
  MaxConns,       \* a bound on connections
  Retriers,       \* goroutines that reConnect starts; more behave like one of these
  MayClose,       \* whether the client is closed at some time
  MaxLosses,      \* a bound on losses of connections and of the broker
  None

Conns == 1..MaxConns    \* connections in the order they are made, and their watchers
Users == {Main} \cup Consumers \cup Publishers
Procs == Users \cup Conns \cup Retriers

ASSUME ConnAssumption ==
  /\ MaxConns \in Nat \ {0} /\ Retriers # {}
  /\ Main \notin Consumers \cup Publishers /\ Consumers \cap Publishers = {}
  /\ Users \cap (Conns \cup Retriers) = {} /\ Conns \cap Retriers = {}
  /\ None \notin Procs
  /\ MayClose \in BOOLEAN /\ MaxLosses \in Nat

VARIABLES
  up,             \* the broker can be reached
  conn,           \* Conn.Connection
  open,           \* the connections that are not closed
  watching,       \* the connections whose watcher waits for their end
  lock,           \* who holds Conn.lock
  rc,             \* where each goroutine is in reConnect
  pc,             \* where each user is outside it
  channel,        \* the connection of the user's channel
  declared,       \* the consumers that have declared their queue since they started
  closed,         \* Client.Close was called
  exited,         \* logx.Must has ended the process
  losses

vars == <<up, conn, open, watching, lock, rc, pc, channel, declared, closed,
          exited, losses>>
network == <<up, open, losses>>
shared == <<conn, open, watching>>
users == <<pc, channel, declared, exited>>

Init ==
  /\ up = TRUE
  /\ conn = 1 /\ open = {1} /\ watching = {1}
  /\ lock = None
  /\ rc = [p \in Procs |-> "none"]
  /\ pc = [u \in Users |-> IF u = Main THEN "get" ELSE IF u \in Consumers THEN "off" ELSE "idle"]
  /\ channel = [u \in Users |-> None]
  /\ declared = {}
  /\ closed = FALSE /\ exited = FALSE
  /\ losses = 0

Goto(u, p) == pc' = [pc EXCEPT ![u] = p]
Call(p) == rc' = [rc EXCEPT ![p] = "lock"]

-----------------------------------------------------------------------------
\* reConnect.

\* Variant for the properties: it does not look whether the connection is closed.
EnterAlways(p) ==
  /\ rc[p] = "lock"
  /\ lock = None
  /\ lock' = p /\ rc' = [rc EXCEPT ![p] = "dial"]
  /\ UNCHANGED <<up, shared, users, closed, losses>>

\* With the mutex: somebody else may have connected already.
Enter(p) ==
  /\ rc[p] = "lock"
  /\ lock = None
  /\ IF conn \in open
       THEN rc' = [rc EXCEPT ![p] = "none"] /\ lock' = None
       ELSE rc' = [rc EXCEPT ![p] = "dial"] /\ lock' = p
  /\ UNCHANGED <<up, shared, users, closed, losses>>

\* Variant: the new connection has no watcher.
DialUnwatched(p) ==
  /\ rc[p] = "dial"
  /\ up
  /\ conn < MaxConns
  /\ conn' = conn + 1
  /\ open' = (open \ {conn}) \cup {conn + 1}
  /\ rc' = [rc EXCEPT ![p] = "check"]
  /\ UNCHANGED <<up, watching, lock, users, closed, losses>>

\* A new connection: the old one is closed for good, and the new one watched.
Dial(p) ==
  /\ rc[p] = "dial"
  /\ up
  /\ conn < MaxConns
  /\ conn' = conn + 1
  /\ open' = (open \ {conn}) \cup {conn + 1}
  /\ watching' = watching \cup {conn + 1}
  /\ rc' = [rc EXCEPT ![p] = "check"]
  /\ UNCHANGED <<up, lock, users, closed, losses>>

DialFails(p) ==
  /\ rc[p] = "dial"
  /\ ~up
  /\ rc' = [rc EXCEPT ![p] = "sleep"]
  /\ UNCHANGED <<up, shared, lock, users, closed, losses>>

\* Is it closed again?
Check(p) ==
  /\ rc[p] = "check"
  /\ IF conn \in open
       THEN rc' = [rc EXCEPT ![p] = "none"] /\ lock' = None
       ELSE rc' = [rc EXCEPT ![p] = "sleep"] /\ lock' = lock
  /\ UNCHANGED <<up, shared, users, closed, losses>>

\* Variant: the next attempt is a call, not a goroutine of its own.
AgainSync(p) ==
  /\ rc[p] = "sleep"
  /\ Call(p)
  /\ UNCHANGED <<up, shared, lock, users, closed, losses>>

\* After a second the mutex is given back and a goroutine tries again.
Again(p) ==
  LET free == {r \in Retriers : rc[r] = "none" \/ r = p}
      ended == [rc EXCEPT ![p] = "none"] IN
  /\ rc[p] = "sleep"
  /\ lock' = None
  /\ IF free = {} THEN rc' = ended
     ELSE \E r \in free : rc' = [ended EXCEPT ![r] = "lock"]
  /\ UNCHANGED <<up, shared, users, closed, losses>>

\* The watcher of a connection wakes when it is closed, and ends with reConnect.
Watch(k) ==
  /\ k \in watching \ open
  /\ watching' = watching \ {k}
  /\ Call(k)
  /\ UNCHANGED <<up, conn, open, lock, users, closed, losses>>

-----------------------------------------------------------------------------
\* GetChannelUntilSucess and GetChannel.

\* reConnect first, if the connection is closed; whether it succeeded is not asked.
Get(u) ==
  /\ pc[u] = "get"
  /\ Goto(u, "channel")
  /\ IF conn \in open THEN rc' = rc ELSE Call(u)
  /\ UNCHANGED <<up, shared, lock, channel, declared, closed, exited, losses>>

\* The connection opens a channel, or is closed by now: a publisher is given the
\* error, the others begin again after a second.
OpenChannel(u) ==
  /\ pc[u] = "channel"
  /\ rc[u] = "none"
  /\ \/ /\ conn \in open
        /\ channel' = [channel EXCEPT ![u] = conn]
        /\ Goto(u, "use")
     \/ /\ conn \notin open
        /\ channel' = channel
        /\ Goto(u, IF u \in Publishers THEN "idle" ELSE "get")
  /\ UNCHANGED <<up, shared, lock, rc, declared, closed, exited, losses>>

-----------------------------------------------------------------------------
\* What the channels are for.

Usable(u) == pc[u] = "use" /\ channel[u] \in open

\* RegisterListener declares the dead-letter exchange and starts the listeners.
DeclareExchange ==
  /\ Usable(Main)
  /\ pc' = [u \in Users |-> IF u = Main THEN "idle" ELSE IF pc[u] = "off" THEN "get" ELSE pc[u]]
  /\ UNCHANGED <<up, shared, lock, rc, channel, declared, closed, exited, losses>>

DeclareQueue(c) ==
  /\ Usable(c)
  /\ c \notin declared
  /\ declared' = declared \cup {c}
  /\ Goto(c, "get")
  /\ UNCHANGED <<up, shared, lock, rc, channel, closed, exited, losses>>

\* The channel is gone before the declaration: logx.Must ends the process.
DeclareFails(u) ==
  /\ u \in {Main} \cup (Consumers \ declared)
  /\ pc[u] = "use"
  /\ channel[u] \notin open
  /\ exited' = TRUE
  /\ UNCHANGED <<up, shared, lock, rc, pc, channel, declared, closed, losses>>

Listen(c) ==
  /\ Usable(c)
  /\ c \in declared
  /\ Goto(c, "listening")
  /\ UNCHANGED <<up, shared, lock, rc, channel, declared, closed, exited, losses>>

\* Variant: a listener whose channel was closed is not started again.
RestartNot(c) ==
  /\ pc[c] = "use" /\ c \in declared
  /\ channel[c] \notin open
  /\ declared' = declared \ {c}
  /\ Goto(c, "get")
  /\ UNCHANGED <<up, shared, lock, rc, channel, closed, exited, losses>>

\* The channel is closed, while the consumer starts or later: all begins again.
Restart(c) ==
  /\ pc[c] = "listening" \/ (pc[c] = "use" /\ c \in declared)
  /\ channel[c] \notin open
  /\ declared' = declared \ {c}
  /\ Goto(c, "get")
  /\ UNCHANGED <<up, shared, lock, rc, channel, closed, exited, losses>>

\* A publisher asks for a channel, and is done with it.
Publish(u) ==
  /\ \/ pc[u] = "idle" /\ Goto(u, "get")
     \/ pc[u] = "use" /\ Goto(u, "idle")
  /\ UNCHANGED <<up, shared, lock, rc, channel, declared, closed, exited, losses>>

-----------------------------------------------------------------------------

\* Client.Close closes the connection, and nothing keeps the others from opening it
\* again.
Close ==
  /\ MayClose /\ ~closed
  /\ closed' = TRUE
  /\ open' = open \ {conn}
  /\ UNCHANGED <<up, conn, watching, lock, rc, users, losses>>

\* A connection is lost, alone or with the broker.
Lose ==
  /\ losses < MaxLosses
  /\ open # {}
  /\ losses' = losses + 1
  /\ open' = {}
  /\ up' \in {up, FALSE}
  /\ UNCHANGED <<conn, watching, lock, rc, users, closed>>

Recover ==
  /\ ~up
  /\ up' = TRUE
  /\ UNCHANGED <<shared, lock, rc, users, closed, losses>>

-----------------------------------------------------------------------------

ReConnect(p) == Enter(p) \/ Dial(p) \/ DialFails(p) \/ Check(p) \/ Again(p)

Consume(c) == DeclareQueue(c) \/ Listen(c) \/ Restart(c)

Serve(u) ==
  \/ Get(u) \/ OpenChannel(u) \/ DeclareFails(u)
  \/ u \in Consumers /\ Consume(u)

Next ==
  /\ ~exited
  /\ \/ \E p \in Procs : ReConnect(p)
     \/ \E k \in Conns : Watch(k)
     \/ \E u \in Users : Serve(u)
     \/ \E u \in Publishers : Publish(u)
     \/ DeclareExchange \/ Close \/ Lose \/ Recover

Spec == Init /\ [][Next]_vars

\* Goroutines run and the broker can be reached again.  Nothing is assumed of the order
\* in which the mutex is given: who finds the connection open does not keep it.
Fairness ==
  /\ WF_vars(~exited /\ \E p \in Procs : ReConnect(p))
  /\ WF_vars(~exited /\ \E k \in Conns : Watch(k))
  /\ WF_vars(~exited /\ (DeclareExchange \/ \E u \in {Main} \cup Consumers : Serve(u)))
  /\ WF_vars(~exited /\ Recover)

FairSpec == Spec /\ Fairness

-----------------------------------------------------------------------------
\* Properties.

Steps == {"none", "lock", "dial", "check", "sleep"}
Stages == {"off", "idle", "get", "channel", "use", "listening"}

\* Every variable has its type.
Types ==
  /\ up \in BOOLEAN /\ closed \in BOOLEAN /\ exited \in BOOLEAN
  /\ conn \in Conns /\ open \subseteq 1..conn /\ watching \subseteq 1..conn
  /\ lock \in Procs \cup {None}
  /\ rc \in [Procs -> Steps]
  /\ pc \in [Users -> Stages]
  /\ channel \in [Users -> Conns \cup {None}]
  /\ declared \subseteq Consumers
  /\ losses \in 0..MaxLosses

\* Whoever is past the mutex of reConnect holds it.
Held == \A p \in Procs : rc[p] \in {"dial", "check", "sleep"} <=> lock = p

\* A user is in reConnect only when it asked for a channel, a watcher only when it woke.
Outside ==
  /\ \A u \in Users : pc[u] # "channel" => rc[u] = "none"
  /\ \A k \in Conns : k > conn \/ k \in watching => rc[k] = "none"

\* Types, with what the goroutines in reConnect may be.
TypeOK == Types /\ Held /\ Outside

\* A connection that works is not replaced, however many goroutines found the one
\* before it closed: their channels stay good.
HealthyKept == [][conn' # conn => conn \notin open]_vars

\* So a channel works until the connection is lost or closed, whoever reconnects meanwhile.
Channels == INSTANCE SharedChannels WITH
  working <- {u \in Users : channel[u] \in open},
  breaks <- losses + IF closed THEN 1 ELSE 0
ChannelSpec == Channels!Spec

\* A closed connection never goes unnoticed: its watcher is to wake, or somebody is
\* in reConnect, also after Close.
LossNoticed ==
  conn \notin open => conn \in watching \/ \E p \in Procs : rc[p] # "none"

\* No connection is lost track of: the one in use is the only one open.
OneConnection == open \subseteq {conn}

Listening(c) == pc[c] = "listening" /\ channel[c] \in open

\* What the framework adds to amqp according to the readme: after a loss of the
\* network every listener listens again, unless the process has ended.
ListenersReturn == \A c \in Consumers : ~Listening(c) ~> Listening(c) \/ exited

\* The loss of the network does not end the process, which would have to be restarted.
NetworkLossSurvived == ~exited

\* A client that was closed does not connect again.
StaysClosed == [][closed => conn' = conn]_vars

\* The inductive invariant behind HealthyKept and LossNoticed: who dials has seen the
\* connection closed, and nobody else opens one meanwhile.
ConnInv ==
  /\ \A p \in Procs : rc[p] = "dial" => conn \notin open
  /\ open \subseteq watching
  /\ LossNoticed
  /\ OneConnection
=============================================================================
