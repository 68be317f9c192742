--------------------------- MODULE RabbitConnProofs ---------------------------
(***************************************************************************)
(* RabbitConn, for any goroutines, connections and losses: its types, that *)
(* losses are noticed and only what is lost is replaced, and that it       *)
(* implements SharedChannels.                                              *)
(***************************************************************************)
EXTENDS RabbitConn, TLAPS

\* The goroutines that reConnect runs in.
LEMMA Parameters ==
  /\ None \notin Procs
  /\ Users \subseteq Procs /\ Conns \subseteq Procs /\ Retriers \subseteq Procs
  /\ Consumers \subseteq Users /\ Publishers \subseteq Users /\ Main \in Users
  /\ 1 \in Conns /\ MaxConns \in Nat /\ MaxLosses \in Nat
BY ConnAssumption DEF Procs, Users, Conns

LEMMA Disjoint ==
  /\ \A u \in Users : u \notin Conns /\ u \notin Retriers
  /\ \A k \in Conns : k \notin Retriers
BY ConnAssumption

LEMMA TypeInit == Init => TypeOK
<1> SUFFICES ASSUME Init PROVE TypeOK
  OBVIOUS
<1> USE Parameters DEF Init
<1>1. Types
  <2>1. conn \in Conns /\ open \subseteq 1..conn /\ watching \subseteq 1..conn /\ losses \in 0..MaxLosses
    OBVIOUS
  <2>2. pc \in [Users -> Stages]
    BY DEF Stages
  <2>3. QED
    BY <2>1, <2>2 DEF Types, Steps
<1>2. Held
  BY DEF Held
<1>3. Outside
  BY DEF Outside
<1>4. QED
  BY <1>1, <1>2, <1>3 DEF TypeOK

\* What the steps of reConnect do to it: one goroutine moves, at most one that is free
\* starts, and the mutex is with whoever is past it.
LEMMA AgainMoves ==
  ASSUME Types, Held, NEW p \in Procs, Again(p)
  PROVE  /\ rc' \in [Procs -> Steps]
         /\ \A q \in Procs : rc'[q] \in {"none", "lock"}
         /\ \A q \in Procs : q \in Retriers \/ rc'[q] = rc[q] \/ rc'[q] = "none"
         /\ \E q \in Procs : rc'[q] # "none"
<1> USE Parameters
<1> DEFINE free == {r \in Retriers : rc[r] = "none" \/ r = p}
           ended == [rc EXCEPT ![p] = "none"]
<1>1. ended \in [Procs -> Steps]
  BY DEF Types, Steps
<1>2. \A q \in Procs : ended[q] \in {"none", "lock"} /\ (q # p => ended[q] = rc[q])
  BY DEF Again, Held, Types, Steps
<1>3. \/ free = {} /\ rc' = ended
      \/ \E r \in free : rc' = [ended EXCEPT ![r] = "lock"]
  BY DEF Again
<1>4. ended[p] = "none"
  BY DEF Types
<1>5. CASE free = {} /\ rc' = ended
  <2>1. PICK r \in Retriers : r # p /\ rc[r] # "none"
    BY <1>5, ConnAssumption
  <2>2. ended[r] # "none"
    BY <1>2, <2>1
  <2>3. QED
    <3> HIDE DEF ended
    <3> QED
      BY <1>1, <1>2, <1>4, <1>5, <2>1, <2>2
<1>6. CASE \E r \in free : rc' = [ended EXCEPT ![r] = "lock"]
  <2>1. PICK r \in Retriers : rc' = [ended EXCEPT ![r] = "lock"]
    BY <1>6
  <2>2. r \in Procs
    OBVIOUS
  <2>3. QED
    <3> HIDE DEF ended
    <3> QED
      BY <1>1, <1>2, <1>4, <2>1, <2>2 DEF Steps
<1>7. QED
  BY <1>3, <1>5, <1>6

LEMMA TypeReConnect ==
  ASSUME TypeOK, NEW p \in Procs, ReConnect(p)
  PROVE  TypeOK'
<1> USE Parameters DEF TypeOK
<1>1. CASE Enter(p)
  BY <1>1 DEF Enter, shared, users, Types, Held, Outside, Steps
<1>2. CASE Dial(p)
  <2>1. conn \in Nat /\ conn + 1 \in Conns
    BY <1>2 DEF Dial, Conns, Types
  <2>2. Types'
    BY <1>2, <2>1 DEF Dial, Types, users, Steps
  <2>3. Held'
    BY <1>2 DEF Dial, Held, Types
  <2>4. rc[conn + 1] = "none"
    BY <2>1 DEF Outside
  <2>5. \A q \in Procs : rc'[q] = "none" <=> rc[q] = "none"
    BY <1>2 DEF Dial, Types
  <2>6. \A k \in Conns : k > conn' => k > conn
    BY <1>2, <2>1 DEF Dial, Conns
  <2>7. Outside'
    BY <1>2, <2>4, <2>5, <2>6 DEF Dial, Outside, users
  <2>8. QED
    BY <2>2, <2>3, <2>7
<1>3. CASE DialFails(p)
  BY <1>3 DEF DialFails, shared, users, Types, Held, Outside, Steps
<1>4. CASE Check(p)
  BY <1>4 DEF Check, shared, users, Types, Held, Outside, Steps
<1>5. CASE Again(p)
  <2>1. /\ rc' \in [Procs -> Steps]
        /\ \A q \in Procs : rc'[q] \in {"none", "lock"}
        /\ \A q \in Procs : q \in Retriers \/ rc'[q] = rc[q] \/ rc'[q] = "none"
    BY <1>5, AgainMoves
  <2>2. Types' /\ Held'
    BY <1>5, <2>1 DEF Again, shared, users, Types, Held
  <2>3. Outside'
    BY <1>5, <2>1, Disjoint DEF Again, shared, users, Outside
  <2>4. QED
    BY <2>2, <2>3
<1>6. QED
  BY <1>1, <1>2, <1>3, <1>4, <1>5 DEF ReConnect

\* So do the steps of the users of the connection.
LEMMA TypeServe ==
  ASSUME TypeOK, NEW u \in Users, Serve(u)
  PROVE  TypeOK'
<1> USE Parameters DEF TypeOK
<1>1. CASE Get(u)
  <2>1. rc[u] = "none"
    BY <1>1 DEF Get, Outside
  <2>2. Types'
    BY <1>1 DEF Get, Goto, Call, shared, Types, Stages, Steps
  <2>3. Held'
    BY <1>1, <2>1 DEF Get, Call, Held, Types
  <2>4. Outside'
    BY <1>1, Disjoint DEF Get, Goto, Call, shared, Outside, Types
  <2>5. QED
    BY <2>2, <2>3, <2>4
<1>2. CASE OpenChannel(u)
  BY <1>2 DEF OpenChannel, Goto, shared, Types, Held, Outside, Stages
<1>3. CASE DeclareFails(u)
  BY <1>3 DEF DeclareFails, shared, Types, Held, Outside
<1>4. CASE u \in Consumers /\ DeclareQueue(u)
  BY <1>4 DEF DeclareQueue, Usable, Goto, shared, Types, Held, Outside, Stages
<1>5. CASE u \in Consumers /\ Listen(u)
  BY <1>5 DEF Listen, Usable, Goto, shared, Types, Held, Outside, Stages
<1>6. CASE u \in Consumers /\ Restart(u)
  BY <1>6 DEF Restart, Goto, shared, Types, Held, Outside, Stages
<1>7. QED
  BY <1>1, <1>2, <1>3, <1>4, <1>5, <1>6 DEF Serve, Consume

LEMMA TypeInductive == TypeOK /\ [Next]_vars => TypeOK'
<1> SUFFICES ASSUME TypeOK, [Next]_vars PROVE TypeOK'
  OBVIOUS
<1> USE Parameters DEF TypeOK
<1>1. CASE \E p \in Procs : ReConnect(p)
  BY <1>1, TypeReConnect
<1>2. ASSUME NEW k \in Conns, Watch(k) PROVE TypeOK'
  <2>1. rc[k] = "none"
    BY <1>2 DEF Watch, Outside
  <2>2. Types'
    BY <1>2 DEF Watch, Call, Steps, users, Types
  <2>3. Held'
    BY <1>2, <2>1 DEF Watch, Call, Held, Types
  <2>4. ~(k > conn)
    BY <1>2 DEF Watch, Types, Conns
  <2>5. Outside'
    BY <1>2, <2>4, Disjoint DEF Watch, Call, users, Outside, Types
  <2>6. QED
    BY <2>2, <2>3, <2>5
<1>3. CASE \E u \in Users : Serve(u)
  BY <1>3, TypeServe
<1>4. ASSUME NEW u \in Publishers, Publish(u) PROVE TypeOK'
  BY <1>4 DEF Publish, Goto, shared, Types, Held, Outside, Stages
<1>5. CASE DeclareExchange
  <2>1. \A v \in Users : pc[v] = "channel" => pc'[v] = "channel"
    BY <1>5 DEF DeclareExchange, Usable
  <2>2. QED
    BY <1>5, <2>1 DEF DeclareExchange, Usable, shared, Types, Held, Outside, Stages
<1>6. CASE Close
  BY <1>6 DEF Close, users, Types, Held, Outside
<1>7. CASE Lose
  <2>1. losses' \in 0..MaxLosses
    BY <1>7 DEF Lose, Types
  <2>2. Types'
    BY <1>7, <2>1 DEF Lose, users, Types
  <2>3. QED
    BY <1>7, <2>2 DEF Lose, users, Held, Outside
<1>8. CASE Recover
  BY <1>8 DEF Recover, shared, users, Types, Held, Outside
<1>9. CASE UNCHANGED vars
  BY <1>9 DEF vars, Types, Held, Outside
<1>10. QED
  BY <1>1, <1>2, <1>3, <1>4, <1>5, <1>6, <1>7, <1>8, <1>9 DEF Next

\* Every reachable state has its types: in particular one goroutine at a time is past
\* the mutex of reConnect.
THEOREM TypeCorrect == Spec => []TypeOK
BY TypeInit, TypeInductive, PTL DEF Spec

-----------------------------------------------------------------------------

LEMMA ConnInit == Init => ConnInv
BY DEF Init, ConnInv, LossNoticed, OneConnection

\* The steps that leave the connection, its watcher and reConnect alone.
LEMMA Elsewhere ==
  ASSUME ConnInv, UNCHANGED <<conn, open, watching, rc>>
  PROVE  ConnInv'
BY DEF ConnInv, LossNoticed, OneConnection

LEMMA ConnReConnect ==
  ASSUME TypeOK, ConnInv, NEW p \in Procs, ReConnect(p)
  PROVE  ConnInv'
<1> USE Parameters
<1>0. /\ rc \in [Procs -> Steps]
      /\ \A q \in Procs : rc[q] \in {"dial", "check", "sleep"} <=> lock = q
      /\ conn \in Nat
  BY DEF TypeOK, Types, Held, Conns
<1>1. CASE Enter(p)
  <2>1. LossNoticed'
    <3>1. CASE conn \in open
      BY <1>1, <3>1 DEF Enter, LossNoticed, shared
    <3>2. CASE conn \notin open
      <4>1. rc'[p] = "dial"
        BY <1>0, <1>1, <3>2 DEF Enter
      <4>2. QED
        BY <4>1 DEF LossNoticed
    <3>3. QED
      BY <3>1, <3>2
  <2>2. QED
    BY <1>0, <1>1, <2>1 DEF Enter, ConnInv, OneConnection, shared
<1>2. CASE Dial(p)
  <2>1. \A q \in Procs : rc'[q] # "dial"
    BY <1>0, <1>2 DEF Dial
  <2>2. conn' \in open' /\ open' = {conn'} /\ open' \subseteq watching'
    BY <1>0, <1>2 DEF Dial, ConnInv, OneConnection
  <2>3. QED
    BY <2>1, <2>2 DEF ConnInv, LossNoticed, OneConnection
<1>3. CASE DialFails(p)
  <2>1. rc'[p] = "sleep"
    BY <1>0, <1>3 DEF DialFails
  <2>2. QED
    BY <1>0, <1>3, <2>1 DEF DialFails, ConnInv, LossNoticed, OneConnection, shared
<1>4. CASE Check(p)
  <2>1. LossNoticed'
    <3>1. CASE conn \in open
      BY <1>4, <3>1 DEF Check, LossNoticed, shared
    <3>2. CASE conn \notin open
      <4>1. rc'[p] = "sleep"
        BY <1>0, <1>4, <3>2 DEF Check
      <4>2. QED
        BY <4>1 DEF LossNoticed
    <3>3. QED
      BY <3>1, <3>2
  <2>2. QED
    BY <1>0, <1>4, <2>1 DEF Check, ConnInv, OneConnection, shared
<1>5. CASE Again(p)
  <2>1. /\ \A q \in Procs : rc'[q] \in {"none", "lock"}
        /\ \E q \in Procs : rc'[q] # "none"
    BY <1>5, AgainMoves DEF TypeOK
  <2>2. QED
    BY <1>5, <2>1 DEF Again, ConnInv, LossNoticed, OneConnection, shared
<1>6. QED
  BY <1>1, <1>2, <1>3, <1>4, <1>5 DEF ReConnect

LEMMA ConnServe ==
  ASSUME TypeOK, ConnInv, NEW u \in Users, Serve(u)
  PROVE  ConnInv'
<1> USE Parameters
<1>1. CASE Get(u)
  <2>1. rc[u] = "none" /\ rc \in [Procs -> Steps]
    BY <1>1 DEF Get, TypeOK, Types, Outside
  <2>2. \A q \in Procs : rc'[q] = rc[q] \/ rc'[q] = "lock"
    BY <1>1, <2>1 DEF Get, Call
  <2>3. QED
    BY <1>1, <2>2 DEF Get, ConnInv, LossNoticed, OneConnection, shared
<1>2. CASE OpenChannel(u)
  BY <1>2, Elsewhere DEF OpenChannel, shared
<1>3. CASE DeclareFails(u)
  BY <1>3, Elsewhere DEF DeclareFails, shared
<1>4. CASE u \in Consumers /\ DeclareQueue(u)
  BY <1>4, Elsewhere DEF DeclareQueue, shared
<1>5. CASE u \in Consumers /\ Listen(u)
  BY <1>5, Elsewhere DEF Listen, shared
<1>6. CASE u \in Consumers /\ Restart(u)
  BY <1>6, Elsewhere DEF Restart, shared
<1>7. QED
  BY <1>1, <1>2, <1>3, <1>4, <1>5, <1>6 DEF Serve, Consume

LEMMA ConnInductive == TypeOK /\ ConnInv /\ [Next]_vars => ConnInv'
<1> SUFFICES ASSUME TypeOK, ConnInv, [Next]_vars PROVE ConnInv'
  OBVIOUS
<1> USE Parameters
<1>1. CASE \E p \in Procs : ReConnect(p)
  BY <1>1, ConnReConnect
<1>2. ASSUME NEW k \in Conns, Watch(k) PROVE ConnInv'
  <2>1. rc'[k] = "lock" /\ \A q \in Procs : rc'[q] = rc[q] \/ rc'[q] = "lock"
    BY <1>2 DEF Watch, Call, TypeOK, Types
  <2>2. LossNoticed'
    BY <2>1 DEF LossNoticed
  <2>3. QED
    BY <1>2, <2>1, <2>2 DEF Watch, ConnInv, OneConnection
<1>3. CASE \E u \in Users : Serve(u)
  BY <1>3, ConnServe
<1>4. ASSUME NEW u \in Publishers, Publish(u) PROVE ConnInv'
  BY <1>4, Elsewhere DEF Publish, shared
<1>5. CASE DeclareExchange
  BY <1>5, Elsewhere DEF DeclareExchange, shared
\* A connection that is lost or closed was watched.
<1>6. CASE Close
  BY <1>6 DEF Close, users, ConnInv, LossNoticed, OneConnection
<1>7. CASE Lose
  <2>1. conn \in watching
    BY <1>7 DEF Lose, ConnInv, OneConnection
  <2>2. QED
    BY <1>7, <2>1 DEF Lose, users, ConnInv, LossNoticed, OneConnection
<1>8. CASE Recover
  BY <1>8, Elsewhere DEF Recover, shared
<1>9. CASE UNCHANGED vars
  BY <1>9, Elsewhere DEF vars
<1>10. QED
  BY <1>1, <1>2, <1>3, <1>4, <1>5, <1>6, <1>7, <1>8, <1>9 DEF Next

LEMMA ConnInvariant == Spec => [](TypeOK /\ ConnInv)
<1>1. Init => TypeOK /\ ConnInv
  BY TypeInit, ConnInit
<1>2. (TypeOK /\ ConnInv) /\ [Next]_vars => (TypeOK /\ ConnInv)'
  BY TypeInductive, ConnInductive
<1>3. QED
  BY <1>1, <1>2, PTL DEF Spec

\* A connection that is closed, by the network, the broker or Client.Close, never goes
\* unnoticed: its watcher is to wake, or a goroutine is in reConnect.
THEOREM LossNoticedHolds == Spec => []LossNoticed
<1>1. ConnInv => LossNoticed
  BY DEF ConnInv
<1>2. QED
  BY ConnInvariant, <1>1, PTL

\* At most one connection is open, the one in use: no goroutine leaks another.
THEOREM OneConnectionHolds == Spec => []OneConnection
<1>1. ConnInv => OneConnection
  BY DEF ConnInv
<1>2. QED
  BY ConnInvariant, <1>1, PTL

\* The steps of reConnect that replace a connection find it closed.
LEMMA OnlyDialReplaces ==
  ASSUME TypeOK, ConnInv, [Next]_vars
  PROVE  conn' # conn => conn \notin open
<1> USE Parameters
<1>1. CASE \E p \in Procs : ReConnect(p)
  <2>1. PICK p \in Procs : ReConnect(p)
    BY <1>1
  <2>2. CASE Dial(p)
    BY <2>2 DEF Dial, ConnInv
  <2>3. CASE Enter(p) \/ DialFails(p) \/ Check(p) \/ Again(p)
    BY <2>3 DEF Enter, DialFails, Check, Again, shared
  <2>4. QED
    BY <2>1, <2>2, <2>3 DEF ReConnect
<1>2. CASE \E k \in Conns : Watch(k)
  BY <1>2 DEF Watch
<1>3. CASE \E u \in Users : Serve(u)
  BY <1>3 DEF Serve, Consume, Get, OpenChannel, DeclareFails, DeclareQueue, Listen, Restart, shared
<1>4. CASE (\E u \in Publishers : Publish(u)) \/ DeclareExchange \/ Close \/ Lose \/ Recover
  BY <1>4 DEF Publish, DeclareExchange, Close, Lose, Recover, shared
<1>5. CASE UNCHANGED vars
  BY <1>5 DEF vars
<1>6. QED
  BY <1>1, <1>2, <1>3, <1>4, <1>5 DEF Next

\* reConnect never replaces a connection that works, however many goroutines are in it.
THEOREM HealthyKeptHolds == Spec => HealthyKept
<1>1. TypeOK /\ ConnInv /\ [Next]_vars => [conn' # conn => conn \notin open]_vars
  BY OnlyDialReplaces
<1>2. QED
  BY ConnInvariant, <1>1, PTL DEF Spec, HealthyKept

-----------------------------------------------------------------------------
\* The refinement of SharedChannels.

Working == {u \in Users : channel[u] \in open}
Breaks == losses + IF closed THEN 1 ELSE 0

\* A channel is one of a connection that has been made.
ChannelsMade == \A u \in Users : channel[u] # None => channel[u] <= conn

LEMMA ChannelsServe ==
  ASSUME TypeOK, ChannelsMade, NEW u \in Users, Serve(u)
  PROVE  ChannelsMade' /\ (Channels!Take(u) \/ UNCHANGED Channels!vars)
<1> USE Parameters DEF Channels!vars
<1>1. CASE OpenChannel(u)
  <2>1. UNCHANGED <<conn, open, losses, closed>>
    BY <1>1 DEF OpenChannel, shared
  <2>2. conn \in Nat /\ channel \in [Users -> Conns \cup {None}]
    BY DEF TypeOK, Types, Conns
  <2>3. CASE conn \in open /\ channel' = [channel EXCEPT ![u] = conn]
    <3>1. Working' = Working \cup {u}
      BY <2>1, <2>2, <2>3 DEF Working
    <3>2. Breaks' = Breaks
      BY <2>1 DEF Breaks
    <3>3. ChannelsMade'
      BY <2>1, <2>2, <2>3 DEF ChannelsMade
    <3>4. QED
      BY <3>1, <3>2, <3>3 DEF Channels!Take, Working, Breaks
  <2>4. CASE channel' = channel
    BY <2>1, <2>4 DEF ChannelsMade
  <2>5. QED
    BY <1>1, <2>3, <2>4 DEF OpenChannel
<1>2. CASE Get(u) \/ DeclareFails(u) \/ (u \in Consumers /\ Consume(u))
  <2>1. UNCHANGED <<conn, open, channel, losses, closed>>
    BY <1>2 DEF Get, DeclareFails, Consume, DeclareQueue, Listen, Restart, shared
  <2>2. QED
    BY <2>1 DEF ChannelsMade
<1>3. QED
  BY <1>1, <1>2 DEF Serve

\* A connection that is dialled replaces a closed one and has no channel yet; those of the
\* one in use stop to work when it is lost or closed, and by no other step.
LEMMA ChannelsStep ==
  ASSUME TypeOK, ConnInv, ChannelsMade, [Next]_vars
  PROVE  ChannelsMade' /\ [Channels!Next]_Channels!vars
<1> USE Parameters DEF Channels!vars
<1>t. /\ conn \in Nat /\ losses \in Nat /\ open \subseteq {conn} /\ closed \in BOOLEAN
      /\ channel \in [Users -> Conns \cup {None}] /\ None \notin Conns
  BY DEF TypeOK, Types, Conns, ConnInv, OneConnection, Procs
<1>1. ASSUME UNCHANGED <<conn, open, channel, losses, closed>>
      PROVE  ChannelsMade' /\ UNCHANGED Channels!vars
  BY <1>1 DEF ChannelsMade
<1>2. ASSUME NEW p \in Procs, Dial(p) PROVE ChannelsMade' /\ UNCHANGED Channels!vars
  <2>1. /\ conn' = conn + 1 /\ conn \notin open /\ open' = (open \ {conn}) \cup {conn + 1}
        /\ UNCHANGED <<channel, losses, closed>>
    BY <1>2 DEF Dial, ConnInv, users
  <2>2. open = {} /\ open' = {conn + 1}
    BY <1>t, <2>1
  <2>3. \A u \in Users : channel[u] # conn + 1
    <3>1. conn + 1 \in Conns
      BY <1>t, <1>2 DEF Dial, Conns
    <3>2. TAKE u \in Users
    <3>3. channel[u] \in Conns \cup {None}
      BY <1>t
    <3>4. CASE channel[u] = None
      BY <1>t, <3>1, <3>4
    <3>5. CASE channel[u] # None
      <4>1. channel[u] <= conn /\ channel[u] \in Nat
        BY <3>3, <3>5 DEF ChannelsMade, Conns
      <4>2. QED
        BY <1>t, <4>1
    <3>6. QED
      BY <3>4, <3>5
  <2>4. UNCHANGED Channels!vars
    BY <2>1, <2>2, <2>3
  <2>5. ChannelsMade'
    <3>1. SUFFICES ASSUME NEW u \in Users, channel[u] # None PROVE channel[u] <= conn + 1
      BY <2>1 DEF ChannelsMade
    <3>2. channel[u] <= conn /\ channel[u] \in Nat
      BY <1>t, <3>1 DEF ChannelsMade, Conns
    <3>3. QED
      BY <1>t, <3>2
  <2>6. QED
    BY <2>4, <2>5
<1>3. ASSUME NEW p \in Procs, ReConnect(p) PROVE ChannelsMade' /\ UNCHANGED Channels!vars
  <2>1. CASE Enter(p) \/ DialFails(p) \/ Check(p) \/ Again(p)
    BY <1>1, <2>1 DEF Enter, DialFails, Check, Again, shared, users
  <2>2. QED
    BY <1>2, <1>3, <2>1 DEF ReConnect
<1>4. ASSUME NEW u \in Users, Serve(u)
      PROVE  ChannelsMade' /\ [Channels!Next]_Channels!vars
  BY <1>4, ChannelsServe DEF Channels!Next
<1>5. CASE Lose \/ Close
  <2>1. /\ open' = {} /\ UNCHANGED <<conn, channel>>
        /\ losses' + (IF closed' THEN 1 ELSE 0) = losses + (IF closed THEN 1 ELSE 0) + 1
    <3>1. CASE Lose
      BY <1>t, <3>1 DEF Lose, users
    <3>2. CASE Close
      <4>1. ~closed /\ closed' = TRUE /\ open' = open \ {conn} /\ UNCHANGED <<conn, channel, losses>>
        BY <3>2 DEF Close, users
      <4>2. QED
        BY <1>t, <4>1
    <3>3. QED
      BY <1>5, <3>1, <3>2
  <2>2. Channels!Break
    BY <2>1 DEF Channels!Break
  <2>3. QED
    BY <2>1, <2>2 DEF ChannelsMade, Channels!Next
<1>6. CASE \/ \E k \in Conns : Watch(k)
           \/ \E u \in Publishers : Publish(u)
           \/ DeclareExchange \/ Recover \/ UNCHANGED vars
  <2>1. UNCHANGED <<conn, open, channel, losses, closed>>
    BY <1>6 DEF Watch, Publish, DeclareExchange, Recover, vars, shared, users
  <2>2. QED
    BY <1>1, <2>1
<1>7. QED
  BY <1>3, <1>4, <1>5, <1>6 DEF Next

\* The channel of a consumer or publisher works until the connection is lost or closed:
\* however many goroutines reconnect meanwhile, none takes it away.
THEOREM ImplementsChannels == Spec => ChannelSpec
<1>1. Init => ChannelsMade /\ Channels!Init
  BY Parameters DEF Init, ChannelsMade, Channels!Init, Procs
<1>2. TypeOK /\ ConnInv /\ ChannelsMade /\ [Next]_vars => ChannelsMade' /\ [Channels!Next]_Channels!vars
  BY ChannelsStep
<1>3. QED
  BY <1>1, <1>2, ConnInvariant, PTL DEF Spec, ChannelSpec, Channels!Spec
=============================================================================
