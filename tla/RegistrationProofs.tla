------------------------- MODULE RegistrationProofs -------------------------
(***************************************************************************)
(* Registration, for any nodes, ways to register, TTLs and bounds: its     *)
(* types, and that a running node which the registry has heard of since    *)
(* its last trouble stays listed.                                          *)
(* And Discovery, which shows what is registered, for any watchers, lists  *)
(* and bounds: its types, and that it implements ServiceList.              *)
(***************************************************************************)
EXTENDS Registration, Sequences, TLAPS

\* What RegistrationAssumption says of each constant.
LEMMA Parameters ==
  /\ \A n \in Nodes : Kind[n] \in {"service", "plugin", "executor"}
  /\ \A n \in Nodes : Life[n] \in Nat /\ Life[n] > 0
  /\ Life \in [Nodes -> Nat]
  /\ Period \in Nat /\ Period > 0 /\ Pause \in Nat /\ Pause > 0
  /\ MaxOutages \in Nat /\ MaxForgets \in Nat
BY RegistrationAssumption

\* The timer of a heartbeat never runs for zero seconds, and less than a roomy TTL.
LEMMA EveryFits ==
  ASSUME NEW n \in Nodes
  PROVE  Every(n) \in Nat /\ Every(n) > 0 /\ (Roomy(n) => Every(n) < Life[n])
BY Parameters DEF Every, Roomy

Places == {"off", "register", "check", "silent", "running", "stopping", "exiting", "dead"}
Beats == {"none", "wait", "again", "pause"}

\* TypeOK in parts.
RegistryOK ==
  /\ up \in BOOLEAN
  /\ entry \in [Nodes -> {"none", "passing", "critical"}]
  /\ life \in [Nodes -> Nat]
  /\ sound \subseteq Nodes
  /\ outages \in 0..MaxOutages /\ forgets \in 0..MaxForgets
  /\ \A n \in Nodes : life[n] \in 0..Life[n] /\ (entry[n] = "passing" <=> life[n] > 0)

ProcessOK ==
  /\ pc \in [Nodes -> Places]
  /\ beat \in [Nodes -> Beats]
  /\ left \in [Nodes -> Nat]
  /\ due \subseteq Nodes
  /\ pause \in [Nodes -> 0..Pause]
  /\ \A n \in Nodes :
       /\ left[n] \in 0..Every(n)
       /\ pause[n] > 0 <=> beat[n] = "pause"
       /\ left[n] > 0 <=> beat[n] # "none"

\* A process that is not yet registered, or is gone, has no heartbeat.
Idle == \A n \in Nodes : pc[n] \in {"off", "register", "check", "silent", "dead"} => beat[n] = "none"

TypeInv == RegistryOK /\ ProcessOK /\ Idle

LEMMA TypeParts == RegistryOK /\ ProcessOK <=> TypeOK
BY DEF RegistryOK, ProcessOK, TypeOK, Places, Beats

-----------------------------------------------------------------------------

LEMMA RenewOK ==
  ASSUME RegistryOK, NEW n \in Nodes, Renew(n), UNCHANGED faults
  PROVE  RegistryOK'
<1>1. Life[n] \in 0..Life[n] /\ Life[n] > 0
  BY Parameters
<1> QED
  BY <1>1, Parameters DEF RegistryOK, Renew, faults

LEMMA StartBeatOK ==
  ASSUME ProcessOK, NEW n \in Nodes, beat[n] = "none", StartBeat(n), NEW p \in Places,
         pc' = [pc EXCEPT ![n] = p]
  PROVE  ProcessOK' /\ beat'[n] = "wait" /\ \A m \in Nodes \ {n} : beat'[m] = beat[m]
BY EveryFits DEF ProcessOK, StartBeat, Beats

\* Every step keeps the types of the registry.
LEMMA RegistryStep ==
  ASSUME TypeInv, [Next]_vars
  PROVE  RegistryOK'
<1> USE DEF TypeInv
<1>1. ASSUME NEW n \in Nodes, Start(n)
      PROVE  RegistryOK'
  BY <1>1 DEF Start, registry, faults, RegistryOK
<1>2. ASSUME NEW n \in Nodes, Register(n)
      PROVE  RegistryOK'
  <2>1. CASE Renew(n)
    BY <1>2, <2>1, RenewOK DEF Register
  <2>2. CASE UNCHANGED registry
    BY <1>2, <2>2 DEF Register, registry, faults, RegistryOK
  <2> QED BY <1>2, <2>1, <2>2 DEF Register
<1>3. ASSUME NEW n \in Nodes, Check(n)
      PROVE  RegistryOK'
  <2>1. CASE Renew(n)
    BY <1>3, <2>1, RenewOK DEF Check
  <2>2. CASE UNCHANGED registry
    BY <1>3, <2>2 DEF Check, registry, faults, RegistryOK
  <2> QED BY <1>3, <2>1, <2>2 DEF Check
<1>4. ASSUME NEW n \in Nodes, Beat(n)
      PROVE  RegistryOK'
  <2>1. CASE Renew(n)
    BY <1>4, <2>1, RenewOK DEF Beat
  <2>2. CASE UNCHANGED registry
    BY <1>4, <2>2 DEF Beat, registry, faults, RegistryOK
  <2> QED BY <1>4, <2>1, <2>2 DEF Beat
<1>5. ASSUME NEW n \in Nodes, Again(n)
      PROVE  RegistryOK'
  <2>1. CASE Renew(n)
    BY <1>5, <2>1, RenewOK DEF Again
  <2>2. CASE UNCHANGED registry
    BY <1>5, <2>2 DEF Again, registry, faults, RegistryOK
  <2> QED BY <1>5, <2>1, <2>2 DEF Again
<1>6. ASSUME NEW n \in Nodes, Stop(n)
      PROVE  RegistryOK'
  BY <1>6 DEF Stop, registry, faults, RegistryOK
<1>7. ASSUME NEW n \in Nodes, Deregister(n)
      PROVE  RegistryOK'
  BY <1>7, Parameters DEF Deregister, registry, faults, RegistryOK
<1>8. ASSUME NEW n \in Nodes, Exit(n)
      PROVE  RegistryOK'
  BY <1>8 DEF Exit, faults, RegistryOK
<1>9. ASSUME NEW n \in Nodes, Reap(n)
      PROVE  RegistryOK'
  BY <1>9 DEF Reap, faults, RegistryOK
<1>10. ASSUME Tick
       PROVE  RegistryOK'
  <2>1. \A n \in Nodes : /\ life'[n] \in 0..Life[n]
                         /\ entry'[n] = "passing" <=> life'[n] > 0
    BY <1>10, Parameters DEF Tick, Down, Lapsed, RegistryOK
  <2>2. entry' \in [Nodes -> {"none", "passing", "critical"}] /\ life' \in [Nodes -> Nat]
    BY <1>10 DEF Tick, Down, Lapsed, RegistryOK
  <2> QED
    BY <1>10, <2>1, <2>2 DEF Tick, faults, RegistryOK
<1>11. CASE Outage
  <2>1. outages' \in 0..MaxOutages
    BY <1>11, Parameters DEF Outage, RegistryOK
  <2>2. up' = FALSE /\ sound' = {} /\ UNCHANGED <<entry, life, forgets>>
    BY <1>11 DEF Outage
  <2> QED
    BY <2>1, <2>2 DEF RegistryOK
<1>12. CASE Recover
  BY <1>12 DEF Recover, registry, RegistryOK
<1>13. CASE Forget
  BY <1>13, Parameters DEF Forget, RegistryOK
<1>14. CASE UNCHANGED vars
  BY <1>14 DEF vars, RegistryOK
<1> QED
  BY <1>1, <1>2, <1>3, <1>4, <1>5, <1>6, <1>7, <1>8, <1>9, <1>10, <1>11, <1>12, <1>13, <1>14
     DEF Next, Process

\* Every step keeps the types of the processes, and no gone one has a heartbeat.
LEMMA ProcessStep ==
  ASSUME TypeInv, [Next]_vars
  PROVE  ProcessOK' /\ Idle'
<1> USE DEF TypeInv
<1>1. ASSUME NEW n \in Nodes, Start(n)
      PROVE  ProcessOK' /\ Idle'
  <2>1. CASE StartBeat(n) /\ Goto(n, "running")
    <3>1. ProcessOK' /\ beat'[n] = "wait" /\ \A m \in Nodes \ {n} : beat'[m] = beat[m]
      BY <1>1, <2>1, StartBeatOK DEF Start, Idle, Goto, Places
    <3> QED BY <1>1, <2>1, <3>1 DEF Start, Goto, Idle, ProcessOK
  <2>2. CASE UNCHANGED timers /\ Goto(n, "register")
    BY <1>1, <2>2 DEF Start, Goto, timers, ProcessOK, Idle, Places
  <2> QED BY <1>1, <2>1, <2>2 DEF Start
<1>2. ASSUME NEW n \in Nodes, Register(n)
      PROVE  ProcessOK' /\ Idle'
  BY <1>2 DEF Register, Goto, timers, ProcessOK, Idle, Places
<1>3. ASSUME NEW n \in Nodes, Check(n)
      PROVE  ProcessOK' /\ Idle'
  <2>1. CASE StartBeat(n) /\ Goto(n, "running")
    <3>1. ProcessOK' /\ beat'[n] = "wait" /\ \A m \in Nodes \ {n} : beat'[m] = beat[m]
      BY <1>3, <2>1, StartBeatOK DEF Check, Idle, Goto, Places
    <3> QED BY <1>3, <2>1, <3>1 DEF Check, Goto, Idle, ProcessOK
  <2>2. CASE UNCHANGED timers /\ Goto(n, "silent")
    BY <1>3, <2>2 DEF Check, Goto, timers, ProcessOK, Idle, Places
  <2> QED BY <1>3, <2>1, <2>2 DEF Check
<1>4. ASSUME NEW n \in Nodes, Beat(n)
      PROVE  ProcessOK' /\ Idle'
  <2>1. beat' = beat \/ \E b \in {"again", "wait"} : beat' = [beat EXCEPT ![n] = b]
    BY <1>4 DEF Beat
  <2>2. pc' = pc /\ left' = left /\ pause' = pause /\ due' \subseteq due /\ beat[n] = "wait"
    BY <1>4 DEF Beat
  <2> QED BY <2>1, <2>2 DEF ProcessOK, Idle, Beats
<1>5. ASSUME NEW n \in Nodes, Again(n)
      PROVE  ProcessOK' /\ Idle'
  BY <1>5, Parameters DEF Again, ProcessOK, Idle, Beats
<1>6. ASSUME NEW n \in Nodes, Stop(n)
      PROVE  ProcessOK' /\ Idle'
  BY <1>6 DEF Stop, Goto, timers, ProcessOK, Idle, Places
<1>7. ASSUME NEW n \in Nodes, Deregister(n)
      PROVE  ProcessOK' /\ Idle'
  BY <1>7 DEF Deregister, Goto, timers, ProcessOK, Idle, Places
<1>8. ASSUME NEW n \in Nodes, Exit(n)
      PROVE  ProcessOK' /\ Idle'
  BY <1>8, EveryFits, Parameters DEF Exit, Goto, ProcessOK, Idle, Places, Beats
<1>9. ASSUME NEW n \in Nodes, Reap(n)
      PROVE  ProcessOK' /\ Idle'
  BY <1>9 DEF Reap, timers, ProcessOK, Idle
<1>10. ASSUME Tick
       PROVE  ProcessOK' /\ Idle'
  <2>1. /\ left' = [n \in Nodes |-> IF left[n] = 1 THEN Every(n) ELSE Down(left[n])]
        /\ pause' = [n \in Nodes |-> Down(pause[n])]
        /\ beat' = [n \in Nodes |-> IF pause[n] = 1 THEN "again" ELSE beat[n]]
        /\ pc' = [n \in Nodes |-> IF pc[n] = "dead" THEN "off" ELSE pc[n]]
        /\ due' \subseteq due \cup Nodes
    BY <1>10 DEF Tick
  <2>2. \A n \in Nodes : left[n] \in 0..Every(n) /\ Every(n) \in Nat /\ Every(n) > 0
    BY EveryFits DEF ProcessOK
  <2>3. left' \in [Nodes -> Nat] /\ \A n \in Nodes : left'[n] \in 0..Every(n)
    BY <2>1, <2>2 DEF Down
  <2>4. \A n \in Nodes : left'[n] > 0 <=> left[n] > 0
    BY <2>1, <2>2 DEF Down
  <2>5. pause' \in [Nodes -> 0..Pause]
    BY <2>1, Parameters DEF Down, ProcessOK
  <2>6. beat' \in [Nodes -> Beats] /\ pc' \in [Nodes -> Places] /\ due' \subseteq Nodes
    BY <2>1 DEF ProcessOK, Beats, Places
  <2>7. \A n \in Nodes : /\ pause'[n] > 0 <=> beat'[n] = "pause"
                         /\ beat'[n] = "none" <=> beat[n] = "none"
    BY <2>1, Parameters DEF Down, ProcessOK
  <2>8. Idle'
    BY <2>1, <2>7 DEF Idle
  <2> QED
    BY <2>3, <2>4, <2>5, <2>6, <2>7, <2>8 DEF ProcessOK
<1>11. CASE Outage
  BY <1>11 DEF Outage, timers, ProcessOK, Idle
<1>12. CASE Recover
  BY <1>12 DEF Recover, timers, ProcessOK, Idle
<1>13. CASE Forget
  BY <1>13 DEF Forget, timers, ProcessOK, Idle
<1>14. CASE UNCHANGED vars
  BY <1>14 DEF vars, ProcessOK, Idle
<1> QED
  BY <1>1, <1>2, <1>3, <1>4, <1>5, <1>6, <1>7, <1>8, <1>9, <1>10, <1>11, <1>12, <1>13, <1>14
     DEF Next, Process

LEMMA TypeInit == Init => TypeInv
BY EveryFits, Parameters DEF Init, TypeInv, RegistryOK, ProcessOK, Idle, Places, Beats

\* Every state has its types.
THEOREM TypeCorrect == Spec => []TypeOK
<1>1. TypeInv /\ [Next]_vars => TypeInv'
  BY RegistryStep, ProcessStep DEF TypeInv
<1>2. TypeInv => TypeOK
  BY TypeParts DEF TypeInv
<1> QED
  BY TypeInit, <1>1, <1>2, PTL DEF Spec

-----------------------------------------------------------------------------
\* A step of one node: nothing changes for another one.
OnlyOf(n) ==
  /\ up' = up
  /\ sound' \subseteq sound \cup {n}
  /\ \A m \in Nodes \ {n} :
       /\ pc'[m] = pc[m] /\ entry'[m] = entry[m] /\ life'[m] = life[m]
       /\ beat'[m] = beat[m] /\ left'[m] = left[m]
       /\ m \in due => m \in due'

\* It keeps the invariant if it keeps it for that node.
LEMMA OthersInTime ==
  ASSUME TypeInv, RegistrationInv, NEW n \in Nodes, OnlyOf(n),
         n \in sound' /\ Roomy(n) => BeatsInTime(n)'
  PROVE  RegistrationInv'
<1>1. ASSUME NEW m \in sound', Roomy(m), m # n
      PROVE  BeatsInTime(m)'
  <2>1. m \in sound /\ m \in Nodes \ {n}
    BY <1>1 DEF OnlyOf, TypeInv, RegistryOK
  <2>2. BeatsInTime(m)
    BY <1>1, <2>1 DEF RegistrationInv
  <2> QED
    BY <2>1, <2>2 DEF OnlyOf, BeatsInTime, Gone, Listed
<1> QED
  BY <1>1 DEF RegistrationInv, Roomy

\* A heartbeat or a registration that succeeds gives the node its whole TTL.
LEMMA Heard ==
  ASSUME TypeInv, NEW n \in Nodes, Renew(n)
  PROVE  /\ entry'[n] = "passing" /\ life'[n] = Life[n]
         /\ sound' = sound \cup {n}
         /\ \A m \in Nodes \ {n} : entry'[m] = entry[m] /\ life'[m] = life[m]
BY DEF Renew, TypeInv, RegistryOK

\* Every step keeps the heartbeats in time.
LEMMA InTimeStep ==
  ASSUME TypeInv, TypeInv', RegistrationInv, [Next]_vars
  PROVE  RegistrationInv'
<1>1. ASSUME NEW n \in Nodes, Start(n)
      PROVE  RegistrationInv'
  <2>1. OnlyOf(n) /\ sound' = sound
    BY <1>1 DEF Start, OnlyOf, Goto, StartBeat, timers, registry, faults, TypeInv, ProcessOK
  <2>2. Roomy(n) => n \notin sound
    BY <1>1 DEF Start, RegistrationInv, BeatsInTime, Gone
  <2> QED
    BY <2>1, <2>2, OthersInTime
<1>2. ASSUME NEW n \in Nodes, Register(n)
      PROVE  RegistrationInv'
  <2>1. CASE up
    <3>1. Renew(n) /\ pc'[n] = "check" /\ UNCHANGED <<up, timers>>
      BY <1>2, <2>1 DEF Register, Goto, faults, TypeInv, ProcessOK
    <3>2. OnlyOf(n)
      BY <1>2, <3>1, Heard DEF Register, Goto, OnlyOf, timers, TypeInv, ProcessOK
    <3>3. BeatsInTime(n)'
      BY <2>1, <3>1, Heard DEF BeatsInTime, Gone, Listed
    <3> QED BY <3>2, <3>3, OthersInTime
  <2>2. CASE ~up
    BY <1>2, <2>2 DEF Register, registry, faults, RegistrationInv, BeatsInTime, Roomy
  <2> QED BY <2>1, <2>2
<1>3. ASSUME NEW n \in Nodes, Check(n)
      PROVE  RegistrationInv'
  <2>1. CASE Renew(n) /\ up /\ Goto(n, "running") /\ StartBeat(n)
    <3>1. OnlyOf(n)
      BY <1>3, <2>1, Heard DEF Check, Goto, StartBeat, OnlyOf, faults, TypeInv, ProcessOK
    <3>2. pc'[n] = "running" /\ beat'[n] = "wait" /\ left'[n] = Every(n) /\ up'
      BY <1>3, <2>1 DEF Check, Goto, StartBeat, faults, TypeInv, ProcessOK
    <3>3. Roomy(n) => BeatsInTime(n)'
      BY <2>1, <3>2, Heard, EveryFits DEF BeatsInTime, Gone, Listed
    <3> QED BY <3>1, <3>3, OthersInTime
  <2>2. CASE Goto(n, "silent") /\ UNCHANGED <<registry, timers>> /\ ~(up /\ entry[n] # "none")
    <3>1. OnlyOf(n) /\ sound' = sound
      BY <1>3, <2>2 DEF Check, Goto, OnlyOf, registry, timers, faults, TypeInv, ProcessOK
    <3>2. Roomy(n) => n \notin sound
      BY <1>3, <2>2 DEF Check, RegistrationInv, BeatsInTime, Listed
    <3> QED BY <3>1, <3>2, OthersInTime
  <2> QED BY <1>3, <2>1, <2>2 DEF Check
<1>4. ASSUME NEW n \in Nodes, Beat(n)
      PROVE  RegistrationInv'
  <2>1. pc' = pc /\ left' = left /\ up' = up /\ due' = due \ {n} /\ ~Gone(n) /\ beat[n] = "wait"
    BY <1>4 DEF Beat, faults, TypeInv, Idle, Gone
  <2>2. CASE up /\ Renew(n) /\ beat' = beat
    <3>1. OnlyOf(n)
      BY <2>1, <2>2, Heard DEF OnlyOf
    <3>2. Roomy(n) => left[n] < Life[n]
      BY EveryFits, Parameters DEF TypeInv, ProcessOK
    <3>3. Roomy(n) => BeatsInTime(n)'
      BY <2>1, <2>2, <3>2, Heard DEF BeatsInTime, Gone, Listed
    <3> QED BY <3>1, <3>3, OthersInTime
  <2>3. CASE UNCHANGED registry /\ ~(up /\ entry[n] # "none")
    <3>1. OnlyOf(n) /\ sound' = sound
      BY <1>4, <2>1, <2>3 DEF Beat, OnlyOf, registry, TypeInv, ProcessOK
    <3>2. n \in sound /\ Roomy(n) => BeatsInTime(n)'
      BY <2>1, <2>3 DEF RegistrationInv, BeatsInTime, Gone, Listed, registry
    <3> QED BY <3>1, <3>2, OthersInTime
  <2> QED BY <1>4, <2>2, <2>3 DEF Beat
<1>5. ASSUME NEW n \in Nodes, Again(n)
      PROVE  RegistrationInv'
  <2>1. pc' = pc /\ left' = left /\ up' = up /\ due' = due /\ ~Gone(n)
    BY <1>5 DEF Again, faults, TypeInv, Idle, Gone
  <2>2. CASE up /\ Renew(n) /\ beat' = [beat EXCEPT ![n] = "wait"]
    <3>1. OnlyOf(n) /\ beat'[n] = "wait"
      BY <2>1, <2>2, Heard DEF OnlyOf, TypeInv, ProcessOK
    <3>2. Roomy(n) => left[n] < Life[n]
      BY EveryFits, Parameters DEF TypeInv, ProcessOK
    <3>3. Roomy(n) => BeatsInTime(n)'
      BY <2>1, <2>2, <3>1, <3>2, Heard DEF BeatsInTime, Gone, Listed
    <3> QED BY <3>1, <3>3, OthersInTime
  <2>3. CASE ~up
    BY <1>5, <2>1, <2>3 DEF Again, registry, RegistrationInv, BeatsInTime, Roomy
  <2> QED BY <1>5, <2>2, <2>3 DEF Again
<1>6. ASSUME NEW n \in Nodes, Stop(n)
      PROVE  RegistrationInv'
  BY <1>6 DEF Stop, Goto, registry, timers, faults, TypeInv, ProcessOK, Places,
              RegistrationInv, BeatsInTime, Gone, Listed, Roomy
<1>7. ASSUME NEW n \in Nodes, Deregister(n)
      PROVE  RegistrationInv'
  <2>1. OnlyOf(n)
    BY <1>7 DEF Deregister, Goto, OnlyOf, registry, timers, faults, TypeInv, ProcessOK, RegistryOK
  <2>2. n \in sound' /\ Roomy(n) => ~up
    BY <1>7 DEF Deregister
  <2>3. n \in sound' /\ Roomy(n) => up
    BY <1>7 DEF Deregister, registry, RegistrationInv, BeatsInTime
  <2> QED
    BY <2>1, <2>2, <2>3, OthersInTime
<1>8. ASSUME NEW n \in Nodes, Exit(n)
      PROVE  RegistrationInv'
  <2>1. OnlyOf(n) /\ n \notin sound'
    BY <1>8 DEF Exit, Goto, OnlyOf, faults, TypeInv, ProcessOK
  <2> QED
    BY <2>1, OthersInTime
<1>9. ASSUME NEW n \in Nodes, Reap(n)
      PROVE  RegistrationInv'
  <2>1. OnlyOf(n) /\ UNCHANGED <<pc, timers, up, life, sound>> /\ entry[n] = "critical"
    BY <1>9 DEF Reap, OnlyOf, timers, faults, TypeInv, RegistryOK
  <2>2. n \in sound /\ Roomy(n) => BeatsInTime(n)'
    BY <2>1 DEF RegistrationInv, BeatsInTime, Gone, Listed, timers
  <2> QED
    BY <2>1, <2>2, OthersInTime
<1>10. ASSUME Tick
       PROVE  RegistrationInv'
  <2>1. SUFFICES ASSUME NEW n \in sound', Roomy(n)
                 PROVE  BeatsInTime(n)'
    BY DEF RegistrationInv, Roomy
  <2>2. n \in Nodes /\ BeatsInTime(n) /\ ~Busy(n) /\ up' = up
    BY <1>10, <2>1 DEF Tick, faults, RegistrationInv, TypeInv, RegistryOK
  <2>3. pc'[n] = pc[n]
    BY <1>10, <2>2 DEF Tick, BeatsInTime, Gone
  <2>4. CASE pc[n] = "running"
    <3>1. beat[n] = "wait" /\ left[n] < life[n] /\ left[n] > 0 /\ pause[n] = 0
      BY <2>2, <2>4 DEF BeatsInTime, Busy, TypeInv, ProcessOK
    <3>2. left[n] \in Nat /\ life[n] \in Nat /\ entry[n] = "passing"
      BY <2>2, <2>4 DEF BeatsInTime, Listed, TypeInv, ProcessOK, RegistryOK
    <3>3. entry'[n] = "passing" /\ life'[n] = life[n] - 1 /\ beat'[n] = "wait"
      BY <1>10, <2>2, <3>1, <3>2 DEF Tick, Down
    <3>4. n \in due' \/ left'[n] = left[n] - 1
      BY <1>10, <2>2, <3>1, <3>2 DEF Tick, Down
    <3> QED
      BY <2>2, <2>3, <2>4, <3>1, <3>2, <3>3, <3>4 DEF BeatsInTime, Gone, Listed
  <2>5. CASE pc[n] # "running"
    BY <2>2, <2>3, <2>5 DEF BeatsInTime, Gone, Busy
  <2> QED BY <2>4, <2>5
<1>11. CASE Outage
  BY <1>11 DEF Outage, RegistrationInv
<1>12. CASE Recover
  BY <1>12 DEF Recover, registry, RegistrationInv, BeatsInTime, Roomy
<1>13. CASE Forget
  BY <1>13 DEF Forget, RegistrationInv
<1>14. CASE UNCHANGED vars
  BY <1>14 DEF vars, RegistrationInv, BeatsInTime, Gone, Listed, Roomy
<1> QED
  BY <1>1, <1>2, <1>3, <1>4, <1>5, <1>6, <1>7, <1>8, <1>9, <1>10, <1>11, <1>12, <1>13, <1>14
     DEF Next, Process

\* The heartbeats of a node whose TTL leaves room for them come in time, so it stays
\* listed while it runs and the registry can be reached and forgets nothing.
THEOREM HealthyListedHolds == Spec => []HealthyListed
<1>1. Init => TypeInv /\ RegistrationInv
  BY TypeInit DEF Init, RegistrationInv
<1>2. TypeInv /\ RegistrationInv /\ [Next]_vars => (TypeInv /\ RegistrationInv)'
  <2>1. TypeInv /\ [Next]_vars => TypeInv'
    BY RegistryStep, ProcessStep DEF TypeInv
  <2> QED BY <2>1, InTimeStep
<1>3. RegistrationInv => HealthyListed
  BY DEF RegistrationInv, BeatsInTime, HealthyListed
<1> QED
  BY <1>1, <1>2, <1>3, PTL DEF Spec
-----------------------------------------------------------------------------
\* The discovery.

CONSTANTS Sources, Servers, Watchers, Senders, Capacity, Partial, MaxChanges, MaxErrors, MayClose
VARIABLES source, listed, replica, known, loop, got, pairs, raw, since, watch, shut, chan, sender,
          view, closed, errors
Seen == INSTANCE Discovery WITH pc <- loop
List == INSTANCE ServiceList WITH shown <- pairs

LEMMA ListParameters ==
  ASSUME Seen!DiscoveryParameters
  PROVE  /\ Sources \subseteq {"consul", "nacos", "grpc"}
         /\ Servers # {}
         /\ Capacity \in Nat /\ Capacity > 0 /\ MaxChanges \in Nat /\ MaxErrors \in Nat
BY DEF Seen!DiscoveryParameters

\* TypeOK in parts: the registry and the list, and the watchers.
Stages == {"store", "notify"} \cup
  (IF source = "consul" THEN {"query"}
                        ELSE {"fetch", "build", "subscribe", "idle", "deaf", "dead"})
ListOK ==
  /\ source \in Sources
  /\ listed \in Seen!Versions \ {0} /\ replica \in [Servers -> Seen!Versions \ {0}]
  /\ {known, got, pairs, since} \subseteq Seen!Versions
  /\ loop \in Stages
  /\ raw \in BOOLEAN
  /\ errors \in 0..MaxErrors

States == {"none", "new", "half", "send"}
Announcers == [at : States, body : Seen!Versions, size : Seen!Versions]
WatchOK ==
  /\ watch \in [Watchers -> {"no", "on", "off"}] /\ shut \subseteq Watchers
  /\ chan \in [Watchers -> Seq(Seen!Lists)]
  /\ \A w \in Watchers : Len(chan[w]) <= Capacity
  /\ sender \in [Watchers -> [Senders -> Announcers]]
  /\ view \in [Watchers -> Seen!Lists]
  /\ closed \in BOOLEAN

LEMMA ListTypeParts == ListOK /\ WatchOK <=> Seen!TypeOK
BY DEF ListOK, WatchOK, Seen!TypeOK, Stages, States, Announcers

\* The order of the versions: nothing is newer than the registry's list, no server is
\* behind the one that was noted, and no list about to be stored is.
Ordered ==
  /\ \A s \in Servers : since <= replica[s] /\ replica[s] <= listed
  /\ pairs <= listed /\ got <= listed
  /\ loop = "store" => since <= got
  /\ loop = "build" => since = 0

-----------------------------------------------------------------------------

\* A server answers with a version it has; the one that is noted is no server's future.
LEMMA AnswerOrdered ==
  ASSUME Seen!DiscoveryParameters, ListOK, Ordered, NEW v \in Seen!Answers
  PROVE  v \in Seen!Versions /\ since <= v /\ v <= listed
BY ListParameters DEF ListOK, Ordered, Seen!Answers

LEMMA NoteOrdered ==
  ASSUME Seen!DiscoveryParameters, ListOK, Ordered, Seen!Note
  PROVE  /\ since' \in Seen!Versions
         /\ \E s \in Servers : since' = replica[s] /\ \A t \in Servers : since' <= replica[t]
BY ListParameters DEF ListOK, Ordered, Seen!Answers, Seen!Note, Seen!Least

LEMMA ListInit == ASSUME Seen!DiscoveryParameters, Seen!Init PROVE ListOK /\ Ordered
<1>1. /\ listed \in Seen!Versions \ {0} /\ replica \in [Servers -> Seen!Versions \ {0}]
      /\ {known, got, pairs, since} \subseteq Seen!Versions
  BY ListParameters DEF Seen!Init, Seen!Versions
<1>2. loop \in Stages /\ loop # "store"
  BY DEF Seen!Init, Stages
<1>3. Ordered
  BY <1>2 DEF Seen!Init, Ordered
<1>4. source \in Sources /\ raw \in BOOLEAN
  BY DEF Seen!Init
<1>5. errors \in 0..MaxErrors
  BY ListParameters DEF Seen!Init
<1> QED
  BY <1>1, <1>2, <1>3, <1>4, <1>5 DEF ListOK

LEMMA WatchInit == ASSUME Seen!DiscoveryParameters, Seen!Init PROVE WatchOK
<1>1. 0 \in Seen!Versions
  BY ListParameters DEF Seen!Versions
<1>2. Seen!Idle \in Announcers /\ Seen!Whole(0) \in Seen!Lists
  BY <1>1 DEF Seen!Idle, Seen!Whole, Seen!Lists, Announcers, States
<1>3. chan \in [Watchers -> Seq(Seen!Lists)] /\ \A w \in Watchers : Len(chan[w]) <= Capacity
  BY ListParameters DEF Seen!Init
<1> QED
  BY <1>2, <1>3 DEF Seen!Init, WatchOK

\* Every step keeps the order of the versions.
LEMMA ListStep ==
  ASSUME Seen!DiscoveryParameters, ListOK, Ordered, [Seen!Next]_Seen!vars
  PROVE  ListOK' /\ Ordered'
<1> USE ListParameters DEF ListOK, Ordered, Seen!Versions
<1>1. CASE Seen!Change
  BY <1>1 DEF Seen!Change, Seen!store, Seen!shown, Stages
<1>2. ASSUME NEW s \in Servers, Seen!CatchUp(s)
      PROVE  ListOK' /\ Ordered'
  BY <1>2 DEF Seen!CatchUp, Seen!store, Seen!shown, Stages
<1>3. CASE Seen!Query
  <2>1. (got' = got /\ loop' = "query") \/ (loop' = "store" /\ got' \in Seen!Answers)
    BY <1>3 DEF Seen!Query
  <2>2. /\ source = "consul" /\ errors' \in 0..MaxErrors
        /\ UNCHANGED <<source, listed, replica, known, pairs, raw, since>>
    BY <1>3 DEF Seen!Query, Seen!remote, Seen!shown, Seen!Fails, Stages
  <2> QED
    BY <2>1, <2>2, AnswerOrdered DEF Stages
<1>4. CASE Seen!Fetch
  <2>1. source # "consul" /\ UNCHANGED <<source, listed, replica, got, raw>> /\ errors' \in 0..MaxErrors
    BY <1>4 DEF Seen!Fetch, Seen!remote, Seen!Fails, Stages
  <2>2. \/ pairs' \in Seen!Answers /\ known' = pairs' /\ loop' = "subscribe" /\ Seen!Note
        \/ UNCHANGED <<pairs, known, since>> /\ loop' = "dead"
    BY <1>4 DEF Seen!Fetch
  <2> QED
    BY <2>1, <2>2, AnswerOrdered, NoteOrdered DEF Stages
<1>5. CASE Seen!Subscribe
  <2>1. source # "consul" /\ UNCHANGED <<source, listed, replica, known, pairs, got, raw, since>>
        /\ errors' \in 0..MaxErrors
    BY <1>5 DEF Seen!Subscribe, Seen!remote, Seen!shown, Seen!Fails, Stages
  <2>2. loop' \in {"subscribe", "idle"}
    BY <1>5 DEF Seen!Subscribe
  <2> QED
    BY <2>1, <2>2 DEF Stages
<1>6. CASE Seen!CallBack
  <2>1. got' \in Seen!Answers /\ known' = got'
    BY <1>6 DEF Seen!CallBack
  <2> QED
    BY <1>6, <2>1, AnswerOrdered DEF Seen!CallBack, Seen!remote, Seen!shown, Stages
<1>7. CASE Seen!Store
  <2>1. Seen!Note
    BY <1>7 DEF Seen!Store
  <2> QED
    BY <1>7, <2>1, NoteOrdered DEF Seen!Store, Seen!remote, Stages
<1>8. CASE Seen!Notify
  BY <1>8 DEF Seen!Notify, Seen!remote, Seen!shown, Stages, Seen!Onward
<1>13. CASE Seen!Build
  <2>1. source # "consul" /\ UNCHANGED <<source, listed, replica, pairs, raw, since>>
        /\ errors' \in 0..MaxErrors
    BY <1>13 DEF Seen!Build, Seen!remote, Seen!shown, Seen!Fails, Stages
  <2>2. /\ UNCHANGED <<got, known>> \/ (got' \in Seen!Answers /\ known' = got')
        /\ loop' = "store" /\ since = 0
    BY <1>13 DEF Seen!Build
  <2> QED
    BY <2>1, <2>2, AnswerOrdered DEF Stages
<1>14. CASE Seen!UpdateState
  <2>1. Seen!Note
    BY <1>14 DEF Seen!UpdateState
  <2> QED
    BY <1>14, <2>1, NoteOrdered DEF Seen!UpdateState, Seen!remote, Stages, Seen!HandedOver
<1>15. CASE Seen!SubscribeOnce
  <2>1. source # "consul" /\ UNCHANGED <<source, listed, replica, known, pairs, got, raw, since>>
        /\ errors' \in 0..MaxErrors
    BY <1>15 DEF Seen!SubscribeOnce, Seen!remote, Seen!shown, Seen!Fails, Stages
  <2>2. loop' \in {"idle", "deaf"}
    BY <1>15 DEF Seen!SubscribeOnce
  <2> QED
    BY <2>1, <2>2 DEF Stages
<1>16. CASE Seen!Finish
  BY <1>16 DEF Seen!Finish, Seen!remote, Seen!shown, Stages
<1>9. CASE UNCHANGED <<Seen!remote, Seen!store>>
  BY <1>9 DEF Seen!remote, Seen!store, Seen!shown, Stages
<1>10. ASSUME NEW w \in Watchers, Seen!Watch(w) \/ Seen!Receive(w) \/ Seen!RemoveWatcher(w)
       PROVE  UNCHANGED <<Seen!remote, Seen!store>>
  BY <1>10 DEF Seen!Watch, Seen!Receive, Seen!RemoveWatcher
<1>11. ASSUME NEW w \in Watchers, NEW i \in Senders, Seen!Sender(w, i)
       PROVE  UNCHANGED <<Seen!remote, Seen!store>>
  BY <1>11 DEF Seen!Sender, Seen!ReadBody, Seen!ReadSize, Seen!Send
<1>12. CASE Seen!Close \/ UNCHANGED Seen!vars
  BY <1>9, <1>12 DEF Seen!Close, Seen!vars, Seen!remote, Seen!store, Seen!shown
<1> QED
  BY <1>1, <1>2, <1>3, <1>4, <1>5, <1>6, <1>7, <1>8, <1>9, <1>10, <1>11, <1>12,
     <1>13, <1>14, <1>15, <1>16 DEF Seen!Next, Seen!Loop

-----------------------------------------------------------------------------

LEMMA SetSenderOK ==
  ASSUME WatchOK, NEW w \in Watchers, NEW i \in Senders, NEW s \in Announcers, Seen!SetSender(w, i, s)
  PROVE  sender' \in [Watchers -> [Senders -> Announcers]]
BY DEF WatchOK, Seen!SetSender

LEMMA AnnounceOK ==
  ASSUME WatchOK, ListOK, NEW ws, Seen!Announce(ws)
  PROVE  sender' \in [Watchers -> [Senders -> Announcers]]
<1>1. SUFFICES ASSUME NEW w \in Watchers
               PROVE  [sender[w] EXCEPT ![CHOOSE i \in Seen!Free(w) : TRUE].at = "new"]
                        \in [Senders -> Announcers]
  BY DEF Seen!Announce, WatchOK
<1> DEFINE j == CHOOSE i \in Seen!Free(w) : TRUE
<1>2. sender[w] \in [Senders -> Announcers]
  BY DEF WatchOK
<1> HIDE DEF j
<1>3. [sender[w] EXCEPT ![j].at = "new"] \in [Senders -> Announcers]
  <2>1. j \in Senders => [sender[w][j] EXCEPT !.at = "new"] \in Announcers
    BY <1>2 DEF Announcers, States
  <2> QED BY <1>2, <2>1
<1> QED
  BY <1>3 DEF j

\* Every step keeps the types of the channels and the goroutines.
LEMMA WatchStep ==
  ASSUME Seen!DiscoveryParameters, ListOK, WatchOK, [Seen!Next]_Seen!vars
  PROVE  WatchOK'
<1>1. ASSUME UNCHANGED <<Seen!channels, sender>>
      PROVE  WatchOK'
  BY <1>1 DEF Seen!channels, WatchOK
<1>10. ASSUME NEW s \in Servers, Seen!CatchUp(s)
       PROVE  WatchOK'
  BY <1>1, <1>10 DEF Seen!CatchUp
<1>2. CASE Seen!Change \/ Seen!Query \/ Seen!Fetch \/ Seen!Subscribe \/ Seen!CallBack \/ Seen!Store \/ UNCHANGED Seen!vars
  BY <1>1, <1>2 DEF Seen!Change, Seen!Query, Seen!Fetch, Seen!Subscribe, Seen!CallBack, Seen!Store, Seen!vars, Seen!channels
<1>9. CASE Seen!Build \/ Seen!UpdateState \/ Seen!SubscribeOnce \/ Seen!Finish
  BY <1>1, <1>9 DEF Seen!Build, Seen!UpdateState, Seen!SubscribeOnce, Seen!Finish, Seen!channels
<1>3. CASE Seen!Notify
  BY <1>3, AnnounceOK DEF Seen!Notify, Seen!channels, WatchOK
<1>4. ASSUME NEW w \in Watchers, NEW i \in Senders, Seen!Sender(w, i)
      PROVE  WatchOK'
  <2>1. sender[w][i] \in Announcers /\ pairs \in Seen!Versions /\ 0 \in Seen!Versions
    BY ListParameters DEF WatchOK, ListOK, Seen!Versions
  <2>2. CASE Seen!ReadBody(w, i)
    <3>1. [at |-> "half", body |-> pairs, size |-> 0] \in Announcers
      BY <2>1 DEF Announcers, States
    <3> QED BY <2>2, <3>1, SetSenderOK DEF Seen!ReadBody, Seen!channels, WatchOK
  <2>3. CASE Seen!ReadSize(w, i)
    <3>1. [at |-> "send", body |-> sender[w][i].body, size |-> pairs] \in Announcers
      BY <2>1 DEF Announcers, States
    <3> QED BY <2>3, <3>1, SetSenderOK DEF Seen!ReadSize, Seen!channels, WatchOK
  <2>4. CASE Seen!Send(w, i)
    <3>1. Seen!Idle \in Announcers
      BY <2>1 DEF Seen!Idle, Announcers, States
    <3>2. sender' \in [Watchers -> [Senders -> Announcers]]
      BY <2>4, <3>1, SetSenderOK DEF Seen!Send
    <3> DEFINE l == [body |-> sender[w][i].body, size |-> sender[w][i].size]
    <3>3. l \in Seen!Lists
      BY <2>1 DEF Seen!Lists, Announcers
    <3> HIDE DEF l
    <3>4. chan[w] \in Seq(Seen!Lists) /\ Len(chan[w]) \in Nat /\ Len(chan[w]) <= Capacity
      BY DEF WatchOK
    <3>5. Append(chan[w], l) \in Seq(Seen!Lists) /\ Len(Append(chan[w], l)) = Len(chan[w]) + 1
      BY <3>3, <3>4
    <3>6. chan' = chan \/ (Len(chan[w]) # Capacity /\ chan' = [chan EXCEPT ![w] = Append(@, l)])
      BY <2>4 DEF Seen!Send, l
    <3>7. CASE chan' = chan
      BY <2>4, <3>2, <3>7 DEF Seen!Send, WatchOK
    <3>8. CASE Len(chan[w]) # Capacity /\ chan' = [chan EXCEPT ![w] = Append(@, l)]
      <4>1. Len(Append(chan[w], l)) <= Capacity
        BY <3>4, <3>5, <3>8, ListParameters
      <4>2. chan' \in [Watchers -> Seq(Seen!Lists)] /\ chan'[w] = Append(chan[w], l)
            /\ \A v \in Watchers \ {w} : chan'[v] = chan[v]
        BY <3>5, <3>8 DEF WatchOK
      <4>3. \A v \in Watchers : Len(chan'[v]) <= Capacity
        BY <4>1, <4>2 DEF WatchOK
      <4> QED BY <2>4, <3>2, <4>2, <4>3 DEF Seen!Send, WatchOK
    <3> QED BY <3>6, <3>7, <3>8
  <2> QED BY <1>4, <2>2, <2>3, <2>4 DEF Seen!Sender
<1>5. ASSUME NEW w \in Watchers, Seen!Watch(w)
      PROVE  WatchOK'
  <2>1. Seen!Whole(pairs) \in Seen!Lists
    BY DEF Seen!Whole, Seen!Lists, ListOK
  <2> QED BY <1>5, <2>1 DEF Seen!Watch, WatchOK
<1>6. ASSUME NEW w \in Watchers, Seen!Receive(w)
      PROVE  WatchOK'
  <2>1. chan[w] \in Seq(Seen!Lists) /\ chan[w] # << >> /\ Len(chan[w]) <= Capacity
    BY <1>6 DEF Seen!Receive, WatchOK
  <2>2. Head(chan[w]) \in Seen!Lists /\ Tail(chan[w]) \in Seq(Seen!Lists) /\ Len(Tail(chan[w])) = Len(chan[w]) - 1
    BY <2>1
  <2>3. Len(Tail(chan[w])) <= Capacity
    BY <2>1, <2>2, ListParameters
  <2> QED BY <1>6, <2>2, <2>3 DEF Seen!Receive, WatchOK
<1>7. ASSUME NEW w \in Watchers, Seen!RemoveWatcher(w)
      PROVE  WatchOK'
  BY <1>7 DEF Seen!RemoveWatcher, WatchOK
<1>8. CASE Seen!Close
  BY <1>8 DEF Seen!Close, Seen!On, WatchOK
<1> QED
  BY <1>2, <1>3, <1>4, <1>5, <1>6, <1>7, <1>8, <1>9, <1>10 DEF Seen!Next, Seen!Loop

-----------------------------------------------------------------------------
\* Every variable of a discovery has its type, in every state of it.
THEOREM DiscoveryTypes == Seen!DiscoveryParameters /\ Seen!Spec => []Seen!TypeOK
<1> SUFFICES ASSUME Seen!DiscoveryParameters PROVE Seen!Spec => []Seen!TypeOK
  OBVIOUS
<1>1. Seen!Init => ListOK /\ WatchOK /\ Ordered
  BY ListInit, WatchInit
<1>2. ListOK /\ WatchOK /\ Ordered /\ [Seen!Next]_Seen!vars => (ListOK /\ WatchOK /\ Ordered)'
  BY ListStep, WatchStep
<1>3. ListOK /\ WatchOK => Seen!TypeOK
  BY ListTypeParts
<1> QED
  BY <1>1, <1>2, <1>3, PTL DEF Seen!Spec

\* A step shows nothing, or a list that not every server had replaced at the last one.
LEMMA ListRefines ==
  ASSUME Seen!DiscoveryParameters, ListOK, Ordered, [Seen!Next]_Seen!vars
  PROVE  [List!Next]_List!vars
<1> USE ListParameters DEF ListOK, Ordered, Seen!Versions
<1>1. CASE Seen!Change
  BY <1>1 DEF Seen!Change, Seen!store, Seen!shown, List!Next, List!Change
<1>2. CASE Seen!Fetch
  <2>1. CASE pairs' \in Seen!Answers /\ Seen!Note /\ UNCHANGED Seen!remote
    BY <2>1, AnswerOrdered, NoteOrdered DEF Seen!remote, List!Next, List!Show
  <2>2. CASE Seen!Fails /\ UNCHANGED <<pairs, since>>
    BY <2>2 DEF Seen!Fails, List!vars
  <2> QED BY <1>2, <2>1, <2>2 DEF Seen!Fetch
<1>3. CASE Seen!Store \/ Seen!UpdateState
  <2>1. pairs' = got /\ since <= got /\ Seen!Note /\ UNCHANGED <<listed, replica>>
    BY <1>3 DEF Seen!Store, Seen!UpdateState, Seen!remote
  <2>2. pairs' \in since..listed
    BY <2>1
  <2> QED BY <2>1, <2>2, NoteOrdered DEF List!Next, List!Show
<1>4. ASSUME UNCHANGED <<listed, replica, pairs, since>>
      PROVE  [List!Next]_List!vars
  BY <1>4 DEF List!vars
<1>5. CASE Seen!Query \/ Seen!Subscribe \/ Seen!CallBack \/ Seen!Notify \/ Seen!Close \/ UNCHANGED Seen!vars
  BY <1>4, <1>5
     DEF Seen!Query, Seen!Subscribe, Seen!CallBack, Seen!Notify, Seen!Close, Seen!vars,
         Seen!remote, Seen!store, Seen!shown, Seen!Fails
<1>6. CASE Seen!Build \/ Seen!SubscribeOnce \/ Seen!Finish
  BY <1>4, <1>6 DEF Seen!Build, Seen!SubscribeOnce, Seen!Finish, Seen!remote, Seen!shown, Seen!Fails
<1>7. ASSUME NEW w \in Watchers, Seen!Watch(w) \/ Seen!Receive(w) \/ Seen!RemoveWatcher(w)
      PROVE  UNCHANGED <<listed, replica, pairs, since>>
  BY <1>7 DEF Seen!Watch, Seen!Receive, Seen!RemoveWatcher, Seen!remote, Seen!store, Seen!shown
<1>8. ASSUME NEW w \in Watchers, NEW i \in Senders, Seen!Sender(w, i)
      PROVE  UNCHANGED <<listed, replica, pairs, since>>
  BY <1>8 DEF Seen!Sender, Seen!ReadBody, Seen!ReadSize, Seen!Send, Seen!remote, Seen!store, Seen!shown
<1>9. ASSUME NEW s \in Servers, Seen!CatchUp(s)
      PROVE  List!Next
  BY <1>9 DEF Seen!CatchUp, Seen!store, Seen!shown, List!Next, List!CatchUp
<1> QED
  BY <1>1, <1>2, <1>3, <1>4, <1>5, <1>6, <1>7, <1>8, <1>9 DEF Seen!Next, Seen!Loop

\* The discovery implements ServiceList, whichever servers answer it: what GetServices
\* shows is a list of the registry's, and not one that every server had replaced when
\* the list before was stored, for each of the three discoveries.
THEOREM ListSpecHolds == Seen!DiscoveryParameters /\ Seen!Spec => Seen!ListSpec
<1> SUFFICES ASSUME Seen!DiscoveryParameters PROVE Seen!Spec => Seen!ListSpec
  OBVIOUS
<1>1. Seen!Init => List!Init
  BY DEF Seen!Init, List!Init
<1>2. Seen!Init => ListOK /\ Ordered
  BY ListInit
<1>3. ListOK /\ Ordered /\ [Seen!Next]_Seen!vars => (ListOK /\ Ordered)' /\ [List!Next]_List!vars
  BY ListStep, ListRefines
<1>4. Seen!Spec => List!Spec
  BY <1>1, <1>2, <1>3, PTL DEF Seen!Spec, List!Spec
<1> QED
  BY <1>4 DEF Seen!ListSpec, Seen!List!Spec, List!Spec, Seen!List!Init, Seen!List!Next, Seen!List!vars,
     List!Init, List!Next, List!vars, Seen!List!Change, Seen!List!Show, List!Change, List!Show,
     Seen!List!CatchUp, List!CatchUp
=============================================================================
