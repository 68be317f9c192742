---------------------------- MODULE Registration ----------------------------
(***************************************************************************)
(* Registering a service process and keeping it registered: RegisterService*)
(* of src/reg/consul/register.go ("service"), the rpcx plugin of           *)
(* src/reg/consul/plugin.go ("plugin") and the registration of the xxl-job *)
(* executor in src/xxl/executor.go ("executor").                           *)
(*                                                                         *)
(* A registry, the Consul agent or the scheduling centre, lists a node as  *)
(* long as it hears of it often enough.  A goroutine of the node sends a   *)
(* heartbeat at every tick of its timer, and when the process is asked to  *)
(* stop another one takes the node off the list, while the first goes on   *)
(* until the process has exited.                                           *)
(*                                                                         *)
(* A tick is a second; a call to the registry takes less than one.         *)
(***************************************************************************)
EXTENDS Naturals

CONSTANTS
  Nodes,          \* service processes
  Kind,           \* how each of them registers
  Life,           \* the TTL of each node: how long its entry lives without a heartbeat
  Period,         \* how often an executor sends a heartbeat (20 seconds)
  Pause,          \* how long RegisterService waits between two attempts (3 seconds)
  MaxOutages,     \* a bound on outages of the registry
  MaxForgets      \* a bound on how often it forgets its entries

\* Variant for the properties: the whole TTL.
EveryWhole(n) == IF Kind[n] = "executor" THEN Period ELSE Life[n]

\* The timer of the heartbeat: the TTL less a second, and a second at least.
Every(n) ==
  IF Kind[n] = "executor" THEN Period
  ELSE IF Life[n] > 1 THEN Life[n] - 1 ELSE 1

ASSUME RegistrationAssumption ==
  /\ Kind \in [Nodes -> {"service", "plugin", "executor"}]
  /\ Life \in [Nodes -> Nat \ {0}]
  /\ Period \in Nat \ {0} /\ Pause \in Nat \ {0}
  /\ MaxOutages \in Nat /\ MaxForgets \in Nat

VARIABLES
  up,             \* the registry can be reached
  entry,          \* each node's entry: "none", "passing" (listed) or "critical"
  life,           \* seconds until the entry is no longer passing
  pc,             \* where each process is
  beat,           \* what its heartbeat goroutine does
  left,           \* seconds to the next tick of its timer
  due,            \* the timer has ticked and the goroutine has not taken the tick
  pause,          \* seconds left to wait before the next attempt to register again
  sound,          \* the nodes the registry has heard of since its last trouble
  outages, forgets

vars == <<up, entry, life, pc, beat, left, due, pause, sound, outages, forgets>>
registry == <<entry, life, sound>>
timers == <<beat, left, due, pause>>
faults == <<up, outages, forgets>>

Init ==
  /\ up = TRUE
  /\ entry = [n \in Nodes |-> "none"]
  /\ life = [n \in Nodes |-> 0]
  /\ pc = [n \in Nodes |-> "off"]
  /\ beat = [n \in Nodes |-> "none"]
  /\ left = [n \in Nodes |-> 0]
  /\ due = {}
  /\ pause = [n \in Nodes |-> 0]
  /\ sound = {}
  /\ outages = 0 /\ forgets = 0

Goto(n, p) == pc' = [pc EXCEPT ![n] = p]

\* The registry writes an entry of the node, or its time, anew.
Renew(n) ==
  /\ entry' = [entry EXCEPT ![n] = "passing"]
  /\ life' = [life EXCEPT ![n] = Life[n]]
  /\ sound' = sound \cup {n}

-----------------------------------------------------------------------------
\* Starting.

\* The heartbeat goroutine is started; the first beat of an executor is due at once.
StartBeat(n) ==
  /\ beat' = [beat EXCEPT ![n] = "wait"]
  /\ left' = [left EXCEPT ![n] = Every(n)]
  /\ due' = IF Kind[n] = "executor" THEN due \cup {n} ELSE due \ {n}
  /\ pause' = pause

Start(n) ==
  /\ pc[n] = "off"
  /\ IF Kind[n] = "executor"
       THEN Goto(n, "running") /\ StartBeat(n)
       ELSE Goto(n, "register") /\ UNCHANGED timers
  /\ UNCHANGED <<registry, faults>>

\* ServiceRegister; when it fails the error is dropped by the caller, and the process
\* goes on without a heartbeat and without a listener for its shutdown.
Register(n) ==
  /\ pc[n] = "register"
  /\ IF up THEN Renew(n) /\ Goto(n, "check")
           ELSE Goto(n, "silent") /\ UNCHANGED registry
  /\ UNCHANGED <<timers, faults>>

\* CheckRegister, which needs the entry.
Check(n) ==
  /\ pc[n] = "check"
  /\ IF up /\ entry[n] # "none"
       THEN Renew(n) /\ Goto(n, "running") /\ StartBeat(n)
       ELSE Goto(n, "silent") /\ UNCHANGED <<registry, timers>>
  /\ UNCHANGED faults

-----------------------------------------------------------------------------
\* The heartbeat goroutine.

\* Variant for the properties: an error is logged, and nothing else.
BeatLogs(n) ==
  /\ beat[n] = "wait" /\ n \in due
  /\ due' = due \ {n}
  /\ IF up /\ (Kind[n] = "executor" \/ entry[n] # "none") THEN Renew(n) ELSE UNCHANGED registry
  /\ UNCHANGED <<pc, beat, left, pause, faults>>

\* UpdateTTL, which needs the entry, or the executor's post to /api/registry, which
\* does not.  Only RegisterService does something about an error.
Beat(n) ==
  /\ beat[n] = "wait" /\ n \in due
  /\ due' = due \ {n}
  /\ IF up /\ (Kind[n] = "executor" \/ entry[n] # "none")
       THEN Renew(n) /\ beat' = beat
       ELSE /\ beat' = [beat EXCEPT ![n] = IF Kind[n] = "service" THEN "again" ELSE "wait"]
            /\ UNCHANGED registry
  /\ UNCHANGED <<pc, left, pause, faults>>

\* It registers again until that succeeds, with a pause after each failure.
Again(n) ==
  /\ beat[n] = "again"
  /\ IF up THEN Renew(n) /\ beat' = [beat EXCEPT ![n] = "wait"] /\ pause' = pause
           ELSE /\ beat' = [beat EXCEPT ![n] = "pause"]
                /\ pause' = [pause EXCEPT ![n] = Pause]
                /\ UNCHANGED registry
  /\ UNCHANGED <<pc, left, due, faults>>

-----------------------------------------------------------------------------
\* Stopping.

\* A signal: the shutdown listener runs, or executor.run calls registryRemove.
Stop(n) ==
  /\ pc[n] \in {"running", "silent"}
  /\ Goto(n, IF pc[n] = "running" THEN "stopping" ELSE "exiting")
  /\ UNCHANGED <<registry, timers, faults>>

\* ServiceDeregister or /api/registryRemove; an error is only logged.
Deregister(n) ==
  /\ pc[n] = "stopping"
  /\ Goto(n, "exiting")
  /\ IF up THEN /\ entry' = [entry EXCEPT ![n] = "none"]
                /\ life' = [life EXCEPT ![n] = 0]
                /\ sound' = sound \ {n}
           ELSE UNCHANGED registry
  /\ UNCHANGED <<timers, faults>>

\* The process ends, after its shutdown or at any time; it is not started again within
\* the same second.
Gone(n) == pc[n] \in {"off", "dead"}
Exit(n) ==
  /\ ~Gone(n)
  /\ Goto(n, "dead")
  /\ beat' = [beat EXCEPT ![n] = "none"]
  /\ left' = [left EXCEPT ![n] = 0]
  /\ due' = due \ {n}
  /\ pause' = [pause EXCEPT ![n] = 0]
  /\ sound' = sound \ {n}
  /\ UNCHANGED <<entry, life, faults>>

-----------------------------------------------------------------------------
\* The registry and time.

\* An entry that was not renewed is no longer listed; Consul keeps it as critical and
\* removes it some time later, the scheduling centre forgets it.
Lapsed(n) == IF Kind[n] = "executor" THEN "none" ELSE "critical"
Reap(n) ==
  /\ entry[n] = "critical"
  /\ entry' = [entry EXCEPT ![n] = "none"]
  /\ UNCHANGED <<life, sound, pc, timers, faults>>

Busy(n) ==
  \/ pc[n] \in {"register", "check", "stopping"}
  \/ beat[n] = "wait" /\ n \in due
  \/ beat[n] = "again"

Down(t) == IF t = 0 THEN 0 ELSE t - 1

\* Variant for the properties: nodes are registered without a TTL.
TickWithoutTTL ==
  /\ \A n \in Nodes : ~Busy(n)
  /\ left' = [n \in Nodes |-> IF left[n] = 1 THEN Every(n) ELSE Down(left[n])]
  /\ due' = due \cup {n \in Nodes : left[n] = 1}
  /\ pause' = [n \in Nodes |-> Down(pause[n])]
  /\ beat' = [n \in Nodes |-> IF pause[n] = 1 THEN "again" ELSE beat[n]]
  /\ pc' = [n \in Nodes |-> IF pc[n] = "dead" THEN "off" ELSE pc[n]]
  /\ UNCHANGED <<registry, faults>>

Tick ==
  /\ \A n \in Nodes : ~Busy(n)
  /\ life' = [n \in Nodes |-> Down(life[n])]
  /\ entry' = [n \in Nodes |-> IF life[n] = 1 THEN Lapsed(n) ELSE entry[n]]
  /\ left' = [n \in Nodes |-> IF left[n] = 1 THEN Every(n) ELSE Down(left[n])]
  /\ due' = due \cup {n \in Nodes : left[n] = 1}
  /\ pause' = [n \in Nodes |-> Down(pause[n])]
  /\ beat' = [n \in Nodes |-> IF pause[n] = 1 THEN "again" ELSE beat[n]]
  /\ pc' = [n \in Nodes |-> IF pc[n] = "dead" THEN "off" ELSE pc[n]]
  /\ UNCHANGED <<sound, faults>>

Outage ==
  /\ up /\ outages < MaxOutages
  /\ up' = FALSE /\ outages' = outages + 1
  /\ sound' = {}
  /\ UNCHANGED <<entry, life, pc, timers, forgets>>

Recover ==
  /\ ~up
  /\ up' = TRUE
  /\ UNCHANGED <<registry, pc, timers, outages, forgets>>

\* The agent is replaced or restarted without its state.
Forget ==
  /\ forgets < MaxForgets
  /\ forgets' = forgets + 1
  /\ entry' = [n \in Nodes |-> "none"]
  /\ life' = [n \in Nodes |-> 0]
  /\ sound' = {}
  /\ UNCHANGED <<up, outages, pc, timers>>

-----------------------------------------------------------------------------

Process(n) == Register(n) \/ Check(n) \/ Beat(n) \/ Again(n) \/ Deregister(n)

Next ==
  \/ \E n \in Nodes : Start(n) \/ Process(n) \/ Stop(n) \/ Exit(n) \/ Reap(n)
  \/ Tick \/ Outage \/ Recover \/ Forget

Spec == Init /\ [][Next]_vars

\* Calls are made and answered, time passes, and outages end.
Fairness ==
  /\ \A n \in Nodes : WF_vars(Process(n))
  /\ WF_vars(Tick) /\ WF_vars(Recover)

FairSpec == Spec /\ Fairness

-----------------------------------------------------------------------------
\* Properties.

\* Every variable has its type; there is time left exactly for what is listed.
TypeOK ==
  /\ up \in BOOLEAN
  /\ entry \in [Nodes -> {"none", "passing", "critical"}]
  /\ life \in [Nodes -> Nat]
  /\ pc \in [Nodes -> {"off", "register", "check", "silent", "running", "stopping", "exiting",
                  "dead"}]
  /\ beat \in [Nodes -> {"none", "wait", "again", "pause"}]
  /\ left \in [Nodes -> Nat]
  /\ due \subseteq Nodes
  /\ pause \in [Nodes -> 0..Pause]
  /\ sound \subseteq Nodes
  /\ outages \in 0..MaxOutages /\ forgets \in 0..MaxForgets
  /\ \A n \in Nodes :
       /\ life[n] \in 0..Life[n] /\ left[n] \in 0..Every(n)
       /\ entry[n] = "passing" <=> life[n] > 0
       /\ pause[n] > 0 <=> beat[n] = "pause"
       /\ left[n] > 0 <=> beat[n] # "none"

Listed(n) == entry[n] = "passing"

\* The TTL leaves room for a heartbeat.
Roomy(n) == IF Kind[n] = "executor" THEN Period < Life[n] ELSE Life[n] > 1

\* A running node stays listed while the registry can be reached and keeps what it was
\* told: its heartbeats come before its time is up, with a TTL of two seconds or more.
HealthyListed == \A n \in sound : pc[n] = "running" /\ Roomy(n) => Listed(n)

\* The same of a TTL of one second, which RegisterService allows for.
ShortListed == \A n \in sound : pc[n] = "running" => Listed(n)

\* A running node that was dropped, in an outage or by a registry that lost its
\* entries, is listed again.  A plugin never is, and is left out.
Relisted ==
  \A n \in Nodes : Kind[n] # "plugin" => (pc[n] = "running" ~> Listed(n) \/ pc[n] # "running")

\* The same of every node, and of those whose registration failed.
AllRelisted == \A n \in Nodes : pc[n] = "running" ~> Listed(n) \/ pc[n] # "running"
StartedListed == \A n \in Nodes : pc[n] = "silent" ~> pc[n] # "silent"

\* A process that is gone is no longer listed in the end, also when its deregistration
\* failed, or its heartbeat goroutine, which nobody stops, listed it again after it.
GoneUnlisted == \A n \in Nodes : Gone(n) ~> ~Listed(n) \/ ~Gone(n)

\* A node that took itself off the list while it stops does not come back.
RemovedStays == [][\A n \in Nodes : pc[n] = "exiting" /\ ~Listed(n) => ~Listed(n)']_vars

-----------------------------------------------------------------------------
\* The next heartbeat of a sound node comes before its time is up: the inductive
\* invariant behind HealthyListed.
BeatsInTime(n) ==
  /\ ~Gone(n) /\ up
  /\ pc[n] \in {"check", "running"} => Listed(n)
  /\ pc[n] = "running" => beat[n] = "wait" /\ (n \in due \/ left[n] < life[n])

RegistrationInv == \A n \in sound : Roomy(n) => BeatsInTime(n)
=============================================================================
