---------------------- MODULE ConfirmedPublishProofs ----------------------
(***************************************************************************)
(* Proofs about ConfirmedPublish, for any set of attempts: what a reported *)
(* success means, what ends the process, and that attempts implement       *)
(* PublishOutcome.                                                         *)
(***************************************************************************)
EXTENDS ConfirmedPublish, TLAPS

USE AttemptAssumption

\* The variables keep their types whatever the network and the broker do.
LEMMA TypeInductive == ASSUME TypeOK, [Next]_vars PROVE TypeOK'
<1> USE DEF TypeOK, Set, caller, channel, vars
<1>1. ASSUME NEW a \in Attempts, GetChannel(a) PROVE TypeOK'
  BY <1>1 DEF GetChannel, Return
<1>2. ASSUME NEW a \in Attempts, Confirm(a) PROVE TypeOK'
  BY <1>2 DEF Confirm, Return
<1>3. ASSUME NEW a \in Attempts, Publish(a) PROVE TypeOK'
  BY <1>3 DEF Publish, Return
<1>4. ASSUME NEW a \in Attempts, Listen(a) PROVE TypeOK'
  BY <1>4 DEF Listen
<1>5. ASSUME NEW a \in Attempts, Select(a) PROVE TypeOK'
  BY <1>5 DEF Select
<1>6. ASSUME NEW a \in Attempts, Tell(a) PROVE TypeOK'
  BY <1>6 DEF Tell
<1>7. ASSUME NEW a \in Attempts, HandOver(a) PROVE TypeOK'
  BY <1>7 DEF HandOver, Return
<1>8. ASSUME NEW a \in Attempts, Panic(a) PROVE TypeOK'
  BY <1>8 DEF Panic
<1>9. ASSUME NEW a \in Attempts, Broker(a) PROVE TypeOK'
  BY <1>9 DEF Broker, Answer
<1>10. ASSUME NEW a \in Attempts, Dispatch(a) PROVE TypeOK'
  BY <1>10 DEF Dispatch
<1>11. CASE Disconnect
  <2>1. PICK lost \in SUBSET Attempts :
          wire' = [a \in Attempts |-> IF a \in lost THEN "gone" ELSE wire[a]]
    BY <1>11 DEF Disconnect
  <2>2. wire' \in [Attempts -> {"none", "sent", "taken", "gone"}]
    BY <2>1
  <2>3. QED
    BY <1>11, <2>2 DEF Disconnect
<1>12. CASE Reconnect
  BY <1>12 DEF Reconnect
<1>13. CASE UNCHANGED vars
  BY <1>13 DEF vars
<1>14. QED
  BY <1>1, <1>2, <1>3, <1>4, <1>5, <1>6, <1>7, <1>8, <1>9, <1>10, <1>11, <1>12, <1>13 DEF Next, Call, ConfirmOne

\* Every reachable state of any number of attempts has the types of TypeOK.
THEOREM TypeCorrect == Spec => []TypeOK
<1>1. Init => TypeOK
  <2> SUFFICES ASSUME Init PROVE TypeOK
    OBVIOUS
  <2>1. up \in BOOLEAN /\ crashed \in BOOLEAN /\ returned \subseteq Attempts
    BY DEF Init
  <2>2. QED
    BY <2>1 DEF Init, TypeOK
<1>2. QED
  BY <1>1, TypeInductive, PTL DEF Spec

\* The invariant is inductive: an acknowledgement, wherever it is on its way to the
\* listener, is one of a message the broker took, or may have returned.
LEMMA PublishInvInductive ==
  ASSUME TypeOK, PublishInv, [Next]_vars
  PROVE  PublishInv'
<1> USE DEF PublishInv, ConfirmIsTrue, EarlyReturn, SuccessIsTrue, DeathExplained
<1> USE DEF TypeOK, Set, caller, channel
<1>1. ASSUME NEW a \in Attempts, GetChannel(a) PROVE PublishInv'
  BY <1>1 DEF GetChannel, Return
<1>2. ASSUME NEW a \in Attempts, Confirm(a) PROVE PublishInv'
  BY <1>2 DEF Confirm, Return
<1>3. ASSUME NEW a \in Attempts, Publish(a) PROVE PublishInv'
  BY <1>3 DEF Publish, Return
<1>4. ASSUME NEW a \in Attempts, Listen(a) PROVE PublishInv'
  BY <1>4 DEF Listen
<1>5. ASSUME NEW a \in Attempts, Select(a) PROVE PublishInv'
  BY <1>5 DEF Select
<1>6. ASSUME NEW a \in Attempts, Tell(a) PROVE PublishInv'
  BY <1>6 DEF Tell
<1>7. ASSUME NEW a \in Attempts, HandOver(a) PROVE PublishInv'
  BY <1>7 DEF HandOver, Return
<1>8. ASSUME NEW a \in Attempts, Panic(a) PROVE PublishInv'
  BY <1>8 DEF Panic
<1>9. ASSUME NEW a \in Attempts, Broker(a) PROVE PublishInv'
  BY <1>9 DEF Broker, Answer
<1>10. ASSUME NEW a \in Attempts, Dispatch(a) PROVE PublishInv'
  BY <1>10 DEF Dispatch
<1>11. CASE Disconnect
  BY <1>11 DEF Disconnect
<1>12. CASE Reconnect
  BY <1>12 DEF Reconnect
<1>13. CASE UNCHANGED vars
  BY <1>13 DEF vars
<1>14. QED
  BY <1>1, <1>2, <1>3, <1>4, <1>5, <1>6, <1>7, <1>8, <1>9, <1>10, <1>11, <1>12, <1>13 DEF Next, Call, ConfirmOne

\* Hence it holds throughout.
LEMMA PublishInvInvariant == Spec => []PublishInv
<1>1. Init => PublishInv
  BY DEF Init, PublishInv, ConfirmIsTrue, EarlyReturn, SuccessIsTrue, DeathExplained
<1>2. QED
  BY <1>1, PublishInvInductive, TypeCorrect, PTL DEF Spec

\* A success reported to a listener or returned by DoPublish is one of a message the
\* broker has in a queue, unless it may be unroutable, for any number of attempts.
THEOREM SuccessIsTrueHolds == Spec => []SuccessIsTrue
<1>1. PublishInv => SuccessIsTrue
  BY DEF PublishInv
<1>2. QED
  BY <1>1, PublishInvInvariant, PTL

\* The process ends only through a DoPublish whose message never left because its
\* channel was lost after confirmOne was started, for any number of attempts.
THEOREM DeathExplainedHolds == Spec => []DeathExplained
<1>1. PublishInv => DeathExplained
  BY DEF PublishInv
<1>2. QED
  BY <1>1, PublishInvInvariant, PTL

\* Attempts implement PublishOutcome: a message is taken at most once, a verdict is
\* heard at most once, and a "yes" only about a taken or unroutable message.
THEOREM ImplementsOutcome == Spec => OutcomeSpec
<1>1. Init => AbstractOutcome!Init
  BY DEF Init, AbstractOutcome!Init, Taken
<1>2. TypeOK /\ PublishInv /\ [Next]_vars => [AbstractOutcome!Next]_<<Taken, verdict>>
  <2> SUFFICES ASSUME TypeOK, PublishInv, [Next]_vars,
                      ~UNCHANGED <<Taken, verdict>>
               PROVE  AbstractOutcome!Next
    OBVIOUS
  <2> USE DEF TypeOK, Set, Taken
  <2>1. ASSUME NEW a \in Attempts, Broker(a) PROVE AbstractOutcome!Next
    <3>1. verdict' = verdict /\ wire[a] = "sent"
      BY <2>1 DEF Broker
    <3>2. wire'[a] = "taken" /\ Taken' = Taken \cup {a} /\ a \notin Taken
      BY <2>1, <3>1 DEF Broker
    <3>3. QED
      BY <3>1, <3>2 DEF AbstractOutcome!Next, AbstractOutcome!Take
  <2>2. ASSUME NEW a \in Attempts, Tell(a) \/ HandOver(a) PROVE AbstractOutcome!Next
    <3>1. verdict[a] = "none" /\ waiter[a] \in {"yes", "no"}
      BY <2>2 DEF Tell, HandOver, PublishInv
    <3>2. waiter[a] = "yes" => a \in Taken \cup MayReturn
      BY DEF PublishInv, ConfirmIsTrue
    <3>3. verdict' = [verdict EXCEPT ![a] = waiter[a]] /\ Taken' = Taken
      BY <2>2 DEF Tell, HandOver
    <3>4. QED
      BY <3>1, <3>2, <3>3 DEF AbstractOutcome!Next, AbstractOutcome!Hear
  <2>3. ASSUME NEW a \in Attempts, Publish(a) PROVE FALSE
    BY <2>3 DEF Publish, PublishInv
  <2>4. CASE Disconnect
    BY <2>4 DEF Disconnect
  <2>5. QED
    BY <2>1, <2>2, <2>3, <2>4 DEF Next, Call, ConfirmOne, GetChannel, Confirm, Listen,
       Select, Panic, Dispatch, Reconnect, vars, channel
<1>3. QED
  BY <1>1, <1>2, TypeCorrect, PublishInvInvariant, PTL
     DEF Spec, OutcomeSpec, AbstractOutcome!Spec
=============================================================================
