----------------------- MODULE RoundLineDeliveryProofs -----------------------
(***************************************************************************)
(* Theorems of RoundLineDelivery, for every set of presses and every       *)
(* assignment of request ids to them.                                      *)
(***************************************************************************)
EXTENDS RoundLineDelivery, TLAPS

(* A press that saw LINE's acceptance has its request among the accepted. *)
AnswersAreTrue == \A p \in Presses : answer[p] => requestOf[p] \in accepted

(* A send that is not overdue holds a fresh claim. *)
FreshSendOwnsClaim ==
  DistinctRequests =>
    \A p \in Presses : InFlight(p) /\ p \notin overdue => OwnsClaim(p) /\ ~delivery.stale

IInv == TypeOK /\ AnswersAreTrue /\ SentWasAccepted /\ FreshSendOwnsClaim

-----------------------------------------------------------------------------

LEMMA InitTypeOK == Init => TypeOK
BY RequestAssumption DEF Init, TypeOK, Links, Delivery, DeliveryStates, Steps

(* Every step keeps the types. *)
LEMMA StepTypeOK == TypeOK /\ [Next]_vars => TypeOK'
<1> SUFFICES ASSUME TypeOK, [Next]_vars PROVE TypeOK'
  OBVIOUS
<1> USE RequestAssumption DEF TypeOK, Goto
<1>1. CASE Environment
  BY <1>1 DEF Environment, AdminLock, CloseLink, AccountChanges, FiveMinutes, Links,
              Delivery
<1>2. ASSUME NEW p \in Presses, ReadLink(p) PROVE TypeOK'
  BY <1>2 DEF ReadLink, envVars, Steps
<1>3. ASSUME NEW p \in Presses, RecordNotReady(p) PROVE TypeOK'
  BY <1>3 DEF RecordNotReady, Unclaimed, envVars, Steps, Delivery, DeliveryStates
<1>4. ASSUME NEW p \in Presses, Claim(p) PROVE TypeOK'
  BY <1>4 DEF Claim, envVars, Steps, Delivery, DeliveryStates
<1>5. ASSUME NEW p \in Presses, ClaimNothing(p) PROVE TypeOK'
  BY <1>5 DEF ClaimNothing, envVars, Steps
<1>6. ASSUME NEW p \in Presses, ReadAgain(p) PROVE TypeOK'
  BY <1>6 DEF ReadAgain, envVars, Steps
<1>7. ASSUME NEW p \in Presses, Release(p) PROVE TypeOK'
  BY <1>7 DEF Release, Unclaimed, envVars, Steps, Delivery, DeliveryStates
<1>8. ASSUME NEW p \in Presses, Post(p) PROVE TypeOK'
  BY <1>8 DEF Post, envVars, Steps
<1>9. ASSUME NEW p \in Presses, Finish(p) PROVE TypeOK'
  BY <1>9 DEF Finish, envVars, Steps, Delivery, DeliveryStates
<1>10. ASSUME NEW p \in Presses, Crash(p) PROVE TypeOK'
  BY <1>10 DEF Crash, envVars, Steps
<1>11. CASE UNCHANGED vars
  BY <1>11 DEF vars
<1> QED
  BY <1>1, <1>2, <1>3, <1>4, <1>5, <1>6, <1>7, <1>8, <1>9, <1>10, <1>11 DEF Next, Proceed

(* A result is booked by the press whose request the claim names, on an      *)
(* answer that was true.                                                     *)
LEMMA StepAccepted ==
  TypeOK /\ AnswersAreTrue /\ SentWasAccepted /\ [Next]_vars
    => AnswersAreTrue' /\ SentWasAccepted'
<1> SUFFICES ASSUME TypeOK, AnswersAreTrue, SentWasAccepted, [Next]_vars
             PROVE  AnswersAreTrue' /\ SentWasAccepted'
  OBVIOUS
<1> USE DEF TypeOK, AnswersAreTrue, SentWasAccepted, Delivery
<1>1. CASE Environment
  BY <1>1 DEF Environment, AdminLock, CloseLink, AccountChanges, FiveMinutes
<1>2. ASSUME NEW p \in Presses, ReadLink(p) \/ ClaimNothing(p) \/ ReadAgain(p) \/ Crash(p)
      PROVE  AnswersAreTrue' /\ SentWasAccepted'
  BY <1>2 DEF ReadLink, ClaimNothing, ReadAgain, Crash
<1>3. ASSUME NEW p \in Presses, RecordNotReady(p) \/ Claim(p) \/ Release(p)
      PROVE  AnswersAreTrue' /\ SentWasAccepted'
  <2>1. AnswersAreTrue'
    BY <1>3 DEF RecordNotReady, Claim, Release
  <2>2. delivery' = delivery \/ delivery'.status # "SENT"
    <3>1. CASE Claim(p)
      BY <3>1 DEF Claim
    <3>2. CASE RecordNotReady(p) \/ Release(p)
      <4>1. Unclaimed(delivery).status = "NOT_READY"
        BY DEF Unclaimed
      <4> QED
        BY <3>2, <4>1 DEF RecordNotReady, Release
    <3> QED
      BY <1>3, <3>1, <3>2
  <2>3. accepted' = accepted
    BY <1>3 DEF RecordNotReady, Claim, Release
  <2> QED
    BY <2>1, <2>2, <2>3
<1>4. ASSUME NEW p \in Presses, Post(p) PROVE AnswersAreTrue' /\ SentWasAccepted'
  BY <1>4 DEF Post
<1>5. ASSUME NEW p \in Presses, Finish(p) PROVE AnswersAreTrue' /\ SentWasAccepted'
  <2>1. AnswersAreTrue'
    BY <1>5 DEF Finish
  <2>2. SentWasAccepted'
    BY <1>5 DEF Finish, OwnResult, OwnsClaim
  <2> QED
    BY <2>1, <2>2
<1>6. CASE UNCHANGED vars
  BY <1>6 DEF vars
<1> QED
  BY <1>1, <1>2, <1>3, <1>4, <1>5, <1>6 DEF Next, Proceed

(* Nobody takes a fresh claim away from the press that made it. *)
LEMMA StepFreshSend ==
  TypeOK /\ FreshSendOwnsClaim /\ [Next]_vars => FreshSendOwnsClaim'
<1> SUFFICES ASSUME TypeOK, FreshSendOwnsClaim, [Next]_vars, DistinctRequests,
                    NEW q \in Presses, InFlight(q)', q \notin overdue'
             PROVE  OwnsClaim(q)' /\ ~delivery'.stale
  BY DEF FreshSendOwnsClaim, DistinctRequests
<1> DEFINE Fresh == OwnsClaim(q) /\ ~delivery.stale
<1>a. InFlight(q) /\ q \notin overdue => Fresh
  BY DEF FreshSendOwnsClaim
<1> USE DEF TypeOK, InFlight, OwnsClaim, Goto, Delivery
<1>1. CASE AdminLock \/ CloseLink \/ AccountChanges
  BY <1>1, <1>a DEF AdminLock, CloseLink, AccountChanges
<1>2. CASE FiveMinutes
  BY <1>2 DEF FiveMinutes
<1>3. ASSUME NEW p \in Presses, ReadLink(p) \/ ClaimNothing(p) \/ ReadAgain(p) \/ Post(p) \/ Crash(p)
      PROVE  OwnsClaim(q)' /\ ~delivery'.stale
  BY <1>3, <1>a DEF ReadLink, ClaimNothing, ReadAgain, Post, Crash
<1>4. ASSUME NEW p \in Presses, RecordNotReady(p)
      PROVE  OwnsClaim(q)' /\ ~delivery'.stale
  BY <1>4, <1>a DEF RecordNotReady, MayRecordNotReady
<1>5. ASSUME NEW p \in Presses, Claim(p)
      PROVE  OwnsClaim(q)' /\ ~delivery'.stale
  <2>1. CASE p = q
    BY <1>5, <2>1, RequestAssumption DEF Claim
  <2>2. CASE p # q
    <3>1. InFlight(q) /\ q \notin overdue
      BY <1>5, <2>2 DEF Claim
    <3> QED
      BY <3>1, <1>a, <1>5 DEF Claim, MayClaim
  <2> QED
    BY <2>1, <2>2
<1>6. ASSUME NEW p \in Presses, Release(p) \/ Finish(p)
      PROVE  OwnsClaim(q)' /\ ~delivery'.stale
  <2>1. p # q
    BY <1>6 DEF Release, Finish
  <2>2. InFlight(q) /\ q \notin overdue
    BY <1>6, <2>1 DEF Release, Finish
  <2>3. delivery.request # requestOf[p]
    BY <2>1, <2>2, <1>a DEF DistinctRequests
  <2> QED
    BY <1>6, <2>2, <2>3, <1>a DEF Release, Finish, OwnResult
<1>7. CASE UNCHANGED vars
  BY <1>7, <1>a DEF vars
<1> QED
  BY <1>1, <1>2, <1>3, <1>4, <1>5, <1>6, <1>7 DEF Next, Proceed, Environment

LEMMA InitIInv == Init => IInv
<1> SUFFICES ASSUME Init PROVE IInv
  OBVIOUS
<1>1. TypeOK
  BY InitTypeOK
<1>2. AnswersAreTrue /\ SentWasAccepted /\ FreshSendOwnsClaim
  BY DEF Init, AnswersAreTrue, SentWasAccepted, FreshSendOwnsClaim, InFlight
<1> QED
  BY <1>1, <1>2 DEF IInv

LEMMA StepIInv == IInv /\ [Next]_vars => IInv'
BY StepTypeOK, StepAccepted, StepFreshSend DEF IInv

(* The conjunction above holds in every reachable state. *)
THEOREM Inductive == Spec => []IInv
BY InitIInv, StepIInv, PTL DEF Spec

-----------------------------------------------------------------------------

(* Every variable keeps its type. *)
THEOREM DeliveryTypes == Spec => []TypeOK
<1>1. IInv => TypeOK
  BY DEF IInv
<1> QED
  BY <1>1, Inductive, PTL

(* A link that reads SENT was accepted by LINE under the request it names,   *)
(* also when requests are repeated and old answers arrive late.              *)
THEOREM SentIsTrue == Spec => []SentWasAccepted
<1>1. IInv => SentWasAccepted
  BY DEF IInv
<1> QED
  BY <1>1, Inductive, PTL

(* Two fresh sends would both own the one claim, so their requests would be  *)
(* the same.                                                                 *)
THEOREM SendsAreExclusive == Spec => []OneSendInFlight
<1>1. IInv => OneSendInFlight
  BY DEF IInv, OneSendInFlight, FreshSendOwnsClaim, OwnsClaim, DistinctRequests
<1> QED
  BY <1>1, Inductive, PTL

=============================================================================
