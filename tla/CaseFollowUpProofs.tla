------------------------- MODULE CaseFollowUpProofs -------------------------
(* Proofs about CaseFollowUp, for every number of rounds and every set of   *)
(* submissions in flight: its invariants, then what RoundLineDelivery and   *)
(* CaseOpening take for granted of it, then that it implements              *)
(* CaseLifecycle.                                                           *)
EXTENDS CaseFollowUp, TLAPS

LEMMA NewRoundType ==
  ASSUME NEW kind \in TaskKinds \cup {"NONE", "REFERRAL"}, NEW row \in RowStates,
         NEW link \in LinkStates, NEW window \in Windows
  PROVE  NewRound(kind, row, link, window) \in Round
BY DEF NewRound, Round, Outcomes

LEMMA ReportedType ==
  ASSUME NEW rec \in Round, NEW row \in RowStates, NEW link \in LinkStates,
         NEW outcome \in Outcomes
  PROVE  Reported(rec, row, link, outcome) \in Round
<1>1. rec.reports + 1 \in Nat
  BY DEF Round
<1>2. [rec EXCEPT !.row = row] \in Round
  BY DEF Round
<1>3. [rec EXCEPT !.row = row, !.link = link] \in Round
  BY <1>2 DEF Round
<1> QED
  BY <1>1, <1>3 DEF Reported, Round

LEMMA TypeInit == Init => TypeOK
<1>1. NoRound \in Round
  BY NewRoundType DEF NoRound, RowStates, LinkStates, Windows
<1> SUFFICES ASSUME Init PROVE TypeOK
  OBVIOUS
<1>2. status \in Statuses /\ phase \in Phases
  BY DEF Init, Statuses, Phases
<1>3. created \in 0 .. MaxRounds /\ request \in [Requests -> 0 .. MaxRounds]
  BY BoundAssumption DEF Init
<1>4. round \in [Rounds -> Round]
  BY <1>1 DEF Init
<1> QED
  BY <1>2, <1>3, <1>4 DEF Init, TypeOK

LEMMA TypeStep == TypeOK /\ [Next]_vars => TypeOK'
<1> SUFFICES ASSUME TypeOK, [Next]_vars PROVE TypeOK'
  OBVIOUS
<1> USE BoundAssumption DEF TypeOK
<1>1. ASSUME NEW auto \in BOOLEAN, OpenAs(auto) PROVE TypeOK'
  BY <1>1 DEF OpenAs, Statuses
<1>2. CASE AutoCancel
  BY <1>2 DEF AutoCancel, Statuses
<1>3. ASSUME NEW kind \in TaskKinds, NEW window \in {"SCHEDULED", "OPEN"}
      PROVE  TaskRound(kind, window) \in Round /\ ReferralRound(window) \in Round
  BY NewRoundType DEF TaskRound, ReferralRound, RowStates, LinkStates, Windows
<1>4. ASSUME NEW rec \in Round, Append(rec)
      PROVE  created' \in 0 .. MaxRounds /\ round' \in [Rounds -> Round]
  BY <1>4 DEF Append, Rounds
<1>5. ASSUME NEW kind \in TaskKinds, NEW window \in {"SCHEDULED", "OPEN"},
             AssignNew(kind, window) \/ AssignRound(kind, window)
      PROVE  TypeOK'
  BY <1>3, <1>4, <1>5 DEF AssignNew, AssignRound, Statuses, Phases
<1>6. ASSUME NEW r \in Rounds, NEW lock \in BOOLEAN, AdminLock(r, lock) PROVE TypeOK'
  BY <1>6 DEF AdminLock, caseVars, Round
<1>7. ASSUME NEW r \in Rounds, NEW from \in Windows, NEW to \in Windows, PassTime(r, from, to)
      PROVE  TypeOK'
  BY <1>7 DEF PassTime, caseVars, Round
<1>8. ASSUME NEW r \in Rounds, CancelSelect(r) \/ CancelRollback(r) PROVE TypeOK'
  BY <1>8 DEF CancelSelect, CancelRollback, caseVars
<1>9. ASSUME NEW r \in Rounds, CancelCommit(r) PROVE TypeOK'
  <2>1. ASSUME NEW rec \in Round PROVE Withdrawn(rec) \in Round
    BY DEF Withdrawn, Round, RowStates, LinkStates
  <2>2. round' \in [Rounds -> Round]
    BY <1>9, <2>1 DEF CancelCommit
  <2>3. status' \in Statuses
    BY <1>9 DEF CancelCommit, Statuses
  <2> QED
    BY <1>9, <2>2, <2>3 DEF CancelCommit
<1>10. CASE Sweep
  <2>1. ASSUME NEW rec \in Round PROVE Expired(rec) \in Round
    BY DEF Expired, Round, RowStates, LinkStates
  <2>2. round' \in [Rounds -> Round]
    BY <1>10, <2>1 DEF Sweep
  <2>3. status' \in Statuses
    BY <1>10 DEF Sweep, Statuses
  <2> QED
    BY <1>10, <2>2, <2>3 DEF Sweep
<1>11. ASSUME NEW q \in Requests, NEW r \in Rounds, SubmitGate(q, r) PROVE TypeOK'
  BY <1>11 DEF SubmitGate, caseVars, Rounds
<1>12. ASSUME NEW q \in Requests, NEW found \in BOOLEAN,
              NEW chosen \in {"SUCCEEDED", "NOT_SUCCEEDED"}, SubmitCommit(q, found, chosen)
       PROVE  TypeOK'
  <2> DEFINE outcome == ReportOutcome(round[request[q]].kind, found, chosen)
  <2>1. outcome \in Outcomes /\ {"COMPLETED"} \subseteq RowStates \cap LinkStates
    BY DEF ReportOutcome, Outcomes, RowStates, LinkStates
  <2>2. request[q] \in Rounds
    BY <1>12 DEF SubmitCommit, Rounds
  <2>3. round' = [round EXCEPT ![request[q]] =
                    Reported(round[request[q]], "COMPLETED", "COMPLETED", outcome)]
    BY <1>12 DEF SubmitCommit
  <2>4. round' \in [Rounds -> Round]
    BY <2>1, <2>2, <2>3, ReportedType
  <2>5. status' \in Statuses
    BY <1>12 DEF SubmitCommit, Statuses
  <2> QED
    BY <1>12, <2>4, <2>5 DEF SubmitCommit
<1>13. ASSUME NEW q \in Requests, SubmitConflict(q) PROVE TypeOK'
  BY <1>13 DEF SubmitConflict, caseVars
<1>14. CASE Review
  <2>1. CASE ReviewClose
    BY <2>1 DEF ReviewClose, Statuses
  <2>2. CASE ReviewAssist
    BY <2>2 DEF ReviewAssist, Statuses, Phases
  <2>3. CASE ReviewRefer
    BY <2>3 DEF ReviewRefer, Statuses
  <2> QED
    BY <1>14, <2>1, <2>2, <2>3 DEF Review
<1>15. ASSUME NEW window \in {"SCHEDULED", "OPEN"}, SendReferral(window) PROVE TypeOK'
  BY <1>3, <1>4, <1>15 DEF SendReferral, Statuses, TaskKinds
<1>16. ASSUME NEW rec \in Round PROVE ClosedReferral(rec) \in Round
  BY DEF ClosedReferral, Round, RowStates, LinkStates
<1>17. ASSUME NEW r \in Rounds, NEW window \in {"SCHEDULED", "OPEN"}, ReplaceReferral(r, window)
       PROVE  TypeOK'
  BY <1>3, <1>16, <1>17 DEF ReplaceReferral, caseVars, Rounds, TaskKinds
<1>18. ASSUME NEW r \in Rounds, CancelReferral(r) PROVE TypeOK'
  BY <1>16, <1>18 DEF CancelReferral, Statuses
<1>19. ASSUME NEW r \in Rounds, LockReferralLink(r) PROVE TypeOK'
  BY <1>19 DEF LockReferralLink, caseVars, Round, LinkStates
<1>20. ASSUME NEW r \in Rounds, NEW succeeded \in BOOLEAN, AgencyReport(r, succeeded)
       PROVE  TypeOK'
  <2>1. {"COMPLETED", "NOT_SUCCEEDED"} \subseteq RowStates /\ "USED" \in LinkStates
    BY DEF RowStates, LinkStates
  <2>2. {"SUCCEEDED", "NOT_SUCCEEDED"} \subseteq Outcomes
    BY DEF Outcomes
  <2>3. round' \in [Rounds -> Round]
    BY <1>20, <2>1, <2>2, ReportedType DEF AgencyReport
  <2>4. status' \in Statuses
    BY <1>20 DEF AgencyReport, Statuses
  <2> QED
    BY <1>20, <2>3, <2>4 DEF AgencyReport
<1>21. CASE UNCHANGED vars
  BY <1>21 DEF vars
<1> QED
  BY <1>1, <1>2, <1>5, <1>6, <1>7, <1>8, <1>9, <1>10, <1>11, <1>12, <1>13, <1>14, <1>15,
     <1>17, <1>18, <1>19, <1>20, <1>21
  DEF Next, Opening, OpenCase, AutoOpen, Assignment, Clock, Opens, Lapses, Windows,
      Withdrawal, Reporting, Referral

-----------------------------------------------------------------------------
(* The inductive invariant: what the properties need besides themselves.    *)

(* Rounds are created in order, and none before the case. *)
RoundsInOrder ==
  /\ \A r \in Rounds : created < r => round[r].kind = "NONE"
  /\ status = "NONE" => created = 0

(* What is in flight concerns a task link; a link locked by a withdrawal is *)
(* still open and unreported.                                               *)
InFlightOnTasks ==
  /\ \A q \in Requests : request[q] # 0 => IsTask(request[q])
  /\ \A r \in withdrawing : Unanswered(r)

(* A referral is only sent after a review. *)
ReferralFollowsReview == status = "AWAITING_REFERRAL_OUTCOME" => reviews > 0

IInv ==
  /\ TypeOK
  /\ RoundsInOrder
  /\ InFlightOnTasks
  /\ ReferralFollowsReview
  /\ AtMostOneLiveAssignment
  /\ ResolvedOnSuccess
  /\ ReviewHasReport
  /\ InProgressHasOpenLink
  /\ AwaitsNewestReferral
  /\ ReportedRoundStaysReported

(* A step that leaves the case, its rounds and the two counters alone.      *)
Quiet == UNCHANGED <<status, phase, created, round, reports, reviews>>

LEMMA StepCases ==
  ASSUME [Next]_vars
  PROVE  \/ Quiet
         \/ \E auto \in BOOLEAN : OpenAs(auto)
         \/ AutoCancel
         \/ \E kind \in TaskKinds, window \in {"SCHEDULED", "OPEN"} : AssignNew(kind, window)
         \/ \E kind \in TaskKinds, window \in {"SCHEDULED", "OPEN"} : AssignRound(kind, window)
         \/ \E r \in Rounds, lock \in BOOLEAN : AdminLock(r, lock)
         \/ \E r \in Rounds : PassTime(r, "SCHEDULED", "OPEN") \/ PassTime(r, "OPEN", "LAPSED")
         \/ \E r \in Rounds : CancelCommit(r)
         \/ Sweep
         \/ \E q \in Requests, found \in BOOLEAN, chosen \in {"SUCCEEDED", "NOT_SUCCEEDED"} :
              SubmitCommit(q, found, chosen)
         \/ Review
         \/ \E window \in {"SCHEDULED", "OPEN"} : SendReferral(window)
         \/ \E r \in Rounds, window \in {"SCHEDULED", "OPEN"} : ReplaceReferral(r, window)
         \/ \E r \in Rounds : CancelReferral(r)
         \/ \E r \in Rounds : LockReferralLink(r)
         \/ \E r \in Rounds, succeeded \in BOOLEAN : AgencyReport(r, succeeded)
<1>1. CASE UNCHANGED vars
  BY <1>1 DEF vars, Quiet
<1>2. ASSUME NEW r \in Rounds, CancelSelect(r) \/ CancelRollback(r) PROVE Quiet
  BY <1>2 DEF CancelSelect, CancelRollback, caseVars, Quiet
<1>3. ASSUME NEW q \in Requests, NEW r \in Rounds, SubmitGate(q, r) PROVE Quiet
  BY <1>3 DEF SubmitGate, caseVars, Quiet
<1>4. ASSUME NEW q \in Requests, SubmitConflict(q) PROVE Quiet
  BY <1>4 DEF SubmitConflict, caseVars, Quiet
<1> QED
  BY <1>1, <1>2, <1>3, <1>4
  DEF Next, Opening, OpenCase, AutoOpen, Assignment, Clock, Opens, Lapses, Withdrawal,
      Reporting, Referral

(* What the steps that touch no report leave of every round.               *)

LEMMA PassTimeEffect ==
  ASSUME TypeOK, NEW r \in Rounds,
         PassTime(r, "SCHEDULED", "OPEN") \/ PassTime(r, "OPEN", "LAPSED")
  PROVE  /\ UNCHANGED <<status, phase, created, reports, reviews>>
         /\ \A s \in Rounds : /\ round'[s].kind = round[s].kind
                              /\ round'[s].row = round[s].row
                              /\ round'[s].link = round[s].link
                              /\ round'[s].reports = round[s].reports
                              /\ round'[s].outcome = round[s].outcome
                              /\ round'[s].window # "LAPSED" => round[s].window # "LAPSED"
<1>1. PICK from \in {"SCHEDULED", "OPEN"}, to \in Windows : PassTime(r, from, to)
  BY DEF Windows
<1>2. round' = [round EXCEPT ![r].window = to] /\ round[r].window # "LAPSED"
  BY <1>1 DEF PassTime
<1>3. round \in [Rounds -> Round]
  BY DEF TypeOK
<1>4. UNCHANGED <<status, phase, created, reports, reviews>>
  BY <1>1 DEF PassTime, caseVars
<1> QED
  BY <1>2, <1>3, <1>4 DEF Round

LEMMA SweepEffect ==
  ASSUME TypeOK, Sweep
  PROVE  /\ UNCHANGED <<phase, created, reports, reviews, withdrawing, request>>
         /\ status' = IF status = "IN_PROGRESS" THEN "OPEN" ELSE status
         /\ \A s \in Rounds : /\ round'[s].kind = round[s].kind
                              /\ round'[s].reports = round[s].reports
                              /\ round'[s].outcome = round[s].outcome
                              /\ \/ round'[s] = round[s]
                                 \/ /\ Unanswered(s) /\ s \notin withdrawing
                                    /\ round'[s].link = "EXPIRED"
<1>1. \A s \in Rounds : round'[s] = IF s \in Lapsed THEN Expired(round[s]) ELSE round[s]
  BY DEF Sweep
<1>2. ASSUME NEW s \in Lapsed
      PROVE  /\ s \in Rounds /\ s \notin withdrawing /\ Unanswered(s)
             /\ round'[s] = Expired(round[s])
  BY <1>1, <1>2 DEF Sweep, Lapsed
<1>3. ASSUME NEW rec \in Round
      PROVE  /\ Expired(rec).kind = rec.kind
             /\ Expired(rec).reports = rec.reports
             /\ Expired(rec).outcome = rec.outcome
             /\ Expired(rec).link = "EXPIRED"
  BY DEF Expired, Round
<1>4. \A s \in Rounds : round[s] \in Round
  BY DEF TypeOK
<1>5. /\ UNCHANGED <<phase, created, reports, reviews, withdrawing, request>>
      /\ status' = IF status = "IN_PROGRESS" THEN "OPEN" ELSE status
  BY DEF Sweep
<1> QED
  BY <1>1, <1>2, <1>3, <1>4, <1>5

LEMMA ReplaceEffect ==
  ASSUME TypeOK, NEW r \in Rounds, NEW window \in {"SCHEDULED", "OPEN"},
         ReplaceReferral(r, window)
  PROVE  /\ UNCHANGED <<status, phase, reports, reviews, withdrawing, request>>
         /\ created' = created + 1 /\ created' \in Rounds
         /\ status = "AWAITING_REFERRAL_OUTCOME" /\ IsNewestReferral(r)
         /\ round[r].reports = 0
         /\ round'[created'] = ReferralRound(window)
         /\ \A s \in Rounds \ {r, created'} : round'[s] = round[s]
         /\ r # created' => /\ round'[r].kind = "REFERRAL"
                            /\ round'[r].link # "ACTIVE"
                            /\ round'[r].reports = 0
<1>1. /\ created < MaxRounds /\ created' = created + 1
      /\ round' = [round EXCEPT ![r] = ClosedReferral(@), ![created + 1] = ReferralRound(window)]
      /\ UNCHANGED <<status, phase, reports, reviews, withdrawing, request>>
  BY DEF ReplaceReferral, caseVars
<1>2. /\ status = "AWAITING_REFERRAL_OUTCOME" /\ IsNewestReferral(r)
      /\ round[r].reports = 0 /\ round[r].kind = "REFERRAL"
  BY DEF ReplaceReferral, Replaceable, IsNewestReferral, IsReferral
<1>3. round[r] \in Round
  BY DEF TypeOK
<1>4. /\ ClosedReferral(round[r]).kind = "REFERRAL"
      /\ ClosedReferral(round[r]).link # "ACTIVE"
      /\ ClosedReferral(round[r]).reports = 0
  BY <1>2, <1>3 DEF ClosedReferral, Round
<1>5. created + 1 \in Rounds
  BY <1>1, BoundAssumption DEF TypeOK, Rounds
<1>6. /\ round'[created + 1] = ReferralRound(window)
      /\ \A s \in Rounds \ {r, created + 1} : round'[s] = round[s]
      /\ r # created + 1 => round'[r] = ClosedReferral(round[r])
  BY <1>1, <1>5 DEF TypeOK
<1> QED
  BY <1>1, <1>2, <1>4, <1>5, <1>6

LEMMA InitInvariant == Init => IInv
<1> SUFFICES ASSUME Init PROVE IInv
  OBVIOUS
<1>1. \A r \in Rounds : round[r] = NoRound
  BY DEF Init
<1>2. \A r \in Rounds : /\ ~IsTask(r)
                        /\ ~Live(r)
                        /\ round[r].reports = 0
  BY <1>1 DEF IsTask, Live, NoRound, NewRound, TaskKinds
<1>3. TypeOK
  BY TypeInit
<1>4. RoundsInOrder /\ InFlightOnTasks /\ ReferralFollowsReview
  BY <1>1 DEF Init, RoundsInOrder, InFlightOnTasks, ReferralFollowsReview, NoRound, NewRound
<1>5. AtMostOneLiveAssignment /\ ReportedRoundStaysReported
  BY <1>2 DEF AtMostOneLiveAssignment, ReportedRoundStaysReported
<1>6. ResolvedOnSuccess /\ ReviewHasReport /\ InProgressHasOpenLink /\ AwaitsNewestReferral
  BY DEF Init, ResolvedOnSuccess, ReviewHasReport, InProgressHasOpenLink, AwaitsNewestReferral
<1> QED
  BY <1>3, <1>4, <1>5, <1>6 DEF IInv

-----------------------------------------------------------------------------
(* Each part is preserved by every step, one case per action. *)

(* Rounds are only created by the steps that append one, on a case. *)
LEMMA RoundsInOrderStep ==
  ASSUME TypeOK, RoundsInOrder, InFlightOnTasks, [Next]_vars
  PROVE  RoundsInOrder'
<1>1. CASE Quiet
  BY <1>1 DEF Quiet, RoundsInOrder, InFlightOnTasks, TypeOK, IsTask, IsReferral, TaskKinds,
      Rounds
<1>2. ASSUME NEW auto \in BOOLEAN, OpenAs(auto) PROVE RoundsInOrder'
  BY <1>2 DEF OpenAs, RoundsInOrder, InFlightOnTasks, TypeOK, IsTask, IsReferral, TaskKinds,
      Rounds
<1>3. CASE AutoCancel
  BY <1>3 DEF AutoCancel, RoundsInOrder, InFlightOnTasks, TypeOK, IsTask, IsReferral,
      TaskKinds, Rounds
<1>4. ASSUME NEW kind \in TaskKinds, NEW window \in {"SCHEDULED", "OPEN"},
             AssignNew(kind, window)
      PROVE  RoundsInOrder'
  BY <1>4 DEF AssignNew, Append, TaskRound, NewRound, RoundsInOrder, InFlightOnTasks,
      TypeOK, IsTask, IsReferral, TaskKinds, Rounds
<1>5. ASSUME NEW kind \in TaskKinds, NEW window \in {"SCHEDULED", "OPEN"},
             AssignRound(kind, window)
      PROVE  RoundsInOrder'
  BY <1>5 DEF AssignRound, MayAssign, Append, TaskRound, NewRound, RoundsInOrder,
      InFlightOnTasks, TypeOK, IsTask, IsReferral, TaskKinds, Rounds
<1>6. ASSUME NEW r \in Rounds, NEW lock \in BOOLEAN, AdminLock(r, lock)
      PROVE  RoundsInOrder'
  BY <1>6 DEF AdminLock, caseVars, RoundsInOrder, InFlightOnTasks, TypeOK, IsTask,
      IsReferral, TaskKinds, Rounds
<1>7. ASSUME NEW r \in Rounds, PassTime(r, "SCHEDULED", "OPEN") \/ PassTime(r, "OPEN", "LAPSED")
      PROVE  RoundsInOrder'
  BY <1>7, PassTimeEffect DEF RoundsInOrder, InFlightOnTasks, TypeOK, IsTask, IsReferral,
      TaskKinds, Rounds
<1>8. ASSUME NEW r \in Rounds, CancelCommit(r) PROVE RoundsInOrder'
  BY <1>8 DEF CancelCommit, Withdrawn, RoundsInOrder, InFlightOnTasks, TypeOK, IsTask,
      IsReferral, TaskKinds, Rounds
<1>9. CASE Sweep
  BY <1>9, SweepEffect DEF RoundsInOrder, InFlightOnTasks, TypeOK, IsTask, IsReferral,
      TaskKinds, Rounds, Unanswered
<1>10. ASSUME NEW q \in Requests, NEW found \in BOOLEAN,
             NEW chosen \in {"SUCCEEDED", "NOT_SUCCEEDED"}, SubmitCommit(q, found, chosen)
      PROVE  RoundsInOrder'
  BY <1>10 DEF SubmitCommit, Reported, RoundsInOrder, InFlightOnTasks, TypeOK, IsTask,
      IsReferral, TaskKinds, Rounds
<1>11. CASE Review
  BY <1>11 DEF Review, ReviewClose, ReviewAssist, ReviewRefer, RoundsInOrder,
      InFlightOnTasks, TypeOK, IsTask, IsReferral, TaskKinds, Rounds
<1>12. ASSUME NEW window \in {"SCHEDULED", "OPEN"}, SendReferral(window)
      PROVE  RoundsInOrder'
  BY <1>12 DEF SendReferral, Append, ReferralRound, NewRound, RoundsInOrder,
      InFlightOnTasks, TypeOK, IsTask, IsReferral, TaskKinds, Rounds
<1>13. ASSUME NEW r \in Rounds, NEW window \in {"SCHEDULED", "OPEN"},
             ReplaceReferral(r, window)
      PROVE  RoundsInOrder'
  <2>1. r <= created
    BY <1>13, ReplaceEffect DEF RoundsInOrder, IsNewestReferral, IsReferral, TypeOK, Rounds
  <2>2. \A s \in Rounds : created' < s => round'[s] = round[s]
    BY <1>13, <2>1, ReplaceEffect DEF TypeOK, Rounds
  <2> QED
    BY <1>13, <2>2, ReplaceEffect DEF RoundsInOrder, TypeOK, Rounds
<1>14. ASSUME NEW r \in Rounds, CancelReferral(r) PROVE RoundsInOrder'
  BY <1>14 DEF CancelReferral, AwaitingResult, IsNewestReferral, ClosedReferral,
      RoundsInOrder, InFlightOnTasks, TypeOK, IsTask, IsReferral, TaskKinds, Rounds
<1>15. ASSUME NEW r \in Rounds, LockReferralLink(r) PROVE RoundsInOrder'
  BY <1>15 DEF LockReferralLink, caseVars, RoundsInOrder, InFlightOnTasks, TypeOK, IsTask,
      IsReferral, TaskKinds, Rounds
<1>16. ASSUME NEW r \in Rounds, NEW succeeded \in BOOLEAN, AgencyReport(r, succeeded)
      PROVE  RoundsInOrder'
  BY <1>16 DEF AgencyReport, AwaitingResult, IsNewestReferral, Reported, RoundsInOrder,
      InFlightOnTasks, TypeOK, IsTask, IsReferral, TaskKinds, Rounds
<1> QED
  BY <1>1, <1>2, <1>3, <1>4, <1>5, <1>6, <1>7, <1>8, <1>9,
     <1>10, <1>11, <1>12, <1>13, <1>14, <1>15, <1>16, StepCases

(* A referral is sent only from AWAITING_REFERRAL, which a review set. *)
LEMMA ReferralFollowsReviewStep ==
  ASSUME TypeOK, ReferralFollowsReview, ReviewHasReport, [Next]_vars
  PROVE  ReferralFollowsReview'
<1>1. CASE Quiet
  BY <1>1 DEF Quiet, ReviewHasReport, ReferralFollowsReview, Reviewable, TypeOK
<1>2. ASSUME NEW auto \in BOOLEAN, OpenAs(auto) PROVE ReferralFollowsReview'
  BY <1>2 DEF OpenAs, ReviewHasReport, ReferralFollowsReview, Reviewable, TypeOK
<1>3. CASE AutoCancel
  BY <1>3 DEF AutoCancel, ReviewHasReport, ReferralFollowsReview, Reviewable, TypeOK
<1>4. ASSUME NEW kind \in TaskKinds, NEW window \in {"SCHEDULED", "OPEN"},
             AssignNew(kind, window)
      PROVE  ReferralFollowsReview'
  BY <1>4 DEF AssignNew, Append, TaskRound, NewRound, ReviewHasReport,
      ReferralFollowsReview, Reviewable, TypeOK
<1>5. ASSUME NEW kind \in TaskKinds, NEW window \in {"SCHEDULED", "OPEN"},
             AssignRound(kind, window)
      PROVE  ReferralFollowsReview'
  BY <1>5 DEF AssignRound, MayAssign, Append, TaskRound, NewRound, ReviewHasReport,
      ReferralFollowsReview, Reviewable, TypeOK
<1>6. ASSUME NEW r \in Rounds, NEW lock \in BOOLEAN, AdminLock(r, lock)
      PROVE  ReferralFollowsReview'
  BY <1>6 DEF AdminLock, caseVars, ReviewHasReport, ReferralFollowsReview, Reviewable,
      TypeOK
<1>7. ASSUME NEW r \in Rounds, PassTime(r, "SCHEDULED", "OPEN") \/ PassTime(r, "OPEN", "LAPSED")
      PROVE  ReferralFollowsReview'
  BY <1>7, PassTimeEffect DEF ReviewHasReport, ReferralFollowsReview, Reviewable, TypeOK
<1>8. ASSUME NEW r \in Rounds, CancelCommit(r) PROVE ReferralFollowsReview'
  BY <1>8 DEF CancelCommit, Withdrawn, ReviewHasReport, ReferralFollowsReview, Reviewable,
      TypeOK
<1>9. CASE Sweep
  BY <1>9, SweepEffect DEF ReviewHasReport, ReferralFollowsReview, Reviewable, TypeOK,
      Unanswered
<1>10. ASSUME NEW q \in Requests, NEW found \in BOOLEAN,
             NEW chosen \in {"SUCCEEDED", "NOT_SUCCEEDED"}, SubmitCommit(q, found, chosen)
      PROVE  ReferralFollowsReview'
  BY <1>10 DEF SubmitCommit, Reported, ReviewHasReport, ReferralFollowsReview, Reviewable,
      TypeOK
<1>11. CASE Review
  BY <1>11 DEF Review, ReviewClose, ReviewAssist, ReviewRefer, ReviewHasReport,
      ReferralFollowsReview, Reviewable, TypeOK
<1>12. ASSUME NEW window \in {"SCHEDULED", "OPEN"}, SendReferral(window)
      PROVE  ReferralFollowsReview'
  BY <1>12 DEF SendReferral, Append, ReferralRound, NewRound, ReviewHasReport,
      ReferralFollowsReview, Reviewable, TypeOK
<1>13. ASSUME NEW r \in Rounds, NEW window \in {"SCHEDULED", "OPEN"},
             ReplaceReferral(r, window)
      PROVE  ReferralFollowsReview'
  BY <1>13, ReplaceEffect DEF ReviewHasReport, ReferralFollowsReview, Reviewable, TypeOK,
      IsNewestReferral, ReferralRound, NewRound
<1>14. ASSUME NEW r \in Rounds, CancelReferral(r) PROVE ReferralFollowsReview'
  BY <1>14 DEF CancelReferral, AwaitingResult, IsNewestReferral, ClosedReferral,
      ReviewHasReport, ReferralFollowsReview, Reviewable, TypeOK
<1>15. ASSUME NEW r \in Rounds, LockReferralLink(r) PROVE ReferralFollowsReview'
  BY <1>15 DEF LockReferralLink, caseVars, ReviewHasReport, ReferralFollowsReview,
      Reviewable, TypeOK
<1>16. ASSUME NEW r \in Rounds, NEW succeeded \in BOOLEAN, AgencyReport(r, succeeded)
      PROVE  ReferralFollowsReview'
  BY <1>16 DEF AgencyReport, AwaitingResult, IsNewestReferral, Reported, ReviewHasReport,
      ReferralFollowsReview, Reviewable, TypeOK
<1> QED
  BY <1>1, <1>2, <1>3, <1>4, <1>5, <1>6, <1>7, <1>8, <1>9,
     <1>10, <1>11, <1>12, <1>13, <1>14, <1>15, <1>16, StepCases

(* Only an assignment makes a round live, and it finds none. *)
LEMMA LiveStep ==
  ASSUME TypeOK, RoundsInOrder, AtMostOneLiveAssignment, [Next]_vars
  PROVE  AtMostOneLiveAssignment'
<1>1. CASE Quiet
  BY <1>1 DEF Quiet, AtMostOneLiveAssignment, RoundsInOrder, TypeOK, Live, IsTask,
      TaskKinds, Rounds
<1>2. ASSUME NEW auto \in BOOLEAN, OpenAs(auto) PROVE AtMostOneLiveAssignment'
  BY <1>2 DEF OpenAs, AtMostOneLiveAssignment, RoundsInOrder, TypeOK, Live, IsTask,
      TaskKinds, Rounds
<1>3. CASE AutoCancel
  BY <1>3 DEF AutoCancel, AtMostOneLiveAssignment, RoundsInOrder, TypeOK, Live, IsTask,
      TaskKinds, Rounds
<1>4. ASSUME NEW kind \in TaskKinds, NEW window \in {"SCHEDULED", "OPEN"},
             AssignNew(kind, window)
      PROVE  AtMostOneLiveAssignment'
  BY <1>4 DEF AssignNew, Append, TaskRound, NewRound, AtMostOneLiveAssignment,
      RoundsInOrder, TypeOK, Live, IsTask, TaskKinds, Rounds
<1>5. ASSUME NEW kind \in TaskKinds, NEW window \in {"SCHEDULED", "OPEN"},
             AssignRound(kind, window)
      PROVE  AtMostOneLiveAssignment'
  BY <1>5 DEF AssignRound, MayAssign, Append, TaskRound, NewRound, AtMostOneLiveAssignment,
      RoundsInOrder, TypeOK, Live, IsTask, TaskKinds, Rounds
<1>6. ASSUME NEW r \in Rounds, NEW lock \in BOOLEAN, AdminLock(r, lock)
      PROVE  AtMostOneLiveAssignment'
  BY <1>6 DEF AdminLock, caseVars, AtMostOneLiveAssignment, RoundsInOrder, TypeOK, Live,
      IsTask, TaskKinds, Rounds
<1>7. ASSUME NEW r \in Rounds, PassTime(r, "SCHEDULED", "OPEN") \/ PassTime(r, "OPEN", "LAPSED")
      PROVE  AtMostOneLiveAssignment'
  BY <1>7, PassTimeEffect DEF AtMostOneLiveAssignment, RoundsInOrder, TypeOK, Live, IsTask,
      TaskKinds, Rounds
<1>8. ASSUME NEW r \in Rounds, CancelCommit(r) PROVE AtMostOneLiveAssignment'
  BY <1>8 DEF CancelCommit, Withdrawn, AtMostOneLiveAssignment, RoundsInOrder, TypeOK, Live,
      IsTask, TaskKinds, Rounds
<1>9. CASE Sweep
  BY <1>9, SweepEffect DEF AtMostOneLiveAssignment, RoundsInOrder, TypeOK, Live, IsTask,
      TaskKinds, Rounds, Unanswered
<1>10. ASSUME NEW q \in Requests, NEW found \in BOOLEAN,
             NEW chosen \in {"SUCCEEDED", "NOT_SUCCEEDED"}, SubmitCommit(q, found, chosen)
      PROVE  AtMostOneLiveAssignment'
  BY <1>10 DEF SubmitCommit, Reported, AtMostOneLiveAssignment, RoundsInOrder, TypeOK, Live,
      IsTask, TaskKinds, Rounds
<1>11. CASE Review
  BY <1>11 DEF Review, ReviewClose, ReviewAssist, ReviewRefer, AtMostOneLiveAssignment,
      RoundsInOrder, TypeOK, Live, IsTask, TaskKinds, Rounds
<1>12. ASSUME NEW window \in {"SCHEDULED", "OPEN"}, SendReferral(window)
      PROVE  AtMostOneLiveAssignment'
  BY <1>12 DEF SendReferral, Append, ReferralRound, NewRound, AtMostOneLiveAssignment,
      RoundsInOrder, TypeOK, Live, IsTask, TaskKinds, Rounds
<1>13. ASSUME NEW r \in Rounds, NEW window \in {"SCHEDULED", "OPEN"},
             ReplaceReferral(r, window)
      PROVE  AtMostOneLiveAssignment'
  BY <1>13, ReplaceEffect DEF AtMostOneLiveAssignment, RoundsInOrder, TypeOK, Live, IsTask,
      TaskKinds, Rounds, IsNewestReferral, ReferralRound, NewRound
<1>14. ASSUME NEW r \in Rounds, CancelReferral(r) PROVE AtMostOneLiveAssignment'
  BY <1>14 DEF CancelReferral, AwaitingResult, IsNewestReferral, ClosedReferral,
      AtMostOneLiveAssignment, RoundsInOrder, TypeOK, Live, IsTask, TaskKinds, Rounds
<1>15. ASSUME NEW r \in Rounds, LockReferralLink(r) PROVE AtMostOneLiveAssignment'
  BY <1>15 DEF LockReferralLink, caseVars, AtMostOneLiveAssignment, RoundsInOrder, TypeOK,
      Live, IsTask, TaskKinds, Rounds
<1>16. ASSUME NEW r \in Rounds, NEW succeeded \in BOOLEAN, AgencyReport(r, succeeded)
      PROVE  AtMostOneLiveAssignment'
  BY <1>16 DEF AgencyReport, AwaitingResult, IsNewestReferral, Reported,
      AtMostOneLiveAssignment, RoundsInOrder, TypeOK, Live, IsTask, TaskKinds, Rounds
<1> QED
  BY <1>1, <1>2, <1>3, <1>4, <1>5, <1>6, <1>7, <1>8, <1>9,
     <1>10, <1>11, <1>12, <1>13, <1>14, <1>15, <1>16, StepCases

(* A resolved case takes no round and no report. *)
LEMMA ResolvedStep ==
  ASSUME TypeOK, ResolvedOnSuccess, [Next]_vars
  PROVE  ResolvedOnSuccess'
<1>1. CASE Quiet
  BY <1>1 DEF Quiet, ResolvedOnSuccess, LatestSucceeded, Reportable, TypeOK, Rounds
<1>2. ASSUME NEW auto \in BOOLEAN, OpenAs(auto) PROVE ResolvedOnSuccess'
  BY <1>2 DEF OpenAs, ResolvedOnSuccess, LatestSucceeded, Reportable, TypeOK, Rounds
<1>3. CASE AutoCancel
  BY <1>3 DEF AutoCancel, ResolvedOnSuccess, LatestSucceeded, Reportable, TypeOK, Rounds
<1>4. ASSUME NEW kind \in TaskKinds, NEW window \in {"SCHEDULED", "OPEN"},
             AssignNew(kind, window)
      PROVE  ResolvedOnSuccess'
  BY <1>4 DEF AssignNew, Append, TaskRound, NewRound, ResolvedOnSuccess, LatestSucceeded,
      Reportable, TypeOK, Rounds
<1>5. ASSUME NEW kind \in TaskKinds, NEW window \in {"SCHEDULED", "OPEN"},
             AssignRound(kind, window)
      PROVE  ResolvedOnSuccess'
  BY <1>5 DEF AssignRound, MayAssign, Append, TaskRound, NewRound, ResolvedOnSuccess,
      LatestSucceeded, Reportable, TypeOK, Rounds
<1>6. ASSUME NEW r \in Rounds, NEW lock \in BOOLEAN, AdminLock(r, lock)
      PROVE  ResolvedOnSuccess'
  BY <1>6 DEF AdminLock, caseVars, ResolvedOnSuccess, LatestSucceeded, Reportable, TypeOK,
      Rounds
<1>7. ASSUME NEW r \in Rounds, PassTime(r, "SCHEDULED", "OPEN") \/ PassTime(r, "OPEN", "LAPSED")
      PROVE  ResolvedOnSuccess'
  BY <1>7, PassTimeEffect DEF ResolvedOnSuccess, LatestSucceeded, Reportable, TypeOK, Rounds
<1>8. ASSUME NEW r \in Rounds, CancelCommit(r) PROVE ResolvedOnSuccess'
  BY <1>8 DEF CancelCommit, Withdrawn, ResolvedOnSuccess, LatestSucceeded, Reportable,
      TypeOK, Rounds
<1>9. CASE Sweep
  BY <1>9, SweepEffect DEF ResolvedOnSuccess, LatestSucceeded, Reportable, TypeOK, Rounds,
      Unanswered
<1>10. ASSUME NEW q \in Requests, NEW found \in BOOLEAN,
             NEW chosen \in {"SUCCEEDED", "NOT_SUCCEEDED"}, SubmitCommit(q, found, chosen)
      PROVE  ResolvedOnSuccess'
  BY <1>10 DEF SubmitCommit, Reported, ResolvedOnSuccess, LatestSucceeded, Reportable,
      TypeOK, Rounds
<1>11. CASE Review
  BY <1>11 DEF Review, ReviewClose, ReviewAssist, ReviewRefer, ResolvedOnSuccess,
      LatestSucceeded, Reportable, TypeOK, Rounds
<1>12. ASSUME NEW window \in {"SCHEDULED", "OPEN"}, SendReferral(window)
      PROVE  ResolvedOnSuccess'
  BY <1>12 DEF SendReferral, Append, ReferralRound, NewRound, ResolvedOnSuccess,
      LatestSucceeded, Reportable, TypeOK, Rounds
<1>13. ASSUME NEW r \in Rounds, NEW window \in {"SCHEDULED", "OPEN"},
             ReplaceReferral(r, window)
      PROVE  ResolvedOnSuccess'
  BY <1>13, ReplaceEffect DEF ResolvedOnSuccess, LatestSucceeded, Reportable, TypeOK, Rounds,
      IsNewestReferral, ReferralRound, NewRound
<1>14. ASSUME NEW r \in Rounds, CancelReferral(r) PROVE ResolvedOnSuccess'
  BY <1>14 DEF CancelReferral, AwaitingResult, IsNewestReferral, ClosedReferral,
      ResolvedOnSuccess, LatestSucceeded, Reportable, TypeOK, Rounds
<1>15. ASSUME NEW r \in Rounds, LockReferralLink(r) PROVE ResolvedOnSuccess'
  BY <1>15 DEF LockReferralLink, caseVars, ResolvedOnSuccess, LatestSucceeded, Reportable,
      TypeOK, Rounds
<1>16. ASSUME NEW r \in Rounds, NEW succeeded \in BOOLEAN, AgencyReport(r, succeeded)
      PROVE  ResolvedOnSuccess'
  BY <1>16 DEF AgencyReport, AwaitingResult, IsNewestReferral, Reported, ResolvedOnSuccess,
      LatestSucceeded, Reportable, TypeOK, Rounds
<1> QED
  BY <1>1, <1>2, <1>3, <1>4, <1>5, <1>6, <1>7, <1>8, <1>9,
     <1>10, <1>11, <1>12, <1>13, <1>14, <1>15, <1>16, StepCases

(* A review spends the report that let it happen. *)
LEMMA ReviewStep ==
  ASSUME TypeOK, ReferralFollowsReview, ReviewHasReport, [Next]_vars
  PROVE  ReviewHasReport'
<1>1. CASE Quiet
  BY <1>1 DEF Quiet, ReviewHasReport, ReferralFollowsReview, Reviewable, RestartsFollowUp,
      TypeOK
<1>2. ASSUME NEW auto \in BOOLEAN, OpenAs(auto) PROVE ReviewHasReport'
  BY <1>2 DEF OpenAs, ReviewHasReport, ReferralFollowsReview, Reviewable, RestartsFollowUp,
      TypeOK
<1>3. CASE AutoCancel
  BY <1>3 DEF AutoCancel, ReviewHasReport, ReferralFollowsReview, Reviewable,
      RestartsFollowUp, TypeOK
<1>4. ASSUME NEW kind \in TaskKinds, NEW window \in {"SCHEDULED", "OPEN"},
             AssignNew(kind, window)
      PROVE  ReviewHasReport'
  BY <1>4 DEF AssignNew, Append, TaskRound, NewRound, ReviewHasReport,
      ReferralFollowsReview, Reviewable, RestartsFollowUp, TypeOK
<1>5. ASSUME NEW kind \in TaskKinds, NEW window \in {"SCHEDULED", "OPEN"},
             AssignRound(kind, window)
      PROVE  ReviewHasReport'
  BY <1>5 DEF AssignRound, MayAssign, Append, TaskRound, NewRound, ReviewHasReport,
      ReferralFollowsReview, Reviewable, RestartsFollowUp, TypeOK
<1>6. ASSUME NEW r \in Rounds, NEW lock \in BOOLEAN, AdminLock(r, lock)
      PROVE  ReviewHasReport'
  BY <1>6 DEF AdminLock, caseVars, ReviewHasReport, ReferralFollowsReview, Reviewable,
      RestartsFollowUp, TypeOK
<1>7. ASSUME NEW r \in Rounds, PassTime(r, "SCHEDULED", "OPEN") \/ PassTime(r, "OPEN", "LAPSED")
      PROVE  ReviewHasReport'
  BY <1>7, PassTimeEffect DEF ReviewHasReport, ReferralFollowsReview, Reviewable,
      RestartsFollowUp, TypeOK
<1>8. ASSUME NEW r \in Rounds, CancelCommit(r) PROVE ReviewHasReport'
  BY <1>8 DEF CancelCommit, Withdrawn, ReviewHasReport, ReferralFollowsReview, Reviewable,
      RestartsFollowUp, TypeOK
<1>9. CASE Sweep
  BY <1>9, SweepEffect DEF ReviewHasReport, ReferralFollowsReview, Reviewable,
      RestartsFollowUp, TypeOK, Unanswered
<1>10. ASSUME NEW q \in Requests, NEW found \in BOOLEAN,
             NEW chosen \in {"SUCCEEDED", "NOT_SUCCEEDED"}, SubmitCommit(q, found, chosen)
      PROVE  ReviewHasReport'
  BY <1>10 DEF SubmitCommit, Reported, ReviewHasReport, ReferralFollowsReview, Reviewable,
      RestartsFollowUp, TypeOK
<1>11. CASE Review
  BY <1>11 DEF Review, ReviewClose, ReviewAssist, ReviewRefer, ReviewHasReport,
      ReferralFollowsReview, Reviewable, RestartsFollowUp, TypeOK
<1>12. ASSUME NEW window \in {"SCHEDULED", "OPEN"}, SendReferral(window)
      PROVE  ReviewHasReport'
  BY <1>12 DEF SendReferral, Append, ReferralRound, NewRound, ReviewHasReport,
      ReferralFollowsReview, Reviewable, RestartsFollowUp, TypeOK
<1>13. ASSUME NEW r \in Rounds, NEW window \in {"SCHEDULED", "OPEN"},
             ReplaceReferral(r, window)
      PROVE  ReviewHasReport'
  BY <1>13, ReplaceEffect DEF ReviewHasReport, ReferralFollowsReview, Reviewable,
      RestartsFollowUp, TypeOK, IsNewestReferral, ReferralRound, NewRound
<1>14. ASSUME NEW r \in Rounds, CancelReferral(r) PROVE ReviewHasReport'
  BY <1>14 DEF CancelReferral, AwaitingResult, IsNewestReferral, ClosedReferral,
      ReviewHasReport, ReferralFollowsReview, Reviewable, RestartsFollowUp, TypeOK
<1>15. ASSUME NEW r \in Rounds, LockReferralLink(r) PROVE ReviewHasReport'
  BY <1>15 DEF LockReferralLink, caseVars, ReviewHasReport, ReferralFollowsReview,
      Reviewable, RestartsFollowUp, TypeOK
<1>16. ASSUME NEW r \in Rounds, NEW succeeded \in BOOLEAN, AgencyReport(r, succeeded)
      PROVE  ReviewHasReport'
  BY <1>16 DEF AgencyReport, AwaitingResult, IsNewestReferral, Reported, ReviewHasReport,
      ReferralFollowsReview, Reviewable, RestartsFollowUp, TypeOK
<1> QED
  BY <1>1, <1>2, <1>3, <1>4, <1>5, <1>6, <1>7, <1>8, <1>9,
     <1>10, <1>11, <1>12, <1>13, <1>14, <1>15, <1>16, StepCases

(* The steps that close a task link take the case out of IN_PROGRESS. *)
LEMMA InProgressStep ==
  ASSUME TypeOK, InProgressHasOpenLink, [Next]_vars
  PROVE  InProgressHasOpenLink'
<1>1. CASE Quiet
  BY <1>1 DEF Quiet, InProgressHasOpenLink, IsTask, IsReferral, TaskKinds, TypeOK, Rounds,
      Reviewable
<1>2. ASSUME NEW auto \in BOOLEAN, OpenAs(auto) PROVE InProgressHasOpenLink'
  BY <1>2 DEF OpenAs, InProgressHasOpenLink, IsTask, IsReferral, TaskKinds, TypeOK, Rounds,
      Reviewable
<1>3. CASE AutoCancel
  BY <1>3 DEF AutoCancel, InProgressHasOpenLink, IsTask, IsReferral, TaskKinds, TypeOK,
      Rounds, Reviewable
<1>4. ASSUME NEW kind \in TaskKinds, NEW window \in {"SCHEDULED", "OPEN"},
             AssignNew(kind, window)
      PROVE  InProgressHasOpenLink'
  <2>1. created + 1 \in Rounds /\ round'[created + 1] = TaskRound(kind, window)
    BY <1>4, BoundAssumption DEF AssignNew, Append, TypeOK, Rounds
  <2> QED
    BY <2>1 DEF InProgressHasOpenLink, IsTask, TaskRound, NewRound
<1>5. ASSUME NEW kind \in TaskKinds, NEW window \in {"SCHEDULED", "OPEN"},
             AssignRound(kind, window)
      PROVE  InProgressHasOpenLink'
  <2>1. created + 1 \in Rounds /\ round'[created + 1] = TaskRound(kind, window)
    BY <1>5, BoundAssumption DEF AssignRound, Append, TypeOK, Rounds
  <2> QED
    BY <2>1 DEF InProgressHasOpenLink, IsTask, TaskRound, NewRound
<1>6. ASSUME NEW r \in Rounds, NEW lock \in BOOLEAN, AdminLock(r, lock)
      PROVE  InProgressHasOpenLink'
  BY <1>6 DEF AdminLock, caseVars, InProgressHasOpenLink, IsTask, IsReferral, TaskKinds,
      TypeOK, Rounds, Reviewable
<1>7. ASSUME NEW r \in Rounds, PassTime(r, "SCHEDULED", "OPEN") \/ PassTime(r, "OPEN", "LAPSED")
      PROVE  InProgressHasOpenLink'
  BY <1>7, PassTimeEffect DEF InProgressHasOpenLink, IsTask, IsReferral, TaskKinds, TypeOK,
      Rounds, Reviewable
<1>8. ASSUME NEW r \in Rounds, CancelCommit(r) PROVE InProgressHasOpenLink'
  BY <1>8 DEF CancelCommit, Withdrawn, InProgressHasOpenLink, IsTask, IsReferral, TaskKinds,
      TypeOK, Rounds, Reviewable
<1>9. CASE Sweep
  BY <1>9, SweepEffect DEF InProgressHasOpenLink, IsTask, IsReferral, TaskKinds, TypeOK,
      Rounds, Reviewable, Unanswered
<1>10. ASSUME NEW q \in Requests, NEW found \in BOOLEAN,
             NEW chosen \in {"SUCCEEDED", "NOT_SUCCEEDED"}, SubmitCommit(q, found, chosen)
      PROVE  InProgressHasOpenLink'
  BY <1>10 DEF SubmitCommit, Reported, InProgressHasOpenLink, IsTask, IsReferral, TaskKinds,
      TypeOK, Rounds, Reviewable
<1>11. CASE Review
  BY <1>11 DEF Review, ReviewClose, ReviewAssist, ReviewRefer, InProgressHasOpenLink,
      IsTask, IsReferral, TaskKinds, TypeOK, Rounds, Reviewable
<1>12. ASSUME NEW window \in {"SCHEDULED", "OPEN"}, SendReferral(window)
      PROVE  InProgressHasOpenLink'
  BY <1>12 DEF SendReferral, Append, ReferralRound, NewRound, InProgressHasOpenLink, IsTask,
      IsReferral, TaskKinds, TypeOK, Rounds, Reviewable
<1>13. ASSUME NEW r \in Rounds, NEW window \in {"SCHEDULED", "OPEN"},
             ReplaceReferral(r, window)
      PROVE  InProgressHasOpenLink'
  BY <1>13, ReplaceEffect DEF InProgressHasOpenLink, IsTask, IsReferral, TaskKinds, TypeOK,
      Rounds, Reviewable, IsNewestReferral, ReferralRound, NewRound
<1>14. ASSUME NEW r \in Rounds, CancelReferral(r) PROVE InProgressHasOpenLink'
  BY <1>14 DEF CancelReferral, AwaitingResult, IsNewestReferral, ClosedReferral,
      InProgressHasOpenLink, IsTask, IsReferral, TaskKinds, TypeOK, Rounds, Reviewable
<1>15. ASSUME NEW r \in Rounds, LockReferralLink(r) PROVE InProgressHasOpenLink'
  BY <1>15 DEF LockReferralLink, caseVars, InProgressHasOpenLink, IsTask, IsReferral,
      TaskKinds, TypeOK, Rounds, Reviewable
<1>16. ASSUME NEW r \in Rounds, NEW succeeded \in BOOLEAN, AgencyReport(r, succeeded)
      PROVE  InProgressHasOpenLink'
  BY <1>16 DEF AgencyReport, AwaitingResult, IsNewestReferral, Reported,
      InProgressHasOpenLink, IsTask, IsReferral, TaskKinds, TypeOK, Rounds, Reviewable
<1> QED
  BY <1>1, <1>2, <1>3, <1>4, <1>5, <1>6, <1>7, <1>8, <1>9,
     <1>10, <1>11, <1>12, <1>13, <1>14, <1>15, <1>16, StepCases

(* While a case waits for an agency only a new referral takes the last place. *)
LEMMA AwaitsStep ==
  ASSUME TypeOK, RoundsInOrder, InFlightOnTasks, AwaitsNewestReferral, [Next]_vars
  PROVE  AwaitsNewestReferral'
<1>1. CASE Quiet
  BY <1>1 DEF Quiet, AwaitsNewestReferral, InFlightOnTasks, IsTask, IsReferral, Unanswered,
      TaskKinds, TypeOK, Rounds, Reportable
<1>2. ASSUME NEW auto \in BOOLEAN, OpenAs(auto) PROVE AwaitsNewestReferral'
  BY <1>2 DEF OpenAs, AwaitsNewestReferral, InFlightOnTasks, IsTask, IsReferral, Unanswered,
      TaskKinds, TypeOK, Rounds, Reportable
<1>3. CASE AutoCancel
  BY <1>3 DEF AutoCancel, AwaitsNewestReferral, InFlightOnTasks, IsTask, IsReferral,
      Unanswered, TaskKinds, TypeOK, Rounds, Reportable
<1>4. ASSUME NEW kind \in TaskKinds, NEW window \in {"SCHEDULED", "OPEN"},
             AssignNew(kind, window)
      PROVE  AwaitsNewestReferral'
  BY <1>4 DEF AssignNew, Append, TaskRound, NewRound, AwaitsNewestReferral, InFlightOnTasks,
      IsTask, IsReferral, Unanswered, TaskKinds, TypeOK, Rounds, Reportable
<1>5. ASSUME NEW kind \in TaskKinds, NEW window \in {"SCHEDULED", "OPEN"},
             AssignRound(kind, window)
      PROVE  AwaitsNewestReferral'
  BY <1>5 DEF AssignRound, MayAssign, Append, TaskRound, NewRound, AwaitsNewestReferral,
      InFlightOnTasks, IsTask, IsReferral, Unanswered, TaskKinds, TypeOK, Rounds, Reportable
<1>6. ASSUME NEW r \in Rounds, NEW lock \in BOOLEAN, AdminLock(r, lock)
      PROVE  AwaitsNewestReferral'
  BY <1>6 DEF AdminLock, caseVars, AwaitsNewestReferral, InFlightOnTasks, IsTask,
      IsReferral, Unanswered, TaskKinds, TypeOK, Rounds, Reportable
<1>7. ASSUME NEW r \in Rounds, PassTime(r, "SCHEDULED", "OPEN") \/ PassTime(r, "OPEN", "LAPSED")
      PROVE  AwaitsNewestReferral'
  BY <1>7, PassTimeEffect DEF AwaitsNewestReferral, InFlightOnTasks, IsTask, IsReferral,
      Unanswered, TaskKinds, TypeOK, Rounds, Reportable
<1>8. ASSUME NEW r \in Rounds, CancelCommit(r) PROVE AwaitsNewestReferral'
  BY <1>8 DEF CancelCommit, Withdrawn, AwaitsNewestReferral, InFlightOnTasks, IsTask,
      IsReferral, Unanswered, TaskKinds, TypeOK, Rounds, Reportable
<1>9. CASE Sweep
  BY <1>9, SweepEffect DEF AwaitsNewestReferral, InFlightOnTasks, IsTask, IsReferral,
      Unanswered, TaskKinds, TypeOK, Rounds, Reportable
<1>10. ASSUME NEW q \in Requests, NEW found \in BOOLEAN,
             NEW chosen \in {"SUCCEEDED", "NOT_SUCCEEDED"}, SubmitCommit(q, found, chosen)
      PROVE  AwaitsNewestReferral'
  BY <1>10 DEF SubmitCommit, Reported, AwaitsNewestReferral, InFlightOnTasks, IsTask,
      IsReferral, Unanswered, TaskKinds, TypeOK, Rounds, Reportable
<1>11. CASE Review
  BY <1>11 DEF Review, ReviewClose, ReviewAssist, ReviewRefer, AwaitsNewestReferral,
      InFlightOnTasks, IsTask, IsReferral, Unanswered, TaskKinds, TypeOK, Rounds, Reportable
<1>12. ASSUME NEW window \in {"SCHEDULED", "OPEN"}, SendReferral(window)
      PROVE  AwaitsNewestReferral'
  <2>1. created + 1 \in Rounds /\ created' = created + 1
    BY <1>12, BoundAssumption DEF SendReferral, Append, TypeOK, Rounds
  <2>2. round'[created'] = ReferralRound(window)
    BY <1>12, <2>1 DEF SendReferral, Append, TypeOK
  <2> QED
    BY <2>1, <2>2 DEF AwaitsNewestReferral, IsReferral, ReferralRound, NewRound
<1>13. ASSUME NEW r \in Rounds, NEW window \in {"SCHEDULED", "OPEN"},
             ReplaceReferral(r, window)
      PROVE  AwaitsNewestReferral'
  BY <1>13, ReplaceEffect DEF AwaitsNewestReferral, InFlightOnTasks, IsTask, IsReferral,
      Unanswered, TaskKinds, TypeOK, Rounds, Reportable, IsNewestReferral, ReferralRound,
      NewRound
<1>14. ASSUME NEW r \in Rounds, CancelReferral(r) PROVE AwaitsNewestReferral'
  BY <1>14 DEF CancelReferral, AwaitingResult, IsNewestReferral, ClosedReferral,
      AwaitsNewestReferral, InFlightOnTasks, IsTask, IsReferral, Unanswered, TaskKinds,
      TypeOK, Rounds, Reportable
<1>15. ASSUME NEW r \in Rounds, LockReferralLink(r) PROVE AwaitsNewestReferral'
  BY <1>15 DEF LockReferralLink, caseVars, AwaitsNewestReferral, InFlightOnTasks, IsTask,
      IsReferral, Unanswered, TaskKinds, TypeOK, Rounds, Reportable
<1>16. ASSUME NEW r \in Rounds, NEW succeeded \in BOOLEAN, AgencyReport(r, succeeded)
      PROVE  AwaitsNewestReferral'
  BY <1>16 DEF AgencyReport, AwaitingResult, IsNewestReferral, Reported,
      AwaitsNewestReferral, InFlightOnTasks, IsTask, IsReferral, Unanswered, TaskKinds,
      TypeOK, Rounds, Reportable
<1> QED
  BY <1>1, <1>2, <1>3, <1>4, <1>5, <1>6, <1>7, <1>8, <1>9,
     <1>10, <1>11, <1>12, <1>13, <1>14, <1>15, <1>16, StepCases

(* A withdrawal, the sweep and the end of a referral meet unreported rounds only. *)
LEMMA ReportedStep ==
  ASSUME TypeOK, InFlightOnTasks, RoundsInOrder, ReportedRoundStaysReported, [Next]_vars
  PROVE  ReportedRoundStaysReported'
<1>1. CASE Quiet
  BY <1>1 DEF Quiet, ReportedRoundStaysReported, InFlightOnTasks, IsTask, IsReferral,
      Unanswered, TaskKinds, TypeOK, Rounds
<1>2. ASSUME NEW auto \in BOOLEAN, OpenAs(auto) PROVE ReportedRoundStaysReported'
  BY <1>2 DEF OpenAs, ReportedRoundStaysReported, InFlightOnTasks, IsTask, IsReferral,
      Unanswered, TaskKinds, TypeOK, Rounds
<1>3. CASE AutoCancel
  BY <1>3 DEF AutoCancel, ReportedRoundStaysReported, InFlightOnTasks, IsTask, IsReferral,
      Unanswered, TaskKinds, TypeOK, Rounds
<1>4. ASSUME NEW kind \in TaskKinds, NEW window \in {"SCHEDULED", "OPEN"},
             AssignNew(kind, window)
      PROVE  ReportedRoundStaysReported'
  BY <1>4 DEF AssignNew, Append, TaskRound, NewRound, ReportedRoundStaysReported,
      InFlightOnTasks, IsTask, IsReferral, Unanswered, TaskKinds, TypeOK, Rounds
<1>5. ASSUME NEW kind \in TaskKinds, NEW window \in {"SCHEDULED", "OPEN"},
             AssignRound(kind, window)
      PROVE  ReportedRoundStaysReported'
  BY <1>5 DEF AssignRound, MayAssign, Append, TaskRound, NewRound,
      ReportedRoundStaysReported, InFlightOnTasks, IsTask, IsReferral, Unanswered,
      TaskKinds, TypeOK, Rounds
<1>6. ASSUME NEW r \in Rounds, NEW lock \in BOOLEAN, AdminLock(r, lock)
      PROVE  ReportedRoundStaysReported'
  BY <1>6 DEF AdminLock, caseVars, ReportedRoundStaysReported, InFlightOnTasks, IsTask,
      IsReferral, Unanswered, TaskKinds, TypeOK, Rounds
<1>7. ASSUME NEW r \in Rounds, PassTime(r, "SCHEDULED", "OPEN") \/ PassTime(r, "OPEN", "LAPSED")
      PROVE  ReportedRoundStaysReported'
  BY <1>7, PassTimeEffect DEF ReportedRoundStaysReported, InFlightOnTasks, IsTask, IsReferral,
      Unanswered, TaskKinds, TypeOK, Rounds
<1>8. ASSUME NEW r \in Rounds, CancelCommit(r) PROVE ReportedRoundStaysReported'
  BY <1>8 DEF CancelCommit, Withdrawn, ReportedRoundStaysReported, InFlightOnTasks, IsTask,
      IsReferral, Unanswered, TaskKinds, TypeOK, Rounds
<1>9. CASE Sweep
  BY <1>9, SweepEffect DEF ReportedRoundStaysReported, InFlightOnTasks, IsTask, IsReferral,
      Unanswered, TaskKinds, TypeOK, Rounds
<1>10. ASSUME NEW q \in Requests, NEW found \in BOOLEAN,
             NEW chosen \in {"SUCCEEDED", "NOT_SUCCEEDED"}, SubmitCommit(q, found, chosen)
      PROVE  ReportedRoundStaysReported'
  BY <1>10 DEF SubmitCommit, Reported, ReportedRoundStaysReported, InFlightOnTasks, IsTask,
      IsReferral, Unanswered, TaskKinds, TypeOK, Rounds
<1>11. CASE Review
  BY <1>11 DEF Review, ReviewClose, ReviewAssist, ReviewRefer, ReportedRoundStaysReported,
      InFlightOnTasks, IsTask, IsReferral, Unanswered, TaskKinds, TypeOK, Rounds
<1>12. ASSUME NEW window \in {"SCHEDULED", "OPEN"}, SendReferral(window)
      PROVE  ReportedRoundStaysReported'
  BY <1>12 DEF SendReferral, Append, ReferralRound, NewRound, ReportedRoundStaysReported,
      InFlightOnTasks, IsTask, IsReferral, Unanswered, TaskKinds, TypeOK, Rounds
<1>13. ASSUME NEW r \in Rounds, NEW window \in {"SCHEDULED", "OPEN"},
             ReplaceReferral(r, window)
      PROVE  ReportedRoundStaysReported'
  BY SMTT(20), <1>13, ReplaceEffect DEF ReportedRoundStaysReported, InFlightOnTasks, IsTask, IsReferral,
      Unanswered, TaskKinds, TypeOK, Rounds, IsNewestReferral, ReferralRound, NewRound
<1>14. ASSUME NEW r \in Rounds, CancelReferral(r) PROVE ReportedRoundStaysReported'
  BY <1>14 DEF CancelReferral, AwaitingResult, IsNewestReferral, ClosedReferral,
      ReportedRoundStaysReported, InFlightOnTasks, IsTask, IsReferral, Unanswered,
      TaskKinds, TypeOK, Rounds
<1>15. ASSUME NEW r \in Rounds, LockReferralLink(r) PROVE ReportedRoundStaysReported'
  BY <1>15 DEF LockReferralLink, caseVars, ReportedRoundStaysReported, InFlightOnTasks,
      IsTask, IsReferral, Unanswered, TaskKinds, TypeOK, Rounds
<1>16. ASSUME NEW r \in Rounds, NEW succeeded \in BOOLEAN, AgencyReport(r, succeeded)
      PROVE  ReportedRoundStaysReported'
  BY <1>16 DEF AgencyReport, AwaitingResult, IsNewestReferral, Reported,
      ReportedRoundStaysReported, InFlightOnTasks, IsTask, IsReferral, Unanswered,
      TaskKinds, TypeOK, Rounds
<1> QED
  BY <1>1, <1>2, <1>3, <1>4, <1>5, <1>6, <1>7, <1>8, <1>9,
     <1>10, <1>11, <1>12, <1>13, <1>14, <1>15, <1>16, StepCases

(* No step closes a link under a withdrawal that holds it, and a round keeps *)
(* its kind.                                                                 *)
LEMMA InFlightStep ==
  ASSUME TypeOK, RoundsInOrder, InFlightOnTasks, [Next]_vars
  PROVE  InFlightOnTasks'
<1> USE DEF TypeOK, InFlightOnTasks, IsTask, Unanswered, TaskKinds
<1>1. CASE UNCHANGED <<created, round, request, withdrawing>>
  BY <1>1
<1>2. ASSUME NEW rec \in Round, Append(rec), UNCHANGED <<request, withdrawing>>
      PROVE  InFlightOnTasks'
  BY <1>2 DEF Append, RoundsInOrder, Rounds
<1>3. ASSUME NEW r \in Rounds, NEW lock \in BOOLEAN, AdminLock(r, lock) PROVE InFlightOnTasks'
  BY <1>3 DEF AdminLock, Rounds
<1>4. ASSUME NEW r \in Rounds, PassTime(r, "SCHEDULED", "OPEN") \/ PassTime(r, "OPEN", "LAPSED")
      PROVE  InFlightOnTasks'
  BY <1>4, PassTimeEffect DEF PassTime, Rounds
<1>5. ASSUME NEW r \in Rounds, CancelSelect(r) PROVE InFlightOnTasks'
  BY <1>5 DEF CancelSelect
<1>6. ASSUME NEW r \in Rounds, CancelRollback(r) PROVE InFlightOnTasks'
  BY <1>6 DEF CancelRollback
<1>7. ASSUME NEW r \in Rounds, CancelCommit(r) PROVE InFlightOnTasks'
  BY <1>7 DEF CancelCommit, Withdrawn, Rounds
<1>8. CASE Sweep
  <2>1. \A r \in withdrawing : round'[r] = round[r]
    BY <1>8, SweepEffect
  <2>2. \A q \in Requests : request[q] # 0 => request[q] \in Rounds
    BY DEF Rounds
  <2> QED
    BY <1>8, <2>1, <2>2, SweepEffect
<1>9. ASSUME NEW q \in Requests, NEW r \in Rounds, SubmitGate(q, r) PROVE InFlightOnTasks'
  BY <1>9 DEF SubmitGate, GateOpen
<1>10. ASSUME NEW q \in Requests, NEW found \in BOOLEAN,
              NEW chosen \in {"SUCCEEDED", "NOT_SUCCEEDED"}, SubmitCommit(q, found, chosen)
       PROVE  InFlightOnTasks'
  BY <1>10 DEF SubmitCommit, HoldsLink, Reported, Rounds
<1>11. ASSUME NEW q \in Requests, SubmitConflict(q) PROVE InFlightOnTasks'
  BY <1>11 DEF SubmitConflict
<1>12. ASSUME NEW r \in Rounds, NEW window \in {"SCHEDULED", "OPEN"}, ReplaceReferral(r, window)
       PROVE  InFlightOnTasks'
  <2>1. \A s \in Rounds : round[s].kind \in TaskKinds => s # r /\ s # created'
    BY <1>12, ReplaceEffect DEF RoundsInOrder, IsNewestReferral, IsReferral, Rounds
  <2>2. \A s \in Rounds : round[s].kind \in TaskKinds => round'[s] = round[s]
    BY <1>12, <2>1, ReplaceEffect
  <2>3. \A q \in Requests : request[q] # 0 => request[q] \in Rounds
    BY DEF Rounds
  <2> QED
    BY <1>12, <2>2, <2>3, ReplaceEffect
<1>13. ASSUME NEW r \in Rounds, CancelReferral(r) PROVE InFlightOnTasks'
  BY <1>13 DEF CancelReferral, ClosedReferral, AwaitingResult, IsNewestReferral, IsReferral, Rounds
<1>14. ASSUME NEW r \in Rounds, LockReferralLink(r) PROVE InFlightOnTasks'
  BY <1>14 DEF LockReferralLink, IsReferral, Rounds
<1>15. ASSUME NEW r \in Rounds, NEW succeeded \in BOOLEAN, AgencyReport(r, succeeded)
       PROVE  InFlightOnTasks'
  BY <1>15 DEF AgencyReport, Reported, AwaitingResult, IsNewestReferral, IsReferral, Rounds
<1>16. ASSUME NEW window \in {"SCHEDULED", "OPEN"}
       PROVE  ReferralRound(window) \in Round /\ \A kind \in TaskKinds : TaskRound(kind, window) \in Round
  BY NewRoundType DEF TaskRound, ReferralRound, RowStates, LinkStates, Windows
<1>17. CASE Opening \/ Review \/ UNCHANGED vars
  BY <1>1, <1>17 DEF Opening, OpenCase, AutoOpen, OpenAs, AutoCancel, Review, ReviewClose,
                     ReviewAssist, ReviewRefer, vars
<1>18. CASE Assignment
  BY <1>2, <1>16, <1>18 DEF Assignment, AssignNew, AssignRound
<1>19. CASE Referral
  BY <1>2, <1>12, <1>13, <1>14, <1>15, <1>16, <1>19 DEF Referral, SendReferral
<1> QED
  BY <1>3, <1>4, <1>5, <1>6, <1>7, <1>8, <1>9, <1>10, <1>11, <1>17, <1>18, <1>19
  DEF Next, Clock, Opens, Lapses, Withdrawal, Reporting

(* Together, the parts of the invariant are inductive. *)
LEMMA NextInvariant == IInv /\ [Next]_vars => IInv'
BY TypeStep, RoundsInOrderStep, InFlightStep, ReferralFollowsReviewStep, LiveStep, ResolvedStep,
   ReviewStep, InProgressStep, AwaitsStep, ReportedStep DEF IInv

(* A decided referral is no longer the one the case waits for. *)
LEMMA DecidedReferralStep ==
  ASSUME IInv, [Next]_vars
  PROVE  DecidedReferralsKept
<1> USE DEF IInv
<1>1. ASSUME NEW r \in Rounds, IsNewestReferral(r), status = "AWAITING_REFERRAL_OUTCOME"
      PROVE  r = created /\ round[r].row = "REFERRED"
  <2>1. created \in Rounds /\ IsReferral(created) /\ round[created].row = "REFERRED"
    BY <1>1 DEF AwaitsNewestReferral
  <2>2. created <= r /\ r <= created
    BY <1>1, <2>1 DEF IsNewestReferral, IsReferral, RoundsInOrder, TypeOK, Rounds
  <2> QED
    BY <2>1, <2>2 DEF TypeOK, Rounds
<1>2. CASE Quiet
  BY <1>2 DEF Quiet, DecidedReferralsKept
<1>3. ASSUME NEW auto \in BOOLEAN, OpenAs(auto) PROVE DecidedReferralsKept
  BY <1>3 DEF OpenAs, DecidedReferralsKept, IsTask, IsReferral, Unanswered, TaskKinds,
      TypeOK, Rounds
<1>4. CASE AutoCancel
  BY <1>4 DEF AutoCancel, DecidedReferralsKept, IsTask, IsReferral, Unanswered, TaskKinds,
      TypeOK, Rounds
<1>5. ASSUME NEW kind \in TaskKinds, NEW window \in {"SCHEDULED", "OPEN"},
             AssignNew(kind, window)
      PROVE  DecidedReferralsKept
  <2>1. created + 1 \in Rounds => ~IsReferral(created + 1)
    BY DEF RoundsInOrder, IsReferral, TypeOK, Rounds
  <2> QED
    BY <1>5, <2>1 DEF AssignNew, Append, DecidedReferralsKept, IsReferral, TypeOK
<1>6. ASSUME NEW kind \in TaskKinds, NEW window \in {"SCHEDULED", "OPEN"},
             AssignRound(kind, window)
      PROVE  DecidedReferralsKept
  <2>1. created + 1 \in Rounds => ~IsReferral(created + 1)
    BY DEF RoundsInOrder, IsReferral, TypeOK, Rounds
  <2> QED
    BY <1>6, <2>1 DEF AssignRound, Append, DecidedReferralsKept, IsReferral, TypeOK
<1>7. ASSUME NEW r \in Rounds, NEW lock \in BOOLEAN, AdminLock(r, lock)
      PROVE  DecidedReferralsKept
  BY <1>7 DEF AdminLock, caseVars, DecidedReferralsKept, IsTask, IsReferral, Unanswered,
      TaskKinds, TypeOK, Rounds
<1>8. ASSUME NEW r \in Rounds, PassTime(r, "SCHEDULED", "OPEN") \/ PassTime(r, "OPEN", "LAPSED")
      PROVE  DecidedReferralsKept
  BY <1>8, PassTimeEffect DEF DecidedReferralsKept, IsTask, IsReferral, Unanswered, TaskKinds,
      TypeOK, Rounds
<1>9. ASSUME NEW r \in Rounds, CancelCommit(r) PROVE DecidedReferralsKept
  <2>1. ~IsReferral(r)
    BY <1>9 DEF CancelCommit, InFlightOnTasks, Unanswered, IsTask, IsReferral, TaskKinds
  <2> QED
    BY <1>9, <2>1 DEF CancelCommit, DecidedReferralsKept, IsReferral, TypeOK
<1>10. CASE Sweep
  BY <1>10 DEF Sweep, Expired, Lapsed, Unanswered, DecidedReferralsKept, IsTask, IsReferral,
      TaskKinds, TypeOK
<1>11. ASSUME NEW q \in Requests, NEW found \in BOOLEAN,
             NEW chosen \in {"SUCCEEDED", "NOT_SUCCEEDED"}, SubmitCommit(q, found, chosen)
      PROVE  DecidedReferralsKept
  <2>1. ~IsReferral(request[q])
    BY <1>11 DEF SubmitCommit, InFlightOnTasks, IsTask, IsReferral, TaskKinds
  <2> QED
    BY <1>11, <2>1 DEF SubmitCommit, DecidedReferralsKept, IsReferral, TypeOK
<1>12. CASE Review
  BY <1>12 DEF Review, ReviewClose, ReviewAssist, ReviewRefer, DecidedReferralsKept, IsTask,
      IsReferral, Unanswered, TaskKinds, TypeOK, Rounds
<1>13. ASSUME NEW window \in {"SCHEDULED", "OPEN"}, SendReferral(window)
      PROVE  DecidedReferralsKept
  <2>1. created + 1 \in Rounds => ~IsReferral(created + 1)
    BY DEF RoundsInOrder, IsReferral, TypeOK, Rounds
  <2> QED
    BY <1>13, <2>1 DEF SendReferral, Append, DecidedReferralsKept, IsReferral, TypeOK
<1>14. ASSUME NEW r \in Rounds, NEW window \in {"SCHEDULED", "OPEN"},
             ReplaceReferral(r, window)
      PROVE  DecidedReferralsKept
  <2>1. r = created /\ round[r].row = "REFERRED"
    BY <1>14, <1>1, ReplaceEffect
  <2>2. created' # created /\ ~IsReferral(created')
    BY <1>14, ReplaceEffect DEF RoundsInOrder, IsReferral, TypeOK, Rounds
  <2> QED
    BY <1>14, <2>1, <2>2, ReplaceEffect DEF DecidedReferralsKept
<1>15. ASSUME NEW r \in Rounds, CancelReferral(r) PROVE DecidedReferralsKept
  <2>1. r = created /\ round[r].row = "REFERRED"
    BY <1>15, <1>1 DEF CancelReferral, AwaitingResult
  <2> QED
    BY <1>15, <2>1 DEF CancelReferral, DecidedReferralsKept, TypeOK
<1>16. ASSUME NEW r \in Rounds, LockReferralLink(r) PROVE DecidedReferralsKept
  BY <1>16 DEF LockReferralLink, caseVars, DecidedReferralsKept, IsTask, IsReferral,
      Unanswered, TaskKinds, TypeOK, Rounds
<1>17. ASSUME NEW r \in Rounds, NEW succeeded \in BOOLEAN, AgencyReport(r, succeeded)
      PROVE  DecidedReferralsKept
  <2>1. r = created /\ round[r].row = "REFERRED"
    BY <1>17, <1>1 DEF AgencyReport, AwaitingResult
  <2> QED
    BY <1>17, <2>1 DEF AgencyReport, DecidedReferralsKept, TypeOK
<1> QED
  BY <1>2, <1>3, <1>4, <1>5, <1>6, <1>7, <1>8, <1>9, <1>10,
     <1>11, <1>12, <1>13, <1>14, <1>15, <1>16, <1>17, StepCases

(* A closed link stays so when a dropped case stays dropped and no task link *)
(* comes back to life.                                                       *)
TasksStayDead == \A s \in Rounds : IsTask(s) /\ Live(s)' => Live(s)

LEMMA DeadStayClosed ==
  ASSUME TasksStayDead, status = "TOMBSTONED" => status' = "TOMBSTONED"
  PROVE  ClosedLinksKept
BY DEF TasksStayDead, ClosedLinksKept, LineLink

LEMMA AppendKeepsTasks ==
  ASSUME IInv, created + 1 \in Rounds, \A s \in Rounds \ {created + 1} : round'[s] = round[s]
  PROVE  TasksStayDead
<1>1. ~IsTask(created + 1)
  BY DEF IInv, TypeOK, RoundsInOrder, IsTask, TaskKinds, Rounds
<1> QED
  BY <1>1 DEF TasksStayDead, Live, IsTask

LEMMA ClosedLinkStep ==
  ASSUME IInv, [Next]_vars
  PROVE  ClosedLinksKept
<1> USE DEF IInv
<1>0. round \in [Rounds -> Round] /\ created \in Nat
  BY DEF TypeOK
<1>1. ASSUME \A s \in Rounds : /\ round'[s].kind = round[s].kind
                               /\ round'[s].link = "ACTIVE" => round[s].link = "ACTIVE"
                               /\ round'[s].window # "LAPSED" => round[s].window # "LAPSED"
      PROVE  TasksStayDead
  BY <1>1 DEF TasksStayDead, Live, IsTask
<1>2. CASE Quiet
  BY <1>1, <1>2, DeadStayClosed DEF Quiet
<1>3. ASSUME NEW auto \in BOOLEAN, OpenAs(auto) PROVE ClosedLinksKept
  BY <1>1, <1>3, DeadStayClosed DEF OpenAs
<1>4. CASE AutoCancel
  BY <1>1, <1>4, DeadStayClosed DEF AutoCancel
<1>5. ASSUME NEW kind \in TaskKinds, NEW window \in {"SCHEDULED", "OPEN"},
             AssignNew(kind, window)
      PROVE  ClosedLinksKept
  <2>1. created + 1 \in Rounds /\ round' = [round EXCEPT ![created + 1] = TaskRound(kind, window)]
    BY <1>5, BoundAssumption DEF AssignNew, Append, TypeOK, Rounds
  <2> QED
    BY <1>0, <1>5, <2>1, AppendKeepsTasks, DeadStayClosed DEF AssignNew
<1>6. ASSUME NEW kind \in TaskKinds, NEW window \in {"SCHEDULED", "OPEN"},
             AssignRound(kind, window)
      PROVE  ClosedLinksKept
  <2>1. created + 1 \in Rounds /\ round' = [round EXCEPT ![created + 1] = TaskRound(kind, window)]
    BY <1>6, BoundAssumption DEF AssignRound, Append, TypeOK, Rounds
  <2> QED
    BY <1>0, <1>6, <2>1, AppendKeepsTasks, DeadStayClosed DEF AssignRound, MayAssign
<1>7. ASSUME NEW r \in Rounds, NEW lock \in BOOLEAN, AdminLock(r, lock)
      PROVE  ClosedLinksKept
  BY <1>0, <1>1, <1>7, DeadStayClosed DEF AdminLock, caseVars, Round
<1>8. ASSUME NEW r \in Rounds, PassTime(r, "SCHEDULED", "OPEN") \/ PassTime(r, "OPEN", "LAPSED")
      PROVE  ClosedLinksKept
  BY <1>1, <1>8, PassTimeEffect, DeadStayClosed
<1>9. ASSUME NEW r \in Rounds, CancelCommit(r) PROVE ClosedLinksKept
  BY <1>0, <1>1, <1>9, DeadStayClosed DEF CancelCommit, Withdrawn, Round
<1>10. CASE Sweep
  <2>1. TasksStayDead
    BY <1>10, SweepEffect DEF TasksStayDead, Live, IsTask
  <2> QED
    BY <1>10, <2>1, SweepEffect, DeadStayClosed
<1>11. ASSUME NEW q \in Requests, NEW found \in BOOLEAN,
             NEW chosen \in {"SUCCEEDED", "NOT_SUCCEEDED"}, SubmitCommit(q, found, chosen)
      PROVE  ClosedLinksKept
  <2>1. \A s \in Rounds : round'[s] = round[s] \/ round'[s].link = "COMPLETED"
    BY <1>0, <1>11 DEF SubmitCommit, Reported, Round
  <2>2. TasksStayDead
    BY <2>1 DEF TasksStayDead, Live, IsTask
  <2> QED
    BY <1>11, <2>2, DeadStayClosed DEF SubmitCommit, Reportable
<1>12. CASE Review
  BY <1>1, <1>12, DeadStayClosed
     DEF Review, ReviewClose, ReviewAssist, ReviewRefer, Reviewable
<1>13. ASSUME NEW window \in {"SCHEDULED", "OPEN"}, SendReferral(window)
      PROVE  ClosedLinksKept
  <2>1. created + 1 \in Rounds /\ round' = [round EXCEPT ![created + 1] = ReferralRound(window)]
    BY <1>13, BoundAssumption DEF SendReferral, Append, TypeOK, Rounds
  <2> QED
    BY <1>0, <1>13, <2>1, AppendKeepsTasks, DeadStayClosed DEF SendReferral
<1>14. ASSUME NEW r \in Rounds, NEW window \in {"SCHEDULED", "OPEN"},
             ReplaceReferral(r, window)
      PROVE  ClosedLinksKept
  <2>1. /\ created' = created + 1 /\ created' \in Rounds /\ status' = status
        /\ IsReferral(r) /\ \A s \in Rounds \ {r, created'} : round'[s] = round[s]
    BY <1>14, ReplaceEffect DEF IsNewestReferral
  <2>2. ~IsTask(created') /\ ~IsTask(r)
    BY <2>1 DEF RoundsInOrder, IsTask, IsReferral, TaskKinds, TypeOK, Rounds
  <2>3. TasksStayDead
    BY <2>1, <2>2 DEF TasksStayDead, Live, IsTask
  <2> QED
    BY <2>1, <2>3, DeadStayClosed
<1>15. ASSUME NEW r \in Rounds, CancelReferral(r) PROVE ClosedLinksKept
  BY <1>0, <1>1, <1>15, DeadStayClosed DEF CancelReferral, AwaitingResult, ClosedReferral, Round
<1>16. ASSUME NEW r \in Rounds, LockReferralLink(r) PROVE ClosedLinksKept
  BY <1>0, <1>1, <1>16, DeadStayClosed DEF LockReferralLink, caseVars, Round
<1>17. ASSUME NEW r \in Rounds, NEW succeeded \in BOOLEAN, AgencyReport(r, succeeded)
      PROVE  ClosedLinksKept
  <2>1. \A s \in Rounds : round'[s] = round[s] \/ round'[s].link = "USED"
    BY <1>0, <1>17 DEF AgencyReport, Reported, Round
  <2>2. TasksStayDead
    BY <2>1 DEF TasksStayDead, Live, IsTask
  <2> QED
    BY <1>17, <2>2, DeadStayClosed DEF AgencyReport, AwaitingResult
<1> QED
  BY <1>2, <1>3, <1>4, <1>5, <1>6, <1>7, <1>8, <1>9, <1>10,
     <1>11, <1>12, <1>13, <1>14, <1>15, <1>16, <1>17, StepCases

(* No step leaves RESOLVED or TOMBSTONED: a withdrawal under way does not ask *)
(* for the status, but cannot commit on a closed case.                        *)
LEMMA ClosedCaseStep ==
  ASSUME [Next]_vars
  PROVE  ClosedCasesKept
<1> SUFFICES ASSUME status \in {"RESOLVED", "TOMBSTONED"}
             PROVE  status' = status
  BY DEF ClosedCasesKept
<1>1. ASSUME NEW r \in Rounds, CancelCommit(r) PROVE status' = status
  BY <1>1 DEF CancelCommit
<1>2. ASSUME NEW q \in Requests, NEW found \in BOOLEAN,
             NEW chosen \in {"SUCCEEDED", "NOT_SUCCEEDED"}, SubmitCommit(q, found, chosen)
      PROVE  FALSE
  BY <1>2 DEF SubmitCommit, Reportable
<1>3. CASE Review
  BY <1>3 DEF Review, ReviewClose, ReviewAssist, ReviewRefer, Reviewable
<1>4. ASSUME NEW kind \in TaskKinds, NEW window \in {"SCHEDULED", "OPEN"},
             AssignNew(kind, window) \/ AssignRound(kind, window)
      PROVE  FALSE
  BY <1>4 DEF AssignNew, AssignRound, MayAssign
<1>5. CASE Sweep
  BY <1>5 DEF Sweep
<1>6. ASSUME NEW r \in Rounds, PassTime(r, "SCHEDULED", "OPEN") \/ PassTime(r, "OPEN", "LAPSED")
      PROVE  status' = status
  BY <1>6 DEF PassTime, caseVars
<1>7. ASSUME NEW r \in Rounds, NEW window \in {"SCHEDULED", "OPEN"},
             ReplaceReferral(r, window)
      PROVE  FALSE
  BY <1>7 DEF ReplaceReferral, Replaceable
<1>8. ASSUME NEW r \in Rounds, NEW succeeded \in BOOLEAN, AgencyReport(r, succeeded)
      PROVE  FALSE
  BY <1>8 DEF AgencyReport, AwaitingResult
<1>9. ASSUME NEW window \in {"SCHEDULED", "OPEN"}, SendReferral(window) PROVE FALSE
  BY <1>9 DEF SendReferral
<1>10. ASSUME NEW r \in Rounds, CancelReferral(r) PROVE FALSE
  BY <1>10 DEF CancelReferral, AwaitingResult
<1> QED
  BY <1>1, <1>2, <1>3, <1>4, <1>5, <1>6, <1>7, <1>8, <1>9, <1>10, StepCases
     DEF Quiet, OpenAs, AutoCancel, AdminLock, LockReferralLink, caseVars

LEMMA Invariance == Spec => []IInv
BY InitInvariant, NextInvariant, PTL DEF Spec

-----------------------------------------------------------------------------
(* The results. *)

(* Every variable keeps its type, however many rounds the case goes through. *)
THEOREM TypeCorrect == Spec => []TypeOK
BY TypeInit, TypeStep, PTL DEF Spec

(* Of all the rounds of a case at most one assignment can be worked on.      *)
THEOREM OneLiveAssignment == Spec => []AtMostOneLiveAssignment
<1>1. IInv => AtMostOneLiveAssignment
  BY DEF IInv
<1> QED
  BY <1>1, Invariance, PTL

(* A resolved case rests on the success of its newest round.                 *)
THEOREM ResolutionIsEarned == Spec => []ResolvedOnSuccess
<1>1. IInv => ResolvedOnSuccess
  BY DEF IInv
<1> QED
  BY <1>1, Invariance, PTL

(* No review, assistance phase or referral without a report behind it.       *)
THEOREM ReviewsRestOnReports == Spec => []ReviewHasReport
<1>1. IInv => ReviewHasReport
  BY DEF IInv
<1> QED
  BY <1>1, Invariance, PTL

(* A case IN_PROGRESS always has an open task link.                          *)
THEOREM InProgressIsWorkedOn == Spec => []InProgressHasOpenLink
<1>1. IInv => InProgressHasOpenLink
  BY DEF IInv
<1> QED
  BY <1>1, Invariance, PTL

(* A case waiting for an agency waits for its newest round.                  *)
THEOREM AwaitedReferralIsNewest == Spec => []AwaitsNewestReferral
<1>1. IInv => AwaitsNewestReferral
  BY DEF IInv
<1> QED
  BY <1>1, Invariance, PTL

(* A report is never discarded by what closes rounds.                        *)
THEOREM ReportsAreKept == Spec => []ReportedRoundStaysReported
<1>1. IInv => ReportedRoundStaysReported
  BY DEF IInv
<1> QED
  BY <1>1, Invariance, PTL

(* A decided referral never changes again.                                   *)
THEOREM ReferralsAreDecidedOnce == Spec => DecidedReferralIsFinal
<1>1. IInv /\ [Next]_vars => [DecidedReferralsKept]_vars
  BY DecidedReferralStep
<1> QED
  BY <1>1, Invariance, PTL DEF Spec, DecidedReferralIsFinal

(* A task link that is closed to the LINE delivery of its round never opens  *)
(* again: the step RoundLineDelivery takes between its two looks at the link *)
(* cannot be undone by anything the case goes through.                       *)
THEOREM ClosedLinksStayClosed == Spec => ClosedLinkStaysClosed
<1>1. IInv /\ [Next]_vars => [ClosedLinksKept]_vars
  BY ClosedLinkStep
<1> QED
  BY <1>1, Invariance, PTL DEF Spec, ClosedLinkStaysClosed

(* A closed or dropped case stays so, whatever was in flight on it.           *)
THEOREM ClosedCasesStayClosed == Spec => ClosedCaseStaysClosed
<1>1. IInv /\ [Next]_vars => [ClosedCasesKept]_vars
  BY ClosedCaseStep
<1> QED
  BY <1>1, Invariance, PTL DEF Spec, ClosedCaseStaysClosed

-----------------------------------------------------------------------------
(***************************************************************************)
(* The follow-up of a case implements its lifecycle: each of its steps,    *)
(* taken in a state of the inductive invariant, is a step of the lifecycle *)
(* under the refinement mapping, or changes nothing the lifecycle sees.    *)
(***************************************************************************)

(* What the lifecycle sees of a state. *)
View == <<StageOf[status], reports, reviews, NewestOutcome>>

LEMMA QuietView == Quiet => UNCHANGED View
BY DEF Quiet, View, NewestOutcome

(* A round other than the newest, or one whose outcome stays, is not seen.   *)
LEMMA OutcomeKept ==
  ASSUME UNCHANGED created,
         \A s \in Rounds : round'[s].outcome = round[s].outcome
  PROVE  UNCHANGED NewestOutcome
BY DEF NewestOutcome, Rounds

(* A new round starts without an outcome.                                    *)
LEMMA AppendedOutcome ==
  ASSUME TypeOK, NEW rec \in Round, rec.outcome = "NONE", Append(rec)
  PROVE  NewestOutcome' = "NONE"
<1>1. created' = created + 1 /\ created' \in Rounds
  BY BoundAssumption DEF Append, TypeOK, Rounds
<1>2. round'[created'] = rec
  BY <1>1 DEF Append, TypeOK
<1> QED
  BY <1>1, <1>2 DEF NewestOutcome, Rounds

LEMMA NewRoundOutcomes ==
  ASSUME NEW window \in {"SCHEDULED", "OPEN"}
  PROVE  /\ \A kind \in TaskKinds : /\ TaskRound(kind, window) \in Round
                                    /\ TaskRound(kind, window).outcome = "NONE"
         /\ ReferralRound(window) \in Round
         /\ ReferralRound(window).outcome = "NONE"
BY DEF TaskRound, ReferralRound, NewRound, Round, TaskKinds, RowStates, LinkStates, Windows,
       Outcomes

LEMMA LifecycleInit == Init => Lifecycle!Init
<1> SUFFICES ASSUME Init PROVE Lifecycle!Init
  OBVIOUS
<1>1. StageOf[status] = "NONE"
  BY DEF Init, StageOf, Statuses
<1>2. NewestOutcome = "NONE"
  BY DEF Init, NewestOutcome, Rounds
<1> QED
  BY <1>1, <1>2 DEF Lifecycle!Init, Init

(* Steps that neither report nor decide.                                     *)
LEMMA AssignmentLifecycle ==
  ASSUME IInv, NEW kind \in TaskKinds, NEW window \in {"SCHEDULED", "OPEN"},
         AssignNew(kind, window) \/ AssignRound(kind, window)
  PROVE  Lifecycle!Next
<1>1. /\ Append(TaskRound(kind, window)) /\ status' = "IN_PROGRESS"
      /\ UNCHANGED <<reports, reviews>>
  BY DEF AssignNew, AssignRound
<1>2. NewestOutcome' = "NONE"
  BY <1>1, NewRoundOutcomes, AppendedOutcome DEF IInv
<1>3. StageOf[status]' = "SCHOOL"
  BY <1>1 DEF StageOf, Statuses
<1>4. CASE AssignNew(kind, window)
  <2>1. StageOf[status] = "NONE"
    BY <1>4 DEF AssignNew, StageOf, Statuses
  <2>2. NewestOutcome = "NONE"
    BY <1>4 DEF AssignNew, IInv, RoundsInOrder, NewestOutcome, Rounds
  <2> QED
    BY <1>1, <1>2, <1>3, <2>1, <2>2 DEF Lifecycle!Next, Lifecycle!Open
<1>5. CASE AssignRound(kind, window)
  <2>1. StageOf[status] \in {"SCHOOL", "DECISION"}
    BY <1>5 DEF AssignRound, MayAssign, StageOf, Statuses
  <2> QED
    BY <1>1, <1>2, <1>3, <2>1 DEF Lifecycle!Next, Lifecycle!Assign
<1> QED
  BY <1>4, <1>5

(* A withdrawal and the sweep hand the case back and touch no outcome.       *)
LEMMA HandBackLifecycle ==
  ASSUME IInv, (\E r \in Rounds : CancelCommit(r)) \/ Sweep
  PROVE  Lifecycle!Next \/ UNCHANGED View
<1>1. TypeOK /\ UNCHANGED <<created, reports, reviews>>
  BY SweepEffect DEF IInv, CancelCommit
<1>2. \A s \in Rounds : round'[s].outcome = round[s].outcome
  <2>1. CASE Sweep
    BY <2>1, <1>1, SweepEffect
  <2>2. ASSUME NEW r \in Rounds, CancelCommit(r)
        PROVE  \A s \in Rounds : round'[s].outcome = round[s].outcome
    BY <2>2, <1>1 DEF CancelCommit, Withdrawn, TypeOK, Round
  <2> QED
    BY <2>1, <2>2
<1>3. UNCHANGED NewestOutcome
  BY <1>1, <1>2, OutcomeKept
<1>4. \/ UNCHANGED status
      \/ status' = "OPEN" /\ status \notin {"RESOLVED", "TOMBSTONED"}
  BY <1>1, SweepEffect DEF CancelCommit
<1>5. CASE UNCHANGED status
  BY <1>1, <1>3, <1>5 DEF View
<1>6. CASE status' = "OPEN" /\ status \notin {"RESOLVED", "TOMBSTONED"}
  <2>1. StageOf[status]' = "SCHOOL"
    BY <1>6 DEF StageOf, Statuses
  <2>2. StageOf[status] \in {"NONE", "SCHOOL", "DECISION", "AGENCY"}
    BY <1>1, <1>6 DEF TypeOK, StageOf, Statuses
  <2> QED
    BY <1>1, <1>3, <2>1, <2>2 DEF View, Lifecycle!Next, Lifecycle!Open, Lifecycle!HandBack
<1> QED
  BY <1>4, <1>5, <1>6

(* A report, from the school or from the agency.                             *)
LEMMA ReportLifecycle ==
  ASSUME IInv, NEW q \in Requests, NEW found \in BOOLEAN,
         NEW chosen \in {"SUCCEEDED", "NOT_SUCCEEDED"}, SubmitCommit(q, found, chosen)
  PROVE  Lifecycle!Next
<1>1. TypeOK /\ request[q] \in Rounds /\ round[request[q]] \in Round
  BY DEF IInv, SubmitCommit, TypeOK, Rounds
<1>2. /\ reports' = reports + 1 /\ UNCHANGED <<created, reviews>>
      /\ status \in Reportable /\ status' \in {"PENDING_REVIEW", "STUDENT_NOT_FOUND"}
  BY DEF SubmitCommit
<1>3. \A s \in Rounds : \/ round'[s].outcome = round[s].outcome
                        \/ round'[s].outcome \in {"SUCCEEDED", "NOT_SUCCEEDED"}
  <2>1. ReportOutcome(round[request[q]].kind, found, chosen) \in {"SUCCEEDED", "NOT_SUCCEEDED"}
    BY DEF ReportOutcome
  <2>2. \A s \in Rounds \ {request[q]} : round'[s] = round[s]
    BY <1>1 DEF SubmitCommit, TypeOK
  <2>3. round'[request[q]] =
          Reported(round[request[q]], "COMPLETED", "COMPLETED",
                   ReportOutcome(round[request[q]].kind, found, chosen))
    BY <1>1 DEF SubmitCommit, TypeOK
  <2>4. round'[request[q]].outcome = ReportOutcome(round[request[q]].kind, found, chosen)
    BY <1>1, <2>3 DEF Reported, Round
  <2> QED
    BY <2>1, <2>2, <2>4
<1>4. NewestOutcome' \in {NewestOutcome} \cup {"SUCCEEDED", "NOT_SUCCEEDED"}
  BY <1>2, <1>3 DEF NewestOutcome
<1>5. StageOf[status] = "SCHOOL" /\ StageOf[status]' \in {"SCHOOL", "DECISION"}
  BY <1>2 DEF Reportable, StageOf, Statuses
<1> QED
  BY <1>2, <1>4, <1>5 DEF Lifecycle!Next, Lifecycle!Report, Lifecycle!Verdicts

LEMMA AgencyLifecycle ==
  ASSUME IInv, NEW r \in Rounds, NEW succeeded \in BOOLEAN, AgencyReport(r, succeeded)
  PROVE  Lifecycle!Next
<1>1. TypeOK /\ round[r] \in Round
  BY DEF IInv, TypeOK
<1>2. /\ reports' = reports + 1 /\ UNCHANGED <<created, reviews>>
      /\ status = "AWAITING_REFERRAL_OUTCOME"
      /\ status' \in {"PENDING_REVIEW", "REFERRAL_NOT_SUCCEEDED"}
  BY DEF AgencyReport, AwaitingResult
<1>3. r = created
  BY <1>1, <1>2 DEF AgencyReport, AwaitingResult, IsNewestReferral, IInv,
     AwaitsNewestReferral, RoundsInOrder, IsReferral, Rounds, TypeOK
<1>4. round'[r].outcome \in {"SUCCEEDED", "NOT_SUCCEEDED"}
  BY <1>1 DEF AgencyReport, Reported, TypeOK, Round
<1>5. NewestOutcome' \in {"SUCCEEDED", "NOT_SUCCEEDED"}
  BY <1>2, <1>3, <1>4 DEF NewestOutcome
<1>6. StageOf[status] = "AGENCY" /\ StageOf[status]' = "DECISION"
  BY <1>2 DEF StageOf, Statuses
<1> QED
  BY <1>2, <1>5, <1>6 DEF Lifecycle!Next, Lifecycle!AgencyReport, Lifecycle!Verdicts

LEMMA ReviewLifecycle ==
  ASSUME IInv, Review
  PROVE  Lifecycle!Next
<1>1. UNCHANGED <<created, round, reports>> /\ reviews' = reviews + 1
  BY DEF Review, ReviewClose, ReviewAssist, ReviewRefer
<1>2. UNCHANGED NewestOutcome
  BY <1>1 DEF NewestOutcome
<1>3. status \in Reviewable /\ status' \in {"RESOLVED", "OPEN", "AWAITING_REFERRAL"}
  BY DEF Review, ReviewClose, ReviewAssist, ReviewRefer, Reviewable
<1>4. StageOf[status] = "DECISION"
  BY <1>3 DEF Reviewable, StageOf, Statuses
<1>5. reviews < reports
  BY <1>3 DEF IInv, ReviewHasReport, Reviewable
<1>6. StageOf[status]' \in {"SCHOOL", "AGENCY", "CLOSED"}
  BY <1>3 DEF StageOf, Statuses
<1>7. StageOf[status]' = "CLOSED" => NewestOutcome = "SUCCEEDED"
  <2>1. ASSUME StageOf[status]' = "CLOSED" PROVE status' = "RESOLVED"
    BY <1>3, <2>1 DEF StageOf, Statuses
  <2>2. ASSUME status' = "RESOLVED" PROVE NewestOutcome = "SUCCEEDED"
    BY <2>2 DEF Review, ReviewClose, ReviewAssist, ReviewRefer, LatestSucceeded, NewestOutcome
  <2> QED
    BY <2>1, <2>2
<1> QED
  BY <1>1, <1>2, <1>4, <1>5, <1>6, <1>7 DEF Lifecycle!Next, Lifecycle!Decide

(* Referrals are sent, sent again, cancelled and locked with the agency.     *)
LEMMA ReferralLifecycle ==
  ASSUME IInv,
         \/ \E window \in {"SCHEDULED", "OPEN"} : SendReferral(window)
         \/ \E r \in Rounds, window \in {"SCHEDULED", "OPEN"} : ReplaceReferral(r, window)
         \/ \E r \in Rounds : CancelReferral(r)
         \/ \E r \in Rounds : LockReferralLink(r)
  PROVE  Lifecycle!Next \/ UNCHANGED View
<1>0. TypeOK
  BY DEF IInv
<1>1. ASSUME NEW window \in {"SCHEDULED", "OPEN"}, SendReferral(window) PROVE Lifecycle!Next
  <2>1. NewestOutcome' = "NONE"
    BY <1>0, <1>1, NewRoundOutcomes, AppendedOutcome DEF SendReferral
  <2>2. StageOf[status] = "AGENCY" /\ StageOf[status]' = "AGENCY"
    BY <1>1 DEF SendReferral, StageOf, Statuses
  <2> QED
    BY <1>1, <2>1, <2>2 DEF SendReferral, Lifecycle!Next, Lifecycle!Refer
<1>2. ASSUME NEW r \in Rounds, NEW window \in {"SCHEDULED", "OPEN"}, ReplaceReferral(r, window)
      PROVE  Lifecycle!Next
  <2>1. /\ created' \in Rounds /\ round'[created'] = ReferralRound(window)
        /\ UNCHANGED <<status, reports, reviews>> /\ status = "AWAITING_REFERRAL_OUTCOME"
    BY <1>0, <1>2, ReplaceEffect
  <2>2. NewestOutcome' = "NONE"
    BY <2>1, NewRoundOutcomes DEF NewestOutcome, Rounds
  <2>3. StageOf[status] = "AGENCY"
    BY <2>1 DEF StageOf, Statuses
  <2> QED
    BY <2>1, <2>2, <2>3 DEF Lifecycle!Next, Lifecycle!Refer
<1>3. ASSUME NEW r \in Rounds, CancelReferral(r) PROVE UNCHANGED View
  <2>1. \A s \in Rounds : round'[s].outcome = round[s].outcome
    BY <1>0, <1>3 DEF CancelReferral, ClosedReferral, TypeOK, Round
  <2>2. UNCHANGED NewestOutcome
    BY <1>3, <2>1, OutcomeKept DEF CancelReferral
  <2>3. UNCHANGED StageOf[status]
    BY <1>3 DEF CancelReferral, AwaitingResult, StageOf, Statuses
  <2> QED
    BY <1>3, <2>2, <2>3 DEF CancelReferral, View
<1>4. ASSUME NEW r \in Rounds, LockReferralLink(r) PROVE UNCHANGED View
  <2>1. \A s \in Rounds : round'[s].outcome = round[s].outcome
    BY <1>0, <1>4 DEF LockReferralLink, TypeOK, Round
  <2>2. UNCHANGED NewestOutcome
    BY <1>4, <2>1, OutcomeKept DEF LockReferralLink
  <2> QED
    BY <1>4, <2>2 DEF LockReferralLink, View, caseVars
<1> QED
  BY <1>1, <1>2, <1>3, <1>4

LEMMA LifecycleStep == IInv /\ [Next]_vars => [Lifecycle!Next]_(Lifecycle!vars)
<1> SUFFICES ASSUME IInv, [Next]_vars PROVE Lifecycle!Next \/ UNCHANGED View
  BY DEF Lifecycle!vars, View
<1>0. TypeOK
  BY DEF IInv
<1>1. CASE Quiet
  BY <1>1, QuietView
<1>2. ASSUME NEW auto \in BOOLEAN, OpenAs(auto) PROVE Lifecycle!Next
  <2>1. StageOf[status] = "NONE" /\ StageOf[status]' = "SCHOOL"
    BY <1>2 DEF OpenAs, StageOf, Statuses
  <2> QED
    BY <1>2, <2>1 DEF OpenAs, NewestOutcome, Lifecycle!Next, Lifecycle!Open
<1>3. CASE AutoCancel
  <2>1. StageOf[status] = "SCHOOL" /\ StageOf[status]' = "DROPPED"
    BY <1>3 DEF AutoCancel, StageOf, Statuses
  <2> QED
    BY <1>3, <2>1 DEF AutoCancel, NewestOutcome, Lifecycle!Next, Lifecycle!Drop
<1>4. ASSUME NEW kind \in TaskKinds, NEW window \in {"SCHEDULED", "OPEN"},
             AssignNew(kind, window) \/ AssignRound(kind, window)
      PROVE  Lifecycle!Next
  BY <1>4, AssignmentLifecycle
<1>5. ASSUME NEW r \in Rounds, NEW lock \in BOOLEAN, AdminLock(r, lock) PROVE UNCHANGED View
  <2>1. \A s \in Rounds : round'[s].outcome = round[s].outcome
    BY <1>0, <1>5 DEF AdminLock, TypeOK, Round
  <2> QED
    BY <1>5, <2>1, OutcomeKept DEF AdminLock, caseVars, View
<1>6. ASSUME NEW r \in Rounds, PassTime(r, "SCHEDULED", "OPEN") \/ PassTime(r, "OPEN", "LAPSED")
      PROVE  UNCHANGED View
  BY <1>0, <1>6, PassTimeEffect, OutcomeKept DEF View
<1>7. CASE (\E r \in Rounds : CancelCommit(r)) \/ Sweep
  BY <1>7, HandBackLifecycle
<1>8. ASSUME NEW q \in Requests, NEW found \in BOOLEAN,
             NEW chosen \in {"SUCCEEDED", "NOT_SUCCEEDED"}, SubmitCommit(q, found, chosen)
      PROVE  Lifecycle!Next
  BY <1>8, ReportLifecycle
<1>9. CASE Review
  BY <1>9, ReviewLifecycle
<1>10. CASE \/ \E window \in {"SCHEDULED", "OPEN"} : SendReferral(window)
            \/ \E r \in Rounds, window \in {"SCHEDULED", "OPEN"} : ReplaceReferral(r, window)
            \/ \E r \in Rounds : CancelReferral(r)
            \/ \E r \in Rounds : LockReferralLink(r)
  BY <1>10, ReferralLifecycle
<1>11. ASSUME NEW r \in Rounds, NEW succeeded \in BOOLEAN, AgencyReport(r, succeeded)
       PROVE  Lifecycle!Next
  BY <1>11, AgencyLifecycle
<1> QED
  BY <1>1, <1>2, <1>3, <1>4, <1>5, <1>6, <1>7, <1>8, <1>9, <1>10, <1>11, StepCases

(* The follow-up of a case, with its rounds, its transactions in flight and  *)
(* its jobs, implements the lifecycle its reviewers are promised.            *)
THEOREM FollowUpImplementsLifecycle == Spec => FollowsLifecycle
BY LifecycleInit, LifecycleStep, Invariance, PTL DEF Spec, Lifecycle!Spec, FollowsLifecycle

=============================================================================
