---------------------------- MODULE CaseFollowUp ----------------------------
(***************************************************************************)
(* The follow-up of one case, from its opening to its close: the case row, *)
(* the rounds assigned on it (a VISIT or ASSIST task with its public link, *)
(* or a referral to an agency with its report link), the review that       *)
(* decides what comes next, and the jobs that act on them behind the       *)
(* users' backs (the lapsed-assignment sweep, the absence monitor).        *)
(*                                                                         *)
(* A database transaction is one step when it locks, before it reads, the  *)
(* case row its guards read, or is a single statement.  Two operations do  *)
(* not have that shape and take two steps:                                 *)
(*   - a report passes the gate of its link outside any transaction, and   *)
(*     commits later (SubmitGate, SubmitCommit);                           *)
(*   - a withdrawal reads the case, locks only the link, and writes both   *)
(*     afterwards (CancelSelect, CancelCommit).                            *)
(***************************************************************************)
EXTENDS Naturals, FiniteSets

CONSTANTS MaxRounds,    \* bound: rounds ever created on the case
          Requests      \* report submissions that may be in flight at once

ASSUME BoundAssumption == MaxRounds \in Nat \ {0}

VARIABLES
  status,        \* cases.status; NONE before the row exists, TOMBSTONED once deleted_at is set
  phase,         \* cases.workflow_phase_code
  autoOpened,    \* the row was inserted by the absence monitor (created_by IS NULL)
  referReviewed, \* a REFER_AGENCY row exists in case_reviews
  created,       \* rounds created so far; round `created` is the newest
  round,         \* the rounds: tasks + task_links, case_referrals + case_referral_links
  request,       \* per submission in flight, the round whose gate it passed (0: idle)
  withdrawing,   \* links locked by a withdrawal between its SELECT and its COMMIT
  reports,       \* history: reports recorded on the case
  reviews        \* history: rows of case_reviews

caseVars == <<status, phase, autoOpened, referReviewed>>
vars == <<status, phase, autoOpened, referReviewed, created, round, request,
          withdrawing, reports, reviews>>

-----------------------------------------------------------------------------
(* The data. *)

TaskKinds == {"VISIT", "ASSIST"}
Phases == {"FOLLOW_UP", "ASSISTANCE"}
Statuses == {"NONE", "OPEN", "IN_PROGRESS", "PENDING_REVIEW", "STUDENT_NOT_FOUND",
             "AWAITING_REFERRAL", "AWAITING_REFERRAL_OUTCOME",
             "REFERRAL_NOT_SUCCEEDED", "RESOLVED", "TOMBSTONED"}

(* Where the clock stands in a link's life: before opens_at / starts_at,     *)
(* usable, or at or past expires_at.                                         *)
Windows == {"SCHEDULED", "OPEN", "LAPSED"}
Outcomes == {"NONE", "SUCCEEDED", "NOT_SUCCEEDED"}
RowStates == {"NONE", "IN_PROGRESS", "COMPLETED", "CANCELLED", "EXPIRED",
              "REFERRED", "NOT_SUCCEEDED"}
LinkStates == {"NONE", "ACTIVE", "COMPLETED", "CANCELLED", "EXPIRED",
               "USED", "REVOKED", "LOCKED"}

Rounds == 1 .. MaxRounds

Round == [kind : TaskKinds \cup {"NONE", "REFERRAL"}, row : RowStates, link : LinkStates,
          window : Windows, locked : BOOLEAN, reports : Nat, outcome : Outcomes]

NewRound(kind, row, link, window) ==
  [kind |-> kind, row |-> row, link |-> link, window |-> window,
   locked |-> FALSE, reports |-> 0, outcome |-> "NONE"]

NoRound == NewRound("NONE", "NONE", "NONE", "LAPSED")
TaskRound(kind, window) == NewRound(kind, "IN_PROGRESS", "ACTIVE", window)
ReferralRound(window) == NewRound("REFERRAL", "REFERRED", "ACTIVE", window)

IsTask(r) == round[r].kind \in TaskKinds
IsReferral(r) == round[r].kind = "REFERRAL"

(* An assignment somebody can still work on (has_live_assignment). *)
Live(r) == IsTask(r) /\ round[r].link = "ACTIVE" /\ round[r].window # "LAPSED"

(* An open link without a report: what a withdrawal or the sweep may close. *)
Unanswered(r) == IsTask(r) /\ round[r].link = "ACTIVE" /\ round[r].reports = 0

IsNewestReferral(r) ==
  /\ IsReferral(r)
  /\ \A s \in Rounds : IsReferral(s) => s <= r

RequiredPhase(kind) == IF kind = "ASSIST" THEN "ASSISTANCE" ELSE "FOLLOW_UP"

Init ==
  /\ status = "NONE"
  /\ phase = "FOLLOW_UP"
  /\ autoOpened = FALSE
  /\ referReviewed = FALSE
  /\ created = 0
  /\ round = [r \in Rounds |-> NoRound]
  /\ request = [q \in Requests |-> 0]
  /\ withdrawing = {}
  /\ reports = 0
  /\ reviews = 0

-----------------------------------------------------------------------------
(* Opening a case, and the absence monitor's withdrawal of one. *)

OpenAs(auto) ==
  /\ status = "NONE"
  /\ status' = "OPEN"
  /\ autoOpened' = auto
  /\ UNCHANGED <<phase, referReviewed, created, round, request, withdrawing, reports, reviews>>

(* A member of staff opens the case by hand. *)
OpenCase == OpenAs(FALSE)

(* The absence monitor opens it: the threshold of absent days is reached. *)
AutoOpen == OpenAs(TRUE)

(* The monitor finds the student no longer absent, and tombstones the case   *)
(* it opened while that case is OPEN.                                        *)
AutoCancel ==
  /\ autoOpened
  /\ status = "OPEN"
  /\ status' = "TOMBSTONED"
  /\ UNCHANGED <<phase, autoOpened, referReviewed, created, round, request, withdrawing,
                 reports, reviews>>

-----------------------------------------------------------------------------
(* Assignment of a follow-up or assistance round (createTask). *)

Append(rec) ==
  /\ created < MaxRounds
  /\ created' = created + 1
  /\ round' = [round EXCEPT ![created + 1] = rec]

(* No case is active for the student: the assignment opens one, under the    *)
(* default phase whatever the kind of the round.                             *)
AssignNew(kind, window) ==
  /\ status = "NONE"
  /\ Append(TaskRound(kind, window))
  /\ status' = "IN_PROGRESS"
  /\ UNCHANGED <<phase, autoOpened, referReviewed, request, withdrawing, reports, reviews>>

RestartsFollowUp(kind) == status = "REFERRAL_NOT_SUCCEEDED" /\ kind = "VISIT"

MutantMayAssign(kind) ==
  /\ status \in {"OPEN", "IN_PROGRESS", "STUDENT_NOT_FOUND", "REFERRAL_NOT_SUCCEEDED"}
  /\ ~(status = "REFERRAL_NOT_SUCCEEDED" /\ kind = "ASSIST")
  /\ phase = RequiredPhase(kind) \/ RestartsFollowUp(kind)

MayAssign(kind) ==
  /\ status \in {"OPEN", "IN_PROGRESS", "STUDENT_NOT_FOUND", "REFERRAL_NOT_SUCCEEDED"}
  /\ ~(status = "REFERRAL_NOT_SUCCEEDED" /\ kind = "ASSIST")
  /\ phase = RequiredPhase(kind) \/ RestartsFollowUp(kind)
  /\ \A r \in Rounds : ~Live(r)

AssignRound(kind, window) ==
  /\ MayAssign(kind)
  /\ Append(TaskRound(kind, window))
  /\ status' = "IN_PROGRESS"
  /\ phase' = IF RestartsFollowUp(kind) THEN "FOLLOW_UP" ELSE phase
  /\ UNCHANGED <<autoOpened, referReviewed, request, withdrawing, reports, reviews>>

-----------------------------------------------------------------------------
(* What happens to a task link without a report: an administrator disables   *)
(* or enables it, its window opens and closes, the assignment is withdrawn,  *)
(* the sweep expires it.                                                     *)

(* adminLockLink waits for a withdrawal that holds the link's row.  Its own  *)
(* read of the status comes first; a lock that lands on a link closed in     *)
(* between changes nothing anybody reads.                                    *)
AdminLock(r, lock) ==
  /\ IsTask(r)
  /\ round[r].link = "ACTIVE"
  /\ r \notin withdrawing
  /\ round[r].locked # lock
  /\ round' = [round EXCEPT ![r].locked = lock]
  /\ UNCHANGED <<caseVars, created, request, withdrawing, reports, reviews>>

(* The clock; a window is followed only while its link is ACTIVE. *)
PassTime(r, from, to) ==
  /\ round[r].link = "ACTIVE"
  /\ round[r].window = from
  /\ round' = [round EXCEPT ![r].window = to]
  /\ UNCHANGED <<caseVars, created, request, withdrawing, reports, reviews>>

Opens(r) == PassTime(r, "SCHEDULED", "OPEN")
Lapses(r) == PassTime(r, "OPEN", "LAPSED")

(* The SELECT ... FOR UPDATE OF tl of a withdrawal: the newest unanswered    *)
(* round of an IN_PROGRESS case.  The case row itself is not locked.         *)
CancelSelect(r) ==
  /\ status = "IN_PROGRESS"
  /\ Unanswered(r)
  /\ \A s \in Rounds : Unanswered(s) => s <= r
  /\ r \notin withdrawing
  /\ withdrawing' = withdrawing \cup {r}
  /\ UNCHANGED <<caseVars, created, round, request, reports, reviews>>

Withdrawn(rec) == [rec EXCEPT !.link = "CANCELLED", !.row = "CANCELLED"]

MutantCancelCommit(r) ==
  /\ r \in withdrawing
  /\ status # "RESOLVED"
  /\ withdrawing' = withdrawing \ {r}
  /\ round' = [round EXCEPT ![r] = Withdrawn(@)]
  /\ UNCHANGED <<caseVars, created, request, reports, reviews>>

(* The three UPDATEs and the COMMIT.  The last one sets the case OPEN        *)
(* without looking at its status; a tombstone stays one.  A case closed in   *)
(* the meantime keeps its completion outcome, with which the table's CHECK   *)
(* lets it be nothing but RESOLVED: that withdrawal can only roll back.      *)
CancelCommit(r) ==
  /\ r \in withdrawing
  /\ status # "RESOLVED"
  /\ withdrawing' = withdrawing \ {r}
  /\ round' = [round EXCEPT ![r] = Withdrawn(@)]
  /\ status' = IF status = "TOMBSTONED" THEN status ELSE "OPEN"
  /\ UNCHANGED <<phase, autoOpened, referReviewed, created, request, reports, reviews>>

(* A statement is refused, the connection is lost, or the process stops,     *)
(* before the COMMIT.                                                        *)
CancelRollback(r) ==
  /\ r \in withdrawing
  /\ withdrawing' = withdrawing \ {r}
  /\ UNCHANGED <<caseVars, created, round, request, reports, reviews>>

Lapsed == {r \in Rounds : Unanswered(r) /\ round[r].window = "LAPSED"}

MutantExpired(rec) == [rec EXCEPT !.link = "LAPSED", !.row = "EXPIRED"]

Expired(rec) == [rec EXCEPT !.link = "EXPIRED", !.row = "EXPIRED"]

MutantSweep ==
  /\ Lapsed # {}
  /\ Lapsed \cap withdrawing = {}
  /\ round' = [r \in Rounds |-> IF r \in Lapsed THEN Expired(round[r]) ELSE round[r]]
  /\ UNCHANGED <<caseVars, created, request, withdrawing, reports, reviews>>

(* The sweep of every ten minutes: one statement closes the lapsed links and *)
(* hands an IN_PROGRESS case back.  It waits for a link locked by a          *)
(* withdrawal.                                                               *)
Sweep ==
  /\ Lapsed # {}
  /\ Lapsed \cap withdrawing = {}
  /\ round' = [r \in Rounds |-> IF r \in Lapsed THEN Expired(round[r]) ELSE round[r]]
  /\ status' = IF status = "IN_PROGRESS" THEN "OPEN" ELSE status
  /\ UNCHANGED <<phase, autoOpened, referReviewed, created, request, withdrawing,
                 reports, reviews>>

-----------------------------------------------------------------------------
(* A report through a task link (getTaskByToken, then saveTaskSubmission). *)

GateOpen(r) ==
  /\ IsTask(r)
  /\ round[r].link \notin {"CANCELLED", "COMPLETED"}
  /\ round[r].window = "OPEN"
  /\ ~round[r].locked

SubmitGate(q, r) ==
  /\ request[q] = 0
  /\ GateOpen(r)
  /\ request' = [request EXCEPT ![q] = r]
  /\ UNCHANGED <<caseVars, created, round, withdrawing, reports, reviews>>

(* lockLiveTaskLink takes the link's row, so it waits for a withdrawal. *)
MutantHoldsLink(r) == TRUE
HoldsLink(r) == r \notin withdrawing

Reportable == {"OPEN", "IN_PROGRESS"}

(* A visit succeeds unless the student was not found; an assistance round    *)
(* carries the outcome its reporter chose.                                   *)
ReportOutcome(kind, found, chosen) ==
  IF kind = "ASSIST" THEN chosen ELSE IF found THEN "SUCCEEDED" ELSE "NOT_SUCCEEDED"

Reported(rec, row, link, outcome) ==
  [rec EXCEPT !.row = row, !.link = link, !.reports = @ + 1, !.outcome = outcome]

(* The transaction of the report.  It does not look at the link's status     *)
(* again, only at the case's.                                                *)
SubmitCommit(q, found, chosen) ==
  /\ request[q] # 0
  /\ HoldsLink(request[q])
  /\ status \in Reportable
  /\ round' = [round EXCEPT ![request[q]] =
                 Reported(@, "COMPLETED", "COMPLETED", ReportOutcome(@.kind, found, chosen))]
  /\ status' = IF found THEN "PENDING_REVIEW" ELSE "STUDENT_NOT_FOUND"
  /\ reports' = reports + 1
  /\ request' = [request EXCEPT ![q] = 0]
  /\ UNCHANGED <<phase, autoOpened, referReviewed, created, withdrawing, reviews>>

(* The case has moved on: the transaction rolls back with a conflict. *)
SubmitConflict(q) ==
  /\ request[q] # 0
  /\ HoldsLink(request[q])
  /\ status \notin Reportable
  /\ request' = [request EXCEPT ![q] = 0]
  /\ UNCHANGED <<caseVars, created, round, withdrawing, reports, reviews>>

-----------------------------------------------------------------------------
(* The review of a reported case (reviewCase). *)

MutantReviewable == {"OPEN", "PENDING_REVIEW", "REFERRAL_NOT_SUCCEEDED"}
Reviewable == {"PENDING_REVIEW", "REFERRAL_NOT_SUCCEEDED"}

MutantLatestSucceeded == \E r \in Rounds : round[r].outcome = "SUCCEEDED"
LatestSucceeded == created \in Rounds /\ round[created].outcome = "SUCCEEDED"

(* Closing asks for PENDING_REVIEW and for the newest round's success. *)
ReviewClose ==
  /\ status = "PENDING_REVIEW"
  /\ LatestSucceeded
  /\ status' = "RESOLVED"
  /\ reviews' = reviews + 1
  /\ UNCHANGED <<phase, autoOpened, referReviewed, created, round, request, withdrawing, reports>>

(* The phase an action is available in is left out: no action has one left    *)
(* since CompleteConversationalReports set that of ASSIST to NULL.            *)
ReviewAssist ==
  /\ status \in Reviewable
  /\ status' = "OPEN"
  /\ phase' = "ASSISTANCE"
  /\ reviews' = reviews + 1
  /\ UNCHANGED <<autoOpened, referReviewed, created, round, request, withdrawing, reports>>

ReviewRefer ==
  /\ status \in Reviewable
  /\ status' = "AWAITING_REFERRAL"
  /\ referReviewed' = TRUE
  /\ reviews' = reviews + 1
  /\ UNCHANGED <<phase, autoOpened, created, round, request, withdrawing, reports>>

-----------------------------------------------------------------------------
(* The referral to an agency (referral-link service). *)

(* closeUnansweredReferral: an open link is revoked, a locked one stays so. *)
ClosedReferral(rec) ==
  [rec EXCEPT !.row = "CANCELLED", !.link = IF @ = "ACTIVE" THEN "REVOKED" ELSE @]

SendReferral(window) ==
  /\ status = "AWAITING_REFERRAL"
  /\ referReviewed
  /\ Append(ReferralRound(window))
  /\ status' = "AWAITING_REFERRAL_OUTCOME"
  /\ UNCHANGED <<phase, autoOpened, referReviewed, request, withdrawing, reports, reviews>>

(* The newest referral never got a result and its link is locked or lapsed. *)
Replaceable(r) ==
  /\ status = "AWAITING_REFERRAL_OUTCOME"
  /\ IsNewestReferral(r)
  /\ round[r].reports = 0
  /\ \/ round[r].link = "LOCKED"
     \/ round[r].link = "ACTIVE" /\ round[r].window = "LAPSED"

ReplaceReferral(r, window) ==
  /\ Replaceable(r)
  /\ referReviewed
  /\ created < MaxRounds
  /\ created' = created + 1
  /\ round' = [round EXCEPT ![r] = ClosedReferral(@), ![created + 1] = ReferralRound(window)]
  /\ UNCHANGED <<caseVars, request, withdrawing, reports, reviews>>

MutantAwaitingResult(r) ==
  /\ IsReferral(r)
  /\ status = "AWAITING_REFERRAL_OUTCOME"

(* A referral takes a result, or is withdrawn, only while it is the newest   *)
(* of a case waiting for it and has none.                                    *)
AwaitingResult(r) ==
  /\ IsNewestReferral(r)
  /\ round[r].reports = 0
  /\ status = "AWAITING_REFERRAL_OUTCOME"

MutantCancelReferral(r) ==
  /\ AwaitingResult(r)
  /\ round' = [round EXCEPT ![r] = ClosedReferral(@)]
  /\ UNCHANGED <<caseVars, created, request, withdrawing, reports, reviews>>

CancelReferral(r) ==
  /\ AwaitingResult(r)
  /\ round' = [round EXCEPT ![r] = ClosedReferral(@)]
  /\ status' = "AWAITING_REFERRAL"
  /\ UNCHANGED <<phase, autoOpened, referReviewed, created, request, withdrawing,
                 reports, reviews>>

(* The last allowed wrong access code locks the report link.  The code is    *)
(* entered while the window is open, and counted by a statement that looks   *)
(* only at the link's status: the window may have closed in between.         *)
LockReferralLink(r) ==
  /\ IsReferral(r)
  /\ round[r].link = "ACTIVE"
  /\ round[r].window # "SCHEDULED"
  /\ round' = [round EXCEPT ![r].link = "LOCKED"]
  /\ UNCHANGED <<caseVars, created, request, withdrawing, reports, reviews>>

(* The agency files its result through the link.  submitReport's own reads   *)
(* are repeated under the locks of case, referral and link, so one step.     *)
AgencyReport(r, succeeded) ==
  /\ AwaitingResult(r)
  /\ round[r].link = "ACTIVE"
  /\ round[r].window = "OPEN"
  /\ round' = [round EXCEPT ![r] =
                 IF succeeded THEN Reported(@, "COMPLETED", "USED", "SUCCEEDED")
                              ELSE Reported(@, "NOT_SUCCEEDED", "USED", "NOT_SUCCEEDED")]
  /\ status' = IF succeeded THEN "PENDING_REVIEW" ELSE "REFERRAL_NOT_SUCCEEDED"
  /\ reports' = reports + 1
  /\ UNCHANGED <<phase, autoOpened, referReviewed, created, request, withdrawing, reviews>>

-----------------------------------------------------------------------------
(* The specification. *)

Opening == OpenCase \/ AutoOpen \/ AutoCancel

Assignment ==
  \E kind \in TaskKinds, window \in {"SCHEDULED", "OPEN"} :
    AssignNew(kind, window) \/ AssignRound(kind, window)

Clock == \E r \in Rounds : Opens(r) \/ Lapses(r)

Withdrawal == \E r \in Rounds : CancelSelect(r) \/ CancelCommit(r) \/ CancelRollback(r)

Reporting ==
  \E q \in Requests :
    \/ \E r \in Rounds : SubmitGate(q, r)
    \/ \E found \in BOOLEAN, chosen \in {"SUCCEEDED", "NOT_SUCCEEDED"} :
         SubmitCommit(q, found, chosen)
    \/ SubmitConflict(q)

Review == ReviewClose \/ ReviewAssist \/ ReviewRefer

Referral ==
  \/ \E window \in {"SCHEDULED", "OPEN"} :
       SendReferral(window) \/ \E r \in Rounds : ReplaceReferral(r, window)
  \/ \E r \in Rounds :
       \/ CancelReferral(r)
       \/ LockReferralLink(r)
       \/ \E succeeded \in BOOLEAN : AgencyReport(r, succeeded)

Next ==
  \/ Opening
  \/ Assignment
  \/ \E r \in Rounds, lock \in BOOLEAN : AdminLock(r, lock)
  \/ Clock
  \/ Withdrawal
  \/ Sweep
  \/ Reporting
  \/ Review
  \/ Referral

Spec == Init /\ [][Next]_vars

(* Time passes, a transaction in flight ends, and the cron job runs: a       *)
(* sweep that meets a locked link waits in the row's queue and gets it, so   *)
(* it is strongly fair.                                                      *)
Fairness ==
  /\ \A r \in Rounds : WF_vars(Opens(r)) /\ WF_vars(Lapses(r))
  /\ \A r \in Rounds : WF_vars(CancelCommit(r) \/ CancelRollback(r))
  /\ SF_vars(Sweep)

FairSpec == Spec /\ Fairness

-----------------------------------------------------------------------------
(* What must hold. *)

(* Every variable keeps its type. *)
TypeOK ==
  /\ status \in Statuses
  /\ phase \in Phases
  /\ autoOpened \in BOOLEAN
  /\ referReviewed \in BOOLEAN
  /\ created \in 0 .. MaxRounds
  /\ round \in [Rounds -> Round]
  /\ request \in [Requests -> 0 .. MaxRounds]
  /\ withdrawing \subseteq Rounds
  /\ reports \in Nat
  /\ reviews \in Nat

(* At most one assignment of a case can be worked on: createTask refuses a   *)
(* second one while a link still works, whatever withdrawals, lapses, sweeps *)
(* and late reports came before.                                             *)
AtMostOneLiveAssignment ==
  \A r, s \in Rounds : Live(r) /\ Live(s) => r = s

(* A case is closed only on the success of its newest round, and nothing     *)
(* recorded later (a late report, another assignment) takes that away.       *)
ResolvedOnSuccess ==
  status = "RESOLVED" => created \in Rounds /\ round[created].outcome = "SUCCEEDED"

(* Every review rests on a report of its own: a case awaiting review holds a *)
(* report no review has answered yet, and an assistance phase or a referral  *)
(* is only reached through a review.                                         *)
ReviewHasReport ==
  /\ reviews <= reports
  /\ status \in {"PENDING_REVIEW", "REFERRAL_NOT_SUCCEEDED"} => reviews < reports
  /\ phase = "ASSISTANCE" \/ status = "AWAITING_REFERRAL" => reviews > 0

(* A case that reads IN_PROGRESS has a round whose link is still open: every *)
(* path that closes the last one moves the case.                             *)
InProgressHasOpenLink ==
  status = "IN_PROGRESS" => \E r \in Rounds : IsTask(r) /\ round[r].link = "ACTIVE"

(* While a case waits for an agency, its newest round is the referral the    *)
(* agency can answer: sent, without a result, and not cancelled.             *)
AwaitsNewestReferral ==
  status = "AWAITING_REFERRAL_OUTCOME" =>
    /\ created \in Rounds
    /\ IsReferral(created)
    /\ round[created].row = "REFERRED"
    /\ round[created].reports = 0

(* A report is never discarded: no withdrawal, expiry, lock or cancelled     *)
(* referral overwrites the round it was made on.                             *)
ReportedRoundStaysReported ==
  \A r \in Rounds :
    round[r].reports > 0 =>
      /\ round[r].row \in {"COMPLETED", "NOT_SUCCEEDED"}
      /\ round[r].link \in {"COMPLETED", "USED"}

(* What a step leaves of the referrals that are already decided. *)
DecidedReferralsKept ==
  \A r \in Rounds :
    IsReferral(r) /\ round[r].row # "REFERRED" =>
      /\ round'[r].row = round[r].row
      /\ round'[r].reports = round[r].reports

(* A referral is decided once: after a result or a cancellation it never     *)
(* changes again, whatever its agency or the school sends late.              *)
DecidedReferralIsFinal == [][DecidedReferralsKept]_vars

(* An assignment does not hold a case for ever: it is reported, withdrawn,   *)
(* or handed back by the sweep after its link ran out.                       *)
AssignmentEnds == status = "IN_PROGRESS" ~> status # "IN_PROGRESS"

(* "whoever still holds the URL must not be able to report on work that was  *)
(* taken back": a withdrawn round takes no report.                           *)
WithdrawnRoundTakesNoReport ==
  [][\A r \in Rounds : round[r].link = "CANCELLED" => round'[r].reports = round[r].reports]_vars

(* A case reads OPEN (waiting for an assignment) only when nobody holds a    *)
(* live assignment on it: the state the sweep sets out to make real.         *)
OpenCaseHasNoLiveAssignment ==
  status = "OPEN" => \A r \in Rounds : ~Live(r)

(* A round's link as the LINE delivery of its message finds it.               *)
LineLink(r) ==
  IF ~Live(r) \/ status = "TOMBSTONED" THEN "CLOSED"
  ELSE IF round[r].locked THEN "LOCKED" ELSE "USABLE"

ClosedLinksKept ==
  \A r \in Rounds : IsTask(r) /\ LineLink(r) = "CLOSED" => LineLink(r)' = "CLOSED"

(* What RoundLineDelivery takes for granted: a link that a send finds closed  *)
(* when it looks again is closed for good, whatever is assigned, withdrawn,   *)
(* swept, reported or reopened after it.                                      *)
ClosedLinkStaysClosed == [][ClosedLinksKept]_vars

ClosedCasesKept ==
  status \in {"RESOLVED", "TOMBSTONED"} => status' = status

(* What CaseOpening takes for granted: a closed or dropped case is gone, and  *)
(* its student can get another.  Nothing in flight when it was closed, no     *)
(* withdrawal, sweep, report or referral, opens it again.                     *)
ClosedCaseStaysClosed == [][ClosedCasesKept]_vars

(* The follow-up implements the lifecycle its reviewers are promised.        *)
StageOf == [s \in Statuses |->
  CASE s \in {"OPEN", "IN_PROGRESS", "STUDENT_NOT_FOUND"} -> "SCHOOL"
    [] s \in {"PENDING_REVIEW", "REFERRAL_NOT_SUCCEEDED"} -> "DECISION"
    [] s \in {"AWAITING_REFERRAL", "AWAITING_REFERRAL_OUTCOME"} -> "AGENCY"
    [] s = "RESOLVED" -> "CLOSED"
    [] s = "TOMBSTONED" -> "DROPPED"
    [] OTHER -> "NONE"]

NewestOutcome == IF created \in Rounds THEN round[created].outcome ELSE "NONE"

Lifecycle == INSTANCE CaseLifecycle WITH
  stage <- StageOf[status], filed <- reports, answered <- reviews, result <- NewestOutcome

(* Every step of the follow-up is a step of the lifecycle or leaves it       *)
(* alone: each decision answers a report of its own, a case is closed only   *)
(* by a decision on its newest assignment's success, and a dropped case      *)
(* stays dropped, whatever is in flight.                                     *)
FollowsLifecycle == Lifecycle!Spec

=============================================================================
