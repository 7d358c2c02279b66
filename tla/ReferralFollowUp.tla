-------------------------- MODULE ReferralFollowUp --------------------------
(***************************************************************************)
(* How the agency's way to its report (ReferralAccess) fits into the       *)
(* follow-up of the case (CaseFollowUp).  The follow-up knows of a         *)
(* referral only that it is sent, replaced, withdrawn, locked and reported *)
(* on, each in one step; here these steps are spread over requests, codes, *)
(* challenges and sessions, and every behaviour of theirs is one of the    *)
(* follow-up's, under the refinement mapping below: the case has one       *)
(* visit, reported on and then referred, and its referrals are the rounds  *)
(* after it.                                                               *)
(***************************************************************************)
EXTENDS ReferralAccess, FiniteSets

CONSTANT Helping  \* the referrals whose agency, if it reports, reports success

ASSUME HelpingAssumption == Helping \subseteq Referrals

Answered == {r \in Referrals : report[r] # NoSession}

(* cases.status; the agency's result decides what an answered case reads.    *)
StatusOf ==
  IF case # "ANSWERED" THEN case
  ELSE IF sent \in Helping THEN "PENDING_REVIEW" ELSE "REFERRAL_NOT_SUCCEEDED"

WindowOf(w) ==
  IF w = "before" THEN "SCHEDULED" ELSE IF w = "open" THEN "OPEN" ELSE "LAPSED"

RowOf(r) ==
  IF report[r] # NoSession THEN IF r \in Helping THEN "COMPLETED" ELSE "NOT_SUCCEEDED"
  ELSE IF r = sent /\ case = "AWAITING_REFERRAL_OUTCOME" THEN "REFERRED"
  ELSE "CANCELLED"

OutcomeOf(r) ==
  IF report[r] = NoSession THEN "NONE"
  ELSE IF r \in Helping THEN "SUCCEEDED" ELSE "NOT_SUCCEEDED"

ReferralRounds ==
  [r \in Referrals |->
     [kind |-> "REFERRAL", row |-> RowOf(r), link |-> link[r].status,
      window |-> WindowOf(link[r].window), locked |-> FALSE,
      reports |-> IF report[r] = NoSession THEN 0 ELSE 1, outcome |-> OutcomeOf(r)]]

Visit ==
  [kind |-> "VISIT", row |-> "COMPLETED", link |-> "COMPLETED", window |-> "OPEN",
   locked |-> FALSE, reports |-> 1, outcome |-> "SUCCEEDED"]

NotYet ==
  [kind |-> "NONE", row |-> "NONE", link |-> "NONE", window |-> "LAPSED",
   locked |-> FALSE, reports |-> 0, outcome |-> "NONE"]

RoundsOf ==
  [s \in 1 .. MaxReferrals + 1 |->
     IF s = 1 THEN Visit ELSE IF s <= sent + 1 THEN ReferralRounds[s - 1] ELSE NotYet]

(* The visit's report was answered by a referral; since then every report is *)
(* answered but the one the case waits to be reviewed for.                   *)
ReportsOf == 1 + Cardinality(Answered)
ReviewsOf == IF case = "ANSWERED" THEN Cardinality(Answered) ELSE ReportsOf

FollowUp == INSTANCE CaseFollowUp WITH
  MaxRounds <- MaxReferrals + 1, Requests <- {},
  status <- StatusOf, phase <- "FOLLOW_UP", autoOpened <- FALSE, referReviewed <- TRUE,
  created <- sent + 1, round <- RoundsOf,
  request <- [q \in {} |-> 0], withdrawing <- {},
  reports <- ReportsOf, reviews <- ReviewsOf

(* Whatever requests, codes, challenges and sessions are in flight, a case   *)
(* sees its referrals sent, replaced, withdrawn, locked, reported on and     *)
(* reviewed as its follow-up says: a report that was under way when its link *)
(* was locked, ran out or was withdrawn comes to nothing.  The follow-up     *)
(* sees the tables only: a step that leaves them alone changes nothing there.*)
FollowUpStep ==
  UNCHANGED table \/ FollowUp!Referral \/ FollowUp!ReviewRefer \/ FollowUp!Clock

ReferralsFollowTheCase == [][FollowUpStep]_(FollowUp!vars)

=============================================================================
