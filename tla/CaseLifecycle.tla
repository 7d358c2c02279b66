---------------------------- MODULE CaseLifecycle ----------------------------
(***************************************************************************)
(* What the follow-up of a case promises its reviewers, without rounds,    *)
(* links, windows or transactions: a case is with the school, waits for a  *)
(* decision, is with an agency, is closed or was dropped as a false alarm. *)
(* A report is filed while the school or the agency has the case; a        *)
(* decision answers one report nobody has answered; a case is closed by a  *)
(* decision taken on the success of its newest assignment.                 *)
(*                                                                         *)
(* CaseFollowUp implements this specification (its FollowsLifecycle).      *)
(***************************************************************************)
EXTENDS Naturals

VARIABLES
  stage,     \* who has the case
  filed,     \* reports filed on it
  answered,  \* decisions taken on it
  result     \* what the newest assignment came to, NONE until it is reported

vars == <<stage, filed, answered, result>>

Stages == {"NONE", "SCHOOL", "DECISION", "AGENCY", "CLOSED", "DROPPED"}
Verdicts == {"SUCCEEDED", "NOT_SUCCEEDED"}
Results == Verdicts \cup {"NONE"}

Init == stage = "NONE" /\ filed = 0 /\ answered = 0 /\ result = "NONE"

(* The case exists from now on, with or without its first assignment. *)
Open ==
  /\ stage = "NONE"
  /\ stage' = "SCHOOL"
  /\ UNCHANGED <<filed, answered, result>>

(* The school assigns a round: it has the case, also after a referral that   *)
(* did not succeed, and the newest assignment has no result yet.             *)
Assign ==
  /\ stage \in {"SCHOOL", "DECISION"}
  /\ stage' = "SCHOOL"
  /\ result' = "NONE"
  /\ UNCHANGED <<filed, answered>>

(* A referral is sent, or sent again. *)
Refer ==
  /\ stage = "AGENCY"
  /\ result' = "NONE"
  /\ UNCHANGED <<stage, filed, answered>>

(* A report from the school: it may be about an older round than the newest, *)
(* and a student who was not found leaves the case with the school.          *)
Report ==
  /\ stage = "SCHOOL"
  /\ stage' \in {"SCHOOL", "DECISION"}
  /\ result' \in {result} \cup Verdicts
  /\ filed' = filed + 1
  /\ UNCHANGED answered

(* The agency's report is about the newest referral and wants a decision. *)
AgencyReport ==
  /\ stage = "AGENCY"
  /\ stage' = "DECISION"
  /\ result' \in Verdicts
  /\ filed' = filed + 1
  /\ UNCHANGED answered

(* A decision answers a report nobody has answered. *)
Decide ==
  /\ stage = "DECISION"
  /\ answered < filed
  /\ stage' \in {"SCHOOL", "AGENCY", "CLOSED"}
  /\ stage' = "CLOSED" => result = "SUCCEEDED"
  /\ answered' = answered + 1
  /\ UNCHANGED <<filed, result>>

(* A withdrawal hands an open case back to the school, wherever it got to    *)
(* while the withdrawal was in flight: nothing that was filed or decided is  *)
(* lost, and a closed case stays closed.                                     *)
HandBack ==
  /\ stage \in {"DECISION", "AGENCY"}
  /\ stage' = "SCHOOL"
  /\ UNCHANGED <<filed, answered, result>>

(* A false alarm is dropped, for good. *)
Drop ==
  /\ stage = "SCHOOL"
  /\ stage' = "DROPPED"
  /\ UNCHANGED <<filed, answered, result>>

Next ==
  \/ Open \/ Assign \/ Refer \/ Report \/ AgencyReport
  \/ Decide \/ HandBack \/ Drop

Spec == Init /\ [][Next]_vars

=============================================================================
