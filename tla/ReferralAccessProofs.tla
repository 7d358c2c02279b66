----------------------- MODULE ReferralAccessProofs -----------------------
(***************************************************************************)
(* The invariants of ReferralAccess for any number of agents, challenges,  *)
(* referrals and attempts: one inductive invariant, Access, one lemma per  *)
(* part of it, and in each lemma one step per action.  Then that it        *)
(* implements the referrals of CaseFollowUp: one lemma per action that the *)
(* tables of the case show.                                                *)
(***************************************************************************)
EXTENDS ReferralFollowUp, FiniteSetTheorems, TLAPS

(* What a challenge was used for so far: nobody approved it before it is     *)
(* APPROVED, one person did since, and only a consumed one has a session.    *)
ChallengesInOrder ==
  \A c \in Challenges :
    /\ chal[c].status \in {"NONE", "PENDING", "CLAIMED"} => approvers[c] = {}
    /\ chal[c].status \in {"APPROVED", "CONSUMED"} =>
         chal[c].reporter \in Agents /\ approvers[c] = {chal[c].reporter}
    /\ chal[c].status # "CONSUMED" => issued[c] = 0
    /\ issued[c] <= 1
    /\ \A a, b \in approvers[c] : a = b

(* s was issued, or will be, to the person who approved its challenge. *)
Earned(s) ==
  /\ s.chal \in Challenges
  /\ chal[s.chal].status = "CONSUMED"
  /\ approvers[s.chal] = {s.reporter}

(* One request at most holds a consumed challenge for which no session was   *)
(* issued yet.                                                               *)
HoldersInOrder ==
  /\ \A a \in Agents : req[a].at = "issue" =>
       Earned(req[a].session) /\ issued[req[a].session.chal] = 0
  /\ \A a, b \in Agents : req[a].at = "issue" /\ req[b].at = "issue" =>
       a = b \/ req[a].session.chal # req[b].session.chal

SessionsInOrder ==
  /\ \A s \in sessions : Earned(s)
  /\ \A a \in Agents : req[a].at = "report" =>
       /\ Earned(req[a].session)
       /\ req[a].session.link = req[a].link
       /\ req[a].session.revision = req[a].revision
  /\ \A r \in Referrals : report[r] # NoSession =>
       /\ Earned(report[r])
       /\ report[r].link = r
       /\ report[r].revision = link[r].revision

(* The referrals that were sent, and what the case says of the newest. *)
ReferralsInOrder ==
  /\ \A r \in Referrals :
       /\ link[r].status = "NONE" <=> r > sent
       /\ link[r].status = "NONE" => link[r].attempts = 0
       /\ report[r] = NoSession <=> link[r].status # "USED"
       /\ link[r].status = "ACTIVE" => r = sent /\ case = "AWAITING_REFERRAL_OUTCOME"
  /\ case = "AWAITING_REFERRAL_OUTCOME" => sent \in Referrals /\ report[sent] = NoSession
  /\ case = "ANSWERED" => sent \in Referrals

(* What a request has read is there. *)
RequestsInOrder ==
  \A a \in Agents :
    /\ req[a].at \in {"fail", "create"} => req[a].link \in Referrals
    /\ req[a].at \in {"claim", "approve", "consume"} => req[a].chal \in Challenges
    /\ req[a].at = "issue" => req[a].session \in Sessions
    /\ req[a].at = "report" => req[a].session \in Sessions

Access ==
  /\ TypeOK
  /\ RequestsInOrder
  /\ ChallengesInOrder
  /\ HoldersInOrder
  /\ SessionsInOrder
  /\ ReferralsInOrder
  /\ LockedAtTheLimit

USE DEF table, store, history

(* An entry of the stores is no absent one. *)
LEMMA SessionIsReal == \A s \in Sessions : s # NoSession
BY AccessAssumption DEF Sessions, NoSession

LEMMA AccessInit == Init => Access
<1> SUFFICES ASSUME Init PROVE Access
  OBVIOUS
<1> USE AccessAssumption DEF Init, Referrals, Idle
<1>1. TypeOK
  BY DEF TypeOK, Cases, Links, LinkStatus, Windows, ChallengeRows, ChallengeStatus,
         Requests, Steps
<1>2. ChallengesInOrder
  BY DEF ChallengesInOrder
<1>3. HoldersInOrder /\ SessionsInOrder
  BY DEF HoldersInOrder, SessionsInOrder
<1>4. ReferralsInOrder /\ LockedAtTheLimit /\ RequestsInOrder
  BY DEF ReferralsInOrder, LockedAtTheLimit, RequestsInOrder
<1> QED
  BY <1>1, <1>2, <1>3, <1>4 DEF Access

(* The rows the actions that write them leave, field by field. *)
ClosedRow(r, row) ==
  /\ row.attempts = link[r].attempts
  /\ row.revision = link[r].revision
  /\ row.window = link[r].window
  /\ row.status = IF r = sent /\ link[r].status = "ACTIVE" THEN "REVOKED" ELSE link[r].status

SendEffect(w) ==
  /\ sent' = sent + 1 /\ sent + 1 \in Referrals
  /\ case' = "AWAITING_REFERRAL_OUTCOME"
  /\ link' \in [Referrals -> Links]
  /\ \A r \in Referrals : IF r = sent + 1 THEN link'[r] = Sent(w) ELSE ClosedRow(r,
         link'[r])
  /\ UNCHANGED <<report, store, sessions, req, history>>

CancelEffect ==
  /\ case' = "AWAITING_REFERRAL"
  /\ link' \in [Referrals -> Links]
  /\ \A r \in Referrals : ClosedRow(r, link'[r])
  /\ UNCHANGED <<sent, report, store, sessions, req, history>>

WindowEffect ==
  /\ link' \in [Referrals -> Links]
  /\ \A r \in Referrals :
       /\ link'[r].attempts = link[r].attempts
       /\ link'[r].revision = link[r].revision
       /\ link'[r].status = link[r].status
  /\ UNCHANGED <<case, sent, report, store, sessions, req, history>>

ReportEffect(a) ==
  /\ req' = [req EXCEPT ![a] = Idle]
  /\ \/ UNCHANGED <<case, link, report>>
     \/ /\ req[a].at = "report" /\ req[a].link = sent /\ sent \in Referrals
        /\ case = "AWAITING_REFERRAL_OUTCOME" /\ case' = "ANSWERED"
        /\ link[sent].revision = req[a].revision
        /\ link' \in [Referrals -> Links]
        /\ report' = [report EXCEPT ![sent] = req[a].session]
        /\ \A r \in Referrals :
             /\ link'[r].attempts = link[r].attempts
             /\ link'[r].revision = link[r].revision
             /\ link'[r].window = link[r].window
             /\ link'[r].status = IF r = sent THEN "USED" ELSE link[r].status
        /\ link[sent].status = "ACTIVE" /\ req[a].session # NoSession
  /\ UNCHANGED <<sent, store, sessions, history>>

CountEffect(a) ==
  /\ req' = [req EXCEPT ![a] = Idle]
  /\ link' \in [Referrals -> Links]
  /\ \A r \in Referrals :
       \/ link'[r] = link[r]
       \/ /\ link[r].status = "ACTIVE"
          /\ link'[r].attempts = link[r].attempts + 1
          /\ link'[r].revision = link[r].revision
          /\ link'[r].window = link[r].window
          /\ \/ link[r].attempts + 1 >= MaxAttempts /\ link'[r].status = "LOCKED"
             \/ link[r].attempts + 1 < MaxAttempts /\ link'[r].status = "ACTIVE"
  /\ UNCHANGED <<case, sent, report, store, sessions, history>>

ClaimEffect(a) ==
  /\ req' = [req EXCEPT ![a] = Idle]
  /\ chal' \in [Challenges -> ChallengeRows]
  /\ auths' \in [Challenges -> SUBSET (1..MaxTokens)]
  /\ \A c \in Challenges :
       \/ chal'[c] = chal[c]
       \/ chal[c].status \in {"PENDING", "CLAIMED"} /\ chal'[c].status = "CLAIMED"
  /\ UNCHANGED <<table, sessions, history>>

ApproveEffect(a) ==
  /\ req' = [req EXCEPT ![a] = Idle]
  /\ chal' \in [Challenges -> ChallengeRows]
  /\ auths' \in [Challenges -> SUBSET (1..MaxTokens)]
  /\ approvers' \in [Challenges -> SUBSET Agents]
  /\ \A c \in Challenges :
       \/ chal'[c] = chal[c] /\ approvers'[c] = approvers[c]
       \/ /\ chal[c].status = "CLAIMED" /\ chal'[c].status = "APPROVED"
          /\ chal'[c].reporter = a /\ approvers'[c] = {a}
  /\ UNCHANGED <<table, sessions, issued>>

ConsumeEffect(a) ==
  /\ req[a].at = "consume" /\ req[a].chal \in Challenges
  /\ \/ req' = [req EXCEPT ![a] = Idle] /\ chal' = chal
     \/ /\ chal[req[a].chal].status = "APPROVED"
        /\ chal' \in [Challenges -> ChallengeRows]
        /\ \A c \in Challenges :
             /\ chal'[c].reporter = chal[c].reporter
             /\ chal'[c].status = IF c = req[a].chal THEN "CONSUMED" ELSE chal[c].status
        /\ req' \in [Agents -> Requests]
        /\ \A b \in Agents \ {a} : req'[b] = req[b]
        /\ req'[a].at = "issue" /\ req'[a].session \in Sessions
        /\ req'[a].session.chal = req[a].chal
        /\ req'[a].session.reporter = chal[req[a].chal].reporter
  /\ UNCHANGED <<table, auths, sessions, history>>


(* Requests as they go on and as they end. *)
LEMMA RequestTypes ==
  /\ Idle \in Requests
  /\ \A r \in Referrals, v \in Nat, at \in Steps :
       [Idle EXCEPT !.at = at, !.link = r, !.revision = v] \in Requests
  /\ \A c \in Challenges, at \in Steps : [Idle EXCEPT !.at = at, !.chal = c] \in Requests
  /\ \A c \in Challenges, at \in Steps, t \in 1..MaxTokens :
       [Idle EXCEPT !.at = at, !.chal = c, !.token = t] \in Requests
  /\ \A s \in Sessions, at \in Steps : [Idle EXCEPT !.at = at, !.session = s] \in Requests
  /\ \A s \in Sessions, at \in Steps, v \in Nat :
       [Idle EXCEPT !.at = at, !.link = s.link, !.revision = v, !.session = s] \in Requests
<1> USE AccessAssumption DEF Idle, Requests, Steps, Referrals
<1>1. /\ Idle \in Requests
      /\ \A r \in Referrals, v \in Nat, at \in Steps :
           [Idle EXCEPT !.at = at, !.link = r, !.revision = v] \in Requests
  <2>1. ASSUME NEW r \in Referrals, NEW v \in Nat, NEW at \in Steps
        PROVE  [Idle EXCEPT !.at = at, !.link = r, !.revision = v] \in Requests
    <3>1. r \in Nat
      OBVIOUS
    <3> HIDE DEF Steps, Referrals
    <3> QED
      BY <3>1
  <2> QED
    BY <2>1
<1>2. \A c \in Challenges, at \in Steps : [Idle EXCEPT !.at = at, !.chal = c] \in Requests
  OBVIOUS
<1>3. \A c \in Challenges, at \in Steps, t \in 1..MaxTokens :
        [Idle EXCEPT !.at = at, !.chal = c, !.token = t] \in Requests
  <2>1. ASSUME NEW c \in Challenges, NEW at \in Steps, NEW t \in 1..MaxTokens
        PROVE  [Idle EXCEPT !.at = at, !.chal = c, !.token = t] \in Requests
    <3>1. t \in Nat
      OBVIOUS
    <3> HIDE DEF Steps, Referrals
    <3> QED
      BY <3>1
  <2> QED
    BY <2>1
<1>4. \A s \in Sessions, at \in Steps : [Idle EXCEPT !.at = at, !.session = s] \in Requests
  OBVIOUS
<1>5. \A s \in Sessions, at \in Steps, v \in Nat :
        [Idle EXCEPT !.at = at, !.link = s.link, !.revision = v, !.session = s] \in Requests
  BY DEF Sessions
<1> QED
  BY <1>1, <1>2, <1>3, <1>4, <1>5

LEMMA ClosedLinks ==
  ASSUME TypeOK, sent \in Referrals
  PROVE  /\ Closed(sent) \in [Referrals -> Links]
         /\ \A r \in Referrals : ClosedRow(r, Closed(sent)[r])
<1> USE DEF TypeOK, Links, LinkStatus, ClosedRow
<1>1. CASE link[sent].status = "ACTIVE"
  <2>1. Closed(sent) = [link EXCEPT ![sent].status = "REVOKED"]
    BY <1>1 DEF Closed
  <2> QED
    BY <1>1, <2>1
<1>2. CASE link[sent].status # "ACTIVE"
  BY <1>2 DEF Closed
<1> QED
  BY <1>1, <1>2

LEMMA SendRows ==
  ASSUME Access, NEW w \in {"before", "open"}, SendReferral(w)
  PROVE  SendEffect(w)
<1>1. /\ sent \in Nat /\ sent + 1 \in Referrals /\ sent + 1 # sent
      /\ link \in [Referrals -> Links]
  BY AccessAssumption DEF Access, TypeOK, SendReferral, Referrals
<1>2. Sent(w) \in Links
  BY DEF Sent, Links, LinkStatus, Windows
<1>3. CASE case = "AWAITING_REFERRAL" /\ link' = [link EXCEPT ![sent + 1] = Sent(w)]
  <2>1. \A r \in Referrals : r = sent => link[r].status # "ACTIVE"
    BY <1>3 DEF Access, ReferralsInOrder
  <2> QED
    BY <1>1, <1>2, <1>3, <2>1 DEF SendReferral, SendEffect, ClosedRow
<1>4. CASE Unanswered /\ link' = [Closed(sent) EXCEPT ![sent + 1] = Sent(w)]
  <2>1. sent \in Referrals
    BY <1>4 DEF Access, ReferralsInOrder, Unanswered
  <2>2. /\ Closed(sent) \in [Referrals -> Links]
        /\ \A r \in Referrals : ClosedRow(r, Closed(sent)[r])
    BY <2>1, ClosedLinks DEF Access
  <2> QED
    BY <1>1, <1>2, <1>4, <2>2 DEF SendReferral, SendEffect
<1> QED
  BY <1>3, <1>4 DEF SendReferral

LEMMA CancelRows ==
  ASSUME Access, CancelReferral
  PROVE  CancelEffect
<1>1. sent \in Referrals
  BY DEF Access, ReferralsInOrder, CancelReferral
<1> QED
  BY <1>1, ClosedLinks DEF Access, CancelReferral, CancelEffect

LEMMA WindowRows ==
  ASSUME Access, NEW r \in Referrals, WindowMoves(r)
  PROVE  WindowEffect
<1>1. link \in [Referrals -> Links]
  BY DEF Access, TypeOK
<1> USE DEF Links, Windows, WindowEffect
<1>2. CASE link' = [link EXCEPT ![r].window = "open"]
  BY <1>1, <1>2 DEF WindowMoves
<1>3. CASE link' = [link EXCEPT ![r].window = "over"]
  BY <1>1, <1>3 DEF WindowMoves
<1> QED
  BY <1>2, <1>3 DEF WindowMoves

LEMMA ReportRows ==
  ASSUME Access, NEW a \in Agents, SubmitReport(a)
  PROVE  ReportEffect(a)
<1>1. /\ link \in [Referrals -> Links]
      /\ case = "AWAITING_REFERRAL_OUTCOME" => sent \in Referrals
      /\ req[a].session # NoSession
  BY SessionIsReal DEF Access, TypeOK, ReferralsInOrder, RequestsInOrder, SubmitReport
<1>2. CASE MayReport(req[a])
  BY <1>1, <1>2 DEF SubmitReport, MayReport, ReportEffect, Ends, Goes, Links, LinkStatus
<1>3. CASE ~MayReport(req[a])
  BY <1>3 DEF SubmitReport, ReportEffect, Ends, Goes
<1> QED
  BY <1>2, <1>3

LEMMA CountRows ==
  ASSUME Access, NEW a \in Agents, CountFailure(a)
  PROVE  CountEffect(a)
<1> DEFINE r == req[a].link
<1>1. link \in [Referrals -> Links] /\ r \in Referrals
  BY DEF Access, TypeOK, RequestsInOrder, CountFailure
<1>2. CASE link[r].status # "ACTIVE"
  BY <1>1, <1>2 DEF CountFailure, CountEffect, Ends, Goes
<1>3. CASE link[r].status = "ACTIVE"
  <2> DEFINE next == link[r].attempts + 1
  <2>1. /\ link' = [link EXCEPT ![r].attempts = next,
                                ![r].status = IF next >= MaxAttempts THEN "LOCKED" ELSE "ACTIVE"]
        /\ req' = [req EXCEPT ![a] = Idle]
        /\ UNCHANGED <<case, sent, report, store, sessions, history>>
    BY <1>1, <1>3 DEF CountFailure, Ends, Goes, Links
  <2>2. next \in Nat /\ (~(next >= MaxAttempts) => next < MaxAttempts)
    BY <1>1, AccessAssumption DEF Links
  <2> HIDE DEF r, next
  <2>3. link' \in [Referrals -> Links]
    BY <1>1, <2>1, <2>2 DEF Links, LinkStatus
  <2>4. /\ \A s \in Referrals : s # r => link'[s] = link[s]
        /\ link'[r].attempts = next /\ link'[r].revision = link[r].revision
        /\ link'[r].status = IF next >= MaxAttempts THEN "LOCKED" ELSE "ACTIVE"
    BY <1>1, <2>1 DEF Links
  <2>5. \A s \in Referrals :
          \/ link'[s] = link[s]
          \/ /\ link[s].status = "ACTIVE"
             /\ link'[s].attempts = link[s].attempts + 1
             /\ link'[s].revision = link[s].revision
             /\ \/ link[s].attempts + 1 >= MaxAttempts /\ link'[s].status = "LOCKED"
                \/ link[s].attempts + 1 < MaxAttempts /\ link'[s].status = "ACTIVE"
    BY <1>3, <2>2, <2>4 DEF next
  <2> QED
    BY <2>1, <2>3, <2>5 DEF CountEffect
<1> QED
  BY <1>2, <1>3

LEMMA ClaimRows ==
  ASSUME Access, NEW a \in Agents, ClaimOrRenew(a)
  PROVE  ClaimEffect(a)
<1> DEFINE c == req[a].chal
<1>1. /\ c \in Challenges
      /\ chal \in [Challenges -> ChallengeRows] /\ auths \in [Challenges -> SUBSET (1..MaxTokens)]
  BY DEF Access, TypeOK, RequestsInOrder, ClaimOrRenew
<1>2. CASE chal[c].status \in {"PENDING", "CLAIMED"}
  BY SMTT(20), <1>1, <1>2 DEF ClaimOrRenew, ClaimEffect, Ends, Goes, ChallengeRows, ChallengeStatus
<1>3. CASE chal[c].status \notin {"PENDING", "CLAIMED"}
  BY <1>1, <1>3 DEF ClaimOrRenew, ClaimEffect, Ends, Goes
<1> QED
  BY <1>2, <1>3

LEMMA ApproveRows ==
  ASSUME Access, NEW a \in Agents, ApproveAuthorization(a)
  PROVE  ApproveEffect(a)
<1> DEFINE c == req[a].chal
           t == req[a].token
<1>1. /\ c \in Challenges
      /\ chal \in [Challenges -> ChallengeRows] /\ auths \in [Challenges -> SUBSET (1..MaxTokens)]
      /\ approvers \in [Challenges -> SUBSET Agents]
  BY DEF Access, TypeOK, RequestsInOrder, ApproveAuthorization
<1>2. CASE t \in auths[c] /\ chal[c].status = "CLAIMED"
  <2>1. approvers[c] = {}
    BY <1>1, <1>2 DEF Access, ChallengesInOrder
  <2>2. /\ chal' = [chal EXCEPT ![c].status = "APPROVED", ![c].reporter = a]
        /\ auths' = [auths EXCEPT ![c] = auths[c] \ {t}]
        /\ approvers' = [approvers EXCEPT ![c] = {a}]
        /\ req' = [req EXCEPT ![a] = Idle]
        /\ UNCHANGED <<table, sessions, issued>>
    BY <1>1, <1>2, <2>1 DEF ApproveAuthorization, Ends, Goes
  <2>3. /\ chal' \in [Challenges -> ChallengeRows]
        /\ chal'[c].status = "APPROVED" /\ chal'[c].reporter = a
        /\ \A d \in Challenges \ {c} : chal'[d] = chal[d]
    BY <1>1, <2>2 DEF ChallengeRows, ChallengeStatus
  <2>4. /\ auths' \in [Challenges -> SUBSET (1..MaxTokens)]
        /\ approvers' \in [Challenges -> SUBSET Agents]
        /\ approvers'[c] = {a}
        /\ \A d \in Challenges \ {c} : approvers'[d] = approvers[d]
    BY <1>1, <2>2
  <2> HIDE DEF c, t
  <2> QED
    BY <1>1, <1>2, <2>2, <2>3, <2>4 DEF ApproveEffect
<1>3. CASE ~(t \in auths[c] /\ chal[c].status = "CLAIMED")
  BY <1>1, <1>3 DEF ApproveAuthorization, ApproveEffect, Ends, Goes
<1> QED
  BY <1>2, <1>3

LEMMA ConsumeRows ==
  ASSUME Access, NEW a \in Agents, ConsumeApproved(a)
  PROVE  ConsumeEffect(a)
<1> DEFINE c == req[a].chal
           s == [chal |-> c, link |-> chal[c].link, revision |-> chal[c].revision,
                 reporter |-> chal[c].reporter]
<1>1. /\ c \in Challenges /\ req[a].at = "consume"
      /\ chal \in [Challenges -> ChallengeRows]
  BY DEF Access, TypeOK, RequestsInOrder, ConsumeApproved
<1>2. CASE chal[c].status = "APPROVED"
  <2>1. chal[c].reporter \in Agents
    BY <1>1, <1>2 DEF Access, ChallengesInOrder
  <2>2. s \in Sessions
    BY <1>1, <2>1 DEF Sessions, ChallengeRows
  <2>3. /\ chal' = [chal EXCEPT ![c].status = "CONSUMED"]
        /\ req' = [req EXCEPT ![a] = [Idle EXCEPT !.at = "issue", !.session = s]]
        /\ UNCHANGED <<table, auths, sessions, history>>
    BY <1>2 DEF ConsumeApproved, Goes
  <2>4. s.chal = c /\ s.reporter = chal[c].reporter
    OBVIOUS
  <2>5. /\ chal' \in [Challenges -> ChallengeRows]
        /\ \A d \in Challenges :
             /\ chal'[d].reporter = chal[d].reporter
             /\ chal'[d].status = IF d = c THEN "CONSUMED" ELSE chal[d].status
    BY <1>1, <2>3 DEF ChallengeRows, ChallengeStatus
  <2> HIDE DEF s
  <2>6. /\ [Idle EXCEPT !.at = "issue", !.session = s] \in Requests
        /\ [Idle EXCEPT !.at = "issue", !.session = s].at = "issue"
        /\ [Idle EXCEPT !.at = "issue", !.session = s].session = s
    BY <2>2, RequestTypes DEF Idle, Steps
  <2>7. /\ req' \in [Agents -> Requests]
        /\ \A b \in Agents \ {a} : req'[b] = req[b]
        /\ req'[a].at = "issue" /\ req'[a].session = s
    BY <2>3, <2>6 DEF Access, TypeOK
  <2> HIDE DEF c
  <2> QED
    BY <1>1, <1>2, <2>2, <2>3, <2>4, <2>5, <2>7 DEF ConsumeEffect, c
<1>3. CASE chal[c].status # "APPROVED"
  BY <1>1, <1>3 DEF ConsumeApproved, ConsumeEffect, Ends, Goes
<1> QED
  BY <1>2, <1>3

LEMMA RefreshRows ==
  ASSUME Access, RefreshAccessCode
  PROVE  /\ sent \in Referrals
         /\ link' \in [Referrals -> Links]
<1>1. sent \in Referrals /\ link \in [Referrals -> Links]
  BY DEF Access, TypeOK, ReferralsInOrder, RefreshAccessCode
<1>2. link[sent].revision + 1 \in Nat
  BY <1>1 DEF Links
<1>3. link' = [link EXCEPT ![sent].revision = link[sent].revision + 1, ![sent].attempts = 0]
  BY <1>1 DEF RefreshAccessCode
<1> QED
  BY <1>1, <1>2, <1>3 DEF Links

(* Types: a session can be issued because an approved challenge has a person. *)
LEMMA TypeStep == Access /\ [Next]_vars => TypeOK'
<1> SUFFICES ASSUME Access, [Next]_vars PROVE TypeOK'
  OBVIOUS
<1>se. ASSUME NEW w \in {"before", "open"}, SendReferral(w) PROVE SendEffect(w)
  BY <1>se, SendRows
<1>cr. ASSUME CancelReferral PROVE CancelEffect
  BY <1>cr, CancelRows
<1>cf. ASSUME NEW a \in Agents, CountFailure(a) PROVE CountEffect(a)
  BY <1>cf, CountRows
<1>cl. ASSUME NEW a \in Agents, ClaimOrRenew(a) PROVE ClaimEffect(a)
  BY <1>cl, ClaimRows
<1>aa. ASSUME NEW a \in Agents, ApproveAuthorization(a) PROVE ApproveEffect(a)
  BY <1>aa, ApproveRows
<1>ca. ASSUME NEW a \in Agents, ConsumeApproved(a) PROVE ConsumeEffect(a)
  BY <1>ca, ConsumeRows
<1>sr. ASSUME NEW a \in Agents, SubmitReport(a) PROVE ReportEffect(a)
  BY <1>sr, ReportRows
<1>wm. ASSUME NEW r \in Referrals, WindowMoves(r) PROVE WindowEffect
  BY <1>wm, WindowRows
<1>rf. CASE RefreshAccessCode
  BY <1>rf, RefreshRows DEF Access, TypeOK, RefreshAccessCode
<1>in. \A a \in Agents : /\ req[a].at = "issue" => req[a].session \in Sessions
                         /\ req[a].at = "create" => req[a].link \in Nat /\ req[a].revision \in Nat
                         /\ req[a].at = "report" => req[a].session \in Sessions
  BY DEF Access, TypeOK, RequestsInOrder, Requests
<1> USE AccessAssumption
        DEF Access, TypeOK
<1>1. ASSUME NEW w \in {"before", "open"}, SendReferral(w) PROVE TypeOK'
  <2>1. SendEffect(w)
    BY <1>1, <1>se
  <2> QED
    BY <2>1 DEF SendEffect, Referrals, Cases
<1>2. CASE RefreshAccessCode
  BY <1>rf, <1>2
<1>3. CASE CancelReferral
  <2>1. CancelEffect
    BY <1>3, <1>cr
  <2> QED
    BY <2>1 DEF CancelEffect, Cases
<1>4. CASE ReviewRefers
  BY <1>4 DEF ReviewRefers, Cases
<1>5. ASSUME NEW a \in Agents, NEW r \in 1..sent, NEW right \in BOOLEAN, EnterCode(a,
       r, right) PROVE TypeOK'
  <2>1. r \in Referrals /\ link[r].revision \in Nat
    BY DEF Referrals, Links
  <2> DEFINE at == IF right THEN "create" ELSE "fail"
  <2>2. at \in Steps
    BY DEF Steps
  <2>3. req' = [req EXCEPT ![a] = [Idle EXCEPT !.at = at, !.link = r,
         !.revision = link[r].revision]]
    BY <1>5 DEF EnterCode, Goes
  <2> HIDE DEF at
  <2> QED
    BY <1>5, <2>1, <2>2, <2>3, RequestTypes DEF EnterCode
<1>6. ASSUME NEW a \in Agents, CountFailure(a) PROVE TypeOK'
  <2>1. CountEffect(a)
    BY <1>6, <1>cf
  <2> QED
    BY <2>1, RequestTypes DEF CountEffect
<1>7. ASSUME NEW a \in Agents, NEW c \in Challenges, CreateChallenge(a, c) PROVE TypeOK'
  <2>1. req[a].link \in Nat /\ req[a].revision \in Nat
    BY <1>7, <1>in DEF CreateChallenge
  <2> QED
    BY <1>7, <2>1, RequestTypes DEF CreateChallenge, Ends, Goes, ChallengeRows,
           ChallengeStatus
<1>8. ASSUME NEW a \in Agents, NEW c \in Challenges, BeginChallenge(a, c) PROVE TypeOK'
  BY <1>8, RequestTypes DEF BeginChallenge, Goes, Steps
<1>9. ASSUME NEW a \in Agents, ClaimOrRenew(a) PROVE TypeOK'
  <2>1. ClaimEffect(a)
    BY <1>9, <1>cl
  <2> QED
    BY <2>1, RequestTypes DEF ClaimEffect
<1>10. ASSUME NEW a \in Agents, NEW c \in Challenges, NEW t \in 1..MaxTokens,
       ReadAuthorization(a, c, t) PROVE TypeOK'
  BY <1>10, RequestTypes DEF ReadAuthorization, Goes, Steps
<1>11. ASSUME NEW a \in Agents, ApproveAuthorization(a) PROVE TypeOK'
  <2>1. ApproveEffect(a)
    BY <1>11, <1>aa
  <2> QED
    BY <2>1, RequestTypes DEF ApproveEffect
<1>12. ASSUME NEW a \in Agents, NEW c \in Challenges, PollChallenge(a, c) PROVE TypeOK'
  BY <1>12, RequestTypes DEF PollChallenge, Goes, Steps
<1>13. ASSUME NEW a \in Agents, ConsumeApproved(a) PROVE TypeOK'
  <2>1. ConsumeEffect(a)
    BY <1>13, <1>ca
  <2>2. CASE req' = [req EXCEPT ![a] = Idle] /\ chal' = chal
    <3>1. req' \in [Agents -> Requests]
      BY <2>2, RequestTypes
    <3> QED
      BY <2>1, <2>2, <3>1 DEF ConsumeEffect
  <2>3. CASE ~(req' = [req EXCEPT ![a] = Idle] /\ chal' = chal)
    BY <2>1, <2>3 DEF ConsumeEffect
  <2> QED
    BY <2>2, <2>3
<1>14. ASSUME NEW a \in Agents, IssueSession(a) PROVE TypeOK'
  <2> DEFINE s == req[a].session
  <2>1. s \in Sessions /\ s.chal \in Challenges
    BY <1>14, <1>in DEF IssueSession, Sessions
  <2>2. /\ sessions' = sessions \cup {s}
        /\ issued' = [issued EXCEPT ![s.chal] = issued[s.chal] + 1]
        /\ req' = [req EXCEPT ![a] = Idle]
        /\ UNCHANGED <<table, store, approvers>>
    BY <1>14, <2>1 DEF IssueSession, Ends, Goes
  <2> HIDE DEF s
  <2>3. issued[s.chal] + 1 \in Nat
    BY <2>1
  <2>4. sessions' \in SUBSET Sessions
    BY <2>1, <2>2
  <2>5. issued' \in [Challenges -> Nat]
    BY <2>1, <2>2, <2>3
  <2>6. req' \in [Agents -> Requests]
    BY <2>2, RequestTypes
  <2> QED
    BY <2>2, <2>4, <2>5, <2>6
<1>15. ASSUME NEW a \in Agents, NEW s \in sessions, ReadSession(a, s) PROVE TypeOK'
  <2>1. s \in Sessions /\ s.revision \in Nat
    BY DEF Sessions
  <2> QED
    BY <1>15, <2>1, RequestTypes DEF ReadSession, Goes, Steps
<1>16. ASSUME NEW a \in Agents, SubmitReport(a) PROVE TypeOK'
  <2>1. ReportEffect(a)
    BY <1>16, <1>sr
  <2> QED
    BY <2>1, <1>in, RequestTypes DEF ReportEffect, Cases
<1>17. ASSUME NEW a \in Agents, RequestDies(a) PROVE TypeOK'
  BY <1>17, RequestTypes DEF RequestDies, Ends, Goes
<1>18. ASSUME NEW r \in Referrals, WindowMoves(r) PROVE TypeOK'
  <2>1. WindowEffect
    BY <1>18, <1>wm
  <2> QED
    BY <2>1 DEF WindowEffect
<1>19. ASSUME NEW c \in Challenges, ChallengeExpires(c) PROVE TypeOK'
  BY SMTT(20), <1>19 DEF ChallengeExpires, ChallengeRows, ChallengeStatus
<1>20. ASSUME NEW s \in sessions, SessionExpires(s) PROVE TypeOK'
  BY <1>20 DEF SessionExpires
<1>21. CASE UNCHANGED vars
  BY <1>21 DEF vars, Earned
<1> HIDE DEF Access, TypeOK
<1> QED
  BY <1>1, <1>2, <1>3, <1>4, <1>5, <1>6, <1>7, <1>8, <1>9, <1>10, <1>11,
     <1>12, <1>13, <1>14, <1>15, <1>16, <1>17, <1>18, <1>19, <1>20, <1>21
     DEF Next, School, Agency, Time

(* What requests have read. *)
LEMMA RequestStep == Access /\ [Next]_vars => RequestsInOrder'
<1> SUFFICES ASSUME Access, [Next]_vars PROVE RequestsInOrder'
  OBVIOUS
<1>cf. ASSUME NEW a \in Agents, CountFailure(a) PROVE CountEffect(a)
  BY <1>cf, CountRows
<1>cl. ASSUME NEW a \in Agents, ClaimOrRenew(a) PROVE ClaimEffect(a)
  BY <1>cl, ClaimRows
<1>aa. ASSUME NEW a \in Agents, ApproveAuthorization(a) PROVE ApproveEffect(a)
  BY <1>aa, ApproveRows
<1>ca. ASSUME NEW a \in Agents, ConsumeApproved(a) PROVE ConsumeEffect(a)
  BY <1>ca, ConsumeRows
<1>sr. ASSUME NEW a \in Agents, SubmitReport(a) PROVE ReportEffect(a)
  BY <1>sr, ReportRows
<1> USE AccessAssumption
        DEF Access, TypeOK, RequestsInOrder, Referrals, Requests
<1>1. ASSUME NEW a \in Agents, NEW r \in 1..sent, NEW right \in BOOLEAN, EnterCode(a,
       r, right) PROVE RequestsInOrder'
  BY <1>1 DEF EnterCode, Usable, Goes, Idle
<1>2. ASSUME NEW a \in Agents, CountFailure(a) PROVE RequestsInOrder'
  <2>1. CountEffect(a)
    BY <1>2, <1>cf
  <2> QED
    BY <2>1 DEF CountEffect, Idle
<1>3. ASSUME NEW a \in Agents, NEW c \in Challenges, CreateChallenge(a, c)
       PROVE RequestsInOrder'
  BY <1>3 DEF CreateChallenge, Ends, Goes, Idle
<1>4. ASSUME NEW a \in Agents, NEW c \in Challenges, BeginChallenge(a, c)
       PROVE RequestsInOrder'
  BY <1>4 DEF BeginChallenge, Goes, Idle, Stored
<1>5. ASSUME NEW a \in Agents, ClaimOrRenew(a) PROVE RequestsInOrder'
  <2>1. ClaimEffect(a)
    BY <1>5, <1>cl
  <2> QED
    BY <2>1 DEF ClaimEffect, Idle
<1>6. ASSUME NEW a \in Agents, NEW c \in Challenges, NEW t \in 1..MaxTokens,
       ReadAuthorization(a, c, t) PROVE RequestsInOrder'
  BY <1>6 DEF ReadAuthorization, Goes, Idle
<1>7. ASSUME NEW a \in Agents, ApproveAuthorization(a) PROVE RequestsInOrder'
  <2>1. ApproveEffect(a)
    BY <1>7, <1>aa
  <2> QED
    BY <2>1 DEF ApproveEffect, Idle
<1>8. ASSUME NEW a \in Agents, NEW c \in Challenges, PollChallenge(a, c)
       PROVE RequestsInOrder'
  BY <1>8 DEF PollChallenge, Goes, Idle
<1>9. ASSUME NEW a \in Agents, ConsumeApproved(a) PROVE RequestsInOrder'
  <2>1. ConsumeEffect(a)
    BY <1>9, <1>ca
  <2>2. CASE req' = [req EXCEPT ![a] = Idle] /\ chal' = chal
    BY <2>1, <2>2 DEF ConsumeEffect, Idle
  <2>3. CASE ~(req' = [req EXCEPT ![a] = Idle] /\ chal' = chal)
    BY <2>1, <2>3 DEF ConsumeEffect
  <2> QED
    BY <2>2, <2>3
<1>10. ASSUME NEW a \in Agents, IssueSession(a) PROVE RequestsInOrder'
  BY <1>10 DEF IssueSession, Ends, Goes, Idle
<1>11. ASSUME NEW a \in Agents, NEW s \in sessions, ReadSession(a, s) PROVE RequestsInOrder'
  BY <1>11 DEF ReadSession, Goes, Idle, Usable
<1>12. ASSUME NEW a \in Agents, SubmitReport(a) PROVE RequestsInOrder'
  <2>1. ReportEffect(a)
    BY <1>12, <1>sr
  <2> QED
    BY <2>1 DEF ReportEffect, Idle
<1>13. ASSUME NEW a \in Agents, RequestDies(a) PROVE RequestsInOrder'
  BY <1>13 DEF RequestDies, Ends, Goes, Idle
<1>14. CASE UNCHANGED req
  BY <1>14 DEF Earned
<1> HIDE DEF Access, TypeOK, RequestsInOrder, Referrals, Requests
<1> QED
  BY <1>1, <1>2, <1>3, <1>4, <1>5, <1>6, <1>7, <1>8, <1>9, <1>10, <1>11,
     <1>12, <1>13, <1>14
     DEF Next, School, Agency, Time, vars, SendReferral, RefreshAccessCode,
         CancelReferral, ReviewRefers, WindowMoves, ChallengeExpires, SessionExpires

(* The stages of a challenge. *)
LEMMA ChallengeStep == Access /\ [Next]_vars => ChallengesInOrder'
<1> SUFFICES ASSUME Access, [Next]_vars PROVE ChallengesInOrder'
  OBVIOUS
<1>cl. ASSUME NEW a \in Agents, ClaimOrRenew(a) PROVE ClaimEffect(a)
  BY <1>cl, ClaimRows
<1>aa. ASSUME NEW a \in Agents, ApproveAuthorization(a) PROVE ApproveEffect(a)
  BY <1>aa, ApproveRows
<1>ca. ASSUME NEW a \in Agents, ConsumeApproved(a) PROVE ConsumeEffect(a)
  BY <1>ca, ConsumeRows
<1> USE AccessAssumption
        DEF Access, TypeOK, RequestsInOrder, ChallengesInOrder, HoldersInOrder, Earned,
            ChallengeRows
<1>1. ASSUME NEW a \in Agents, NEW c \in Challenges, CreateChallenge(a, c)
       PROVE ChallengesInOrder'
  BY <1>1 DEF CreateChallenge, Ends, Goes, Idle
<1>2. ASSUME NEW a \in Agents, ClaimOrRenew(a) PROVE ChallengesInOrder'
  <2>1. ClaimEffect(a)
    BY <1>2, <1>cl
  <2> QED
    BY <2>1 DEF ClaimEffect, Idle
<1>3. ASSUME NEW a \in Agents, ApproveAuthorization(a) PROVE ChallengesInOrder'
  <2>1. ApproveEffect(a)
    BY <1>3, <1>aa
  <2> QED
    BY <2>1 DEF ApproveEffect, Idle
<1>4. ASSUME NEW a \in Agents, ConsumeApproved(a) PROVE ChallengesInOrder'
  <2>1. ConsumeEffect(a)
    BY <1>4, <1>ca
  <2>2. CASE req' = [req EXCEPT ![a] = Idle] /\ chal' = chal
    BY <2>1, <2>2 DEF ConsumeEffect, Idle
  <2>3. CASE ~(req' = [req EXCEPT ![a] = Idle] /\ chal' = chal)
    BY <2>1, <2>3 DEF ConsumeEffect
  <2> QED
    BY <2>2, <2>3
<1>5. ASSUME NEW a \in Agents, IssueSession(a) PROVE ChallengesInOrder'
  BY <1>5 DEF IssueSession, Ends, Goes, Idle
<1>6. ASSUME NEW c \in Challenges, ChallengeExpires(c) PROVE ChallengesInOrder'
  BY <1>6 DEF ChallengeExpires, Stored
<1>7. CASE UNCHANGED <<chal, history>>
  BY <1>7 DEF Earned
<1> HIDE DEF Access, TypeOK, RequestsInOrder, ChallengesInOrder, HoldersInOrder,
       Earned, ChallengeRows
<1> QED
  BY <1>1, <1>2, <1>3, <1>4, <1>5, <1>6, <1>7
     DEF Next, School, Agency, Time, vars, SendReferral, RefreshAccessCode,
         CancelReferral, ReviewRefers, EnterCode, CountFailure, BeginChallenge,
         ReadAuthorization, PollChallenge, ReadSession, SubmitReport, RequestDies,
         WindowMoves, SessionExpires

(* A challenge stays consumed, and its approver the only one. *)
LEMMA EarnedStays == Access /\ [Next]_vars => \A s : Earned(s) => Earned(s)'
<1> SUFFICES ASSUME Access, [Next]_vars, NEW s, Earned(s) PROVE Earned(s)'
  OBVIOUS
<1>cl. ASSUME NEW a \in Agents, ClaimOrRenew(a) PROVE ClaimEffect(a)
  BY <1>cl, ClaimRows
<1>ap. ASSUME NEW a \in Agents, ApproveAuthorization(a) PROVE ApproveEffect(a)
  BY <1>ap, ApproveRows
<1>co. ASSUME NEW a \in Agents, ConsumeApproved(a) PROVE ConsumeEffect(a)
  BY <1>co, ConsumeRows
<1> USE DEF Access, Earned
<1>1. CASE UNCHANGED <<chal, approvers>>
  BY <1>1
<1>2. ASSUME NEW a \in Agents, NEW c \in Challenges, CreateChallenge(a, c) PROVE Earned(s)'
  BY <1>2 DEF TypeOK, CreateChallenge
<1>3. ASSUME NEW a \in Agents, ClaimOrRenew(a) PROVE Earned(s)'
  BY <1>3, <1>cl DEF ClaimEffect
<1>4. ASSUME NEW a \in Agents, ApproveAuthorization(a) PROVE Earned(s)'
  BY <1>4, <1>ap DEF ApproveEffect
<1>5. ASSUME NEW a \in Agents, ConsumeApproved(a) PROVE Earned(s)'
  BY <1>5, <1>co DEF ConsumeEffect
<1>6. ASSUME NEW c \in Challenges, ChallengeExpires(c) PROVE Earned(s)'
  BY <1>6 DEF TypeOK, ChallengeExpires, Stored
<1> HIDE DEF Access, Earned
<1>7. CASE School
  BY <1>1, <1>7 DEF School, SendReferral, RefreshAccessCode, CancelReferral, ReviewRefers
<1>8. CASE Agency
  BY <1>1, <1>2, <1>3, <1>4, <1>5, <1>8 DEF Agency, EnterCode, CountFailure,
     BeginChallenge, ReadAuthorization, PollChallenge, IssueSession, ReadSession,
     SubmitReport, RequestDies
<1>9. CASE Time
  BY <1>1, <1>6, <1>9 DEF Time, WindowMoves, SessionExpires
<1> QED
  BY <1>1, <1>7, <1>8, <1>9 DEF Next, vars

(* A challenge is consumed by one request. *)
LEMMA HolderStep == Access /\ [Next]_vars => HoldersInOrder'
<1> SUFFICES ASSUME Access, [Next]_vars PROVE HoldersInOrder'
  OBVIOUS
<1>cf. ASSUME NEW a \in Agents, CountFailure(a) PROVE CountEffect(a)
  BY <1>cf, CountRows
<1>cl. ASSUME NEW a \in Agents, ClaimOrRenew(a) PROVE ClaimEffect(a)
  BY <1>cl, ClaimRows
<1>aa. ASSUME NEW a \in Agents, ApproveAuthorization(a) PROVE ApproveEffect(a)
  BY <1>aa, ApproveRows
<1>ca. ASSUME NEW a \in Agents, ConsumeApproved(a) PROVE ConsumeEffect(a)
  BY <1>ca, ConsumeRows
<1>sr. ASSUME NEW a \in Agents, SubmitReport(a) PROVE ReportEffect(a)
  BY <1>sr, ReportRows
<1>es. \A s : Earned(s) => Earned(s)'
  BY EarnedStays
<1> USE AccessAssumption
        DEF Access, TypeOK, RequestsInOrder, ChallengesInOrder, HoldersInOrder,
            Requests, Sessions, ChallengeRows
<1>1. ASSUME NEW a \in Agents, NEW r \in 1..sent, NEW right \in BOOLEAN, EnterCode(a,
       r, right) PROVE HoldersInOrder'
  BY <1>1, <1>es DEF EnterCode, Usable, Goes, Idle
<1>2. ASSUME NEW a \in Agents, CountFailure(a) PROVE HoldersInOrder'
  <2>1. CountEffect(a)
    BY <1>2, <1>cf
  <2> QED
    BY <1>es, <2>1 DEF CountEffect, Idle
<1>3. ASSUME NEW a \in Agents, NEW c \in Challenges, CreateChallenge(a, c)
       PROVE HoldersInOrder'
  BY <1>3, <1>es DEF CreateChallenge, Ends, Goes, Idle
<1>4. ASSUME NEW a \in Agents, NEW c \in Challenges, BeginChallenge(a, c)
       PROVE HoldersInOrder'
  BY <1>4, <1>es DEF BeginChallenge, Goes, Idle, Stored
<1>5. ASSUME NEW a \in Agents, ClaimOrRenew(a) PROVE HoldersInOrder'
  <2>1. ClaimEffect(a)
    BY <1>5, <1>cl
  <2> QED
    BY <1>es, <2>1 DEF ClaimEffect, Idle
<1>6. ASSUME NEW a \in Agents, NEW c \in Challenges, NEW t \in 1..MaxTokens,
       ReadAuthorization(a, c, t) PROVE HoldersInOrder'
  BY <1>6, <1>es DEF ReadAuthorization, Goes, Idle
<1>7. ASSUME NEW a \in Agents, ApproveAuthorization(a) PROVE HoldersInOrder'
  <2>1. ApproveEffect(a)
    BY <1>7, <1>aa
  <2> QED
    BY <1>es, <2>1 DEF ApproveEffect, Idle
<1>8. ASSUME NEW a \in Agents, NEW c \in Challenges, PollChallenge(a, c)
       PROVE HoldersInOrder'
  BY <1>8, <1>es DEF PollChallenge, Goes, Idle
<1>9. ASSUME NEW a \in Agents, ConsumeApproved(a) PROVE HoldersInOrder'
  <2>1. ConsumeEffect(a)
    BY <1>9, <1>ca
  <2>2. CASE req' = [req EXCEPT ![a] = Idle] /\ chal' = chal
    BY <1>es, <2>1, <2>2 DEF ConsumeEffect, Idle
  <2>3. CASE chal[req[a].chal].status = "APPROVED" /\ req'[a].at = "issue"
    <3>1. /\ chal'[req'[a].session.chal].status = "CONSUMED"
          /\ req'[a].session.chal \in Challenges
          /\ approvers'[req'[a].session.chal] = {req'[a].session.reporter}
          /\ issued[req'[a].session.chal] = 0
      BY <2>1, <2>3 DEF ConsumeEffect, Idle
    <3>2. \A b \in Agents : req[b].at = "issue" => req[b].session.chal # req[a].chal
      BY <2>3 DEF Earned
    <3>3. Earned(req[a].session)' /\ issued'[req'[a].session.chal] = 0
      BY <2>1, <3>1 DEF ConsumeEffect, Earned
    <3>4. \A b \in Agents \ {a} : req'[b] = req[b]
      BY <2>1, <2>3 DEF ConsumeEffect, Idle
    <3>5. \A b \in Agents \ {a} : req'[b].at = "issue" =>
            Earned(req[b].session)' /\ issued'[req'[b].session.chal] = 0
      BY <1>es, <2>1, <3>4 DEF ConsumeEffect, Earned
    <3>6. req'[a].session.chal = req[a].chal
      BY <2>1, <2>3 DEF ConsumeEffect, Idle
    <3>7. \A b, d \in Agents : req[b].at = "issue" /\ req[d].at = "issue" =>
            b = d \/ req[b].session.chal # req[d].session.chal
      OBVIOUS
    <3> HIDE DEF Access, TypeOK, RequestsInOrder, ChallengesInOrder
    <3>8. \A b \in Agents : req'[b].at = "issue" =>
            Earned(req[b].session)' /\ issued'[req'[b].session.chal] = 0
      BY <3>3, <3>5
    <3>9. \A b, d \in Agents : req'[b].at = "issue" /\ req'[d].at = "issue" =>
            b = d \/ req'[b].session.chal # req'[d].session.chal
      <4>1. ASSUME NEW b \in Agents, NEW d \in Agents, req'[b].at = "issue",
             req'[d].at = "issue",
                   b # d
            PROVE  req'[b].session.chal # req'[d].session.chal
        <5>1. CASE b # a /\ d # a
          BY <4>1, <5>1, <3>4, <3>7
        <5>2. CASE b = a
          BY <4>1, <5>2, <3>2, <3>4, <3>6
        <5>3. CASE d = a
          BY <4>1, <5>3, <3>2, <3>4, <3>6
        <5> QED
          BY <5>1, <5>2, <5>3
      <4> QED
        BY <4>1
    <3> QED
      BY <3>8, <3>9
  <2> QED
    BY <2>1, <2>2, <2>3 DEF ConsumeEffect
<1>10. ASSUME NEW a \in Agents, IssueSession(a) PROVE HoldersInOrder'
  BY <1>10, <1>es DEF IssueSession, Ends, Goes, Idle, Earned
<1>11. ASSUME NEW a \in Agents, NEW s \in sessions, ReadSession(a, s) PROVE HoldersInOrder'
  BY <1>11, <1>es DEF ReadSession, Goes, Idle, Usable
<1>12. ASSUME NEW a \in Agents, SubmitReport(a) PROVE HoldersInOrder'
  <2>1. ReportEffect(a)
    BY <1>12, <1>sr
  <2> QED
    BY <1>es, <2>1 DEF ReportEffect, Idle
<1>13. ASSUME NEW a \in Agents, RequestDies(a) PROVE HoldersInOrder'
  BY <1>13, <1>es DEF RequestDies, Ends, Goes, Idle
<1>14. ASSUME NEW c \in Challenges, ChallengeExpires(c) PROVE HoldersInOrder'
  BY <1>14, <1>es DEF ChallengeExpires
<1>15. CASE UNCHANGED <<req, chal, history>>
  BY <1>15 DEF Earned
<1> HIDE DEF Access, TypeOK, RequestsInOrder, ChallengesInOrder, HoldersInOrder,
       Requests, Sessions, ChallengeRows
<1> QED
  BY <1>1, <1>2, <1>3, <1>4, <1>5, <1>6, <1>7, <1>8, <1>9, <1>10, <1>11,
     <1>12, <1>13, <1>14, <1>15
     DEF Next, School, Agency, Time, vars, SendReferral, RefreshAccessCode,
         CancelReferral, ReviewRefers, WindowMoves, SessionExpires

(* Sessions and reports name the approver and the code of their link. *)
LEMMA SessionStep == Access /\ [Next]_vars => SessionsInOrder'
<1> SUFFICES ASSUME Access, [Next]_vars PROVE SessionsInOrder'
  OBVIOUS
<1>se. ASSUME NEW w \in {"before", "open"}, SendReferral(w) PROVE SendEffect(w)
  BY <1>se, SendRows
<1>cr. ASSUME CancelReferral PROVE CancelEffect
  BY <1>cr, CancelRows
<1>cf. ASSUME NEW a \in Agents, CountFailure(a) PROVE CountEffect(a)
  BY <1>cf, CountRows
<1>cl. ASSUME NEW a \in Agents, ClaimOrRenew(a) PROVE ClaimEffect(a)
  BY <1>cl, ClaimRows
<1>aa. ASSUME NEW a \in Agents, ApproveAuthorization(a) PROVE ApproveEffect(a)
  BY <1>aa, ApproveRows
<1>ca. ASSUME NEW a \in Agents, ConsumeApproved(a) PROVE ConsumeEffect(a)
  BY <1>ca, ConsumeRows
<1>sr. ASSUME NEW a \in Agents, SubmitReport(a) PROVE ReportEffect(a)
  BY <1>sr, ReportRows
<1>wm. ASSUME NEW r \in Referrals, WindowMoves(r) PROVE WindowEffect
  BY <1>wm, WindowRows
<1>es. \A s : Earned(s) => Earned(s)'
  BY EarnedStays
<1>rr. sent \in Nat /\ \A r \in Referrals : r \in Nat
  BY AccessAssumption DEF Access, TypeOK, Referrals
<1> USE AccessAssumption
        DEF Access, TypeOK, RequestsInOrder, HoldersInOrder, SessionsInOrder,
            ReferralsInOrder, Requests, Links
<1>1. ASSUME NEW w \in {"before", "open"}, SendReferral(w) PROVE SessionsInOrder'
  <2>1. SendEffect(w)
    BY <1>1, <1>se
  <2> QED
    BY <1>es, <1>rr, <2>1 DEF SendEffect, ClosedRow
<1>2. CASE RefreshAccessCode
  BY <1>2, <1>es, <1>rr DEF RefreshAccessCode
<1>3. CASE CancelReferral
  <2>1. CancelEffect
    BY <1>3, <1>cr
  <2> QED
    BY <1>es, <1>rr, <2>1 DEF CancelEffect, ClosedRow
<1>4. CASE ReviewRefers
  BY <1>4, <1>es, <1>rr DEF ReviewRefers
<1>5. ASSUME NEW a \in Agents, NEW r \in 1..sent, NEW right \in BOOLEAN, EnterCode(a,
       r, right) PROVE SessionsInOrder'
  BY <1>5, <1>es, <1>rr DEF EnterCode, Usable, Goes, Idle
<1>6. ASSUME NEW a \in Agents, CountFailure(a) PROVE SessionsInOrder'
  <2>1. CountEffect(a)
    BY <1>6, <1>cf
  <2> QED
    BY <1>es, <1>rr, <2>1 DEF CountEffect, Idle
<1>7. ASSUME NEW a \in Agents, NEW c \in Challenges, CreateChallenge(a, c)
       PROVE SessionsInOrder'
  BY <1>7, <1>es, <1>rr DEF CreateChallenge, Ends, Goes, Idle
<1>8. ASSUME NEW a \in Agents, NEW c \in Challenges, BeginChallenge(a, c)
       PROVE SessionsInOrder'
  BY <1>8, <1>es, <1>rr DEF BeginChallenge, Goes, Idle, Stored
<1>9. ASSUME NEW a \in Agents, ClaimOrRenew(a) PROVE SessionsInOrder'
  <2>1. ClaimEffect(a)
    BY <1>9, <1>cl
  <2> QED
    BY <1>es, <1>rr, <2>1 DEF ClaimEffect, Idle
<1>10. ASSUME NEW a \in Agents, NEW c \in Challenges, NEW t \in 1..MaxTokens,
       ReadAuthorization(a, c, t) PROVE SessionsInOrder'
  BY <1>10, <1>es, <1>rr DEF ReadAuthorization, Goes, Idle
<1>11. ASSUME NEW a \in Agents, ApproveAuthorization(a) PROVE SessionsInOrder'
  <2>1. ApproveEffect(a)
    BY <1>11, <1>aa
  <2> QED
    BY <1>es, <1>rr, <2>1 DEF ApproveEffect, Idle
<1>12. ASSUME NEW a \in Agents, NEW c \in Challenges, PollChallenge(a, c)
       PROVE SessionsInOrder'
  BY <1>12, <1>es, <1>rr DEF PollChallenge, Goes, Idle
<1>13. ASSUME NEW a \in Agents, ConsumeApproved(a) PROVE SessionsInOrder'
  <2>1. ConsumeEffect(a)
    BY <1>13, <1>ca
  <2> QED
    BY <1>es, <1>rr, <2>1 DEF ConsumeEffect, Idle
<1>14. ASSUME NEW a \in Agents, IssueSession(a) PROVE SessionsInOrder'
  BY <1>14, <1>es, <1>rr DEF IssueSession, Ends, Goes, Idle
<1>15. ASSUME NEW a \in Agents, NEW s \in sessions, ReadSession(a, s) PROVE SessionsInOrder'
  BY <1>15, <1>es, <1>rr DEF ReadSession, Goes, Idle, Usable
<1>16. ASSUME NEW a \in Agents, SubmitReport(a) PROVE SessionsInOrder'
  <2>1. ReportEffect(a)
    BY <1>16, <1>sr
  <2> QED
    BY <1>es, <1>rr, <2>1 DEF ReportEffect, Idle
<1>17. ASSUME NEW a \in Agents, RequestDies(a) PROVE SessionsInOrder'
  BY <1>17, <1>es, <1>rr DEF RequestDies, Ends, Goes, Idle
<1>18. ASSUME NEW r \in Referrals, WindowMoves(r) PROVE SessionsInOrder'
  <2>1. WindowEffect
    BY <1>18, <1>wm
  <2> QED
    BY <1>es, <1>rr, <2>1 DEF WindowEffect
<1>19. ASSUME NEW c \in Challenges, ChallengeExpires(c) PROVE SessionsInOrder'
  BY <1>19, <1>es, <1>rr DEF ChallengeExpires, Stored
<1>20. ASSUME NEW s \in sessions, SessionExpires(s) PROVE SessionsInOrder'
  BY <1>20, <1>es, <1>rr DEF SessionExpires
<1>21. CASE UNCHANGED vars
  BY <1>21 DEF vars, Earned
<1> HIDE DEF Access, TypeOK, RequestsInOrder, HoldersInOrder, SessionsInOrder,
       ReferralsInOrder, Requests, Links
<1> QED
  BY <1>1, <1>2, <1>3, <1>4, <1>5, <1>6, <1>7, <1>8, <1>9, <1>10, <1>11,
     <1>12, <1>13, <1>14, <1>15, <1>16, <1>17, <1>18, <1>19, <1>20, <1>21
     DEF Next, School, Agency, Time

(* The newest referral and its link. *)
LEMMA ReferralStep == Access /\ [Next]_vars => ReferralsInOrder'
<1> SUFFICES ASSUME Access, [Next]_vars PROVE ReferralsInOrder'
  OBVIOUS
<1>se. ASSUME NEW w \in {"before", "open"}, SendReferral(w) PROVE SendEffect(w)
  BY <1>se, SendRows
<1>cr. ASSUME CancelReferral PROVE CancelEffect
  BY <1>cr, CancelRows
<1>cf. ASSUME NEW a \in Agents, CountFailure(a) PROVE CountEffect(a)
  BY <1>cf, CountRows
<1>sr. ASSUME NEW a \in Agents, SubmitReport(a) PROVE ReportEffect(a)
  BY <1>sr, ReportRows
<1>wm. ASSUME NEW r \in Referrals, WindowMoves(r) PROVE WindowEffect
  BY <1>wm, WindowRows
<1> USE AccessAssumption, SessionIsReal
        DEF Access, TypeOK, RequestsInOrder, ReferralsInOrder, Referrals, Links
<1>1. ASSUME NEW w \in {"before", "open"}, SendReferral(w) PROVE ReferralsInOrder'
  <2>1. /\ sent' = sent + 1 /\ sent + 1 \in Referrals /\ sent \in Nat
        /\ case' = "AWAITING_REFERRAL_OUTCOME" /\ report' = report
        /\ \A r \in Referrals : IF r = sent + 1 THEN link'[r] = Sent(w)
                                ELSE ClosedRow(r, link'[r])
    BY SMTT(20), <1>1, <1>se DEF SendEffect
  <2>2. \A r \in Referrals :
          IF r = sent + 1 THEN link'[r].attempts = 0 /\ link'[r].status = "ACTIVE"
          ELSE /\ link'[r].attempts = link[r].attempts
               /\ link'[r].status = IF r = sent /\ link[r].status = "ACTIVE" THEN "REVOKED"
                                    ELSE link[r].status
    <3> HIDE DEF Access, TypeOK, RequestsInOrder, ReferralsInOrder, Referrals, Links
    <3> QED
      BY <2>1 DEF Sent, ClosedRow
  <2>3. sent + 1 > sent /\ \A r \in Referrals : r \in Nat
    BY <2>1
  <2> HIDE DEF TypeOK, RequestsInOrder, Referrals, Links
  <2> QED
    BY <2>1, <2>2, <2>3
<1>2. CASE RefreshAccessCode
  BY <1>2 DEF RefreshAccessCode
<1>3. CASE CancelReferral
  <2>1. CancelEffect
    BY <1>3, <1>cr
  <2> QED
    BY <2>1 DEF CancelEffect, ClosedRow
<1>4. CASE ReviewRefers
  BY <1>4 DEF ReviewRefers
<1>5. ASSUME NEW a \in Agents, CountFailure(a) PROVE ReferralsInOrder'
  <2>1. CountEffect(a)
    BY <1>5, <1>cf
  <2>2. \A r \in Referrals :
          \/ link'[r].status = link[r].status /\ link'[r].attempts = link[r].attempts
          \/ link[r].status = "ACTIVE" /\ link'[r].status \in {"ACTIVE", "LOCKED"}
    <3> HIDE DEF Access, TypeOK, RequestsInOrder, ReferralsInOrder, Referrals, Links
    <3> QED
      BY <2>1 DEF CountEffect
  <2>3. UNCHANGED <<case, sent, report>>
    BY <2>1 DEF CountEffect
  <2> HIDE DEF TypeOK, RequestsInOrder, Referrals, Links
  <2> QED
    BY <2>2, <2>3
<1>6. ASSUME NEW a \in Agents, SubmitReport(a) PROVE ReferralsInOrder'
  <2>1. ReportEffect(a)
    BY <1>6, <1>sr
  <2>2. CASE UNCHANGED <<case, link, report>>
    BY <2>1, <2>2 DEF ReportEffect, Idle
  <2>3. CASE ~UNCHANGED <<case, link, report>>
    <3>1. \A r \in Referrals : report'[r] = IF r = sent THEN req[a].session ELSE report[r]
      BY <2>1, <2>3 DEF ReportEffect
    <3>2. /\ sent' = sent /\ sent \in Referrals /\ case' = "ANSWERED"
          /\ req[a].session # NoSession /\ link[sent].status = "ACTIVE"
          /\ \A r \in Referrals :
               /\ link'[r].attempts = link[r].attempts
               /\ link'[r].status = IF r = sent THEN "USED" ELSE link[r].status
      BY <2>1, <2>3 DEF ReportEffect
    <3> HIDE DEF Referrals, Links
    <3> QED
      BY ZenonT(30), <3>1, <3>2
  <2> QED
    BY <2>2, <2>3
<1>7. ASSUME NEW r \in Referrals, WindowMoves(r) PROVE ReferralsInOrder'
  <2>1. WindowEffect
    BY <1>7, <1>wm
  <2> QED
    BY <2>1 DEF WindowEffect
<1>8. CASE UNCHANGED <<case, sent, link, report>>
  BY <1>8 DEF Earned
<1> HIDE DEF Access, TypeOK, RequestsInOrder, ReferralsInOrder, Referrals, Links
<1> QED
  BY <1>1, <1>2, <1>3, <1>4, <1>5, <1>6, <1>7, <1>8
     DEF Next, School, Agency, Time, vars, EnterCode, CreateChallenge, BeginChallenge,
         ClaimOrRenew, ReadAuthorization, ApproveAuthorization, PollChallenge,
         ConsumeApproved, IssueSession, ReadSession, RequestDies, ChallengeExpires,
         SessionExpires

(* The count of wrong codes. *)
LEMMA LimitStep == Access /\ [Next]_vars => LockedAtTheLimit'
<1> SUFFICES ASSUME Access, [Next]_vars PROVE LockedAtTheLimit'
  OBVIOUS
<1>se. ASSUME NEW w \in {"before", "open"}, SendReferral(w) PROVE SendEffect(w)
  BY <1>se, SendRows
<1>cr. ASSUME CancelReferral PROVE CancelEffect
  BY <1>cr, CancelRows
<1>cf. ASSUME NEW a \in Agents, CountFailure(a) PROVE CountEffect(a)
  BY <1>cf, CountRows
<1>sr. ASSUME NEW a \in Agents, SubmitReport(a) PROVE ReportEffect(a)
  BY <1>sr, ReportRows
<1>wm. ASSUME NEW r \in Referrals, WindowMoves(r) PROVE WindowEffect
  BY <1>wm, WindowRows
<1> USE AccessAssumption
        DEF Access, TypeOK, ReferralsInOrder, LockedAtTheLimit, Referrals, Links, LinkStatus
<1>1. ASSUME NEW w \in {"before", "open"}, SendReferral(w) PROVE LockedAtTheLimit'
  <2>1. \A r \in Referrals : IF r = sent + 1 THEN link'[r] = Sent(w)
                             ELSE ClosedRow(r, link'[r])
    BY <1>1, <1>se DEF SendEffect
  <2>2. \A r \in Referrals :
          \/ link'[r].attempts = 0 /\ link'[r].status = "ACTIVE"
          \/ /\ link'[r].attempts = link[r].attempts
             /\ link'[r].status = "REVOKED" => link[r].status \in {"ACTIVE", "REVOKED"}
             /\ link'[r].status # "REVOKED" => link'[r].status = link[r].status
    <3> HIDE DEF Access, TypeOK, ReferralsInOrder, LockedAtTheLimit, Referrals, Links, LinkStatus
    <3> QED
      BY <2>1 DEF Sent, ClosedRow
  <2> HIDE DEF TypeOK, ReferralsInOrder, Referrals, Links, LinkStatus
  <2> QED
    BY <2>2
<1>2. CASE RefreshAccessCode
  BY <1>2 DEF RefreshAccessCode
<1>3. CASE CancelReferral
  <2>1. CancelEffect
    BY <1>3, <1>cr
  <2> QED
    BY <2>1 DEF CancelEffect, ClosedRow
<1>4. ASSUME NEW a \in Agents, CountFailure(a) PROVE LockedAtTheLimit'
  <2>1. CountEffect(a)
    BY <1>4, <1>cf
  <2> QED
    BY ZenonT(30), <2>1 DEF CountEffect, Idle
<1>5. ASSUME NEW a \in Agents, SubmitReport(a) PROVE LockedAtTheLimit'
  <2>1. ReportEffect(a)
    BY <1>5, <1>sr
  <2> QED
    BY <2>1 DEF ReportEffect, Idle
<1>6. ASSUME NEW r \in Referrals, WindowMoves(r) PROVE LockedAtTheLimit'
  <2>1. WindowEffect
    BY <1>6, <1>wm
  <2> QED
    BY <2>1 DEF WindowEffect
<1>7. CASE UNCHANGED link
  BY <1>7 DEF Earned
<1> HIDE DEF Access, TypeOK, ReferralsInOrder, LockedAtTheLimit, Referrals, Links,
       LinkStatus
<1> QED
  BY <1>1, <1>2, <1>3, <1>4, <1>5, <1>6, <1>7
     DEF Next, School, Agency, Time, vars, EnterCode, CreateChallenge, BeginChallenge,
         ClaimOrRenew, ReadAuthorization, ApproveAuthorization, PollChallenge,
         ConsumeApproved, IssueSession, ReadSession, RequestDies, ChallengeExpires,
         SessionExpires, ReviewRefers

LEMMA AccessStep == Access /\ [Next]_vars => Access'
BY TypeStep, RequestStep, ChallengeStep, HolderStep, SessionStep, ReferralStep,
       LimitStep DEF Access

LEMMA AccessAlways == Spec => []Access
<1>1. Init => Access
  BY AccessInit
<1>2. Access /\ [Next]_vars => Access'
  BY AccessStep
<1> QED
  BY <1>1, <1>2, PTL DEF Spec

(* The type invariant holds in every reachable state. *)
THEOREM AccessTypes == Spec => []TypeOK
<1>1. Access => TypeOK
  BY DEF Access
<1> QED
  BY <1>1, AccessAlways, PTL

(* A report is filed under the present code of its link, by its approver. *)
THEOREM ReportsAreCurrent == Spec => []ReportUnderCurrentCode
<1>1. Access => ReportUnderCurrentCode
  BY DEF Access, SessionsInOrder, Earned, ReportUnderCurrentCode
<1> QED
  BY <1>1, AccessAlways, PTL

(* A challenge is approved by one person and exchanged for one session. *)
THEOREM ChallengesAreUsedOnce == Spec => []ChallengeServesOnce
<1>1. Access => ChallengeServesOnce
  BY DEF Access, ChallengesInOrder, ChallengeServesOnce
<1> QED
  BY <1>1, AccessAlways, PTL

(* A link locks at the limit of wrong codes, whoever enters them when. *)
THEOREM LinksLockAtTheLimit == Spec => []LockedAtTheLimit
<1>1. Access => LockedAtTheLimit
  BY DEF Access
<1> QED
  BY <1>1, AccessAlways, PTL

(* The open link is the one the case waits for. *)
THEOREM OpenLinksAreAwaited == Spec => []OpenLinkIsAwaited
<1>1. Access => OpenLinkIsAwaited
  BY DEF Access, ReferralsInOrder, OpenLinkIsAwaited
<1> QED
  BY <1>1, AccessAlways, PTL

(* What a step may not do to a dead link. *)
StaysDead ==
  \A r \in Referrals :
    link[r].status \in {"LOCKED", "REVOKED", "USED"} =>
      /\ link'[r].status = link[r].status
      /\ report'[r] = report[r]

(* Only an open link changes, and only one takes a report. *)
LEMMA DeadLinkStep == Access /\ [Next]_vars => StaysDead
<1> SUFFICES ASSUME Access, [Next]_vars PROVE StaysDead
  OBVIOUS
<1>se. ASSUME NEW w \in {"before", "open"}, SendReferral(w) PROVE SendEffect(w)
  BY <1>se, SendRows
<1>cr. ASSUME CancelReferral PROVE CancelEffect
  BY <1>cr, CancelRows
<1>cf. ASSUME NEW a \in Agents, CountFailure(a) PROVE CountEffect(a)
  BY <1>cf, CountRows
<1>sr. ASSUME NEW a \in Agents, SubmitReport(a) PROVE ReportEffect(a)
  BY <1>sr, ReportRows
<1>wm. ASSUME NEW r \in Referrals, WindowMoves(r) PROVE WindowEffect
  BY <1>wm, WindowRows
<1> USE AccessAssumption
        DEF Access, TypeOK, ReferralsInOrder, Referrals, Links, StaysDead
<1>1. ASSUME NEW w \in {"before", "open"}, SendReferral(w) PROVE StaysDead
  <2>1. SendEffect(w)
    BY <1>1, <1>se
  <2>2. \A r \in Referrals : r = sent + 1 => link[r].status = "NONE"
    BY <2>1 DEF SendEffect
  <2> QED
    BY <2>1, <2>2 DEF SendEffect, ClosedRow
<1>2. CASE RefreshAccessCode
  BY <1>2 DEF RefreshAccessCode
<1>3. CASE CancelReferral
  <2>1. CancelEffect
    BY <1>3, <1>cr
  <2> QED
    BY <2>1 DEF CancelEffect, ClosedRow
<1>4. ASSUME NEW a \in Agents, CountFailure(a) PROVE StaysDead
  <2>1. CountEffect(a)
    BY <1>4, <1>cf
  <2> QED
    BY <2>1 DEF CountEffect, Idle
<1>5. ASSUME NEW a \in Agents, SubmitReport(a) PROVE StaysDead
  <2>1. ReportEffect(a)
    BY <1>5, <1>sr
  <2> QED
    BY <2>1 DEF ReportEffect, Idle
<1>6. ASSUME NEW r \in Referrals, WindowMoves(r) PROVE StaysDead
  <2>1. WindowEffect
    BY <1>6, <1>wm
  <2> QED
    BY <2>1 DEF WindowEffect
<1>7. CASE UNCHANGED <<link, report>>
  BY <1>7 DEF Earned
<1> HIDE DEF Access, TypeOK, ReferralsInOrder, Referrals, Links, StaysDead
<1> QED
  BY <1>1, <1>2, <1>3, <1>4, <1>5, <1>6, <1>7
     DEF Next, School, Agency, Time, vars, EnterCode, CreateChallenge, BeginChallenge,
         ClaimOrRenew, ReadAuthorization, ApproveAuthorization, PollChallenge,
         ConsumeApproved, IssueSession, ReadSession, RequestDies, ChallengeExpires,
         SessionExpires, ReviewRefers


(* A dead link stays dead and takes no report. *)
THEOREM DeadLinksStayDead == Spec => DeadLinkStaysDead
<1>1. Access /\ [Next]_vars => [StaysDead]_vars
  BY DeadLinkStep
<1>2. Spec => [][StaysDead]_vars
  BY <1>1, AccessAlways, PTL DEF Spec
<1> QED
  BY <1>2 DEF DeadLinkStaysDead, StaysDead

-----------------------------------------------------------------------------
(***************************************************************************)
(* The referral steps implement those of the case's follow-up.             *)
(***************************************************************************)

MappedRounds == 1 .. MaxReferrals + 1

(* A wrong code that is about to be counted was entered in the link's window.*)
FailuresInWindow ==
  \A a \in Agents : req[a].at = "fail" =>
    req[a].link <= sent /\ link[req[a].link].window # "before"

LEMMA FailureWindowInit == Init => FailuresInWindow
BY DEF Init, FailuresInWindow, Idle

(* Windows only move on, but for the row of a link that is sent. *)
LEMMA WindowsMoveOn ==
  ASSUME Access, [Next]_vars
  PROVE  /\ sent' \in {sent, sent + 1}
         /\ \A r \in Referrals : r <= sent /\ link[r].window # "before" => link'[r].window # "before"
<1>0. TypeOK /\ link \in [Referrals -> Links] /\ \A r \in Referrals : r \in Nat
  BY DEF Access, TypeOK, Referrals
<1>1. ASSUME NEW w \in {"before", "open"}, SendReferral(w)
      PROVE  /\ sent' = sent + 1
             /\ \A r \in Referrals : r <= sent => link'[r].window = link[r].window
  <2>1. SendEffect(w) /\ \A r \in Referrals : r <= sent => r # sent + 1
    BY <1>0, <1>1, SendRows DEF TypeOK
  <2> QED
    BY <2>1 DEF SendEffect, ClosedRow
<1>2. CASE RefreshAccessCode
  BY <1>0, <1>2 DEF RefreshAccessCode, Links
<1>3. CASE CancelReferral
  BY <1>3, CancelRows DEF CancelEffect, ClosedRow
<1>4. ASSUME NEW a \in Agents, CountFailure(a)
      PROVE  sent' = sent /\ \A r \in Referrals : link'[r].window = link[r].window
  BY <1>4, CountRows DEF CountEffect
<1>5. ASSUME NEW a \in Agents, SubmitReport(a)
      PROVE  sent' = sent /\ \A r \in Referrals : link'[r].window = link[r].window
  <2>1. ReportEffect(a)
    BY <1>5, ReportRows
  <2> QED
    BY <2>1 DEF ReportEffect
<1>6. ASSUME NEW r \in Referrals, WindowMoves(r)
      PROVE  /\ sent' = sent
             /\ \A k \in Referrals : link[k].window # "before" => link'[k].window # "before"
  BY <1>0, <1>6 DEF WindowMoves, Links
<1>7. CASE UNCHANGED <<sent, link>>
  BY <1>7
<1> QED
  BY <1>1, <1>2, <1>3, <1>4, <1>5, <1>6, <1>7
     DEF Next, School, Agency, Time, vars, EnterCode, CreateChallenge, BeginChallenge,
         ClaimOrRenew, ReadAuthorization, ApproveAuthorization, PollChallenge,
         ConsumeApproved, IssueSession, ReadSession, RequestDies, ChallengeExpires,
         SessionExpires, ReviewRefers

(* The only request that starts to fail has just found its link open.        *)
LEMMA FailuresStart ==
  ASSUME Access, [Next]_vars, NEW a \in Agents, req'[a].at = "fail"
  PROVE  \/ req'[a] = req[a]
         \/ /\ UNCHANGED <<sent, link>>
            /\ req'[a].link \in 1..sent /\ link[req'[a].link].window = "open"
<1> USE AccessAssumption DEF Access, TypeOK, Requests
<1>1. ASSUME NEW b \in Agents, NEW r \in 1..sent, NEW right \in BOOLEAN, EnterCode(b, r, right)
      PROVE  \/ req'[a] = req[a]
             \/ /\ UNCHANGED <<sent, link>>
                /\ req'[a].link \in 1..sent /\ link[req'[a].link].window = "open"
  BY <1>1 DEF EnterCode, Goes, Usable, Idle
<1>2. ASSUME NEW b \in Agents,
             \/ CountFailure(b) \/ (\E c \in Challenges : CreateChallenge(b, c))
             \/ (\E c \in Challenges : BeginChallenge(b, c)) \/ ClaimOrRenew(b)
             \/ (\E c \in Challenges, t \in 1..MaxTokens : ReadAuthorization(b, c, t))
             \/ ApproveAuthorization(b) \/ (\E c \in Challenges : PollChallenge(b, c))
             \/ ConsumeApproved(b) \/ IssueSession(b)
             \/ (\E s \in sessions : ReadSession(b, s)) \/ SubmitReport(b) \/ RequestDies(b)
      PROVE  req'[a] = req[a]
  <2>1. CASE req' = [req EXCEPT ![b] = Idle]
    BY <2>1 DEF Idle
  <2>2. CASE \E c \in Challenges : BeginChallenge(b, c)
    BY <2>2 DEF BeginChallenge, Goes, Idle
  <2>3. CASE \E c \in Challenges, t \in 1..MaxTokens : ReadAuthorization(b, c, t)
    BY <2>3 DEF ReadAuthorization, Goes, Idle
  <2>4. CASE \E c \in Challenges : PollChallenge(b, c)
    BY <2>4 DEF PollChallenge, Goes, Idle
  <2>5. CASE ConsumeApproved(b)
    <3>1. CASE chal[req[b].chal].status = "APPROVED"
      <4>1. \E x : req' = [req EXCEPT ![b] = [Idle EXCEPT !.at = "issue", !.session = x]]
        BY <2>5, <3>1 DEF ConsumeApproved, Goes
      <4> QED
        BY <4>1 DEF Idle
    <3>2. CASE chal[req[b].chal].status # "APPROVED"
      BY <2>1, <2>5, <3>2 DEF ConsumeApproved, Ends, Goes
    <3> QED
      BY <3>1, <3>2
  <2>6. CASE \E s \in sessions : ReadSession(b, s)
    BY <2>6 DEF ReadSession, Goes, Idle
  <2> HIDE DEF Access, TypeOK, Requests
  <2> QED
    BY <1>2, <2>1, <2>2, <2>3, <2>4, <2>5, <2>6
    DEF CountFailure, CreateChallenge, ClaimOrRenew, ApproveAuthorization, IssueSession,
       SubmitReport, RequestDies, Ends, Goes
<1>3. CASE UNCHANGED req
  BY <1>3
<1> HIDE DEF Access, TypeOK, Requests
<1> QED
  BY <1>1, <1>2, <1>3
     DEF Next, School, Agency, Time, vars, SendReferral, RefreshAccessCode, CancelReferral,
         ReviewRefers, WindowMoves, ChallengeExpires, SessionExpires

LEMMA FailureWindowStep == Access /\ FailuresInWindow /\ [Next]_vars => FailuresInWindow'
<1> SUFFICES ASSUME Access, FailuresInWindow, [Next]_vars, NEW a \in Agents, req'[a].at = "fail"
             PROVE  req'[a].link <= sent' /\ link'[req'[a].link].window # "before"
  BY DEF FailuresInWindow
<1>0. sent \in Nat /\ \A r \in 1..sent : r \in Nat
  BY DEF Access, TypeOK
<1>1. CASE req'[a] = req[a]
  <2>1. req[a].link \in Referrals /\ req[a].link <= sent /\ link[req[a].link].window # "before"
    BY <1>1 DEF FailuresInWindow, Access, RequestsInOrder
  <2>2. req[a].link \in Nat
    BY <2>1 DEF Referrals
  <2> QED
    BY <1>0, <1>1, <2>1, <2>2, WindowsMoveOn
<1>2. CASE /\ UNCHANGED <<sent, link>>
           /\ req'[a].link \in 1..sent /\ link[req'[a].link].window = "open"
  BY <1>0, <1>2
<1> QED
  BY <1>1, <1>2, FailuresStart

(* The rounds the follow-up sees. *)
LEMMA RoundsAre ==
  ASSUME Access
  PROVE  /\ DOMAIN RoundsOf = MappedRounds
         /\ 1 \in MappedRounds /\ RoundsOf[1] = Visit
         /\ \A r \in Referrals : r + 1 \in MappedRounds /\ r + 1 # 1
         /\ \A r \in Referrals :
              RoundsOf[r + 1] = IF r <= sent THEN ReferralRounds[r] ELSE NotYet
         /\ \A s \in MappedRounds : s = 1 \/ \E r \in Referrals : s = r + 1
<1>0. sent \in Nat /\ MaxReferrals \in Nat
  BY AccessAssumption DEF Access, TypeOK
<1>1. \A s \in MappedRounds : s = 1 \/ (s - 1 \in Referrals /\ s = (s - 1) + 1)
  BY <1>0 DEF MappedRounds, Referrals
<1>2. \A r \in Referrals : r + 1 \in MappedRounds /\ r + 1 # 1 /\ (r + 1) - 1 = r /\ r \in Nat
  BY <1>0 DEF MappedRounds, Referrals
<1>3. 1 \in MappedRounds
  BY <1>0 DEF MappedRounds
<1>4. \A s \in MappedRounds : RoundsOf[s] =
        IF s = 1 THEN Visit ELSE IF s <= sent + 1 THEN ReferralRounds[s - 1] ELSE NotYet
  BY DEF RoundsOf, MappedRounds
<1>5. \A r \in Referrals : RoundsOf[r + 1] = IF r <= sent THEN ReferralRounds[r] ELSE NotYet
  BY <1>0, <1>2, <1>4
<1>6. DOMAIN RoundsOf = MappedRounds
  BY DEF RoundsOf, MappedRounds
<1> QED
  BY <1>1, <1>2, <1>3, <1>4, <1>5, <1>6

LEMMA RoundsChange ==
  ASSUME Access, Access', NEW n \in Referrals, NEW x,
         sent' = sent \/ (sent' = sent + 1 /\ n = sent + 1),
         n <= sent',
         ReferralRounds'[n] = x,
         \A r \in Referrals : r # n /\ r <= sent => ReferralRounds'[r] = ReferralRounds[r]
  PROVE  RoundsOf' = [RoundsOf EXCEPT ![n + 1] = x]
<1>0. /\ sent \in Nat /\ sent' \in Nat /\ MaxReferrals \in Nat
      /\ \A r \in Referrals : r \in Nat /\ r + 1 # 1 /\ (r + 1) - 1 = r
      /\ n + 1 \in MappedRounds
  BY AccessAssumption, RoundsAre DEF Access, TypeOK, Referrals
<1>1. /\ RoundsOf' = [s \in MappedRounds |-> RoundsOf'[s]]
      /\ RoundsOf = [s \in MappedRounds |-> RoundsOf[s]]
  BY DEF RoundsOf, MappedRounds
<1>2. \A s \in MappedRounds : RoundsOf'[s] =
        IF s = 1 THEN Visit ELSE IF s <= sent' + 1 THEN ReferralRounds'[s - 1] ELSE NotYet
  BY DEF RoundsOf, MappedRounds, Visit, NotYet
<1>3. RoundsOf'[n + 1] = x
  BY <1>0, <1>2
<1>4. \A r \in Referrals : r # n => RoundsOf'[r + 1] = RoundsOf[r + 1]
  <2> SUFFICES ASSUME NEW r \in Referrals, r # n PROVE RoundsOf'[r + 1] = RoundsOf[r + 1]
    OBVIOUS
  <2>1. RoundsOf'[r + 1] = IF r <= sent' THEN ReferralRounds'[r] ELSE NotYet
    BY <1>0, <1>2, RoundsAre
  <2>2. RoundsOf[r + 1] = IF r <= sent THEN ReferralRounds[r] ELSE NotYet
    BY <1>0, RoundsAre
  <2> QED
    BY <1>0, <2>1, <2>2
<1>5. RoundsOf'[1] = RoundsOf[1]
  BY <1>0, <1>2, RoundsAre DEF MappedRounds
<1>6. \A s \in MappedRounds : s # n + 1 => RoundsOf'[s] = RoundsOf[s]
  BY <1>0, <1>4, <1>5, RoundsAre
<1> QED
  BY <1>0, <1>1, <1>3, <1>6

(* The newest referral is closed as the next one is sent. *)
LEMMA RoundsChangeTwice ==
  ASSUME Access, Access', NEW x, NEW y, sent \in Referrals, sent + 1 \in Referrals,
         sent' = sent + 1, ReferralRounds'[sent] = x, ReferralRounds'[sent + 1] = y,
         \A r \in Referrals : r # sent + 1 /\ r # sent /\ r <= sent =>
           ReferralRounds'[r] = ReferralRounds[r]
  PROVE  RoundsOf' = [RoundsOf EXCEPT ![sent + 1] = x, ![sent + 1 + 1] = y]
<1>0. /\ sent \in Nat /\ sent' \in Nat /\ MaxReferrals \in Nat /\ sent + 1 # 1
      /\ \A r \in Referrals : r \in Nat /\ r + 1 # 1 /\ (r + 1) - 1 = r
      /\ sent + 1 # sent + 1 + 1
  BY AccessAssumption DEF Access, TypeOK, Referrals
<1>a. sent + 1 \in MappedRounds /\ sent + 1 + 1 \in MappedRounds
  BY RoundsAre
<1>1. /\ RoundsOf' = [s \in MappedRounds |-> RoundsOf'[s]]
      /\ RoundsOf = [s \in MappedRounds |-> RoundsOf[s]]
  BY DEF RoundsOf, MappedRounds
<1>2. \A s \in MappedRounds : RoundsOf'[s] =
        IF s = 1 THEN Visit ELSE IF s <= sent' + 1 THEN ReferralRounds'[s - 1] ELSE NotYet
  BY DEF RoundsOf, MappedRounds, Visit, NotYet
<1>3. RoundsOf'[sent + 1] = x /\ RoundsOf'[sent + 1 + 1] = y
  BY <1>0, <1>a, <1>2
<1>4. \A r \in Referrals : r # sent /\ r # sent + 1 => RoundsOf'[r + 1] = RoundsOf[r + 1]
  <2> SUFFICES ASSUME NEW r \in Referrals, r # sent, r # sent + 1
               PROVE  RoundsOf'[r + 1] = RoundsOf[r + 1]
    OBVIOUS
  <2>0. /\ r + 1 \in MappedRounds /\ r + 1 # 1 /\ (r + 1) - 1 = r
        /\ r + 1 <= sent' + 1 <=> r <= sent'
    BY <1>0, RoundsAre
  <2>1. RoundsOf'[r + 1] = IF r <= sent' THEN ReferralRounds'[r] ELSE NotYet
    BY <1>2, <2>0
  <2>2. RoundsOf[r + 1] = IF r <= sent THEN ReferralRounds[r] ELSE NotYet
    BY <1>0, RoundsAre
  <2> QED
    BY <1>0, <2>1, <2>2
<1>5. RoundsOf'[1] = RoundsOf[1]
  BY <1>0, <1>2, RoundsAre DEF MappedRounds
<1>6. \A s \in MappedRounds : s # sent + 1 /\ s # sent + 1 + 1 => RoundsOf'[s] = RoundsOf[s]
  BY <1>0, <1>4, <1>5, RoundsAre
<1> QED
  BY <1>0, <1>a, <1>1, <1>3, <1>6

(* What the follow-up counts. *)
LEMMA CountsAre ==
  ASSUME Access
  PROVE  /\ IsFiniteSet(Answered) /\ Cardinality(Answered) \in Nat
         /\ ReportsOf \in Nat /\ ReviewsOf \in Nat
         /\ case # "ANSWERED" => ReviewsOf = ReportsOf
         /\ case = "ANSWERED" => ReviewsOf + 1 = ReportsOf
<1>1. IsFiniteSet(Referrals)
  BY FS_Interval, AccessAssumption DEF Referrals
<1>2. IsFiniteSet(Answered)
  BY <1>1, FS_Subset DEF Answered
<1>3. Cardinality(Answered) \in Nat
  BY <1>2, FS_CardinalityType
<1> QED
  BY <1>2, <1>3 DEF ReportsOf, ReviewsOf

(* A step the follow-up does not see. *)
LEMMA UnseenStep ==
  ASSUME Access, Access', UNCHANGED <<case, sent, report>>,
         \A r \in Referrals : link'[r].status = link[r].status /\ link'[r].window = link[r].window
  PROVE  UNCHANGED FollowUp!vars
<1>1. UNCHANGED <<StatusOf, ReportsOf, ReviewsOf>>
  BY DEF StatusOf, ReportsOf, ReviewsOf, Answered
<1>2. UNCHANGED ReferralRounds
  BY DEF ReferralRounds, RowOf, OutcomeOf, WindowOf
<1>3. UNCHANGED RoundsOf
  BY <1>2 DEF RoundsOf, Visit, NotYet
<1> QED
  BY <1>1, <1>3 DEF FollowUp!vars

(* The newest referral, as the follow-up sees it while the case waits for it. *)
LEMMA NewestIsAwaited ==
  ASSUME Access, case = "AWAITING_REFERRAL_OUTCOME"
  PROVE  /\ sent \in Referrals /\ sent + 1 \in FollowUp!Rounds
         /\ report[sent] = NoSession
         /\ RoundsOf[sent + 1] = ReferralRounds[sent]
         /\ ReferralRounds[sent] =
              [kind |-> "REFERRAL", row |-> "REFERRED", link |-> link[sent].status,
               window |-> WindowOf(link[sent].window), locked |-> FALSE, reports |-> 0,
               outcome |-> "NONE"]
         /\ FollowUp!IsNewestReferral(sent + 1)
<1>1. sent \in Referrals /\ report[sent] = NoSession /\ sent \in Nat
  BY DEF Access, ReferralsInOrder, TypeOK
<1>2. MappedRounds = FollowUp!Rounds
  BY DEF MappedRounds, FollowUp!Rounds
<1>3. ReferralRounds[sent] =
              [kind |-> "REFERRAL", row |-> "REFERRED", link |-> link[sent].status,
               window |-> WindowOf(link[sent].window), locked |-> FALSE, reports |-> 0,
               outcome |-> "NONE"]
  BY <1>1 DEF ReferralRounds, RowOf, OutcomeOf
<1>4. sent + 1 \in MappedRounds /\ RoundsOf[sent + 1] = ReferralRounds[sent]
  BY <1>1, RoundsAre
<1>5. \A s \in MappedRounds : RoundsOf[s].kind = "REFERRAL" => s <= sent + 1
  <2> SUFFICES ASSUME NEW s \in MappedRounds, RoundsOf[s].kind = "REFERRAL" PROVE s <= sent + 1
    OBVIOUS
  <2>1. s # 1
    BY RoundsAre DEF Visit
  <2>2. PICK r \in Referrals : s = r + 1
    BY <2>1, RoundsAre
  <2>3. r <= sent
    BY <2>2, RoundsAre DEF NotYet
  <2> QED
    BY <1>1, <2>2, <2>3 DEF Referrals
<1>6. FollowUp!IsNewestReferral(sent + 1)
  BY <1>2, <1>3, <1>4, <1>5 DEF FollowUp!IsNewestReferral, FollowUp!IsReferral
<1> QED
  BY <1>1, <1>2, <1>3, <1>4, <1>6

(* The row of a referral that is just sent. *)
LEMMA SentRow ==
  ASSUME Access, Access', NEW w \in {"before", "open"}, SendReferral(w)
  PROVE  /\ sent + 1 \in Referrals /\ sent' = sent + 1
         /\ ReferralRounds'[sent + 1] = FollowUp!ReferralRound(WindowOf(w))
         /\ WindowOf(w) \in {"SCHEDULED", "OPEN"}
<1>1. SendEffect(w) /\ sent \in Nat
  BY SendRows DEF Access, TypeOK
<1>2. /\ sent + 1 \in Referrals /\ sent' = sent + 1 /\ link'[sent + 1] = Sent(w)
      /\ case' = "AWAITING_REFERRAL_OUTCOME" /\ report' = report
  BY <1>1 DEF SendEffect
<1>3. link[sent + 1].status = "NONE" /\ report[sent + 1] = NoSession
  BY <1>1, <1>2 DEF Access, ReferralsInOrder
<1>4. PICK n \in Referrals : n = sent + 1
  BY <1>2
<1>5. RowOf(n)' = "REFERRED" /\ OutcomeOf(n)' = "NONE" /\ report'[n] = NoSession
  BY <1>2, <1>3, <1>4 DEF RowOf, OutcomeOf
<1>6. WindowOf(w) \in {"SCHEDULED", "OPEN"}
  BY DEF WindowOf
<1>7. link'[n].status = "ACTIVE" /\ link'[n].window = w
  BY <1>2, <1>4 DEF Sent
<1>8. ReferralRounds'[n] =
        [kind |-> "REFERRAL", row |-> "REFERRED", link |-> "ACTIVE", window |-> WindowOf(w),
         locked |-> FALSE, reports |-> 0, outcome |-> "NONE"]
  BY <1>5, <1>7 DEF ReferralRounds, WindowOf
<1>9. ReferralRounds'[n] = FollowUp!ReferralRound(WindowOf(w))
  BY <1>8 DEF FollowUp!ReferralRound, FollowUp!NewRound
<1> QED
  BY <1>2, <1>4, <1>6, <1>9

(* The rows of the follow-up are equal field by field. *)
LEMMA RowsEqual ==
  ASSUME NEW a \in FollowUp!Round, NEW b \in FollowUp!Round,
         a.kind = b.kind, a.row = b.row, a.link = b.link, a.window = b.window,
         a.locked = b.locked, a.reports = b.reports, a.outcome = b.outcome
  PROVE  a = b
BY DEF FollowUp!Round

LEMMA RowsHaveType ==
  ASSUME NEW state \in LinkStatus, NEW w \in Windows, NEW n \in {0, 1},
         NEW row \in {"COMPLETED", "NOT_SUCCEEDED", "REFERRED", "CANCELLED"},
         NEW outcome \in {"NONE", "SUCCEEDED", "NOT_SUCCEEDED"}
  PROVE  [kind |-> "REFERRAL", row |-> row, link |-> state, window |-> WindowOf(w),
          locked |-> FALSE, reports |-> n, outcome |-> outcome] \in FollowUp!Round
BY DEF FollowUp!Round, FollowUp!TaskKinds, FollowUp!RowStates, FollowUp!LinkStates,
       FollowUp!Windows, FollowUp!Outcomes, LinkStatus, Windows, WindowOf

LEMMA ReferralRowType ==
  ASSUME Access
  PROVE  \A r \in Referrals : ReferralRounds[r] \in FollowUp!Round
<1> SUFFICES ASSUME NEW r \in Referrals PROVE ReferralRounds[r] \in FollowUp!Round
  OBVIOUS
<1>1. link[r].status \in LinkStatus /\ link[r].window \in Windows
  BY DEF Access, TypeOK, Links
<1>2. /\ RowOf(r) \in {"COMPLETED", "NOT_SUCCEEDED", "REFERRED", "CANCELLED"}
      /\ OutcomeOf(r) \in {"NONE", "SUCCEEDED", "NOT_SUCCEEDED"}
      /\ (IF report[r] = NoSession THEN 0 ELSE 1) \in {0, 1}
  BY DEF RowOf, OutcomeOf
<1> DEFINE row == RowOf(r)
           outcome == OutcomeOf(r)
           n == IF report[r] = NoSession THEN 0 ELSE 1
<1>3. ReferralRounds[r] =
        [kind |-> "REFERRAL", row |-> row, link |-> link[r].status,
         window |-> WindowOf(link[r].window), locked |-> FALSE, reports |-> n,
         outcome |-> outcome]
  BY DEF ReferralRounds
<1> HIDE DEF row, outcome, n
<1>4. /\ row \in {"COMPLETED", "NOT_SUCCEEDED", "REFERRED", "CANCELLED"}
      /\ outcome \in {"NONE", "SUCCEEDED", "NOT_SUCCEEDED"} /\ n \in {0, 1}
  BY <1>2 DEF row, outcome, n
<1> DEFINE state == link[r].status
           w == link[r].window
<1>5. state \in LinkStatus /\ w \in Windows
  BY <1>1
<1>6. ReferralRounds[r] =
        [kind |-> "REFERRAL", row |-> row, link |-> state, window |-> WindowOf(w),
         locked |-> FALSE, reports |-> n, outcome |-> outcome]
  BY <1>3
<1> HIDE DEF state, w
<1>7. [kind |-> "REFERRAL", row |-> row, link |-> state, window |-> WindowOf(w),
       locked |-> FALSE, reports |-> n, outcome |-> outcome] \in FollowUp!Round
  BY <1>4, <1>5, RowsHaveType
<1> QED
  BY <1>6, <1>7

LEMMA NextReferralRowType ==
  ASSUME Access'
  PROVE  \A r \in Referrals : ReferralRounds'[r] \in FollowUp!Round
<1> SUFFICES ASSUME NEW r \in Referrals PROVE ReferralRounds'[r] \in FollowUp!Round
  OBVIOUS
<1>1. link'[r].status \in LinkStatus /\ link'[r].window \in Windows
  BY DEF Access, TypeOK, Links
<1>2. /\ RowOf(r)' \in {"COMPLETED", "NOT_SUCCEEDED", "REFERRED", "CANCELLED"}
      /\ OutcomeOf(r)' \in {"NONE", "SUCCEEDED", "NOT_SUCCEEDED"}
      /\ (IF report'[r] = NoSession THEN 0 ELSE 1) \in {0, 1}
  BY DEF RowOf, OutcomeOf
<1> DEFINE row == RowOf(r)'
           outcome == OutcomeOf(r)'
           n == IF report'[r] = NoSession THEN 0 ELSE 1
<1>3. ReferralRounds'[r] =
        [kind |-> "REFERRAL", row |-> row, link |-> link'[r].status,
         window |-> WindowOf(link'[r].window), locked |-> FALSE, reports |-> n,
         outcome |-> outcome]
  BY DEF ReferralRounds, WindowOf
<1> HIDE DEF row, outcome, n
<1>4. /\ row \in {"COMPLETED", "NOT_SUCCEEDED", "REFERRED", "CANCELLED"}
      /\ outcome \in {"NONE", "SUCCEEDED", "NOT_SUCCEEDED"} /\ n \in {0, 1}
  BY <1>2 DEF row, outcome, n
<1> DEFINE state == link'[r].status
           w == link'[r].window
<1>5. state \in LinkStatus /\ w \in Windows
  BY <1>1
<1>6. ReferralRounds'[r] =
        [kind |-> "REFERRAL", row |-> row, link |-> state, window |-> WindowOf(w),
         locked |-> FALSE, reports |-> n, outcome |-> outcome]
  BY <1>3
<1> HIDE DEF state, w
<1>7. [kind |-> "REFERRAL", row |-> row, link |-> state, window |-> WindowOf(w),
       locked |-> FALSE, reports |-> n, outcome |-> outcome] \in FollowUp!Round
  BY <1>4, <1>5, RowsHaveType
<1> QED
  BY <1>6, <1>7

(* A row that is closed without an answer. *)
LEMMA ClosedReferralIs ==
  ASSUME NEW rec \in FollowUp!Round
  PROVE  /\ FollowUp!ClosedReferral(rec) \in FollowUp!Round
         /\ FollowUp!ClosedReferral(rec).kind = rec.kind
         /\ FollowUp!ClosedReferral(rec).window = rec.window
         /\ FollowUp!ClosedReferral(rec).locked = rec.locked
         /\ FollowUp!ClosedReferral(rec).reports = rec.reports
         /\ FollowUp!ClosedReferral(rec).outcome = rec.outcome
         /\ FollowUp!ClosedReferral(rec).row = "CANCELLED"
         /\ FollowUp!ClosedReferral(rec).link =
               IF rec.link = "ACTIVE" THEN "REVOKED" ELSE rec.link
BY DEF FollowUp!ClosedReferral, FollowUp!Round, FollowUp!RowStates, FollowUp!LinkStates

(* The newest referral is closed while the case waits for it. *)
LEMMA NewestIsClosed ==
  ASSUME Access, Access', case = "AWAITING_REFERRAL_OUTCOME", UNCHANGED report,
         ClosedRow(sent, link'[sent]),
         sent' # sent \/ case' # "AWAITING_REFERRAL_OUTCOME"
  PROVE  ReferralRounds'[sent] = FollowUp!ClosedReferral(RoundsOf[sent + 1])
<1>0. PICK n \in Referrals : n = sent
  BY NewestIsAwaited
<1> DEFINE old == ReferralRounds[n]
           new == ReferralRounds'[n]
<1>1. /\ link'[n].status = (IF link[n].status = "ACTIVE" THEN "REVOKED" ELSE link[n].status)
      /\ link'[n].window = link[n].window
  BY <1>0 DEF ClosedRow
<1>2. report'[n] = NoSession /\ (n # sent' \/ case' # "AWAITING_REFERRAL_OUTCOME")
  BY <1>0, NewestIsAwaited
<1>3. RowOf(n)' = "CANCELLED" /\ OutcomeOf(n)' = "NONE"
  BY <1>2 DEF RowOf, OutcomeOf
<1>4. /\ new.kind = "REFERRAL" /\ new.row = "CANCELLED" /\ new.link = link'[n].status
      /\ new.window = WindowOf(link[n].window) /\ new.locked = FALSE /\ new.reports = 0
      /\ new.outcome = "NONE"
  BY <1>1, <1>2, <1>3 DEF ReferralRounds, WindowOf
<1>5. /\ old.kind = "REFERRAL" /\ old.link = link[n].status
      /\ old.window = WindowOf(link[n].window) /\ old.locked = FALSE /\ old.reports = 0
      /\ old.outcome = "NONE"
  BY <1>0, NewestIsAwaited
<1>6. old \in FollowUp!Round /\ new \in FollowUp!Round
  BY ReferralRowType, NextReferralRowType
<1>7. RoundsOf[sent + 1] = old
  BY <1>0, NewestIsAwaited
<1> DEFINE closed == FollowUp!ClosedReferral(old)
<1> HIDE DEF old, new
<1>8. /\ closed \in FollowUp!Round /\ closed.kind = old.kind /\ closed.row = "CANCELLED"
      /\ closed.window = old.window /\ closed.locked = old.locked
      /\ closed.reports = old.reports /\ closed.outcome = old.outcome
      /\ closed.link = IF old.link = "ACTIVE" THEN "REVOKED" ELSE old.link
  BY <1>6, ClosedReferralIs
<1> HIDE DEF closed
<1>9. /\ new.kind = closed.kind /\ new.row = closed.row /\ new.link = closed.link
       /\ new.window = closed.window /\ new.locked = closed.locked
       /\ new.reports = closed.reports /\ new.outcome = closed.outcome
  BY <1>1, <1>4, <1>5, <1>8
<1>10. new = closed
  BY <1>6, <1>8, <1>9, RowsEqual
<1>11. new = FollowUp!ClosedReferral(old)
  BY <1>10 DEF closed
<1> QED
  BY <1>0, <1>7, <1>11 DEF new

LEMMA SendFollowed ==
  ASSUME Access, Access', NEW w \in {"before", "open"}, SendReferral(w)
  PROVE  FollowUp!Referral
<1>1. SendEffect(w) /\ sent \in Nat /\ MaxReferrals \in Nat
  BY SendRows, AccessAssumption DEF Access, TypeOK
<1>2. /\ sent + 1 \in Referrals /\ sent' = sent + 1 /\ case' = "AWAITING_REFERRAL_OUTCOME"
      /\ report' = report
      /\ \A r \in Referrals : r # sent + 1 => ClosedRow(r, link'[r])
  BY <1>1 DEF SendEffect
<1>3. /\ StatusOf' = "AWAITING_REFERRAL_OUTCOME"
      /\ ReportsOf' = ReportsOf
      /\ case # "ANSWERED" => ReviewsOf' = ReviewsOf
  BY <1>2 DEF StatusOf, ReportsOf, ReviewsOf, Answered
<1>4. sent + 1 < MaxReferrals + 1
  BY <1>1, <1>2 DEF Referrals
<1>5. CASE case = "AWAITING_REFERRAL"
  <2>1. \A r \in Referrals : r # sent + 1 /\ r <= sent => ReferralRounds'[r] = ReferralRounds[r]
    <3> SUFFICES ASSUME NEW r \in Referrals, r # sent + 1, r <= sent
                 PROVE  ReferralRounds'[r] = ReferralRounds[r]
      OBVIOUS
    <3>1. link'[r].status = link[r].status /\ link'[r].window = link[r].window
      BY <1>2, <1>5 DEF ClosedRow, Access, ReferralsInOrder
    <3>2. RowOf(r)' = RowOf(r)
      BY <1>2, <1>5 DEF RowOf
    <3> QED
      BY <1>2, <3>1, <3>2 DEF ReferralRounds, OutcomeOf, WindowOf
  <2>2. RoundsOf' = [RoundsOf EXCEPT ![sent + 1 + 1] = FollowUp!ReferralRound(WindowOf(w))]
    BY <1>1, <1>2, <2>1, SentRow, RoundsChange
  <2>3. StatusOf = "AWAITING_REFERRAL"
    BY <1>5 DEF StatusOf
  <2>4. FollowUp!SendReferral(WindowOf(w))
    BY <1>2, <1>3, <1>4, <1>5, <2>2, <2>3 DEF FollowUp!SendReferral, FollowUp!Append
  <2> QED
    BY <2>4, SentRow DEF FollowUp!Referral
<1>6. CASE Unanswered
  <2>0. case = "AWAITING_REFERRAL_OUTCOME" /\ sent # sent + 1
    BY <1>1, <1>6 DEF Unanswered
  <2> DEFINE old == FollowUp!ClosedReferral(RoundsOf[sent + 1])
             new == FollowUp!ReferralRound(WindowOf(w))
             F == [RoundsOf EXCEPT ![sent + 1] = old, ![sent + 1 + 1] = new]
  <2>1. \A r \in Referrals : r # sent + 1 /\ r # sent /\ r <= sent =>
          ReferralRounds'[r] = ReferralRounds[r]
    <3> SUFFICES ASSUME NEW r \in Referrals, r # sent + 1, r # sent
                 PROVE  ReferralRounds'[r] = ReferralRounds[r]
      OBVIOUS
    <3>1. link'[r].status = link[r].status /\ link'[r].window = link[r].window
      BY <1>2 DEF ClosedRow
    <3>2. RowOf(r)' = RowOf(r)
      BY <1>2 DEF RowOf
    <3> QED
      BY <1>2, <3>1, <3>2 DEF ReferralRounds, OutcomeOf, WindowOf
  <2>2. ReferralRounds'[sent] = old
    BY <1>1, <1>2, <2>0, NewestIsClosed, NewestIsAwaited
  <2>3. RoundsOf' = F
    BY <1>1, <1>2, <2>0, <2>1, <2>2, SentRow, NewestIsAwaited, RoundsChangeTwice
  <2>4. FollowUp!Replaceable(sent + 1)
    <3>1. StatusOf = "AWAITING_REFERRAL_OUTCOME"
      BY <2>0 DEF StatusOf
    <3>2. \/ link[sent].status = "LOCKED"
          \/ link[sent].status = "ACTIVE" /\ WindowOf(link[sent].window) = "LAPSED"
      BY <1>6 DEF Unanswered, WindowOf
    <3> QED
      BY <2>0, <3>1, <3>2, NewestIsAwaited DEF FollowUp!Replaceable
  <2>5. StatusOf' = StatusOf
    BY <1>3, <2>0 DEF StatusOf
  <2>6. FollowUp!ReplaceReferral(sent + 1, WindowOf(w))
    BY <1>2, <1>3, <1>4, <2>0, <2>3, <2>4, <2>5 DEF FollowUp!ReplaceReferral, FollowUp!caseVars
  <2> QED
    BY <2>0, <2>6, SentRow, NewestIsAwaited DEF FollowUp!Referral
<1> QED
  BY <1>5, <1>6 DEF SendReferral

(* A row the step leaves as it is. *)
LEMMA RowStays ==
  ASSUME NEW r \in Referrals, link'[r].status = link[r].status,
         link'[r].window = link[r].window, report'[r] = report[r],
         (r = sent' /\ case' = "AWAITING_REFERRAL_OUTCOME")
           <=> (r = sent /\ case = "AWAITING_REFERRAL_OUTCOME")
  PROVE  ReferralRounds'[r] = ReferralRounds[r]
<1>1. RowOf(r)' = RowOf(r) /\ OutcomeOf(r)' = OutcomeOf(r)
  BY DEF RowOf, OutcomeOf
<1> QED
  BY <1>1 DEF ReferralRounds, WindowOf

(* Rows with another link, another window, a report. *)
LEMMA RowWithLink ==
  ASSUME NEW rec \in FollowUp!Round, NEW state \in FollowUp!LinkStates
  PROVE  /\ [rec EXCEPT !.link = state] \in FollowUp!Round
         /\ [rec EXCEPT !.link = state].kind = rec.kind
         /\ [rec EXCEPT !.link = state].row = rec.row
         /\ [rec EXCEPT !.link = state].link = state
         /\ [rec EXCEPT !.link = state].window = rec.window
         /\ [rec EXCEPT !.link = state].locked = rec.locked
         /\ [rec EXCEPT !.link = state].reports = rec.reports
         /\ [rec EXCEPT !.link = state].outcome = rec.outcome
BY DEF FollowUp!Round

LEMMA RowWithWindow ==
  ASSUME NEW rec \in FollowUp!Round, NEW w \in FollowUp!Windows
  PROVE  /\ [rec EXCEPT !.window = w] \in FollowUp!Round
         /\ [rec EXCEPT !.window = w].kind = rec.kind
         /\ [rec EXCEPT !.window = w].row = rec.row
         /\ [rec EXCEPT !.window = w].link = rec.link
         /\ [rec EXCEPT !.window = w].window = w
         /\ [rec EXCEPT !.window = w].locked = rec.locked
         /\ [rec EXCEPT !.window = w].reports = rec.reports
         /\ [rec EXCEPT !.window = w].outcome = rec.outcome
BY DEF FollowUp!Round

LEMMA RowWithReport ==
  ASSUME NEW rec \in FollowUp!Round, NEW row \in FollowUp!RowStates,
         NEW state \in FollowUp!LinkStates, NEW outcome \in FollowUp!Outcomes
  PROVE  /\ FollowUp!Reported(rec, row, state, outcome) \in FollowUp!Round
         /\ FollowUp!Reported(rec, row, state, outcome).kind = rec.kind
         /\ FollowUp!Reported(rec, row, state, outcome).row = row
         /\ FollowUp!Reported(rec, row, state, outcome).link = state
         /\ FollowUp!Reported(rec, row, state, outcome).window = rec.window
         /\ FollowUp!Reported(rec, row, state, outcome).locked = rec.locked
         /\ FollowUp!Reported(rec, row, state, outcome).reports = rec.reports + 1
         /\ FollowUp!Reported(rec, row, state, outcome).outcome = outcome
<1>1. rec.reports \in Nat
  BY DEF FollowUp!Round
<1> DEFINE n == rec.reports + 1
<1>2. n \in Nat
  BY <1>1
<1>3. FollowUp!Reported(rec, row, state, outcome) =
        [rec EXCEPT !.row = row, !.link = state, !.reports = n, !.outcome = outcome]
  BY DEF FollowUp!Reported
<1> DEFINE new == [rec EXCEPT !.row = row, !.link = state, !.reports = n, !.outcome = outcome]
<1> HIDE DEF n
<1>4. /\ new \in FollowUp!Round /\ new.kind = rec.kind /\ new.row = row /\ new.link = state
      /\ new.window = rec.window /\ new.locked = rec.locked /\ new.reports = n
      /\ new.outcome = outcome
  BY <1>2 DEF FollowUp!Round
<1> QED
  BY <1>3, <1>4 DEF n

LEMMA CancelFollowed ==
  ASSUME Access, Access', CancelReferral
  PROVE  FollowUp!Referral
<1>1. /\ CancelEffect /\ case = "AWAITING_REFERRAL_OUTCOME" /\ sent \in Referrals
      /\ case' = "AWAITING_REFERRAL" /\ sent' = sent /\ report' = report /\ sent \in Nat
  BY CancelRows, NewestIsAwaited DEF CancelReferral, CancelEffect, Access, TypeOK
<1> DEFINE closed == FollowUp!ClosedReferral(RoundsOf[sent + 1])
<1>2. ReferralRounds'[sent] = closed
  <2>1. ClosedRow(sent, link'[sent])
    BY <1>1 DEF CancelEffect
  <2> QED
    BY <1>1, <2>1, NewestIsClosed
<1>3. \A r \in Referrals : r # sent /\ r <= sent => ReferralRounds'[r] = ReferralRounds[r]
  BY <1>1, RowStays DEF CancelEffect, ClosedRow
<1>4. RoundsOf' = [RoundsOf EXCEPT ![sent + 1] = closed]
  <2> HIDE DEF closed
  <2> QED
    BY <1>1, <1>2, <1>3, RoundsChange
<1>5. /\ StatusOf = "AWAITING_REFERRAL_OUTCOME" /\ StatusOf' = "AWAITING_REFERRAL"
      /\ UNCHANGED <<ReportsOf, ReviewsOf>>
  BY <1>1 DEF StatusOf, ReportsOf, ReviewsOf, Answered
<1>6. FollowUp!AwaitingResult(sent + 1) /\ sent + 1 \in FollowUp!Rounds
  BY <1>1, <1>5, NewestIsAwaited DEF FollowUp!AwaitingResult
<1>7. FollowUp!CancelReferral(sent + 1)
  BY <1>1, <1>4, <1>5, <1>6 DEF FollowUp!CancelReferral
<1> QED
  BY <1>6, <1>7 DEF FollowUp!Referral

LEMMA LockFollowed ==
  ASSUME Access, Access', FailuresInWindow, NEW a \in Agents, CountFailure(a)
  PROVE  FollowUp!Referral \/ UNCHANGED FollowUp!vars
<1>1. /\ CountEffect(a) /\ sent' = sent /\ case' = case /\ report' = report
      /\ sent \in Nat /\ link \in [Referrals -> Links]
  BY CountRows DEF CountEffect, Access, TypeOK
<1>2. \A r \in Referrals : link'[r].window = link[r].window
  BY <1>1 DEF CountEffect
<1>3. CASE \A r \in Referrals : link'[r].status = link[r].status
  BY <1>1, <1>2, <1>3, UnseenStep
<1>4. ASSUME NEW n \in Referrals, link'[n].status # link[n].status PROVE FollowUp!Referral
  <2>1. link[n].status = "ACTIVE" /\ link'[n].status = "LOCKED"
    BY <1>1, <1>4 DEF CountEffect
  <2>2. n = sent /\ case = "AWAITING_REFERRAL_OUTCOME"
    BY <2>1 DEF Access, ReferralsInOrder
  <2>3. \A r \in Referrals : r # n => link'[r].status = link[r].status
    <3> SUFFICES ASSUME NEW r \in Referrals, r # n, link'[r].status # link[r].status PROVE FALSE
      OBVIOUS
    <3>1. link[r].status = "ACTIVE"
      BY <1>1 DEF CountEffect
    <3> QED
      BY <2>2, <3>1 DEF Access, ReferralsInOrder
  <2>4. link[n].window # "before"
    <3>1. n = req[a].link
      BY <1>1, <1>4 DEF CountFailure
    <3> QED
      BY <3>1 DEF FailuresInWindow, CountFailure
  <2> DEFINE old == ReferralRounds[n]
             new == ReferralRounds'[n]
             locked == [old EXCEPT !.link = "LOCKED"]
  <2>5. /\ old.kind = "REFERRAL" /\ old.row = "REFERRED" /\ old.link = "ACTIVE"
        /\ old.window = WindowOf(link[n].window) /\ old.locked = FALSE /\ old.reports = 0
        /\ old.outcome = "NONE"
    BY <2>1, <2>2, NewestIsAwaited
  <2>6. RowOf(n)' = "REFERRED" /\ OutcomeOf(n)' = "NONE" /\ report'[n] = NoSession
    BY <1>1, <2>2, NewestIsAwaited DEF RowOf, OutcomeOf
  <2>7. /\ new.kind = "REFERRAL" /\ new.row = "REFERRED" /\ new.link = "LOCKED"
        /\ new.window = WindowOf(link[n].window) /\ new.locked = FALSE /\ new.reports = 0
        /\ new.outcome = "NONE"
    BY <1>2, <2>1, <2>6 DEF ReferralRounds, WindowOf
  <2>8. old \in FollowUp!Round /\ new \in FollowUp!Round /\ "LOCKED" \in FollowUp!LinkStates
    BY ReferralRowType, NextReferralRowType DEF FollowUp!LinkStates
  <2>9. RoundsOf[n + 1] = old /\ FollowUp!IsNewestReferral(n + 1) /\ n + 1 \in FollowUp!Rounds
    BY <2>2, NewestIsAwaited
  <2>10. \A r \in Referrals : r # n /\ r <= sent => ReferralRounds'[r] = ReferralRounds[r]
    BY <1>1, <1>2, <2>3, RowStays
  <2>11. WindowOf(link[n].window) # "SCHEDULED"
    BY <2>4 DEF WindowOf
  <2> HIDE DEF old, new
  <2>12. /\ locked \in FollowUp!Round /\ locked.kind = old.kind /\ locked.row = old.row
         /\ locked.link = "LOCKED" /\ locked.window = old.window
         /\ locked.locked = old.locked /\ locked.reports = old.reports
         /\ locked.outcome = old.outcome
    BY <2>8, RowWithLink
  <2> HIDE DEF locked
  <2>13. new = locked
    <3>1. /\ new.kind = locked.kind /\ new.row = locked.row /\ new.link = locked.link
          /\ new.window = locked.window /\ new.locked = locked.locked
          /\ new.reports = locked.reports /\ new.outcome = locked.outcome
      BY <2>5, <2>7, <2>12
    <3> QED
      BY <2>8, <2>12, <3>1, RowsEqual
  <2>14. RoundsOf' = [RoundsOf EXCEPT ![n + 1] = locked]
    <3>1. ReferralRounds'[n] = locked /\ n <= sent'
      BY <1>1, <2>2, <2>13 DEF new
    <3> QED
      BY <1>1, <2>10, <3>1, RoundsChange
  <2>15. RoundsOf' = [RoundsOf EXCEPT ![n + 1].link = "LOCKED"]
    BY <2>9, <2>14 DEF locked
  <2>16. UNCHANGED <<StatusOf, ReportsOf, ReviewsOf>>
    BY <1>1 DEF StatusOf, ReportsOf, ReviewsOf, Answered
  <2>17. FollowUp!LockReferralLink(n + 1)
    BY <1>1, <2>5, <2>9, <2>11, <2>15, <2>16
       DEF FollowUp!LockReferralLink, FollowUp!IsReferral, FollowUp!caseVars
  <2> QED
    BY <2>9, <2>17 DEF FollowUp!Referral
<1> QED
  BY <1>3, <1>4

LEMMA ClockFollowed ==
  ASSUME Access, Access', NEW n \in Referrals, WindowMoves(n)
  PROVE  FollowUp!Clock
<1>1. /\ sent' = sent /\ case' = case /\ report' = report /\ link[n].status = "ACTIVE"
      /\ sent \in Nat /\ link \in [Referrals -> Links]
  BY DEF WindowMoves, Access, TypeOK
<1>2. n = sent /\ case = "AWAITING_REFERRAL_OUTCOME"
  BY <1>1 DEF Access, ReferralsInOrder
<1>3. /\ \A r \in Referrals : link'[r].status = link[r].status
      /\ \A r \in Referrals : r # n => link'[r].window = link[r].window
      /\ \/ link[n].window = "before" /\ link'[n].window = "open"
         \/ link[n].window = "open" /\ link'[n].window = "over"
  <2>1. CASE link[n].window = "before" /\ link' = [link EXCEPT ![n].window = "open"]
    BY <1>1, <2>1 DEF Links
  <2>2. CASE link[n].window = "open" /\ link' = [link EXCEPT ![n].window = "over"]
    BY <1>1, <2>2 DEF Links
  <2> QED
    BY <2>1, <2>2 DEF WindowMoves
<1> DEFINE old == ReferralRounds[n]
           new == ReferralRounds'[n]
           w == WindowOf(link'[n].window)
           moved == [old EXCEPT !.window = w]
<1>4. /\ old.kind = "REFERRAL" /\ old.row = "REFERRED" /\ old.link = "ACTIVE"
      /\ old.window = WindowOf(link[n].window) /\ old.locked = FALSE /\ old.reports = 0
      /\ old.outcome = "NONE"
  BY <1>1, <1>2, NewestIsAwaited
<1>5. RowOf(n)' = "REFERRED" /\ OutcomeOf(n)' = "NONE" /\ report'[n] = NoSession
  BY <1>1, <1>2, NewestIsAwaited DEF RowOf, OutcomeOf
<1>6. /\ new.kind = "REFERRAL" /\ new.row = "REFERRED" /\ new.link = "ACTIVE"
      /\ new.window = w /\ new.locked = FALSE /\ new.reports = 0 /\ new.outcome = "NONE"
  BY <1>1, <1>3, <1>5 DEF ReferralRounds, WindowOf
<1>7. old \in FollowUp!Round /\ new \in FollowUp!Round /\ w \in FollowUp!Windows
  BY ReferralRowType, NextReferralRowType DEF FollowUp!Windows, WindowOf
<1>8. RoundsOf[n + 1] = old /\ n + 1 \in FollowUp!Rounds
  BY <1>2, NewestIsAwaited
<1>9. \A r \in Referrals : r # n /\ r <= sent => ReferralRounds'[r] = ReferralRounds[r]
  BY <1>1, <1>3, RowStays
<1>10. \/ WindowOf(link[n].window) = "SCHEDULED" /\ w = "OPEN"
       \/ WindowOf(link[n].window) = "OPEN" /\ w = "LAPSED"
  BY <1>3 DEF WindowOf
<1> HIDE DEF old, new, w
<1>11. /\ moved \in FollowUp!Round /\ moved.kind = old.kind /\ moved.row = old.row
       /\ moved.link = old.link /\ moved.window = w /\ moved.locked = old.locked
       /\ moved.reports = old.reports /\ moved.outcome = old.outcome
  BY <1>7, RowWithWindow
<1> HIDE DEF moved
<1>12. new = moved
  <2>1. /\ new.kind = moved.kind /\ new.row = moved.row /\ new.link = moved.link
        /\ new.window = moved.window /\ new.locked = moved.locked
        /\ new.reports = moved.reports /\ new.outcome = moved.outcome
    BY <1>4, <1>6, <1>11
  <2> QED
    BY <1>7, <1>11, <2>1, RowsEqual
<1>13. RoundsOf' = [RoundsOf EXCEPT ![n + 1] = moved]
  <2>1. ReferralRounds'[n] = moved /\ n <= sent'
    BY <1>1, <1>2, <1>12 DEF new
  <2> QED
    BY <1>1, <1>9, <2>1, RoundsChange
<1>14. RoundsOf' = [RoundsOf EXCEPT ![n + 1].window = w]
  BY <1>8, <1>13 DEF moved
<1>15. UNCHANGED <<StatusOf, ReportsOf, ReviewsOf>>
  BY <1>1 DEF StatusOf, ReportsOf, ReviewsOf, Answered
<1>16. FollowUp!Opens(n + 1) \/ FollowUp!Lapses(n + 1)
  BY <1>1, <1>4, <1>8, <1>10, <1>14, <1>15
     DEF FollowUp!Opens, FollowUp!Lapses, FollowUp!PassTime, FollowUp!caseVars
<1> QED
  BY <1>8, <1>16 DEF FollowUp!Clock

LEMMA ReviewFollowed ==
  ASSUME Access, Access', ReviewRefers
  PROVE  FollowUp!ReviewRefer
<1>1. /\ case = "ANSWERED" /\ case' = "AWAITING_REFERRAL"
      /\ sent' = sent /\ link' = link /\ report' = report
  BY DEF ReviewRefers
<1>2. RoundsOf' = RoundsOf
  <2>1. \A r \in Referrals : ReferralRounds'[r] = ReferralRounds[r]
    BY <1>1, RowStays
  <2>2. ReferralRounds' = ReferralRounds
    BY <2>1 DEF ReferralRounds
  <2> QED
    BY <1>1, <2>2 DEF RoundsOf, Visit, NotYet
<1>3. ReportsOf' = ReportsOf
  BY <1>1 DEF ReportsOf, Answered
<1>4. ReviewsOf' = ReviewsOf + 1
  <2>1. ReviewsOf' = ReportsOf'
    BY <1>1 DEF ReviewsOf
  <2> QED
    BY <1>1, <1>3, <2>1, CountsAre
<1>5. StatusOf \in FollowUp!Reviewable /\ StatusOf' = "AWAITING_REFERRAL"
  BY <1>1 DEF StatusOf, FollowUp!Reviewable
<1> QED
  BY <1>1, <1>2, <1>3, <1>4, <1>5 DEF FollowUp!ReviewRefer

LEMMA ReportFollowed ==
  ASSUME Access, Access', NEW a \in Agents, SubmitReport(a)
  PROVE  FollowUp!Referral \/ UNCHANGED FollowUp!vars
<1>1. CASE ~MayReport(req[a])
  BY <1>1, UnseenStep DEF SubmitReport
<1>2. CASE MayReport(req[a])
  <2> DEFINE n == sent
             old == ReferralRounds[n]
             new == ReferralRounds'[n]
             helped == n \in Helping
             row == IF helped THEN "COMPLETED" ELSE "NOT_SUCCEEDED"
             outcome == IF helped THEN "SUCCEEDED" ELSE "NOT_SUCCEEDED"
             answered == FollowUp!Reported(old, row, "USED", outcome)
  <2>1. /\ req[a].link = sent /\ case = "AWAITING_REFERRAL_OUTCOME" /\ case' = "ANSWERED"
        /\ link[sent].status = "ACTIVE" /\ link[sent].window = "open" /\ sent' = sent
        /\ sent \in Referrals /\ sent \in Nat /\ report \in [Referrals -> Sessions \cup {NoSession}]
    BY <1>2, NewestIsAwaited DEF MayReport, SubmitReport, Access, TypeOK
  <2>2. req[a].session # NoSession
    BY SessionIsReal DEF SubmitReport, Access, RequestsInOrder
  <2>3. /\ report' = [report EXCEPT ![sent] = req[a].session]
        /\ \A r \in Referrals : r # sent => report'[r] = report[r]
        /\ report'[sent] # NoSession /\ report[sent] = NoSession
    BY <1>2, <2>1, <2>2, NewestIsAwaited DEF SubmitReport
  <2>4. \A r \in Referrals :
          /\ link'[r].window = link[r].window
          /\ link'[r].status = IF r = sent THEN "USED" ELSE link[r].status
    BY <1>2, <2>1 DEF SubmitReport, Access, TypeOK, Links
  <2>5. /\ old.kind = "REFERRAL" /\ old.link = "ACTIVE"
        /\ old.window = "OPEN" /\ old.locked = FALSE /\ old.reports = 0
    BY <2>1, NewestIsAwaited DEF WindowOf
  <2>6. RowOf(n)' = row /\ OutcomeOf(n)' = outcome
    BY <2>1, <2>3 DEF RowOf, OutcomeOf
  <2>7. /\ new.kind = "REFERRAL" /\ new.row = row /\ new.link = "USED"
        /\ new.window = "OPEN" /\ new.locked = FALSE /\ new.reports = 1
        /\ new.outcome = outcome
    BY <2>1, <2>3, <2>4, <2>6 DEF ReferralRounds, WindowOf
  <2>8. /\ old \in FollowUp!Round /\ new \in FollowUp!Round
        /\ row \in FollowUp!RowStates /\ "USED" \in FollowUp!LinkStates
        /\ outcome \in FollowUp!Outcomes
    BY <2>1, ReferralRowType, NextReferralRowType
       DEF FollowUp!LinkStates, FollowUp!RowStates, FollowUp!Outcomes
  <2>9. RoundsOf[n + 1] = old /\ FollowUp!IsNewestReferral(n + 1) /\ n + 1 \in FollowUp!Rounds
    BY <2>1, NewestIsAwaited
  <2>10. \A r \in Referrals : r # n /\ r <= sent => ReferralRounds'[r] = ReferralRounds[r]
    BY <2>1, <2>3, <2>4, RowStays
  <2>11. old.reports + 1 = 1
    BY <2>5
  <2> HIDE DEF old, new, row, outcome
  <2>12. /\ answered \in FollowUp!Round /\ answered.kind = old.kind /\ answered.row = row
         /\ answered.link = "USED" /\ answered.window = old.window
         /\ answered.locked = old.locked /\ answered.reports = old.reports + 1
         /\ answered.outcome = outcome
    BY <2>8, RowWithReport
  <2> HIDE DEF answered
  <2>13. new = answered
    <3>1. /\ new.kind = answered.kind /\ new.row = answered.row /\ new.link = answered.link
          /\ new.window = answered.window /\ new.locked = answered.locked
          /\ new.reports = answered.reports /\ new.outcome = answered.outcome
      BY <2>5, <2>7, <2>11, <2>12, Zenon
    <3> QED
      BY <2>8, <2>12, <3>1, RowsEqual
  <2>14. RoundsOf' = [RoundsOf EXCEPT ![n + 1] = answered]
    <3>1. ReferralRounds'[n] = answered /\ n <= sent'
      BY <2>1, <2>13 DEF new
    <3> QED
      BY <2>1, <2>10, <3>1, RoundsChange
  <2>15. /\ ReportsOf' = ReportsOf + 1 /\ ReviewsOf' = ReviewsOf
    <3>1. Answered' = Answered \cup {sent} /\ sent \notin Answered
      BY <2>1, <2>3 DEF Answered
    <3>2. Cardinality(Answered') = Cardinality(Answered) + 1
      BY <3>1, CountsAre, FS_AddElement
    <3>3. ReviewsOf' = Cardinality(Answered') /\ ReviewsOf = ReportsOf
      BY <2>1 DEF ReviewsOf
    <3> QED
      BY <3>2, <3>3, CountsAre DEF ReportsOf
  <2>16. StatusOf = "AWAITING_REFERRAL_OUTCOME" /\ StatusOf' =
           IF helped THEN "PENDING_REVIEW" ELSE "REFERRAL_NOT_SUCCEEDED"
    BY <2>1 DEF StatusOf
  <2>17. FollowUp!AwaitingResult(n + 1)
    BY <2>5, <2>9, <2>16 DEF FollowUp!AwaitingResult
  <2>18. RoundsOf' = [RoundsOf EXCEPT ![n + 1] =
           IF helped THEN FollowUp!Reported(@, "COMPLETED", "USED", "SUCCEEDED")
                     ELSE FollowUp!Reported(@, "NOT_SUCCEEDED", "USED", "NOT_SUCCEEDED")]
    BY <2>9, <2>14 DEF answered, row, outcome
  <2> HIDE DEF helped
  <2>19. helped \in BOOLEAN
    BY DEF helped
  <2>20. FollowUp!AgencyReport(n + 1, helped)
    BY <2>1, <2>5, <2>9, <2>15, <2>16, <2>17, <2>18 DEF FollowUp!AgencyReport
  <2> QED
    BY <2>9, <2>19, <2>20 DEF FollowUp!Referral
<1> QED
  BY <1>1, <1>2

LEMMA FollowUpSteps ==
  ASSUME Access, Access', FailuresInWindow, [Next]_vars
  PROVE  [FollowUpStep]_(FollowUp!vars)
<1>1. ASSUME NEW w \in {"before", "open"}, SendReferral(w) PROVE FollowUp!Referral
  BY <1>1, SendFollowed
<1>2. CASE RefreshAccessCode
  <2>1. \A r \in Referrals : link'[r].status = link[r].status /\ link'[r].window = link[r].window
    BY <1>2 DEF RefreshAccessCode, Access, TypeOK, Links
  <2> QED
    BY <1>2, <2>1, UnseenStep DEF RefreshAccessCode
<1>3. CASE CancelReferral
  BY <1>3, CancelFollowed DEF FollowUpStep
<1>4. CASE ReviewRefers
  BY <1>4, ReviewFollowed DEF FollowUpStep
<1>5. ASSUME NEW a \in Agents, CountFailure(a) PROVE FollowUp!Referral \/ UNCHANGED FollowUp!vars
  BY <1>5, LockFollowed
<1>6. ASSUME NEW a \in Agents, SubmitReport(a) PROVE FollowUp!Referral \/ UNCHANGED FollowUp!vars
  BY <1>6, ReportFollowed
<1>7. ASSUME NEW r \in Referrals, WindowMoves(r) PROVE FollowUp!Clock
  BY <1>7, ClockFollowed
<1>8. CASE UNCHANGED table
  BY <1>8 DEF FollowUpStep
<1> QED
  BY <1>1, <1>2, <1>3, <1>4, <1>5, <1>6, <1>7, <1>8
     DEF Next, School, Agency, Time, vars, EnterCode, CreateChallenge, BeginChallenge,
         ClaimOrRenew, ReadAuthorization, ApproveAuthorization, PollChallenge,
         ConsumeApproved, IssueSession, ReadSession, RequestDies, ChallengeExpires,
         SessionExpires, FollowUpStep

(* Every step of the referrals, as the case sees it, is one of its           *)
(* follow-up's: the agency's way to the report implements the single steps   *)
(* in which CaseFollowUp sends, withdraws, locks, answers and reviews.       *)
THEOREM ReferralsImplementFollowUp == Spec => ReferralsFollowTheCase
<1>1. Init => FailuresInWindow
  BY FailureWindowInit
<1>2. Access /\ FailuresInWindow /\ [Next]_vars => FailuresInWindow'
  BY FailureWindowStep
<1>3. Spec => []FailuresInWindow
  BY <1>1, <1>2, AccessAlways, PTL DEF Spec
<1>4. Access /\ Access' /\ FailuresInWindow /\ [Next]_vars => [FollowUpStep]_(FollowUp!vars)
  BY FollowUpSteps
<1>5. Spec => [][FollowUpStep]_(FollowUp!vars)
  BY <1>3, <1>4, AccessAlways, PTL DEF Spec
<1> QED
  BY <1>5 DEF ReferralsFollowTheCase

(* What the follow-up promises of a case, seen on its referrals. *)
LEMMA AwaitedIsSeen == Access => FollowUp!AwaitsNewestReferral
<1> SUFFICES ASSUME Access, StatusOf = "AWAITING_REFERRAL_OUTCOME"
             PROVE  /\ sent + 1 \in FollowUp!Rounds
                    /\ RoundsOf[sent + 1].kind = "REFERRAL"
                    /\ RoundsOf[sent + 1].row = "REFERRED"
                    /\ RoundsOf[sent + 1].reports = 0
  BY DEF FollowUp!AwaitsNewestReferral, FollowUp!IsReferral
<1>1. case = "AWAITING_REFERRAL_OUTCOME"
  BY DEF StatusOf
<1> QED
  BY <1>1, NewestIsAwaited

LEMMA ReportsAreSeen == Access => FollowUp!ReportedRoundStaysReported
<1> SUFFICES ASSUME Access, NEW s \in MappedRounds, RoundsOf[s].reports > 0
             PROVE  /\ RoundsOf[s].row \in {"COMPLETED", "NOT_SUCCEEDED"}
                    /\ RoundsOf[s].link \in {"COMPLETED", "USED"}
  BY DEF FollowUp!ReportedRoundStaysReported, FollowUp!Rounds, MappedRounds
<1>1. CASE s = 1
  BY <1>1, RoundsAre DEF Visit
<1>2. CASE s # 1
  <2>1. PICK r \in Referrals : s = r + 1
    BY <1>2, RoundsAre
  <2>2. RoundsOf[s] = ReferralRounds[r]
    BY <2>1, RoundsAre DEF NotYet
  <2>3. report[r] # NoSession
    BY <2>2 DEF ReferralRounds
  <2>4. link[r].status = "USED"
    BY <2>3 DEF Access, ReferralsInOrder
  <2> QED
    BY <2>2, <2>3, <2>4 DEF ReferralRounds, RowOf
<1> QED
  BY <1>1, <1>2

LEMMA ReviewsAreSeen == Access => FollowUp!ReviewHasReport
<1> SUFFICES ASSUME Access PROVE FollowUp!ReviewHasReport
  OBVIOUS
<1>1. StatusOf \in {"PENDING_REVIEW", "REFERRAL_NOT_SUCCEEDED"} => case = "ANSWERED"
  BY DEF StatusOf, Access, TypeOK, Cases
<1>2. StatusOf = "AWAITING_REFERRAL" => case # "ANSWERED"
  BY DEF StatusOf
<1>3. ReportsOf >= 1
  BY CountsAre DEF ReportsOf
<1> QED
  BY <1>1, <1>2, <1>3, CountsAre DEF FollowUp!ReviewHasReport

(* The case the agency's way shows its follow-up is one the follow-up may    *)
(* have: while it waits, its newest round is a referral that can still be    *)
(* answered; no report is ever overwritten by a lock, a withdrawal or the    *)
(* next referral; and no review is without a report of its own.              *)
THEOREM ReferralsKeepFollowUp ==
  Spec => [](/\ FollowUp!AwaitsNewestReferral
             /\ FollowUp!ReportedRoundStaysReported
             /\ FollowUp!ReviewHasReport)
<1>1. Access => /\ FollowUp!AwaitsNewestReferral
                /\ FollowUp!ReportedRoundStaysReported
                /\ FollowUp!ReviewHasReport
  BY AwaitedIsSeen, ReportsAreSeen, ReviewsAreSeen
<1> QED
  BY <1>1, AccessAlways, PTL

=============================================================================
