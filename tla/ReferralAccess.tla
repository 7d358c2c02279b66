--------------------------- MODULE ReferralAccess ---------------------------
(***************************************************************************)
(* The agency's way to its report (ReferralLinkService): the school sends  *)
(* a case to an agency with a link and an access code; whoever enters the  *)
(* code gets an AraID challenge, a device claims it, a person approves it, *)
(* the page that polls exchanges it for a session, and the session files   *)
(* the one report the link takes.  Meanwhile the school changes the code,  *)
(* withdraws the referral or sends the case again, wrong codes lock the    *)
(* link, and links, challenges and sessions run out.                       *)
(*                                                                         *)
(* A request reads, then writes in a later step what it read allowed; what *)
(* the database does in one transaction, and the challenge store in one    *)
(* script, is one step.  The stores themselves (Redis) are external.       *)
(***************************************************************************)
EXTENDS Naturals

CONSTANTS Agents,       \* requests and the people behind them
          Challenges,   \* challenge tokens
          Nobody,
          MaxAttempts,  \* MAX_ACCESS_CODE_ATTEMPTS
          MaxReferrals, \* bound: referrals of the case
          MaxRevision,  \* bound: code refreshes per link
          MaxTokens     \* bound: authorizations per challenge

ASSUME AccessAssumption ==
  /\ Nobody \notin Agents /\ Nobody \notin Challenges
  /\ MaxAttempts \in Nat \ {0} /\ MaxReferrals \in Nat \ {0}
  /\ MaxRevision \in Nat /\ MaxTokens \in Nat \ {0}

VARIABLES
  case,      \* cases.status, as far as referrals go
  sent,      \* how many referrals the case has; the last one is the newest
  link,      \* case_referral_links, one per referral
  report,    \* case_referral_results: the session that filed it, or NoSession
  chal,      \* the challenge store
  auths,     \* its authorizations, per challenge
  sessions,  \* the session store
  req,       \* per agent, the request in flight and what it has read
  approvers, \* history: who was told that they approved a challenge
  issued     \* history: the sessions a challenge was exchanged for

table == <<case, sent, link, report>>
store == <<chal, auths>>
history == <<approvers, issued>>
vars == <<table, store, sessions, req, history>>

Referrals == 1..MaxReferrals
Cases == {"AWAITING_REFERRAL", "AWAITING_REFERRAL_OUTCOME", "ANSWERED"}
LinkStatus == {"NONE", "ACTIVE", "LOCKED", "REVOKED", "USED"}
Windows == {"before", "open", "over"}
ChallengeStatus == {"NONE", "PENDING", "CLAIMED", "APPROVED", "CONSUMED", "GONE"}
Steps == {"idle", "fail", "create", "claim", "approve", "consume", "issue", "report"}

Links == [status: LinkStatus, revision: Nat, attempts: Nat, window: Windows]
ChallengeRows == [status: ChallengeStatus, link: Nat, revision: Nat,
                  reporter: Agents \cup {Nobody}]
Sessions == [chal: Challenges, link: Nat, revision: Nat, reporter: Agents]
NoSession == [chal |-> Nobody, link |-> 0, revision |-> 0, reporter |-> Nobody]
Requests == [at: Steps, link: Nat, revision: Nat, chal: Challenges \cup {Nobody},
             token: Nat, session: Sessions \cup {NoSession}]

Idle == [at |-> "idle", link |-> 0, revision |-> 0, chal |-> Nobody,
         token |-> 0, session |-> NoSession]

Init ==
  /\ case = "AWAITING_REFERRAL" /\ sent = 0
  /\ link = [r \in Referrals |->
               [status |-> "NONE", revision |-> 0, attempts |-> 0, window |-> "before"]]
  /\ report = [r \in Referrals |-> NoSession]
  /\ chal = [c \in Challenges |->
               [status |-> "NONE", link |-> 0, revision |-> 0, reporter |-> Nobody]]
  /\ auths = [c \in Challenges |-> {}]
  /\ sessions = {}
  /\ req = [a \in Agents |-> Idle]
  /\ approvers = [c \in Challenges |-> {}]
  /\ issued = [c \in Challenges |-> 0]

(* The request of a goes on with what it has read; it is over. *)
Goes(a, next) == req' = [req EXCEPT ![a] = next]
Ends(a) == Goes(a, Idle)

(* assertLinkUsable. *)
Usable(r) ==
  /\ link[r].status = "ACTIVE"
  /\ link[r].window = "open"
  /\ report[r] = NoSession
  /\ case = "AWAITING_REFERRAL_OUTCOME"

(* assertChallengeCurrent: the link still opens, by the code the challenge   *)
(* was created under.                                                        *)
Current(c) ==
  /\ Usable(chal[c].link)
  /\ chal[c].revision = link[chal[c].link].revision

Stored(c) == chal[c].status \in {"PENDING", "CLAIMED", "APPROVED"}

-----------------------------------------------------------------------------
(* The school. *)

(* The case's last referral when its round is over without an answer. *)
Unanswered ==
  /\ case = "AWAITING_REFERRAL_OUTCOME"
  /\ report[sent] = NoSession
  /\ \/ link[sent].status = "LOCKED"
     \/ link[sent].status = "ACTIVE" /\ link[sent].window = "over"

MutantClosed(r) == link

MutantClosedAs(r) ==
  IF link[r].status = "ACTIVE" THEN [link EXCEPT ![r].status = "CANCELLED"] ELSE link

(* closeUnansweredReferral: an open link dies; a locked one stays locked. *)
Closed(r) ==
  IF link[r].status = "ACTIVE" THEN [link EXCEPT ![r].status = "REVOKED"] ELSE link

(* insertReferralLink; the window is open at once or later. *)
Sent(window) == [status |-> "ACTIVE", revision |-> 0, attempts |-> 0, window |-> window]

SendReferral(window) ==
  /\ sent < MaxReferrals
  /\ \/ case = "AWAITING_REFERRAL" /\ link' = [link EXCEPT ![sent + 1] = Sent(window)]
     \/ Unanswered /\ link' = [Closed(sent) EXCEPT ![sent + 1] = Sent(window)]
  /\ sent' = sent + 1
  /\ case' = "AWAITING_REFERRAL_OUTCOME"
  /\ UNCHANGED <<report, store, sessions, req, history>>

(* The link is read under its lock: a wrong code counted after this counts   *)
(* against the new code.                                                     *)
RefreshAccessCode ==
  /\ case = "AWAITING_REFERRAL_OUTCOME" /\ report[sent] = NoSession
  /\ link[sent].status = "ACTIVE" /\ link[sent].window # "over"
  /\ link[sent].revision < MaxRevision
  /\ link' = [link EXCEPT ![sent].revision = @ + 1, ![sent].attempts = 0]
  /\ UNCHANGED <<case, sent, report, store, sessions, req, history>>

CancelReferral ==
  /\ case = "AWAITING_REFERRAL_OUTCOME" /\ report[sent] = NoSession
  /\ link' = Closed(sent)
  /\ case' = "AWAITING_REFERRAL"
  /\ UNCHANGED <<sent, report, store, sessions, req, history>>

(* A review of an answered case that refers it again. *)
ReviewRefers ==
  /\ case = "ANSWERED"
  /\ case' = "AWAITING_REFERRAL"
  /\ UNCHANGED <<sent, link, report, store, sessions, req, history>>

-----------------------------------------------------------------------------
(* The agency: the access code. *)

(* createAraIdChallenge up to the comparison with the hash it has read. *)
EnterCode(a, r, right) ==
  /\ req[a].at = "idle"
  /\ Usable(r)
  /\ Goes(a, [Idle EXCEPT !.at = IF right THEN "create" ELSE "fail",
                          !.link = r, !.revision = link[r].revision])
  /\ UNCHANGED <<table, store, sessions, history>>

MutantCountFailure(a) ==
  /\ req[a].at = "fail"
  /\ LET r == req[a].link
         attempts == link[r].attempts + 1
     IN link' = IF link[r].status # "ACTIVE" THEN link
                ELSE [link EXCEPT ![r].attempts = attempts,
                                  ![r].status = IF attempts > MaxAttempts
                                                  THEN "LOCKED" ELSE @]
  /\ Ends(a)
  /\ UNCHANGED <<case, sent, report, store, sessions, history>>

(* recordFailedReferralLinkCode: the count and the lock in one statement. *)
CountFailure(a) ==
  /\ req[a].at = "fail"
  /\ LET r == req[a].link
         attempts == link[r].attempts + 1
     IN link' = IF link[r].status # "ACTIVE" THEN link
                ELSE [link EXCEPT ![r].attempts = attempts,
                                  ![r].status = IF attempts >= MaxAttempts
                                                  THEN "LOCKED" ELSE @]
  /\ Ends(a)
  /\ UNCHANGED <<case, sent, report, store, sessions, history>>

CreateChallenge(a, c) ==
  /\ req[a].at = "create"
  /\ chal[c].status = "NONE"
  /\ chal' = [chal EXCEPT ![c] = [status |-> "PENDING", link |-> req[a].link,
                                  revision |-> req[a].revision, reporter |-> Nobody]]
  /\ Ends(a)
  /\ UNCHANGED <<table, auths, sessions, history>>

-----------------------------------------------------------------------------
(* The agency: AraID. *)

BeginChallenge(a, c) ==
  /\ req[a].at = "idle"
  /\ Stored(c) /\ Current(c)
  /\ Goes(a, [Idle EXCEPT !.at = "claim", !.chal = c])
  /\ UNCHANGED <<table, store, sessions, history>>

MutantClaimOrRenew(a) ==
  /\ req[a].at = "claim"
  /\ LET c == req[a].chal
     IN IF Stored(c)
          THEN /\ \E t \in (1..MaxTokens) \ auths[c] :
                    auths' = [auths EXCEPT ![c] = @ \cup {t}]
               /\ chal' = [chal EXCEPT ![c].status = "CLAIMED"]
          ELSE UNCHANGED store
  /\ Ends(a)
  /\ UNCHANGED <<table, sessions, history>>

(* A first visit claims the challenge, a repeat visit gets an authorization  *)
(* of its own; an approved challenge gives none.                             *)
ClaimOrRenew(a) ==
  /\ req[a].at = "claim"
  /\ LET c == req[a].chal
     IN IF chal[c].status \in {"PENDING", "CLAIMED"}
          THEN /\ \E t \in (1..MaxTokens) \ auths[c] :
                    auths' = [auths EXCEPT ![c] = @ \cup {t}]
               /\ chal' = [chal EXCEPT ![c].status = "CLAIMED"]
          ELSE UNCHANGED store
  /\ Ends(a)
  /\ UNCHANGED <<table, sessions, history>>

(* approveAraIdChallenge until the person is known. *)
ReadAuthorization(a, c, t) ==
  /\ req[a].at = "idle"
  /\ t \in auths[c] /\ chal[c].status = "CLAIMED" /\ Current(c)
  /\ Goes(a, [Idle EXCEPT !.at = "approve", !.chal = c, !.token = t])
  /\ UNCHANGED <<table, store, sessions, history>>

ApproveAuthorization(a) ==
  /\ req[a].at = "approve"
  /\ LET c == req[a].chal
     IN IF req[a].token \in auths[c] /\ chal[c].status = "CLAIMED"
          THEN /\ chal' = [chal EXCEPT ![c].status = "APPROVED", ![c].reporter = a]
               /\ auths' = [auths EXCEPT ![c] = @ \ {req[a].token}]
               /\ approvers' = [approvers EXCEPT ![c] = @ \cup {a}]
          ELSE UNCHANGED <<store, approvers>>
  /\ Ends(a)
  /\ UNCHANGED <<table, sessions, issued>>

(* pollAraIdChallenge finds the challenge approved. *)
PollChallenge(a, c) ==
  /\ req[a].at = "idle"
  /\ chal[c].status = "APPROVED" /\ Current(c)
  /\ Goes(a, [Idle EXCEPT !.at = "consume", !.chal = c])
  /\ UNCHANGED <<table, store, sessions, history>>

MutantConsumeApproved(a) ==
  /\ req[a].at = "consume"
  /\ LET c == req[a].chal
     IN /\ chal' = [chal EXCEPT ![c].status = "CONSUMED"]
        /\ Goes(a, [Idle EXCEPT !.at = "issue",
                      !.session = [chal |-> c, link |-> chal[c].link,
                                   revision |-> chal[c].revision,
                                   reporter |-> chal[c].reporter]])
  /\ UNCHANGED <<table, auths, sessions, history>>

ConsumeApproved(a) ==
  /\ req[a].at = "consume"
  /\ LET c == req[a].chal
     IN IF chal[c].status = "APPROVED"
          THEN /\ chal' = [chal EXCEPT ![c].status = "CONSUMED"]
               /\ Goes(a, [Idle EXCEPT !.at = "issue",
                             !.session = [chal |-> c, link |-> chal[c].link,
                                          revision |-> chal[c].revision,
                                          reporter |-> chal[c].reporter]])
          ELSE Ends(a) /\ UNCHANGED chal
  /\ UNCHANGED <<table, auths, sessions, history>>

IssueSession(a) ==
  /\ req[a].at = "issue"
  /\ sessions' = sessions \cup {req[a].session}
  /\ issued' = [issued EXCEPT ![req[a].session.chal] = @ + 1]
  /\ Ends(a)
  /\ UNCHANGED <<table, store, approvers>>

-----------------------------------------------------------------------------
(* The agency: the report. *)

(* submitReport: the link opens and the session is one of its present code. *)
ReadSession(a, s) ==
  /\ req[a].at = "idle"
  /\ Usable(s.link)
  /\ s.revision = link[s.link].revision
  /\ Goes(a, [Idle EXCEPT !.at = "report", !.link = s.link,
                          !.revision = s.revision, !.session = s])
  /\ UNCHANGED <<table, store, sessions, history>>

MutantMayReport(q) ==
  /\ report[q.link] = NoSession
  /\ q.link = sent /\ case = "AWAITING_REFERRAL_OUTCOME"
  /\ link[q.link].status = "ACTIVE" /\ link[q.link].window = "open"

MutantMayReportDead(q) ==
  /\ report[q.link] = NoSession
  /\ q.link = sent /\ case = "AWAITING_REFERRAL_OUTCOME"
  /\ link[q.link].revision = q.revision
  /\ link[q.link].window = "open"

(* What applyReferralResult looks at again under its locks. *)
MayReport(q) ==
  /\ report[q.link] = NoSession
  /\ q.link = sent /\ case = "AWAITING_REFERRAL_OUTCOME"
  /\ link[q.link].revision = q.revision
  /\ link[q.link].status = "ACTIVE" /\ link[q.link].window = "open"

SubmitReport(a) ==
  /\ req[a].at = "report"
  /\ IF MayReport(req[a])
       THEN /\ report' = [report EXCEPT ![req[a].link] = req[a].session]
            /\ link' = [link EXCEPT ![req[a].link].status = "USED"]
            /\ case' = "ANSWERED"
       ELSE UNCHANGED <<case, link, report>>
  /\ Ends(a)
  /\ UNCHANGED <<sent, store, sessions, history>>

(* A request that has begun fails, or its process stops. *)
RequestDies(a) ==
  /\ req[a].at # "idle"
  /\ Ends(a)
  /\ UNCHANGED <<table, store, sessions, history>>

-----------------------------------------------------------------------------
(* Time. *)

(* The clock; a window is followed only while its link is ACTIVE.            *)
WindowMoves(r) ==
  /\ link[r].status = "ACTIVE"
  /\ \/ link[r].window = "before" /\ link' = [link EXCEPT ![r].window = "open"]
     \/ link[r].window = "open" /\ link' = [link EXCEPT ![r].window = "over"]
  /\ UNCHANGED <<case, sent, report, store, sessions, req, history>>

ChallengeExpires(c) ==
  /\ Stored(c)
  /\ chal' = [chal EXCEPT ![c].status = "GONE"]
  /\ auths' = [auths EXCEPT ![c] = {}]
  /\ UNCHANGED <<table, sessions, req, history>>

SessionExpires(s) ==
  /\ sessions' = sessions \ {s}
  /\ UNCHANGED <<table, store, req, history>>

-----------------------------------------------------------------------------
School ==
  \/ \E w \in {"before", "open"} : SendReferral(w)
  \/ RefreshAccessCode
  \/ CancelReferral
  \/ ReviewRefers

Agency ==
  \E a \in Agents :
    \/ \E r \in 1..sent, right \in BOOLEAN : EnterCode(a, r, right)
    \/ CountFailure(a)
    \/ \E c \in Challenges : CreateChallenge(a, c)
    \/ \E c \in Challenges : BeginChallenge(a, c)
    \/ ClaimOrRenew(a)
    \/ \E c \in Challenges, t \in 1..MaxTokens : ReadAuthorization(a, c, t)
    \/ ApproveAuthorization(a)
    \/ \E c \in Challenges : PollChallenge(a, c)
    \/ ConsumeApproved(a)
    \/ IssueSession(a)
    \/ \E s \in sessions : ReadSession(a, s)
    \/ SubmitReport(a)
    \/ RequestDies(a)

Time ==
  \/ \E r \in Referrals : WindowMoves(r)
  \/ \E c \in Challenges : ChallengeExpires(c)
  \/ \E s \in sessions : SessionExpires(s)

Next == School \/ Agency \/ Time

Spec == Init /\ [][Next]_vars

-----------------------------------------------------------------------------
(* Properties. *)

(* Every variable has its type; every session names the person it was issued *)
(* to (readReporter).                                                        *)
TypeOK ==
  /\ case \in Cases
  /\ sent \in 0..MaxReferrals
  /\ link \in [Referrals -> Links]
  /\ report \in [Referrals -> Sessions \cup {NoSession}]
  /\ chal \in [Challenges -> ChallengeRows]
  /\ auths \in [Challenges -> SUBSET (1..MaxTokens)]
  /\ sessions \in SUBSET Sessions
  /\ req \in [Agents -> Requests]
  /\ approvers \in [Challenges -> SUBSET Agents]
  /\ issued \in [Challenges -> Nat]

(* A report was filed under the code its link has at the end, by the person  *)
(* who was told that they approved, and by nobody else: no challenge or      *)
(* session of a code the school has changed since, and none of another link, *)
(* files it, whatever was in flight when the code changed.                   *)
ReportUnderCurrentCode ==
  \A r \in Referrals : report[r] # NoSession =>
    /\ report[r].link = r
    /\ report[r].revision = link[r].revision
    /\ approvers[report[r].chal] = {report[r].reporter}

(* A challenge serves one person once.  Of two who scan it, each with an     *)
(* authorization of their own, one approves and the other is told that it is *)
(* too late (claimOrRenew, approveAuthorization); and however many pages     *)
(* poll it, the approval is exchanged for one session (consumeApproved).     *)
ChallengeServesOnce ==
  \A c \in Challenges : issued[c] <= 1 /\ \A a, b \in approvers[c] : a = b

(* Wrong codes entered at the same time do not slip under the limit: a link  *)
(* that has refused as many as lock it is not open, and only such a link is  *)
(* locked (recordFailedReferralLinkCode).                                    *)
LockedAtTheLimit ==
  \A r \in Referrals :
    /\ link[r].status \in {"ACTIVE", "USED", "REVOKED"} => link[r].attempts < MaxAttempts
    /\ link[r].status = "LOCKED" => link[r].attempts >= MaxAttempts

(* The link that opens belongs to the newest referral, which the case waits  *)
(* for and which has no report; a link is spent exactly by the report filed  *)
(* through it.                                                               *)
OpenLinkIsAwaited ==
  \A r \in Referrals :
    /\ link[r].status = "ACTIVE" =>
         r = sent /\ case = "AWAITING_REFERRAL_OUTCOME" /\ report[r] = NoSession
    /\ link[r].status = "USED" <=> report[r] # NoSession

(* A link that was locked, revoked or spent never opens again, and takes no  *)
(* report from a session that was already there.                             *)
DeadLinkStaysDead ==
  [][\A r \in Referrals :
       link[r].status \in {"LOCKED", "REVOKED", "USED"} =>
         /\ link'[r].status = link[r].status
         /\ report'[r] = report[r]]_vars

=============================================================================
