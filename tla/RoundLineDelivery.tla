-------------------------- MODULE RoundLineDelivery --------------------------
(***************************************************************************)
(* The LINE message that carries the link of one assignment round to its   *)
(* teacher (CaseRoundLineService.send).  Every press of the button runs a  *)
(* sequence of statements, each a transaction of its own: read the link,   *)
(* claim the send, read the link again, post to LINE, record the result.   *)
(* Presses interleave between any two of them; a process may stop there.   *)
(*                                                                         *)
(* LINE itself is external: it accepts a message at most once per retry    *)
(* key, which is made from the request id, and its answer may be lost.     *)
(***************************************************************************)
EXTENDS FiniteSets

CONSTANTS Presses,    \* calls of the endpoint
          RequestIds, \* values of deliveryRequestId
          requestOf,  \* the id each call carries; a client's retry repeats one
          NoRequest   \* NULL in line_delivery_request_id

ASSUME RequestAssumption ==
  /\ requestOf \in [Presses -> RequestIds]
  /\ NoRequest \notin RequestIds

VARIABLES
  link,      \* the link: USABLE, LOCKED by an administrator, CLOSED for good
  reachable, \* the assigned teacher has a verified LINE account that is a friend
  delivery,  \* the line_delivery_* columns of the link
  step,      \* how far each press is
  answer,    \* per press, whether LINE's answer said the message was accepted
  overdue,   \* presses that claimed more than five minutes ago
  accepted   \* external: request ids whose message LINE accepted

envVars == <<link, reachable>>
vars == <<link, reachable, delivery, step, answer, overdue, accepted>>

Links == {"USABLE", "LOCKED", "CLOSED"}
DeliveryStates == {"NOT_READY", "SENDING", "SENT", "FAILED"}
Steps == {"start", "refused", "ready", "claimed", "unusable", "posting", "answered",
          "done", "crashed"}

Delivery == [status : DeliveryStates, request : RequestIds \cup {NoRequest}, stale : BOOLEAN]

(* From the claim to the statement that records the result. *)
InFlight(p) == step[p] \in {"claimed", "unusable", "posting", "answered"}

Init ==
  /\ link = "USABLE"
  /\ reachable \in BOOLEAN
  /\ delivery = [status |-> "NOT_READY", request |-> NoRequest, stale |-> FALSE]
  /\ step = [p \in Presses |-> "start"]
  /\ answer = [p \in Presses |-> FALSE]
  /\ overdue = {}
  /\ accepted = {}

Goto(p, next) == step' = [step EXCEPT ![p] = next]

-----------------------------------------------------------------------------
(* What happens around the presses. *)

AdminLock ==
  /\ link \in {"USABLE", "LOCKED"}
  /\ link' = IF link = "USABLE" THEN "LOCKED" ELSE "USABLE"
  /\ UNCHANGED <<reachable, delivery, step, answer, overdue, accepted>>

(* Reported on, withdrawn or expired; its case deleted. *)
CloseLink ==
  /\ link # "CLOSED"
  /\ link' = "CLOSED"
  /\ UNCHANGED <<reachable, delivery, step, answer, overdue, accepted>>

(* The teacher adds, blocks, links or unlinks the account. *)
AccountChanges ==
  /\ reachable' = ~reachable
  /\ UNCHANGED <<link, delivery, step, answer, overdue, accepted>>

(* Five minutes pass: the latest claim goes stale, the sends are overdue. *)
FiveMinutes ==
  /\ delivery.status = "SENDING" \/ \E p \in Presses : InFlight(p)
  /\ delivery' = [delivery EXCEPT !.stale = TRUE]
  /\ overdue' = overdue \cup {p \in Presses : InFlight(p)}
  /\ UNCHANGED <<link, reachable, step, answer, accepted>>

-----------------------------------------------------------------------------
(* The steps of one press. *)

(* The request is already answered. *)
Completed(p) ==
  /\ delivery.request = requestOf[p]
  /\ delivery.status \in {"SENT", "FAILED"}

(* findRoundLinkForLine and the decisions on what it read: gone, replayed,   *)
(* nobody to send to, or ready to claim.                                     *)
ReadLink(p) ==
  /\ step[p] = "start"
  /\ Goto(p, IF link # "USABLE" \/ Completed(p) THEN "done"
             ELSE IF reachable THEN "ready" ELSE "refused")
  /\ UNCHANGED <<envVars, delivery, answer, overdue, accepted>>

MutantUnclaimed(d) == [d EXCEPT !.status = "NEEDS_RESEND", !.request = NoRequest]

(* Nothing was sent: no request is the link's any more. *)
Unclaimed(d) == [d EXCEPT !.status = "NOT_READY", !.request = NoRequest]

MutantMayRecordNotReady(p) ==
  /\ link = "USABLE"
  /\ delivery.request # requestOf[p]

(* The WHERE clause of recordRoundLineNotReady: never over a send in flight. *)
MayRecordNotReady(p) ==
  /\ link = "USABLE"
  /\ delivery.status # "SENDING"
  /\ delivery.request # requestOf[p]

RecordNotReady(p) ==
  /\ step[p] = "refused"
  /\ delivery' = IF MayRecordNotReady(p) THEN Unclaimed(delivery) ELSE delivery
  /\ Goto(p, "done")
  /\ UNCHANGED <<envVars, answer, overdue, accepted>>

(* The WHERE clause of claimRoundLine. *)
MayClaim(p) ==
  /\ link = "USABLE"
  /\ delivery.status # "SENDING" \/ delivery.stale
  /\ delivery.request # requestOf[p]

Claim(p) ==
  /\ step[p] = "ready"
  /\ MayClaim(p)
  /\ delivery' = [status |-> "SENDING", request |-> requestOf[p], stale |-> FALSE]
  /\ Goto(p, "claimed")
  /\ UNCHANGED <<envVars, answer, overdue, accepted>>

(* Completed, in flight or unavailable: the caller is told, nothing changes. *)
ClaimNothing(p) ==
  /\ step[p] = "ready"
  /\ ~MayClaim(p)
  /\ Goto(p, "done")
  /\ UNCHANGED <<envVars, delivery, answer, overdue, accepted>>

OwnsClaim(p) == delivery.status = "SENDING" /\ delivery.request = requestOf[p]

(* The link is read again: closed, taken over or unreachable, the claim is   *)
(* to be released; otherwise the message goes out.                           *)
ReadAgain(p) ==
  /\ step[p] = "claimed"
  /\ Goto(p, IF link = "USABLE" /\ OwnsClaim(p) /\ reachable THEN "posting" ELSE "unusable")
  /\ UNCHANGED <<envVars, delivery, answer, overdue, accepted>>

MutantRelease(p) ==
  /\ step[p] = "unusable"
  /\ Goto(p, "done")
  /\ UNCHANGED <<envVars, delivery, answer, overdue, accepted>>

(* releaseRoundLineClaim gives back the press's own claim only. *)
Release(p) ==
  /\ step[p] = "unusable"
  /\ delivery' = IF OwnsClaim(p) THEN Unclaimed(delivery) ELSE delivery
  /\ Goto(p, "done")
  /\ UNCHANGED <<envVars, answer, overdue, accepted>>

(* One POST to LINE under the request's retry key.  LINE takes the message,  *)
(* and its answer arrives or is lost; or it does not take it, as for a key   *)
(* it has taken before.                                                      *)
Post(p) ==
  /\ step[p] = "posting"
  /\ Goto(p, "answered")
  /\ \/ /\ requestOf[p] \notin accepted
        /\ accepted' = accepted \cup {requestOf[p]}
        /\ \E arrives \in BOOLEAN : answer' = [answer EXCEPT ![p] = arrives]
     \/ UNCHANGED <<accepted, answer>>
  /\ UNCHANGED <<envVars, delivery, overdue>>

MutantOwnResult(p) == delivery.status = "SENDING"
OwnResult(p) == OwnsClaim(p)

(* finishRoundLine records the result under the press's own claim only. *)
Finish(p) ==
  /\ step[p] = "answered"
  /\ delivery' = IF OwnResult(p)
                 THEN [delivery EXCEPT !.status = IF answer[p] THEN "SENT" ELSE "FAILED"]
                 ELSE delivery
  /\ Goto(p, "done")
  /\ UNCHANGED <<envVars, answer, overdue, accepted>>

(* The process stops, or the connection to the database is lost. *)
Crash(p) ==
  /\ step[p] \notin {"done", "crashed"}
  /\ Goto(p, "crashed")
  /\ UNCHANGED <<envVars, delivery, answer, overdue, accepted>>

-----------------------------------------------------------------------------
(* The specification. *)

Environment == AdminLock \/ CloseLink \/ AccountChanges \/ FiveMinutes

(* What a press does next if its process keeps running. *)
Proceed(p) ==
  \/ ReadLink(p) \/ RecordNotReady(p)
  \/ Claim(p) \/ ClaimNothing(p)
  \/ ReadAgain(p) \/ Release(p)
  \/ Post(p) \/ Finish(p)

Next == Environment \/ \E p \in Presses : Proceed(p) \/ Crash(p)

Spec == Init /\ [][Next]_vars

(* A handler that is not stopped runs on: its queries return, and the POST   *)
(* is cut off by a timeout.                                                  *)
FairSpec == Spec /\ \A p \in Presses : WF_vars(Proceed(p))

-----------------------------------------------------------------------------
(* What must hold. *)

(* Every variable keeps its type. *)
TypeOK ==
  /\ link \in Links
  /\ reachable \in BOOLEAN
  /\ delivery \in Delivery
  /\ step \in [Presses -> Steps]
  /\ answer \in [Presses -> BOOLEAN]
  /\ overdue \subseteq Presses
  /\ accepted \subseteq RequestIds

(* A link that reads SENT was accepted by LINE under the very request it     *)
(* names: no late answer to an older request is booked on a newer claim.     *)
SentWasAccepted == delivery.status = "SENT" => delivery.request \in accepted

DistinctRequests == \A p, q \in Presses : requestOf[p] = requestOf[q] => p = q

(* "any press while another send is still in flight (under five minutes)     *)
(* claims nothing": as long as no two presses carry the same request, at     *)
(* most one send that is not overdue is on its way, and it owns the link's   *)
(* delivery columns.                                                         *)
OneSendInFlight ==
  DistinctRequests =>
    \A p \in Presses :
      InFlight(p) /\ p \notin overdue =>
        /\ OwnsClaim(p)
        /\ ~delivery.stale
        /\ \A q \in Presses : InFlight(q) /\ q \notin overdue => q = p

(* The link does not stay SENDING: the press that claimed it records a       *)
(* result or gives the claim back, unless its process stopped.               *)
SendingEnds ==
  delivery.status = "SENDING" ~>
    \/ delivery.status # "SENDING"
    \/ \E p \in Presses : step[p] = "crashed" /\ requestOf[p] = delivery.request

=============================================================================
