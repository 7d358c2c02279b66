------------------------- MODULE AttendanceRegister -------------------------
(***************************************************************************)
(* The register of one lesson on one day (ExceptionAttendanceService): its *)
(* attendance_sessions row, the roster frozen when the check-in starts,    *)
(* the exceptions stored instead of a mark per student, and the history of *)
(* submissions.  Several pages (of teachers, of one teacher's devices, or  *)
(* one page that sends again before its first request has ended) work on   *)
(* it at once.  Each holds what it last read, its requests and answers may *)
(* be lost, and it may repeat a submission it got no good answer to.       *)
(*                                                                         *)
(* A submission is one transaction under the row's lock.  The absence      *)
(* monitor and the risk recalculation come after its commit, in the same   *)
(* request: either may fail, and so may the process between them.          *)
(***************************************************************************)
EXTENDS Naturals, Sequences

CONSTANTS Students,
          Pages,
          Marks,      \* the attendance statuses stored as exceptions
          Present,    \* the status of a student without one
          MaxVersion  \* bound: accepted submissions

ASSUME RegisterAssumption ==
  /\ Present \notin Marks
  /\ MaxVersion \in Nat \ {0}

VARIABLES
  enrolled,  \* the students of the classroom now
  register,  \* the row, its roster and its exceptions
  history,   \* attendance_submission_history with its changes, oldest first
  monitored, \* lock_version of the register the absence monitor last saw
  recalculated, \* and the one the risk recalculation was last requested for
  page       \* per page, what it read, what it sends and how far that got

vars == <<enrolled, register, history, monitored, recalculated, page>>

Versions == 0..MaxVersion
ExceptionLists == UNION {[S -> Marks] : S \in SUBSET Students}
Statuses == Marks \cup {Present}
Entries ==
  [number : Nat, basis : Versions,
   changes : UNION {[S -> [from : Statuses, to : Statuses]] : S \in SUBSET Students}]
Stages == {"away", "open", "sent", "monitor", "risk", "failed"}
PageRows == [stage : Stages, basis : Versions, saved : Versions, told : Versions,
             request : ExceptionLists, reason : BOOLEAN]

StatusIn(list, s) == IF s \in DOMAIN list THEN list[s] ELSE Present

NoExceptions == [s \in {} |-> Present]

Init ==
  /\ enrolled \in SUBSET Students
  /\ register = [status |-> "NONE", version |-> 0, roster |-> {},
                 exceptions |-> NoExceptions]
  /\ history = <<>>
  /\ monitored = 0 /\ recalculated = 0
  /\ page = [p \in Pages |-> [stage |-> "away", basis |-> 0, saved |-> 0, told |-> 0,
                              request |-> NoExceptions, reason |-> FALSE]]

Stage(p, next) == page' = [page EXCEPT ![p].stage = next]

(* The page shows the register at a version, and has nothing under way. *)
Shows(p, version, told) ==
  page' = [page EXCEPT ![p] = [stage |-> "open", basis |-> version, saved |-> 0,
                               told |-> told, request |-> NoExceptions,
                               reason |-> FALSE]]

(* The page got no good answer. *)
Unanswered(p) == page' = [page EXCEPT ![p].stage = "failed", ![p].saved = 0]

-----------------------------------------------------------------------------
(* A student joins or leaves the classroom. *)
Transfer(s) ==
  /\ enrolled' = IF s \in enrolled THEN enrolled \ {s} ELSE enrolled \cup {s}
  /\ UNCHANGED <<register, history, monitored, recalculated, page>>

Idle(p) == page[p].stage \in {"away", "open", "failed"}

(* The first start inserts the row and copies the roster; an empty classroom *)
(* rolls both back.                                                          *)
Start(p) ==
  /\ Idle(p)
  /\ register.status = "NONE"
  /\ enrolled # {}
  /\ register' = [register EXCEPT !.status = "OPEN", !.roster = enrolled]
  /\ Shows(p, 0, page[p].told)
  /\ UNCHANGED <<enrolled, history, monitored, recalculated>>

(* Any later start, and looking a lesson up, reads what is there. *)
Read(p) ==
  /\ Idle(p)
  /\ register.status # "NONE"
  /\ Shows(p, register.version, page[p].told)
  /\ UNCHANGED <<enrolled, register, history, monitored, recalculated>>

(* The page sends a list, with or without the reason a correction needs; one *)
(* that was not answered well may be sent again as it is.                    *)
Send(p) ==
  /\ page[p].stage = "open"
  /\ \E request \in ExceptionLists, reason \in BOOLEAN :
       page' = [page EXCEPT ![p].stage = "sent", ![p].request = request,
                            ![p].reason = reason]
  /\ UNCHANGED <<enrolled, register, history, monitored, recalculated>>

SendAgain(p) ==
  /\ page[p].stage = "failed"
  /\ Stage(p, "sent")
  /\ UNCHANGED <<enrolled, register, history, monitored, recalculated>>

-----------------------------------------------------------------------------
(* submit: its transaction. *)

IsCorrection == register.status = "SUBMITTED"

MutantOnRoster(p) == DOMAIN page[p].request \subseteq enrolled

OnRoster(p) == DOMAIN page[p].request \subseteq register.roster

Unchanged(p) == IsCorrection /\ page[p].request = register.exceptions

MutantCorrectable(p) == page[p].reason

Correctable(p) == page[p].reason /\ page[p].basis = register.version

MutantChanges(list) ==
  [s \in {s \in register.roster : StatusIn(list, s) # Present}
     |-> [from |-> Present, to |-> StatusIn(list, s)]]

(* The students whose status the list changes, with the old and the new. *)
Changes(list) ==
  [s \in {s \in register.roster :
            StatusIn(register.exceptions, s) # StatusIn(list, s)}
     |-> [from |-> StatusIn(register.exceptions, s), to |-> StatusIn(list, s)]]

Committed(p, version) ==
  page' = [page EXCEPT ![p].stage = "monitor", ![p].saved = version]

(* replaceExceptions, finalizeSession, recordSubmissionHistory.  An entry's  *)
(* basis is the version its author had read (a history variable).            *)
Accept(p) ==
  /\ page[p].stage = "sent"
  /\ register.status # "NONE" /\ OnRoster(p)
  /\ IF IsCorrection THEN ~Unchanged(p) /\ Correctable(p) ELSE TRUE
  /\ register.version < MaxVersion
  /\ register' = [register EXCEPT !.status = "SUBMITTED", !.version = @ + 1,
                                  !.exceptions = page[p].request]
  /\ history' = Append(history, [number |-> register.version + 1,
                                 basis |-> page[p].basis,
                                 changes |-> Changes(page[p].request)])
  /\ Committed(p, register.version + 1)
  /\ UNCHANGED <<enrolled, monitored, recalculated>>

MutantAcceptUnchanged(p) ==
  /\ page[p].stage = "sent"
  /\ OnRoster(p) /\ Unchanged(p)
  /\ Shows(p, register.version, register.version)
  /\ UNCHANGED <<enrolled, register, history, monitored, recalculated>>

(* What is stored already is not written again, whatever version the page    *)
(* had read, but the request goes on to the monitor.                         *)
AcceptUnchanged(p) ==
  /\ page[p].stage = "sent"
  /\ OnRoster(p) /\ Unchanged(p)
  /\ Committed(p, register.version)
  /\ UNCHANGED <<enrolled, register, history, monitored, recalculated>>

Refuse(p) ==
  /\ page[p].stage = "sent"
  /\ \/ ~OnRoster(p)
     \/ IsCorrection /\ ~Unchanged(p) /\ ~Correctable(p)
  /\ Shows(p, page[p].basis, page[p].told)
  /\ UNCHANGED <<enrolled, register, history, monitored, recalculated>>

-----------------------------------------------------------------------------
(* submit, after the commit. *)

(* The monitor reads the register as it is when it runs. *)
Monitor(p) ==
  /\ page[p].stage = "monitor"
  /\ monitored' = register.version
  /\ Stage(p, "risk")
  /\ UNCHANGED <<enrolled, register, history, recalculated>>

Recalculate(p) ==
  /\ page[p].stage = "risk"
  /\ recalculated' = register.version
  /\ \/ Shows(p, page[p].saved, page[p].saved)
     \/ Unanswered(p)  \* the answer is lost
  /\ UNCHANGED <<enrolled, register, history, monitored>>

(* The request is lost, or a step after the commit fails or never runs. *)
Fail(p) ==
  /\ page[p].stage \in {"sent", "monitor", "risk"}
  /\ Unanswered(p)
  /\ UNCHANGED <<enrolled, register, history, monitored, recalculated>>

-----------------------------------------------------------------------------
Next ==
  \/ \E s \in Students : Transfer(s)
  \/ \E p \in Pages :
       \/ Start(p) \/ Read(p) \/ Send(p) \/ SendAgain(p)
       \/ Accept(p) \/ AcceptUnchanged(p) \/ Refuse(p)
       \/ Monitor(p) \/ Recalculate(p) \/ Fail(p)

Spec == Init /\ [][Next]_vars

-----------------------------------------------------------------------------
(* Every variable keeps its type: a register has a version for each          *)
(* submission, a roster from its start on, and exceptions of its roster.     *)
TypeOK ==
  /\ enrolled \subseteq Students
  /\ register \in [status : {"NONE", "OPEN", "SUBMITTED"}, version : Versions,
                   roster : SUBSET Students, exceptions : ExceptionLists]
  /\ DOMAIN register.exceptions \subseteq register.roster
  /\ register.status # "SUBMITTED" <=> register.version = 0
  /\ register.version = 0 => DOMAIN register.exceptions = {}
  /\ history \in Seq(Entries) /\ Len(history) = register.version
  /\ monitored \in 0..register.version /\ recalculated \in 0..register.version
  /\ page \in [Pages -> PageRows]

(* No submission overwrites one its author has not seen: whatever requests   *)
(* are lost, repeated or overtaken, the n-th accepted one was written on a   *)
(* page that showed the result of the one before (expectedLockVersion).      *)
SubmissionsRestOnLatest ==
  \A n \in DOMAIN history : history[n].number = n /\ history[n].basis = n - 1

Mentions(entry, s) == s \in DOMAIN entry.changes

(* The first n entries leave a student with status v. *)
Says(entries, n, s, v) ==
  \/ v = Present /\ \A m \in 1..n : ~Mentions(entries[m], s)
  \/ \E m \in 1..n : /\ Mentions(entries[m], s)
                     /\ \A k \in (m+1)..n : ~Mentions(entries[k], s)
                     /\ entries[m].changes[s].to = v

(* The history explains the register: the changes of each student are linked *)
(* (each starts from the status the one before left, the first from present) *)
(* and end in the status the register shows, for the frozen roster and for   *)
(* nobody else, whoever joined or left the classroom meanwhile.              *)
HistoryExplainsRegister ==
  /\ \A s \in Students : Says(history, Len(history), s, StatusIn(register.exceptions, s))
  /\ \A n \in DOMAIN history : \A s \in DOMAIN history[n].changes :
       s \in register.roster /\ Says(history, n - 1, s, history[n].changes[s].from)

(* A page that was told its submission is saved was told so after the        *)
(* absence monitor and the risk recalculation had seen that submission, or a *)
(* later one; also when the submission was repeated because the monitor had  *)
(* failed and nothing was left to write.                                     *)
SavedIsFollowedUp ==
  \A p \in Pages : page[p].told <= monitored /\ page[p].told <= recalculated
=============================================================================
