----------------------------- MODULE CaseOpening -----------------------------
(***************************************************************************)
(* Who opens the one active case a person may have: a member of staff or a *)
(* teacher (openCase, openCaseFromLink), an assignment for a student who   *)
(* has none (createTask), and the absence monitor, which runs a pass over  *)
(* the roster of a check-in after the check-in has committed, and which    *)
(* tombstones the cases of students who are no longer absent.              *)
(*                                                                         *)
(* The transactions run at READ COMMITTED: each statement sees what others *)
(* committed before it.  The locks are those of the enrollment rows, and   *)
(* the unique index on the person of the active cases is the last arbiter. *)
(***************************************************************************)
EXTENDS Naturals, FiniteSets

CONSTANTS Persons, Enrollments, Schools,
          personOf,   \* student_term.person_uuid
          schoolOf,   \* student_term."SchoolID_Onec"
          termOf,     \* the order of the enrollments' terms
          Checkins,   \* check-in sessions; each runs one pass at a time
          rosterOf,   \* the enrollments on a session's roster
          Openers,    \* openCase, openCaseFromLink and createTask requests
          NoCase

ASSUME EnrollmentAssumption ==
  /\ Enrollments # {}
  /\ personOf \in [Enrollments -> Persons]
  /\ schoolOf \in [Enrollments -> Schools]
  /\ termOf \in [Enrollments -> Nat]
  /\ rosterOf \in [Checkins -> SUBSET Enrollments]

VARIABLES
  current,  \* per person, the enrollment student_current_enrollment_resolution selects
  absent,   \* persons whose run of absent days on it, as the monitor counts them, is too long
  active,   \* per person, the committed active case
  answered, \* history: persons whose case was closed after their last check-in
  pass,     \* per check-in, its monitor pass
  opener    \* per request, the opening it is working on

vars == <<current, absent, active, answered, pass, opener>>

-----------------------------------------------------------------------------
(* The data. *)

(* MANUAL: openCase and openCaseFromLink; TASK: createTask; AUTO: the        *)
(* monitor.  WORKED stands for every active status but OPEN.                 *)
Origins == {"MANUAL", "TASK", "AUTO"}
Case == [enrollment : Enrollments, origin : Origins, status : {"OPEN", "WORKED"}]

ASSUME CaseAssumption == NoCase \notin Case

MutantOpened(e, origin) ==
  [enrollment |-> e, origin |-> origin, status |-> IF origin = "TASK" THEN "ASSIGNED" ELSE "OPEN"]

Opened(e, origin) ==
  [enrollment |-> e, origin |-> origin, status |-> IF origin = "TASK" THEN "WORKED" ELSE "OPEN"]

(* waiting: the check-in is committed, its pass does not hold its locks yet. *)
Pass == [step : {"idle", "waiting", "reading", "writing", "failed"},
         missing : SUBSET Enrollments,  \* read as absent
         alarms : SUBSET Enrollments,   \* read as having an OPEN case of the monitor's
         create : SUBSET Enrollments]   \* found without an active case

Resting(step) == [step |-> step, missing |-> {}, alarms |-> {}, create |-> {}]

Opener == [step : {"idle", "creating", "inserted"}, kind : {"MANUAL", "TASK"},
           enrollment : Enrollments]

CurrentOn(roster) == {e \in roster : e = current[personOf[e]]}
HasCase(e) == active[personOf[e]] # NoCase

(* An enrollment the person already has: a later term's is not imported yet. *)
Enrolled(e) == termOf[e] <= termOf[current[personOf[e]]]

(* The transactions that hold the row of an enrollment FOR UPDATE. *)
Busy(c) == pass[c].step \in {"reading", "writing"}
HeldByPass(e) == \E c \in Checkins : e \in rosterOf[c] /\ Busy(c)
HeldByOpener(e) ==
  \E o \in Openers :
    opener[o].step = "creating" /\ opener[o].kind = "MANUAL" /\ opener[o].enrollment = e
Held(e) == HeldByPass(e) \/ HeldByOpener(e)

(* createTask inserted a case and has not committed: whoever inserts one for *)
(* the same person waits.                                                    *)
Uncommitted(e) ==
  \E o \in Openers : opener[o].step = "inserted" /\ personOf[opener[o].enrollment] = personOf[e]

Init ==
  /\ current \in {f \in [Persons -> Enrollments] :
                    \A p \in Persons :
                      /\ personOf[f[p]] = p
                      /\ \A e \in Enrollments : personOf[e] = p => termOf[f[p]] <= termOf[e]}
  /\ absent = {}
  /\ active = [p \in Persons |-> NoCase]
  /\ answered = {}
  /\ pass = [c \in Checkins |-> Resting("idle")]
  /\ opener \in [Openers -> {[step |-> "idle", kind |-> "MANUAL", enrollment |-> e] :
                               e \in {CHOOSE x \in Enrollments : TRUE}}]

-----------------------------------------------------------------------------
(* A check-in, and the monitor's pass over its roster. *)

(* The check-in (or its correction, or an identical retry) commits: any of   *)
(* the students on the roster may now be absent for too long, or not.        *)
Submit(c, S) ==
  LET checked == {personOf[e] : e \in CurrentOn(rosterOf[c])} IN
  /\ pass[c].step \in {"idle", "failed"}
  /\ S \subseteq checked
  /\ absent' = (absent \ checked) \cup S
  /\ answered' = answered \ checked
  /\ pass' = [pass EXCEPT ![c] = Resting("waiting")]
  /\ UNCHANGED <<current, active, opener>>

MutantLocksFree(c) == TRUE

(* The advisory locks and the enrollment rows of the whole roster, taken in  *)
(* one order by every pass.                                                  *)
LocksFree(c) == \A e \in rosterOf[c] : ~Held(e)

(* The locks, then listConsecutiveAbsentStudents and listOpenAbsenceCases.   *)
PassRead(c) ==
  /\ pass[c].step = "waiting"
  /\ LocksFree(c)
  /\ pass' = [pass EXCEPT ![c] =
       [step |-> "reading",
        missing |-> {e \in CurrentOn(rosterOf[c]) : personOf[e] \in absent},
        alarms |-> {e \in CurrentOn(rosterOf[c]) :
                      HasCase(e) /\ active[personOf[e]] = Opened(e, "AUTO")},
        create |-> {}]]
  /\ UNCHANGED <<current, absent, active, answered, opener>>

(* findActiveCaseByStudent: a case of the person, in the school of the       *)
(* enrollment the pass is looking at.                                        *)
FoundByMonitor(e) ==
  HasCase(e) /\ schoolOf[active[personOf[e]].enrollment] = schoolOf[e]

PassLookUp(c) ==
  /\ pass[c].step = "reading"
  /\ pass' = [pass EXCEPT ![c].step = "writing",
                          ![c].create = {e \in pass[c].missing : ~FoundByMonitor(e)}]
  /\ UNCHANGED <<current, absent, active, answered, opener>>

(* deleteOpenCaseById, for the alarms that turned out false. *)
FalseAlarm(c, p) ==
  \E e \in pass[c].alarms \ pass[c].missing :
    personOf[e] = p /\ active[p] = Opened(e, "AUTO")

PassWrite(c) ==
  /\ pass[c].step = "writing"
  /\ \A e \in pass[c].create : ~HasCase(e) /\ ~Uncommitted(e)
  /\ active' = [p \in Persons |->
       IF \E e \in pass[c].create : personOf[e] = p
       THEN Opened(CHOOSE e \in pass[c].create : personOf[e] = p, "AUTO")
       ELSE IF FalseAlarm(c, p) THEN NoCase ELSE active[p]]
  /\ pass' = [pass EXCEPT ![c] = Resting("idle")]
  /\ UNCHANGED <<current, absent, answered, opener>>

(* The unique index turns one insert away and the whole pass rolls back; so  *)
(* it does when it is the victim of a deadlock, or when its process stops.   *)
PassFail(c) ==
  /\ pass[c].step \in {"waiting", "reading", "writing"}
  /\ pass' = [pass EXCEPT ![c] = Resting("failed")]
  /\ UNCHANGED <<current, absent, active, answered, opener>>

-----------------------------------------------------------------------------
(* Opening by hand, and by an assignment. *)

(* findActiveCaseByStudentUuid within the actor's scope, which holds the     *)
(* school of the enrollment and may or may not hold another one.             *)
FoundByActor(e, wide) ==
  HasCase(e) /\ (wide \/ schoolOf[active[personOf[e]].enrollment] = schoolOf[e])

MutantRowFree(e) == TRUE
RowFree(e) == ~Held(e)

(* createCaseForStudent locks the enrollment row, and looks for a case; a    *)
(* case that is found is returned and nothing more happens.                  *)
ManualLookUp(o, e, wide) ==
  /\ opener[o].step = "idle"
  /\ Enrolled(e)
  /\ RowFree(e)
  /\ ~FoundByActor(e, wide)
  /\ opener' = [opener EXCEPT ![o] = [step |-> "creating", kind |-> "MANUAL", enrollment |-> e]]
  /\ UNCHANGED <<current, absent, active, answered, pass>>

ManualCreate(o) ==
  /\ opener[o].step = "creating"
  /\ opener[o].kind = "MANUAL"
  /\ ~HasCase(opener[o].enrollment)
  /\ ~Uncommitted(opener[o].enrollment)
  /\ active' = [active EXCEPT ![personOf[opener[o].enrollment]] =
                  Opened(opener[o].enrollment, "MANUAL")]
  /\ opener' = [opener EXCEPT ![o].step = "idle"]
  /\ UNCHANGED <<current, absent, answered, pass>>

(* createTask looks for a case and locks nothing. *)
TaskLookUp(o, e, wide) ==
  /\ opener[o].step = "idle"
  /\ Enrolled(e)
  /\ ~FoundByActor(e, wide)
  /\ opener' = [opener EXCEPT ![o] = [step |-> "creating", kind |-> "TASK", enrollment |-> e]]
  /\ UNCHANGED <<current, absent, active, answered, pass>>

(* Its INSERT puts the case into the unique index first, and then waits, for *)
(* the foreign key, until nobody holds the enrollment row FOR UPDATE.        *)
TaskInsert(o) ==
  /\ opener[o].step = "creating"
  /\ opener[o].kind = "TASK"
  /\ ~HasCase(opener[o].enrollment)
  /\ ~Uncommitted(opener[o].enrollment)
  /\ opener' = [opener EXCEPT ![o].step = "inserted"]
  /\ UNCHANGED <<current, absent, active, answered, pass>>

TaskCommit(o) ==
  /\ opener[o].step = "inserted"
  /\ ~Held(opener[o].enrollment)
  /\ active' = [active EXCEPT ![personOf[opener[o].enrollment]] =
                  Opened(opener[o].enrollment, "TASK")]
  /\ opener' = [opener EXCEPT ![o].step = "idle"]
  /\ UNCHANGED <<current, absent, answered, pass>>

(* Turned away by the unique index, victim of a deadlock, or stopped. *)
OpenerFail(o) ==
  /\ opener[o].step # "idle"
  /\ opener' = [opener EXCEPT ![o].step = "idle"]
  /\ UNCHANGED <<current, absent, active, answered, pass>>

-----------------------------------------------------------------------------
(* What else happens to a case and to a person. *)

(* The case is assigned, or handed back. *)
Follow(p) ==
  /\ active[p] # NoCase
  /\ active' = [active EXCEPT ![p].status = IF @ = "OPEN" THEN "WORKED" ELSE "OPEN"]
  /\ UNCHANGED <<current, absent, answered, pass, opener>>

(* resolved_case_baselines: a closed case restarts the count of absences on  *)
(* the enrollment it was opened in.                                          *)
ResetsTheCount(p) == active[p].enrollment = current[p]

Close(p) ==
  /\ active[p] # NoCase
  /\ active[p].status = "WORKED"
  /\ active' = [active EXCEPT ![p] = NoCase]
  /\ absent' = IF ResetsTheCount(p) THEN absent \ {p} ELSE absent
  /\ answered' = answered \cup {p}
  /\ UNCHANGED <<current, pass, opener>>

(* A later term's enrollment is imported, in the same school or another: the *)
(* absences are counted afresh, the case stays with the old enrollment.  The *)
(* step stands for the change of terms as a whole, which no pass spans.      *)
MoveOn(p, e) ==
  /\ personOf[e] = p
  /\ ~HeldByPass(current[p])
  /\ termOf[e] > termOf[current[p]]
  /\ current' = [current EXCEPT ![p] = e]
  /\ absent' = absent \ {p}
  /\ UNCHANGED <<active, answered, pass, opener>>

-----------------------------------------------------------------------------
(* The specification. *)

Monitor ==
  \E c \in Checkins :
    \/ \E S \in SUBSET Persons : Submit(c, S)
    \/ PassRead(c) \/ PassLookUp(c) \/ PassWrite(c) \/ PassFail(c)

Opening ==
  \E o \in Openers :
    \/ \E e \in Enrollments, wide \in BOOLEAN : ManualLookUp(o, e, wide) \/ TaskLookUp(o, e, wide)
    \/ ManualCreate(o) \/ TaskInsert(o) \/ TaskCommit(o) \/ OpenerFail(o)

Life == \E p \in Persons : Follow(p) \/ Close(p) \/ \E e \in Enrollments : MoveOn(p, e)

Next == Monitor \/ Opening \/ Life

Spec == Init /\ [][Next]_vars

-----------------------------------------------------------------------------
(* What must hold. *)

(* Every variable keeps its type. *)
TypeOK ==
  /\ current \in [Persons -> Enrollments]
  /\ absent \subseteq Persons
  /\ active \in [Persons -> Case \cup {NoCase}]
  /\ answered \subseteq Persons
  /\ pass \in [Checkins -> Pass]
  /\ opener \in [Openers -> Opener]

(* Once every check-in with the student on its roster has had its pass, a    *)
(* student who is absent for too long has an active case, or had one closed  *)
(* since: overlapping passes, corrections, tombstones and openings by hand   *)
(* lose nobody.                                                              *)
AbsentStudentIsCovered ==
  \A e \in Enrollments :
    /\ e = current[personOf[e]]
    /\ personOf[e] \in absent \ answered
    /\ \A c \in Checkins : e \in rosterOf[c] => pass[c].step = "idle"
    => HasCase(e)

(* "Sharing its lock prevents manual/automatic creation from racing": a pass *)
(* or an opening by hand that found no case on its enrollment still finds    *)
(* none when it inserts, unless createTask, which takes no lock, or another  *)
(* enrollment of the person put it there.                                    *)
RacedOn(e) ==
  HasCase(e) /\ active[personOf[e]].enrollment = e /\ active[personOf[e]].origin # "TASK"

SharedLockPreventsRace ==
  /\ \A c \in Checkins : \A e \in pass[c].create : ~RacedOn(e)
  /\ \A o \in Openers :
       opener[o].step = "creating" /\ opener[o].kind = "MANUAL" => ~RacedOn(opener[o].enrollment)

(* "Any active case covers this student": the monitor does not set out to    *)
(* open a case, on the current enrollment, for a person who has one.         *)
CoveredStudentIsSkipped ==
  [][\A c \in Checkins :
       pass[c].step = "reading" =>
         \A e \in pass'[c].create : e = current[personOf[e]] => ~HasCase(e)]_vars

=============================================================================
