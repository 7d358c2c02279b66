-------------------------- MODULE CaseOpeningProofs --------------------------
(***************************************************************************)
(* Theorems of CaseOpening, for every set of persons, enrollments, schools *)
(* and check-ins, however the rosters overlap.                             *)
(***************************************************************************)
EXTENDS CaseOpening, TLAPS

(* What a pass has read concerns enrollments on its roster that are current, *)
(* for as long as it holds them.                                             *)
PassSeesCurrent ==
  \A c \in Checkins :
    /\ pass[c].missing \cup pass[c].alarms \subseteq CurrentOn(rosterOf[c])
    /\ pass[c].create \subseteq pass[c].missing
    /\ ~Busy(c) => pass[c].missing = {} /\ pass[c].alarms = {}
    /\ pass[c].step # "writing" => pass[c].create = {}

OpensByHand(o, e) ==
  opener[o].step = "creating" /\ opener[o].kind = "MANUAL" /\ opener[o].enrollment = e

(* The row of an enrollment has one holder. *)
OneHolder ==
  \A e \in Enrollments :
    /\ \A c, d \in Checkins :
         e \in rosterOf[c] /\ Busy(c) /\ e \in rosterOf[d] /\ Busy(d) => c = d
    /\ \A o \in Openers : OpensByHand(o, e) => ~HeldByPass(e)
    /\ \A o, q \in Openers : OpensByHand(o, e) /\ OpensByHand(q, e) => o = q

(* A student the monitor counts as absent, on the current enrollment. *)
IsAbsent(e) == e = current[personOf[e]] /\ personOf[e] \in absent \ answered

(* A pass that has still to read. *)
Due(c) == pass[c].step \in {"waiting", "failed"}

(* A pass that does not know of an absence is not the last one. *)
OutdatedPassIsFollowed ==
  \A c \in Checkins, e \in Enrollments :
    IsAbsent(e) /\ Busy(c) /\ e \in rosterOf[c] \ pass[c].missing
      => \E d \in Checkins : e \in rosterOf[d] /\ Due(d)

Attends(c, e) ==
  /\ e \in rosterOf[c]
  /\ \/ Due(c)
     \/ pass[c].step = "reading" /\ e \in pass[c].missing
     \/ pass[c].step = "writing" /\ e \in pass[c].create

(* An absent student without a case has a pass that will see to it. *)
AbsenceIsAttendedTo ==
  \A e \in Enrollments :
    IsAbsent(e) /\ ~HasCase(e) => \E c \in Checkins : Attends(c, e)

IInv ==
  /\ TypeOK
  /\ PassSeesCurrent
  /\ OneHolder
  /\ SharedLockPreventsRace
  /\ OutdatedPassIsFollowed
  /\ AbsenceIsAttendedTo

-----------------------------------------------------------------------------

LEMMA OpenedIsCase ==
  ASSUME NEW e \in Enrollments, NEW origin \in Origins
  PROVE  /\ Opened(e, origin) \in Case
         /\ Opened(e, origin) # NoCase
         /\ Opened(e, origin).enrollment = e
         /\ Opened(e, origin).origin = origin
<1>1. Opened(e, origin) \in Case
  BY DEF Opened, Case
<1>2. Opened(e, origin).enrollment = e /\ Opened(e, origin).origin = origin
  BY DEF Opened
<1> QED
  BY <1>1, <1>2, CaseAssumption

LEMMA RestingIsPass ==
  ASSUME NEW step \in {"idle", "waiting", "reading", "writing", "failed"}
  PROVE  /\ Resting(step) \in Pass
         /\ Resting(step).step = step
         /\ Resting(step).missing = {}
         /\ Resting(step).alarms = {}
         /\ Resting(step).create = {}
BY DEF Resting, Pass

(* The person of an enrollment that a pass opens a case for gets the case of *)
(* that enrollment: only one of a person's enrollments is current.           *)
LEMMA WrittenCase ==
  ASSUME TypeOK, PassSeesCurrent, NEW c \in Checkins, PassWrite(c), NEW p \in Persons
  PROVE  /\ \A e \in pass[c].create : personOf[e] = p => active'[p] = Opened(e, "AUTO")
         /\ (~ \E e \in pass[c].create : personOf[e] = p)
              => active'[p] = IF FalseAlarm(c, p) THEN NoCase ELSE active[p]
<1>1. pass[c].create \subseteq Enrollments
  BY DEF TypeOK, Pass
<1>2. ASSUME NEW e \in pass[c].create, personOf[e] = p
      PROVE  e = current[p]
  BY <1>2 DEF PassSeesCurrent, CurrentOn
<1>3. ASSUME NEW e \in pass[c].create, personOf[e] = p
      PROVE  active'[p] = Opened(e, "AUTO")
  <2>1. (CHOOSE x \in pass[c].create : personOf[x] = p) = e
    BY <1>2, <1>3
  <2> QED
    BY <1>3, <2>1 DEF PassWrite
<1> QED
  BY <1>3 DEF PassWrite

-----------------------------------------------------------------------------
(* Types. *)

LEMMA InitTypeOK == Init => TypeOK
<1> SUFFICES ASSUME Init PROVE TypeOK
  OBVIOUS
<1>1. Resting("idle") \in Pass
  BY RestingIsPass
<1>2. (CHOOSE x \in Enrollments : TRUE) \in Enrollments
  BY EnrollmentAssumption
<1>3. opener \in [Openers -> Opener]
  BY <1>2 DEF Init, Opener
<1> QED
  BY <1>1, <1>3 DEF Init, TypeOK

(* Every step keeps the types. *)
LEMMA StepTypeOK == TypeOK /\ PassSeesCurrent /\ [Next]_vars => TypeOK'
<1> SUFFICES ASSUME TypeOK, PassSeesCurrent, [Next]_vars PROVE TypeOK'
  OBVIOUS
<1> USE EnrollmentAssumption
<1>1. ASSUME NEW c \in Checkins, NEW S \in SUBSET Persons, Submit(c, S) PROVE TypeOK'
  <2>1. Resting("waiting") \in Pass
    BY RestingIsPass
  <2> QED
    BY <1>1, <2>1 DEF Submit, TypeOK
<1>2. ASSUME NEW c \in Checkins, PassRead(c) PROVE TypeOK'
  BY <1>2 DEF PassRead, TypeOK, Pass, CurrentOn
<1>3. ASSUME NEW c \in Checkins, PassLookUp(c) PROVE TypeOK'
  <2>1. [pass[c] EXCEPT !.step = "writing",
                        !.create = {e \in pass[c].missing : ~FoundByMonitor(e)}] \in Pass
    BY DEF TypeOK, Pass
  <2>2. pass' = [pass EXCEPT ![c] =
          [pass[c] EXCEPT !.step = "writing",
                          !.create = {e \in pass[c].missing : ~FoundByMonitor(e)}]]
    BY <1>3 DEF PassLookUp, TypeOK, Pass
  <2> QED
    BY ZenonT(30), <1>3, <2>1, <2>2 DEF PassLookUp, TypeOK
<1>4. ASSUME NEW c \in Checkins, PassWrite(c) PROVE TypeOK'
  <2>1. active' \in [Persons -> Case \cup {NoCase}]
    <3>1. ASSUME NEW p \in Persons PROVE active'[p] \in Case \cup {NoCase}
      <4>1. \A e \in pass[c].create : e \in Enrollments
        BY DEF TypeOK, Pass
      <4>2. CASE \E e \in pass[c].create : personOf[e] = p
        BY <1>4, <4>1, <4>2, WrittenCase, OpenedIsCase DEF Origins
      <4>3. CASE ~ \E e \in pass[c].create : personOf[e] = p
        BY <1>4, <4>3, WrittenCase DEF TypeOK
      <4> QED
        BY <4>2, <4>3
    <3> QED
      BY <1>4, <3>1 DEF PassWrite
  <2> QED
    BY <1>4, <2>1, RestingIsPass DEF PassWrite, TypeOK
<1>5. ASSUME NEW c \in Checkins, PassFail(c) PROVE TypeOK'
  BY <1>5, RestingIsPass DEF PassFail, TypeOK
<1>6. ASSUME NEW o \in Openers, NEW e \in Enrollments, NEW wide \in BOOLEAN,
             ManualLookUp(o, e, wide) \/ TaskLookUp(o, e, wide)
      PROVE  TypeOK'
  BY <1>6 DEF ManualLookUp, TaskLookUp, TypeOK, Opener
<1>7. ASSUME NEW o \in Openers, ManualCreate(o) \/ TaskCommit(o) PROVE TypeOK'
  <2>1. opener[o].enrollment \in Enrollments
    BY DEF TypeOK, Opener
  <2>2. Opened(opener[o].enrollment, "MANUAL") \in Case /\ Opened(opener[o].enrollment, "TASK") \in Case
    BY <2>1, OpenedIsCase DEF Origins
  <2>3. opener' \in [Openers -> Opener]
    BY SMTT(20), <1>7 DEF ManualCreate, TaskCommit, TypeOK, Opener
  <2> QED
    BY <1>7, <2>2, <2>3 DEF ManualCreate, TaskCommit, TypeOK
<1>8. ASSUME NEW o \in Openers, TaskInsert(o) \/ OpenerFail(o) PROVE TypeOK'
  BY <1>8 DEF TaskInsert, OpenerFail, TypeOK, Opener
<1>9. ASSUME NEW p \in Persons, Follow(p) PROVE TypeOK'
  BY <1>9 DEF Follow, TypeOK, Case
<1>10. ASSUME NEW p \in Persons, Close(p) PROVE TypeOK'
  BY <1>10 DEF Close, TypeOK
<1>11. ASSUME NEW p \in Persons, NEW e \in Enrollments, MoveOn(p, e) PROVE TypeOK'
  BY <1>11 DEF MoveOn, TypeOK
<1>12. CASE UNCHANGED vars
  BY <1>12 DEF vars, TypeOK
<1> QED
  BY <1>1, <1>2, <1>3, <1>4, <1>5, <1>6, <1>7, <1>8, <1>9, <1>10, <1>11, <1>12
     DEF Next, Monitor, Opening, Life

-----------------------------------------------------------------------------
(* How a step changes the passes and the holders of the rows. *)

LEMMA InitIInv == Init => IInv
<1> SUFFICES ASSUME Init PROVE IInv
  OBVIOUS
<1>1. TypeOK
  BY InitTypeOK
<1>2. \A c \in Checkins : /\ pass[c].step = "idle" /\ pass[c].missing = {}
                          /\ pass[c].alarms = {} /\ pass[c].create = {}
  BY RestingIsPass DEF Init
<1>3. \A o \in Openers : opener[o].step = "idle"
  BY DEF Init
<1>4. PassSeesCurrent
  BY <1>2 DEF PassSeesCurrent, Busy
<1>5. OneHolder
  BY <1>2, <1>3 DEF OneHolder, OpensByHand, Busy
<1>6. SharedLockPreventsRace
  BY <1>2, <1>3 DEF SharedLockPreventsRace
<1>7. OutdatedPassIsFollowed /\ AbsenceIsAttendedTo
  BY DEF Init, OutdatedPassIsFollowed, AbsenceIsAttendedTo, IsAbsent
<1> QED
  BY <1>1, <1>4, <1>5, <1>6, <1>7 DEF IInv

(* A step of a pass changes this pass only. *)
LEMMA PassAlone ==
  ASSUME TypeOK, NEW c \in Checkins, NEW S \in SUBSET Persons,
         Submit(c, S) \/ PassRead(c) \/ PassLookUp(c) \/ PassWrite(c) \/ PassFail(c)
  PROVE  /\ \A d \in Checkins \ {c} : pass'[d] = pass[d]
         /\ UNCHANGED <<current, opener>>
BY DEF Submit, PassRead, PassLookUp, PassWrite, PassFail, TypeOK

(* What each step of a pass makes of its record. *)
LEMMA PassBecomes ==
  ASSUME TypeOK, NEW c \in Checkins
  PROVE  /\ \A S \in SUBSET Persons : Submit(c, S) => pass'[c] = Resting("waiting")
         /\ PassRead(c) =>
              /\ pass'[c].step = "reading"
              /\ pass'[c].missing = {e \in CurrentOn(rosterOf[c]) : personOf[e] \in absent}
              /\ pass'[c].alarms \subseteq CurrentOn(rosterOf[c])
              /\ pass'[c].create = {}
         /\ PassLookUp(c) =>
              /\ pass'[c].step = "writing"
              /\ pass'[c].missing = pass[c].missing
              /\ pass'[c].alarms = pass[c].alarms
              /\ pass'[c].create = {e \in pass[c].missing : ~FoundByMonitor(e)}
         /\ PassWrite(c) => pass'[c] = Resting("idle")
         /\ PassFail(c) => pass'[c] = Resting("failed")
<1>1. ASSUME NEW S \in SUBSET Persons, Submit(c, S)
      PROVE  pass'[c] = Resting("waiting")
  BY <1>1 DEF Submit, TypeOK
<1>2. ASSUME PassRead(c)
      PROVE  /\ pass'[c].step = "reading"
             /\ pass'[c].missing = {e \in CurrentOn(rosterOf[c]) : personOf[e] \in absent}
             /\ pass'[c].alarms \subseteq CurrentOn(rosterOf[c])
             /\ pass'[c].create = {}
  BY <1>2 DEF PassRead, TypeOK
<1>3. ASSUME PassLookUp(c)
      PROVE  /\ pass'[c].step = "writing"
             /\ pass'[c].missing = pass[c].missing
             /\ pass'[c].alarms = pass[c].alarms
             /\ pass'[c].create = {e \in pass[c].missing : ~FoundByMonitor(e)}
  BY <1>3 DEF PassLookUp, TypeOK, Pass
<1>4. PassWrite(c) => pass'[c] = Resting("idle")
  BY DEF PassWrite, TypeOK
<1>5. PassFail(c) => pass'[c] = Resting("failed")
  BY DEF PassFail, TypeOK
<1> QED
  BY <1>1, <1>2, <1>3, <1>4, <1>5

(* The steps that leave the passes alone. *)
OtherStep ==
  \/ Opening
  \/ \E p \in Persons : Follow(p) \/ Close(p)
  \/ UNCHANGED vars

LEMMA OtherStepPass == OtherStep => UNCHANGED <<pass, current>>
BY DEF OtherStep, Opening, ManualLookUp, TaskLookUp, ManualCreate, TaskInsert, TaskCommit,
       OpenerFail, Follow, Close, vars

LEMMA StepCases ==
  ASSUME [Next]_vars
  PROVE  \/ \E c \in Checkins, S \in SUBSET Persons :
              Submit(c, S) \/ PassRead(c) \/ PassLookUp(c) \/ PassWrite(c) \/ PassFail(c)
         \/ \E p \in Persons, e \in Enrollments : MoveOn(p, e)
         \/ OtherStep
BY DEF Next, Monitor, Life, OtherStep

LEMMA StepPassSees == TypeOK /\ PassSeesCurrent /\ [Next]_vars => PassSeesCurrent'
<1> SUFFICES ASSUME TypeOK, PassSeesCurrent, [Next]_vars PROVE PassSeesCurrent'
  OBVIOUS
<1>1. ASSUME NEW c \in Checkins, NEW S \in SUBSET Persons,
             Submit(c, S) \/ PassRead(c) \/ PassLookUp(c) \/ PassWrite(c) \/ PassFail(c)
      PROVE  PassSeesCurrent'
  <2>1. CurrentOn(rosterOf[c])' = CurrentOn(rosterOf[c])
    BY <1>1, PassAlone DEF CurrentOn
  <2>2. ASSUME NEW d \in Checkins \ {c}
        PROVE  CurrentOn(rosterOf[d])' = CurrentOn(rosterOf[d]) /\ pass'[d] = pass[d]
    BY <1>1, PassAlone DEF CurrentOn
  <2>3. /\ pass'[c].missing \cup pass'[c].alarms \subseteq CurrentOn(rosterOf[c])
        /\ pass'[c].create \subseteq pass'[c].missing
        /\ ~Busy(c)' => pass'[c].missing = {} /\ pass'[c].alarms = {}
        /\ pass'[c].step # "writing" => pass'[c].create = {}
    <3>1. CASE Submit(c, S)
      BY <3>1, PassBecomes, RestingIsPass
    <3>2. CASE PassRead(c)
      BY <3>2, PassBecomes DEF Busy
    <3>3. CASE PassLookUp(c)
      BY <3>3, PassBecomes DEF PassSeesCurrent, Busy
    <3>4. CASE PassWrite(c) \/ PassFail(c)
      BY <3>4, PassBecomes, RestingIsPass
    <3> QED
      BY <1>1, <3>1, <3>2, <3>3, <3>4
  <2> QED
    BY <2>1, <2>2, <2>3 DEF PassSeesCurrent, Busy
<1>2. ASSUME NEW p \in Persons, NEW x \in Enrollments, MoveOn(p, x)
      PROVE  PassSeesCurrent'
  <2>1. UNCHANGED pass
    BY <1>2 DEF MoveOn
  <2>2. ASSUME NEW c \in Checkins, NEW e \in pass[c].missing \cup pass[c].alarms
        PROVE  e \in CurrentOn(rosterOf[c])'
    <3>1. Busy(c) /\ e \in CurrentOn(rosterOf[c])
      BY <2>2 DEF PassSeesCurrent
    <3>2. HeldByPass(e)
      BY <3>1 DEF HeldByPass, CurrentOn
    <3>3. personOf[e] # p
      BY <1>2, <3>1, <3>2 DEF MoveOn, CurrentOn
    <3>4. current'[personOf[e]] = current[personOf[e]]
      BY <1>2, <3>3 DEF MoveOn, TypeOK
    <3> QED
      BY <3>1, <3>4 DEF CurrentOn
  <2> QED
    BY <2>1, <2>2 DEF PassSeesCurrent, Busy
<1>3. CASE OtherStep
  BY <1>3, OtherStepPass DEF PassSeesCurrent, Busy, CurrentOn
<1> QED
  BY <1>1, <1>2, <1>3, StepCases

(* The row of an enrollment is taken only when nobody holds it. *)
LEMMA StepOneHolder == TypeOK /\ OneHolder /\ [Next]_vars => OneHolder'
<1> SUFFICES ASSUME TypeOK, OneHolder, [Next]_vars PROVE OneHolder'
  OBVIOUS
<1>1. ASSUME NEW c \in Checkins, NEW S \in SUBSET Persons,
             Submit(c, S) \/ PassRead(c) \/ PassLookUp(c) \/ PassWrite(c) \/ PassFail(c)
      PROVE  OneHolder'
  <2>1. (\A d \in Checkins \ {c} : Busy(d)' = Busy(d)) /\ UNCHANGED opener
    BY <1>1, PassAlone DEF Busy
  <2>2. CASE Busy(c)' => Busy(c)
    BY <2>1, <2>2 DEF OneHolder, HeldByPass, OpensByHand
  <2>3. CASE PassRead(c)
    <3>1. ASSUME NEW e \in rosterOf[c]
          PROVE  /\ \A d \in Checkins : ~(e \in rosterOf[d] /\ Busy(d))
                 /\ \A o \in Openers : ~OpensByHand(o, e)
      BY <2>3, <3>1 DEF PassRead, LocksFree, Held, HeldByPass, HeldByOpener, OpensByHand
    <3> QED
      BY <2>1, <3>1 DEF OneHolder, HeldByPass, OpensByHand
  <2>4. (Submit(c, S) \/ PassLookUp(c) \/ PassWrite(c) \/ PassFail(c)) => (Busy(c)' => Busy(c))
    <3>1. CASE Submit(c, S) \/ PassWrite(c) \/ PassFail(c)
      BY <3>1, PassBecomes, RestingIsPass DEF Busy
    <3>2. CASE PassLookUp(c)
      BY <3>2 DEF PassLookUp, Busy
    <3> QED
      BY <3>1, <3>2
  <2> QED
    BY <1>1, <2>2, <2>3, <2>4
<1>2. ASSUME NEW p \in Persons, NEW x \in Enrollments, MoveOn(p, x)
      PROVE  OneHolder'
  BY <1>2 DEF MoveOn, OneHolder, HeldByPass, OpensByHand, Busy
<1>3. ASSUME NEW o \in Openers, NEW x \in Enrollments, NEW wide \in BOOLEAN,
             ManualLookUp(o, x, wide)
      PROVE  OneHolder'
  <2>1. /\ UNCHANGED pass
        /\ \A q \in Openers \ {o} : opener'[q] = opener[q]
        /\ opener'[o].enrollment = x
    BY <1>3 DEF ManualLookUp, TypeOK
  <2>2. ~HeldByPass(x) /\ \A q \in Openers : ~OpensByHand(q, x)
    BY <1>3 DEF ManualLookUp, RowFree, Held, HeldByOpener, OpensByHand
  <2> QED
    BY <2>1, <2>2 DEF OneHolder, HeldByPass, OpensByHand, Busy
<1>4. ASSUME NEW o \in Openers,
             \/ \E x \in Enrollments, wide \in BOOLEAN : TaskLookUp(o, x, wide)
             \/ ManualCreate(o) \/ TaskInsert(o) \/ TaskCommit(o) \/ OpenerFail(o)
      PROVE  OneHolder'
  <2>1. /\ UNCHANGED pass
        /\ \A q \in Openers \ {o} : opener'[q] = opener[q]
        /\ opener'[o].step # "creating" \/ opener'[o].kind = "TASK"
    <3>1. CASE \E x \in Enrollments, wide \in BOOLEAN : TaskLookUp(o, x, wide)
      BY <3>1 DEF TaskLookUp, TypeOK
    <3>2. CASE ManualCreate(o) \/ TaskInsert(o) \/ TaskCommit(o) \/ OpenerFail(o)
      BY <3>2 DEF ManualCreate, TaskInsert, TaskCommit, OpenerFail, TypeOK, Opener
    <3> QED
      BY <1>4, <3>1, <3>2
  <2> QED
    BY <2>1 DEF OneHolder, HeldByPass, OpensByHand, Busy
<1>5. ASSUME NEW p \in Persons, Follow(p) \/ Close(p)
      PROVE  OneHolder'
  BY <1>5 DEF Follow, Close, OneHolder, HeldByPass, OpensByHand, Busy
<1>6. CASE UNCHANGED vars
  BY <1>6 DEF vars, OneHolder, HeldByPass, OpensByHand, Busy
<1>7. CASE OtherStep
  <2>1. CASE Opening
    BY <1>3, <1>4, <2>1 DEF Opening
  <2> QED
    BY <1>5, <1>6, <1>7, <2>1 DEF OtherStep
<1> QED
  BY <1>1, <1>2, <1>7, StepCases

-----------------------------------------------------------------------------
(* The shared lock. *)

(* A case that appears on an enrollment was opened by the holder of its row, *)
(* or by createTask.                                                         *)
LEMMA StepRaced ==
  ASSUME TypeOK, PassSeesCurrent, [Next]_vars, NEW e \in Enrollments, RacedOn(e)'
  PROVE  \/ RacedOn(e)
         \/ \E c \in Checkins : PassWrite(c) /\ e \in pass[c].create
         \/ \E o \in Openers : ManualCreate(o) /\ opener[o].enrollment = e
<1> DEFINE p == personOf[e]
<1>0. p \in Persons
  BY EnrollmentAssumption
<1>1. ASSUME UNCHANGED active PROVE RacedOn(e)
  BY <1>1 DEF RacedOn, HasCase
<1>2. ASSUME NEW c \in Checkins, PassWrite(c)
      PROVE  RacedOn(e) \/ e \in pass[c].create
  <2>1. CASE \E x \in pass[c].create : personOf[x] = p
    <3>1. PICK x \in pass[c].create : personOf[x] = p
      BY <2>1
    <3>2. x \in Enrollments /\ active'[p] = Opened(x, "AUTO")
      BY <1>0, <1>2, <3>1, WrittenCase DEF TypeOK, Pass
    <3>3. active'[p].enrollment = x
      BY <3>2, OpenedIsCase DEF Origins
    <3> QED
      BY <3>1, <3>3 DEF RacedOn
  <2>2. CASE ~ \E x \in pass[c].create : personOf[x] = p
    <3>1. active'[p] = active[p] \/ active'[p] = NoCase
      BY <1>0, <1>2, <2>2, WrittenCase
    <3> QED
      BY <3>1 DEF RacedOn, HasCase
  <2> QED
    BY <2>1, <2>2
<1>3. ASSUME NEW o \in Openers, ManualCreate(o)
      PROVE  RacedOn(e) \/ opener[o].enrollment = e
  <2>1. opener[o].enrollment \in Enrollments
    BY DEF TypeOK, Opener
  <2>2. active'[p] = active[p] \/ active'[p] = Opened(opener[o].enrollment, "MANUAL")
    BY <1>0, <1>3 DEF ManualCreate, TypeOK
  <2> QED
    BY <2>1, <2>2, OpenedIsCase DEF RacedOn, HasCase, Origins
<1>4. ASSUME NEW o \in Openers, TaskCommit(o)
      PROVE  RacedOn(e)
  <2>1. opener[o].enrollment \in Enrollments
    BY DEF TypeOK, Opener
  <2>2. active'[p] = active[p] \/ active'[p] = Opened(opener[o].enrollment, "TASK")
    BY <1>0, <1>4 DEF TaskCommit, TypeOK
  <2> QED
    BY <2>1, <2>2, OpenedIsCase DEF RacedOn, HasCase, Origins
<1>5. ASSUME NEW q \in Persons, Follow(q)
      PROVE  RacedOn(e)
  <2>1. CASE q = p
    <3>1. active[p] \in Case
      BY <1>0, <1>5, <2>1 DEF Follow, TypeOK
    <3>2. active'[p].enrollment = active[p].enrollment /\ active'[p].origin = active[p].origin
      BY <1>0, <1>5, <2>1, <3>1 DEF Follow, TypeOK, Case
    <3> QED
      BY <1>5, <2>1, <3>2 DEF RacedOn, HasCase, Follow
  <2>2. CASE q # p
    BY <1>0, <1>5, <2>2 DEF Follow, TypeOK, RacedOn, HasCase
  <2> QED
    BY <2>1, <2>2
<1>6. ASSUME NEW q \in Persons, Close(q)
      PROVE  RacedOn(e)
  <2>1. active'[p] = active[p] \/ active'[p] = NoCase
    BY <1>0, <1>6 DEF Close, TypeOK
  <2> QED
    BY <2>1 DEF RacedOn, HasCase
<1>7. CASE \E c \in Checkins, S \in SUBSET Persons :
             Submit(c, S) \/ PassRead(c) \/ PassLookUp(c) \/ PassWrite(c) \/ PassFail(c)
  BY <1>1, <1>2, <1>7 DEF Submit, PassRead, PassLookUp, PassFail
<1>8. CASE \E q \in Persons, x \in Enrollments : MoveOn(q, x)
  BY <1>1, <1>8 DEF MoveOn
<1>9. CASE OtherStep
  <2>1. CASE Opening
    BY <1>1, <1>3, <1>4, <2>1
       DEF Opening, ManualLookUp, TaskLookUp, TaskInsert, OpenerFail
  <2> QED
    BY <1>1, <1>5, <1>6, <1>9, <2>1 DEF OtherStep, vars
<1> QED
  BY <1>7, <1>8, <1>9, StepCases

(* A pass comes to open a case for what it does not find in its look-up. *)
LEMMA StepCreate ==
  ASSUME TypeOK, [Next]_vars, NEW c \in Checkins, NEW e \in pass'[c].create
  PROVE  \/ e \in pass[c].create /\ ~PassWrite(c)
         \/ PassLookUp(c) /\ ~FoundByMonitor(e)
<1>1. ASSUME NEW d \in Checkins, NEW S \in SUBSET Persons,
             Submit(d, S) \/ PassRead(d) \/ PassLookUp(d) \/ PassWrite(d) \/ PassFail(d),
             d # c
      PROVE  pass'[c] = pass[c] /\ ~PassWrite(c)
  <2>1. pass'[c] = pass[c]
    BY <1>1, PassAlone
  <2>2. ASSUME PassWrite(c) PROVE FALSE
    <3>1. pass'[c].create = {}
      BY <2>2, PassBecomes, RestingIsPass
    <3> QED
      BY <3>1
  <2> QED
    BY <2>1, <2>2
<1>2. ASSUME NEW S \in SUBSET Persons,
             Submit(c, S) \/ PassRead(c) \/ PassLookUp(c) \/ PassWrite(c) \/ PassFail(c)
      PROVE  PassLookUp(c) /\ ~FoundByMonitor(e)
  <2>1. ~(Submit(c, S) \/ PassWrite(c) \/ PassFail(c))
    BY PassBecomes, RestingIsPass
  <2>2. ~PassRead(c)
    BY PassBecomes
  <2>3. PassLookUp(c)
    BY <1>2, <2>1, <2>2
  <2> QED
    BY <2>3, PassBecomes
<1>3. ~PassWrite(c)
  BY PassBecomes, RestingIsPass
<1>4. CASE UNCHANGED pass
  BY <1>3, <1>4
<1>5. CASE \E q \in Persons, x \in Enrollments : MoveOn(q, x)
  BY <1>4, <1>5 DEF MoveOn
<1> QED
  BY <1>1, <1>2, <1>4, <1>5, StepCases, OtherStepPass

(* An opener comes to open a case by hand in its look-up. *)
LEMMA StepOpensByHand ==
  ASSUME TypeOK, [Next]_vars, NEW o \in Openers, NEW e \in Enrollments, OpensByHand(o, e)'
  PROVE  \/ OpensByHand(o, e) /\ ~ManualCreate(o)
         \/ \E wide \in BOOLEAN : ManualLookUp(o, e, wide)
<1>1. ~ManualCreate(o)
  BY DEF ManualCreate, OpensByHand, TypeOK, Opener
<1>2. ASSUME NEW q \in Openers, NEW x \in Enrollments, NEW wide \in BOOLEAN,
             ManualLookUp(q, x, wide)
      PROVE  OpensByHand(o, e) \/ ManualLookUp(o, e, wide)
  <2>1. CASE q = o
    BY <1>2, <2>1 DEF ManualLookUp, OpensByHand, TypeOK
  <2>2. CASE q # o
    BY <1>2, <2>2 DEF ManualLookUp, OpensByHand, TypeOK
  <2> QED
    BY <2>1, <2>2
<1>3. ASSUME NEW q \in Openers, NEW x \in Enrollments, NEW wide \in BOOLEAN,
             TaskLookUp(q, x, wide)
      PROVE  OpensByHand(o, e)
  BY <1>3 DEF TaskLookUp, OpensByHand, TypeOK
<1>4. ASSUME NEW q \in Openers,
             ManualCreate(q) \/ TaskInsert(q) \/ TaskCommit(q) \/ OpenerFail(q)
      PROVE  OpensByHand(o, e)
  BY <1>4 DEF ManualCreate, TaskInsert, TaskCommit, OpenerFail, OpensByHand, TypeOK, Opener
<1>5. CASE UNCHANGED opener
  BY <1>1, <1>5 DEF OpensByHand
<1>6. CASE Opening
  BY <1>1, <1>2, <1>3, <1>4, <1>6 DEF Opening
<1>7. CASE \E c \in Checkins, S \in SUBSET Persons :
             Submit(c, S) \/ PassRead(c) \/ PassLookUp(c) \/ PassWrite(c) \/ PassFail(c)
  BY <1>1, <1>5, <1>7, PassAlone
<1>8. CASE \E q \in Persons, x \in Enrollments : MoveOn(q, x)
  BY <1>1, <1>5, <1>8 DEF MoveOn
<1>9. CASE (\E q \in Persons : Follow(q) \/ Close(q)) \/ UNCHANGED vars
  BY <1>1, <1>5, <1>9 DEF Follow, Close, vars
<1> QED
  BY <1>6, <1>7, <1>8, <1>9, StepCases DEF OtherStep

(* Whoever found no case under the lock keeps others from opening one. *)
LEMMA StepSharedLock ==
  TypeOK /\ PassSeesCurrent /\ OneHolder /\ SharedLockPreventsRace /\ [Next]_vars
    => SharedLockPreventsRace'
<1> SUFFICES ASSUME TypeOK, PassSeesCurrent, OneHolder, SharedLockPreventsRace, [Next]_vars
             PROVE  SharedLockPreventsRace'
  OBVIOUS
<1>1. ASSUME NEW c \in Checkins, NEW e \in pass[c].create
      PROVE  e \in Enrollments /\ e \in rosterOf[c] /\ Busy(c)
  BY <1>1 DEF PassSeesCurrent, CurrentOn, Busy, TypeOK, Pass
<1>2. ASSUME NEW o \in Openers, ManualCreate(o)
      PROVE  OpensByHand(o, opener[o].enrollment)
  BY <1>2 DEF ManualCreate, OpensByHand
<1>3. ASSUME NEW c \in Checkins, NEW e \in pass'[c].create, RacedOn(e)'
      PROVE  FALSE
  <2>1. e \in Enrollments
    <3>1. TypeOK'
      BY StepTypeOK
    <3> QED
      BY <3>1 DEF TypeOK, Pass
  <2>2. CASE e \in pass[c].create /\ ~PassWrite(c)
    <3>1. ~RacedOn(e) /\ HeldByPass(e)
      BY <1>1, <2>2 DEF SharedLockPreventsRace, HeldByPass
    <3>2. ASSUME NEW d \in Checkins, PassWrite(d), e \in pass[d].create PROVE FALSE
      <4>1. c = d
        BY <1>1, <2>1, <2>2, <3>2 DEF OneHolder
      <4> QED
        BY <2>2, <3>2, <4>1
    <3>3. ASSUME NEW o \in Openers, ManualCreate(o), opener[o].enrollment = e PROVE FALSE
      BY <1>2, <2>1, <3>1, <3>3 DEF OneHolder
    <3> QED
      BY <1>3, <2>1, <3>1, <3>2, <3>3, StepRaced
  <2>3. CASE PassLookUp(c) /\ ~FoundByMonitor(e)
    BY <1>3, <2>3 DEF PassLookUp, RacedOn, HasCase, FoundByMonitor
  <2> QED
    BY <2>2, <2>3, StepCreate
<1>4. ASSUME NEW o \in Openers, NEW e \in Enrollments, OpensByHand(o, e)', RacedOn(e)'
      PROVE  FALSE
  <2>1. CASE OpensByHand(o, e) /\ ~ManualCreate(o)
    <3>1. ~RacedOn(e) /\ ~HeldByPass(e)
      BY <2>1 DEF SharedLockPreventsRace, OpensByHand, OneHolder
    <3>2. ASSUME NEW d \in Checkins, PassWrite(d), e \in pass[d].create PROVE FALSE
      BY <1>1, <3>1, <3>2 DEF HeldByPass
    <3>3. ASSUME NEW q \in Openers, ManualCreate(q), opener[q].enrollment = e PROVE FALSE
      BY <1>2, <2>1, <3>3 DEF OneHolder
    <3> QED
      BY <1>4, <3>1, <3>2, <3>3, StepRaced
  <2>2. ASSUME NEW wide \in BOOLEAN, ManualLookUp(o, e, wide) PROVE FALSE
    BY <1>4, <2>2 DEF ManualLookUp, RacedOn, HasCase, FoundByActor
  <2> QED
    BY <1>4, <2>1, <2>2, StepOpensByHand
<1>5. ASSUME NEW o \in Openers, opener'[o].step = "creating", opener'[o].kind = "MANUAL"
      PROVE  ~RacedOn(opener[o].enrollment)'
  <2>1. opener'[o].enrollment \in Enrollments
    <3>1. TypeOK'
      BY StepTypeOK
    <3> QED
      BY <3>1 DEF TypeOK, Opener
  <2>2. ASSUME NEW e \in Enrollments, e = opener'[o].enrollment PROVE ~RacedOn(e)'
    <3>1. OpensByHand(o, e)'
      BY <1>5, <2>2 DEF OpensByHand
    <3> QED
      BY <1>4, <3>1
  <2> QED
    BY <2>1, <2>2 DEF RacedOn, HasCase
<1> QED
  BY <1>3, <1>5 DEF SharedLockPreventsRace

-----------------------------------------------------------------------------
(* No absence is lost. *)

LEMMA StepPass ==
  ASSUME TypeOK, [Next]_vars, NEW c \in Checkins
  PROVE  \/ pass'[c] = pass[c]
         \/ \E S \in SUBSET Persons : Submit(c, S)
         \/ PassRead(c) \/ PassLookUp(c) \/ PassWrite(c) \/ PassFail(c)
<1>1. ASSUME NEW d \in Checkins, NEW S \in SUBSET Persons,
             Submit(d, S) \/ PassRead(d) \/ PassLookUp(d) \/ PassWrite(d) \/ PassFail(d)
      PROVE  d = c \/ pass'[c] = pass[c]
  BY <1>1, PassAlone
<1>2. ASSUME NEW p \in Persons, NEW x \in Enrollments, MoveOn(p, x)
      PROVE  pass'[c] = pass[c]
  BY <1>2 DEF MoveOn
<1> QED
  BY <1>1, <1>2, StepCases, OtherStepPass

(* A check-in due for a pass stays due until the pass reads. *)
LEMMA StepDue ==
  ASSUME TypeOK, [Next]_vars, NEW c \in Checkins
  PROVE  /\ \A S \in SUBSET Persons : Submit(c, S) => Due(c)'
         /\ PassFail(c) => Due(c)'
         /\ Due(c) => Due(c)' \/ PassRead(c)
<1>1. ASSUME NEW S \in SUBSET Persons, Submit(c, S) PROVE Due(c)'
  BY <1>1, PassBecomes, RestingIsPass DEF Due
<1>2. PassFail(c) => Due(c)'
  BY PassBecomes, RestingIsPass DEF Due
<1>3. CASE pass'[c] = pass[c]
  BY <1>1, <1>2, <1>3 DEF Due
<1>4. Due(c) => ~PassLookUp(c) /\ ~PassWrite(c)
  BY DEF Due, PassLookUp, PassWrite
<1> QED
  BY <1>1, <1>2, <1>3, <1>4, StepPass

(* Only a check-in with the student on its roster makes a student absent. *)
LEMMA StepAbsent ==
  ASSUME TypeOK, [Next]_vars, NEW e \in Enrollments, IsAbsent(e)'
  PROVE  \/ IsAbsent(e)
         \/ \E c \in Checkins, S \in SUBSET Persons : Submit(c, S) /\ e \in rosterOf[c]
<1>1. personOf[e] \in Persons
  BY EnrollmentAssumption
<1>2. ASSUME NEW c \in Checkins, NEW S \in SUBSET Persons, Submit(c, S)
      PROVE  IsAbsent(e) \/ e \in rosterOf[c]
  <2>1. CASE \E x \in CurrentOn(rosterOf[c]) : personOf[x] = personOf[e]
    BY <1>2, <2>1 DEF Submit, IsAbsent, CurrentOn
  <2>2. CASE ~ \E x \in CurrentOn(rosterOf[c]) : personOf[x] = personOf[e]
    BY <1>2, <2>2 DEF Submit, IsAbsent
  <2> QED
    BY <2>1, <2>2
<1>3. CASE UNCHANGED <<current, absent, answered>>
  BY <1>3 DEF IsAbsent
<1>4. ASSUME NEW c \in Checkins, PassRead(c) \/ PassLookUp(c) \/ PassWrite(c) \/ PassFail(c)
      PROVE  UNCHANGED <<current, absent, answered>>
  BY <1>4 DEF PassRead, PassLookUp, PassWrite, PassFail
<1>5. ASSUME NEW q \in Persons, NEW x \in Enrollments, MoveOn(q, x)
      PROVE  IsAbsent(e)
  <2>1. personOf[e] # q
    BY <1>5 DEF MoveOn, IsAbsent
  <2> QED
    BY <1>1, <1>5, <2>1 DEF MoveOn, IsAbsent, TypeOK
<1>6. ASSUME NEW q \in Persons, Close(q)
      PROVE  IsAbsent(e)
  BY <1>6 DEF Close, IsAbsent
<1>7. Opening \/ (\E q \in Persons : Follow(q)) \/ UNCHANGED vars
        => UNCHANGED <<current, absent, answered>>
  BY DEF Opening, ManualLookUp, TaskLookUp, ManualCreate, TaskInsert, TaskCommit, OpenerFail,
         Follow, vars
<1> QED
  BY <1>2, <1>3, <1>4, <1>5, <1>6, <1>7, StepCases DEF OtherStep

(* A person's case goes when it is closed, or when a pass takes it for a     *)
(* false alarm.                                                              *)
LEMMA StepLosesCase ==
  ASSUME TypeOK, PassSeesCurrent, [Next]_vars, NEW e \in Enrollments,
         HasCase(e), ~HasCase(e)'
  PROVE  \/ Close(personOf[e])
         \/ \E c \in Checkins : PassWrite(c) /\ FalseAlarm(c, personOf[e])
<1> DEFINE p == personOf[e]
<1>0. p \in Persons /\ active[p] # NoCase /\ active'[p] = NoCase
  BY EnrollmentAssumption DEF HasCase
<1>1. active' # active
  BY <1>0
<1>2. ASSUME NEW c \in Checkins, PassWrite(c)
      PROVE  FalseAlarm(c, p)
  <2>1. ~ \E x \in pass[c].create : personOf[x] = p
    <3>1. ASSUME NEW x \in pass[c].create, personOf[x] = p PROVE FALSE
      BY <1>0, <1>2, <3>1 DEF PassWrite, HasCase
    <3> QED
      BY <3>1
  <2> QED
    BY <1>0, <1>2, <2>1, WrittenCase
<1>3. ASSUME NEW o \in Openers PROVE ~ManualCreate(o) /\ ~TaskCommit(o)
  <2>1. opener[o].enrollment \in Enrollments
    BY DEF TypeOK, Opener
  <2>2. /\ Opened(opener[o].enrollment, "MANUAL") # NoCase
        /\ Opened(opener[o].enrollment, "TASK") # NoCase
    BY <2>1, OpenedIsCase DEF Origins
  <2>3. ManualCreate(o) => active'[p] = active[p] \/ active'[p] = Opened(opener[o].enrollment, "MANUAL")
    BY <1>0 DEF ManualCreate, TypeOK
  <2>4. TaskCommit(o) => active'[p] = active[p] \/ active'[p] = Opened(opener[o].enrollment, "TASK")
    BY <1>0 DEF TaskCommit, TypeOK
  <2> QED
    BY <1>0, <2>2, <2>3, <2>4
<1>4. ASSUME NEW q \in Persons, Follow(q) PROVE FALSE
  <2>1. active[q] \in Case
    BY <1>4 DEF Follow, TypeOK
  <2>2. active'[q] \in Case
    BY <1>4, <2>1 DEF Follow, TypeOK, Case
  <2>3. \A r \in Persons \ {q} : active'[r] = active[r]
    BY <1>4 DEF Follow, TypeOK
  <2> QED
    BY <1>0, <2>2, <2>3, CaseAssumption
<1>5. ASSUME NEW q \in Persons, Close(q) PROVE q = p
  BY <1>0, <1>5 DEF Close, TypeOK
<1>6. CASE \E c \in Checkins, S \in SUBSET Persons :
             Submit(c, S) \/ PassRead(c) \/ PassLookUp(c) \/ PassWrite(c) \/ PassFail(c)
  BY <1>1, <1>2, <1>6 DEF Submit, PassRead, PassLookUp, PassFail
<1>7. ~ \E q \in Persons, x \in Enrollments : MoveOn(q, x)
  BY <1>1 DEF MoveOn
<1>8. CASE OtherStep
  <2>1. ~Opening
    BY <1>1, <1>3 DEF Opening, ManualLookUp, TaskLookUp, TaskInsert, OpenerFail
  <2> QED
    BY <1>1, <1>4, <1>5, <1>8, <2>1 DEF OtherStep, vars
<1> QED
  BY <1>6, <1>7, <1>8, StepCases

LEMMA StepOutdated ==
  TypeOK /\ PassSeesCurrent /\ OutdatedPassIsFollowed /\ [Next]_vars
    => OutdatedPassIsFollowed'
<1> SUFFICES ASSUME TypeOK, PassSeesCurrent, OutdatedPassIsFollowed, [Next]_vars,
                    NEW c \in Checkins, NEW e \in Enrollments,
                    IsAbsent(e)', Busy(c)', e \in rosterOf[c] \ pass'[c].missing
             PROVE  \E d \in Checkins : e \in rosterOf[d] /\ Due(d)'
  BY DEF OutdatedPassIsFollowed, Busy, Due
<1>1. CASE \E d \in Checkins, S \in SUBSET Persons : Submit(d, S) /\ e \in rosterOf[d]
  BY <1>1, StepDue
<1>2. CASE IsAbsent(e)
  <2>1. ~PassRead(c)
    BY <1>2, PassBecomes DEF IsAbsent, CurrentOn
  <2>2. Busy(c) /\ e \notin pass[c].missing
    <3>1. CASE pass'[c] = pass[c]
      BY <3>1 DEF Busy
    <3>2. CASE PassLookUp(c)
      BY <3>2, PassBecomes DEF Busy, PassLookUp
    <3>3. \A S \in SUBSET Persons : ~Submit(c, S)
      BY PassBecomes, RestingIsPass DEF Busy
    <3>4. ~PassWrite(c) /\ ~PassFail(c)
      BY PassBecomes, RestingIsPass DEF Busy
    <3> QED
      BY <2>1, <3>1, <3>2, <3>3, <3>4, StepPass
  <2>3. PICK d \in Checkins : e \in rosterOf[d] /\ Due(d)
    BY <1>2, <2>2 DEF OutdatedPassIsFollowed
  <2>4. ~PassRead(d)
    BY <2>2, <2>3 DEF PassRead, LocksFree, Held, HeldByPass
  <2> QED
    BY <2>3, <2>4, StepDue
<1> QED
  BY <1>1, <1>2, StepAbsent

LEMMA StepAttended ==
  (TypeOK /\ PassSeesCurrent /\ OutdatedPassIsFollowed /\ AbsenceIsAttendedTo /\ [Next]_vars)
    => AbsenceIsAttendedTo'
<1> SUFFICES ASSUME TypeOK, PassSeesCurrent, OutdatedPassIsFollowed, AbsenceIsAttendedTo,
                    [Next]_vars, NEW e \in Enrollments, IsAbsent(e)', ~HasCase(e)'
             PROVE  \E c \in Checkins : Attends(c, e)'
  BY DEF AbsenceIsAttendedTo, Attends, Due, IsAbsent, HasCase
<1>0. personOf[e] \in Persons
  BY EnrollmentAssumption
<1>1. CASE \E c \in Checkins, S \in SUBSET Persons : Submit(c, S) /\ e \in rosterOf[c]
  BY <1>1, StepDue DEF Attends
<1>2. CASE IsAbsent(e) /\ ~HasCase(e)
  <2>1. PICK c \in Checkins : Attends(c, e)
    BY <1>2 DEF AbsenceIsAttendedTo
  <2>2. CASE Due(c)
    <3>1. CASE PassRead(c)
      <4>1. e \in pass'[c].missing /\ pass'[c].step = "reading"
        BY <1>2, <2>1, <3>1, PassBecomes DEF IsAbsent, CurrentOn, Attends
      <4> QED
        BY <2>1, <4>1 DEF Attends
    <3>2. CASE Due(c)'
      BY <2>1, <3>2 DEF Attends
    <3> QED
      BY <2>2, <3>1, <3>2, StepDue
  <2>3. CASE pass'[c] = pass[c]
    BY <2>1, <2>3 DEF Attends, Due
  <2>4. CASE PassFail(c)
    BY <2>1, <2>4, StepDue DEF Attends
  <2>5. CASE PassLookUp(c)
    <3>1. e \in pass[c].missing
      BY <2>1, <2>5 DEF Attends, PassLookUp, Due
    <3>2. e \in pass'[c].create /\ pass'[c].step = "writing"
      BY <1>2, <2>5, <3>1, PassBecomes DEF FoundByMonitor
    <3> QED
      BY <2>1, <3>2 DEF Attends
  <2>6. ~PassWrite(c)
    <3> SUFFICES ASSUME PassWrite(c) PROVE FALSE
      OBVIOUS
    <3>1. e \in pass[c].create
      BY <2>1 DEF Attends, PassWrite, Due
    <3>2. active'[personOf[e]] = Opened(e, "AUTO")
      BY <1>0, <3>1, WrittenCase
    <3> QED
      BY <3>2, OpenedIsCase DEF HasCase, Origins
  <2>7. ~Due(c) => (\A S \in SUBSET Persons : ~Submit(c, S)) /\ ~PassRead(c)
    BY <2>1 DEF Attends, Submit, PassRead, Due
  <2> QED
    BY <2>2, <2>3, <2>4, <2>5, <2>6, <2>7, StepPass
<1>3. CASE IsAbsent(e) /\ HasCase(e)
  <2>1. ~Close(personOf[e])
    BY DEF Close, IsAbsent
  <2>2. PICK c \in Checkins : PassWrite(c) /\ FalseAlarm(c, personOf[e])
    BY <1>3, <2>1, StepLosesCase
  <2>3. e \in rosterOf[c] \ pass[c].missing /\ Busy(c)
    <3>1. PICK x \in pass[c].alarms \ pass[c].missing : personOf[x] = personOf[e]
      BY <2>2 DEF FalseAlarm
    <3>2. x = e /\ x \in rosterOf[c]
      BY <1>3, <3>1 DEF PassSeesCurrent, CurrentOn, IsAbsent
    <3> QED
      BY <2>2, <3>1, <3>2 DEF PassWrite, Busy
  <2>4. PICK d \in Checkins : e \in rosterOf[d] /\ Due(d)
    BY <1>3, <2>3 DEF OutdatedPassIsFollowed
  <2>5. d # c
    BY <2>3, <2>4 DEF Busy, Due
  <2>6. Due(d)'
    BY <2>2, <2>4, <2>5, PassAlone DEF Due
  <2> QED
    BY <2>4, <2>6 DEF Attends
<1> QED
  BY <1>1, <1>2, <1>3, StepAbsent

-----------------------------------------------------------------------------
(* The theorems. *)

(* IInv holds in every state of every behaviour. *)
THEOREM Inductive == Spec => []IInv
<1>1. Init => IInv
  BY InitIInv
<1>2. IInv /\ [Next]_vars => IInv'
  BY StepTypeOK, StepPassSees, StepOneHolder, StepSharedLock, StepOutdated, StepAttended
     DEF IInv
<1> QED
  BY <1>1, <1>2, PTL DEF Spec

(* Every variable keeps its type. *)
THEOREM OpeningTypes == Spec => []TypeOK
<1>1. IInv => TypeOK
  BY DEF IInv
<1> QED
  BY <1>1, Inductive, PTL

(* The enrollment row's lock (lockStudentAbsenceChecks, createCaseForStudent *)
(* under FOR UPDATE) prevents manual and automatic creation from racing.     *)
THEOREM LockPreventsRace == Spec => []SharedLockPreventsRace
<1>1. IInv => SharedLockPreventsRace
  BY DEF IInv
<1> QED
  BY <1>1, Inductive, PTL

(* Once all passes over a student's rosters are done, a student whom the     *)
(* monitor counts as absent for too long has a case, or had one closed since *)
(* the last check-in: no overlap of passes, corrections and openings loses   *)
(* one.                                                                      *)
THEOREM NobodyIsLost == Spec => []AbsentStudentIsCovered
<1>1. ASSUME AbsenceIsAttendedTo PROVE AbsentStudentIsCovered
  <2> SUFFICES ASSUME NEW e \in Enrollments,
                      e = current[personOf[e]], personOf[e] \in absent \ answered,
                      \A c \in Checkins : e \in rosterOf[c] => pass[c].step = "idle",
                      ~HasCase(e)
               PROVE  FALSE
    BY DEF AbsentStudentIsCovered
  <2>1. PICK c \in Checkins : Attends(c, e)
    BY <1>1 DEF AbsenceIsAttendedTo, IsAbsent
  <2> QED
    BY <2>1 DEF Attends, Due
<1>2. IInv => AbsentStudentIsCovered
  BY <1>1 DEF IInv
<1> QED
  BY <1>2, Inductive, PTL

=============================================================================
