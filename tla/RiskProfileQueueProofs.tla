----------------------- MODULE RiskProfileQueueProofs -----------------------
(***************************************************************************)
(* Theorems of RiskProfileQueue, for every set of students, requests and   *)
(* jobs.  That nothing recorded is lost needs a single worker: the keys of *)
(* a drain belong to whichever worker deletes them.                        *)
(***************************************************************************)
EXTENDS RiskProfileQueue, TLAPS

OneWorker == \A v, w \in Workers : v = w

(* A later drain will take the student. *)
Pending(s) == s \in keys.dirty \/ keys.dirtyFull

(* What was marked had happened. *)
RecordedIsPast == \A s \in Students : recorded[s] <= source[s] /\ source[s] <= commits

(* The statement that runs has read what was marked, or it is marked again. *)
SnapshotIsRecent ==
  \A w \in Workers : step[w] = "write" =>
    \A s \in work[w].batch : recorded[s] <= work[w].snapshot[s] \/ Pending(s)

(* How far a worker has come in claiming the keys. *)
ClaimInOrder ==
  \A w \in Workers :
    /\ step[w] = "renameFull" => ~keys.drainingFull
    /\ step[w] \in {"exists", "renameStudents", "members"} => (keys.drainingFull => work[w].full)
    /\ step[w] = "renameStudents" => keys.draining = {}

(* Every student of the claimed keys is still to do, done or marked again. *)
ClaimIsWorkedOff ==
  \A w \in Workers : step[w] \in {"read", "write", "ack"} =>
    \A s \in Students :
      s \in keys.draining \/ keys.drainingFull =>
        \/ step[w] # "ack" /\ s \in work[w].todo
        \/ recorded[s] <= reflected[s]
        \/ Pending(s)

Claims == SnapshotIsRecent /\ ClaimInOrder /\ ClaimIsWorkedOff /\ RecordedChangeIsKept

IInv == TypeOK /\ RecordedIsPast /\ Claims

-----------------------------------------------------------------------------

LEMMA NoWorkType == NoWork \in Work
BY RiskAssumption DEF NoWork, Work, Versions

LEMMA InitTypeOK == Init => TypeOK
BY RiskAssumption, NoWorkType DEF Init, TypeOK, Versions, Processes, RequestSteps, Keys

LEMMA ReturnType ==
  ASSUME TypeOK, NEW x \in Processes, Return(x)
  PROVE  step' \in [Processes -> RequestSteps \cup WorkerSteps] /\ work' \in [Processes -> Work]
BY NoWorkType DEF Return, Goto, TypeOK, RequestSteps

LEMMA FailureType == Failure /\ TypeOK => failures' \in 0 .. MaxFailures
BY RiskAssumption DEF Failure, TypeOK

LEMMA GotoType ==
  ASSUME TypeOK, NEW x \in Processes, NEW next \in RequestSteps \cup WorkerSteps, Goto(x, next)
  PROVE  step' \in [Processes -> RequestSteps \cup WorkerSteps]
BY DEF Goto, TypeOK

(* Every step keeps the types. *)
LEMMA StepTypeOK == TypeOK /\ [Next]_vars => TypeOK'
<1> SUFFICES ASSUME TypeOK, [Next]_vars PROVE TypeOK'
  OBVIOUS
<1> USE RiskAssumption DEF data
<1> DEFINE AllSteps == RequestSteps \cup WorkerSteps
<1>s. /\ {"idle", "mark", "schedule", "add", "read", "write"} \subseteq AllSteps
      /\ {"getFull", "renameFull", "getRenamed", "exists", "renameStudents",
          "members", "ack", "release", "followUp"} \subseteq AllSteps
  BY DEF RequestSteps, WorkerSteps
<1> HIDE DEF AllSteps
<1>p. Requests \subseteq Processes /\ Workers \subseteq Processes
  BY DEF Processes
<1>g. ASSUME NEW x \in Processes, NEW next \in AllSteps, Goto(x, next)
      PROVE  step' \in [Processes -> RequestSteps \cup WorkerSteps]
  BY <1>g, GotoType DEF AllSteps
<1>w. ASSUME NEW x \in Processes, NEW new \in Work, work' = [work EXCEPT ![x] = new]
      PROVE  work' \in [Processes -> Work]
  BY <1>w DEF TypeOK
<1>c. ASSUME NEW x \in Processes, ReadSources(x) PROVE TypeOK'
  <2>1. PICK B \in SUBSET work[x].todo : work' = [work EXCEPT ![x].batch = B,
           ![x].snapshot = [s \in Students |-> IF s \in B THEN source[s] ELSE 0]]
    BY <1>c DEF ReadSources
  <2>2. work[x] \in Work /\ source \in [Students -> Versions]
    BY DEF TypeOK
  <2>3. [work[x] EXCEPT !.batch = B,
            !.snapshot = [s \in Students |-> IF s \in B THEN source[s] ELSE 0]] \in Work
    <3>1. [s \in Students |-> IF s \in B THEN source[s] ELSE 0] \in [Students -> Versions]
      BY <2>2 DEF Versions
    <3> QED
      BY <2>2, <3>1 DEF Work
  <2>4. work' \in [Processes -> Work]
    BY <2>1, <2>3 DEF TypeOK
  <2>5. step' \in [Processes -> RequestSteps \cup WorkerSteps]
    BY <1>c, <1>s, <1>g DEF ReadSources
  <2> QED
    BY <1>c, <2>4, <2>5 DEF ReadSources, TypeOK
<1>d. ASSUME NEW x \in Processes, UpsertProfiles(x) PROVE TypeOK'
  <2>0. work[x] \in Work
    BY DEF TypeOK
  <2>1. profile' \in [Students -> Versions] /\ reflected' \in [Students -> Versions]
    BY <1>d, <2>0 DEF UpsertProfiles, Later, TypeOK, Work
  <2>2. work' \in [Processes -> Work]
    <3> DEFINE left == work[x].todo \ work[x].batch
               new == [NoWork EXCEPT !.full = work[x].full /\ left # {}, !.todo = left]
    <3>1. new \in Work
      BY <2>0, NoWorkType DEF Work
    <3>2. work' = [work EXCEPT ![x] = new]
      BY <1>d DEF UpsertProfiles
    <3> HIDE DEF new
    <3> QED
      BY <3>1, <3>2, <1>w
  <2>3. step' \in [Processes -> RequestSteps \cup WorkerSteps]
    BY <1>d, <1>s, <1>g DEF UpsertProfiles
  <2> QED
    BY <1>d, <2>1, <2>2, <2>3 DEF UpsertProfiles, TypeOK
<1>1. CASE MarkerExpires
  BY <1>1 DEF MarkerExpires, TypeOK, Keys
<1>2. ASSUME NEW r \in Requests, Change(r) PROVE TypeOK'
  <2>0. commits' \in Versions /\ commits' = commits + 1
    BY <1>2 DEF Change, Versions, TypeOK
  <2>1. source' \in [Students -> Versions]
    BY <1>2, <2>0 DEF Change, TypeOK
  <2>2. PICK changed \in SUBSET Students, everybody \in BOOLEAN :
          work' = [work EXCEPT ![r] = [NoWork EXCEPT !.full = everybody, !.todo = changed]]
    BY <1>2 DEF Change
  <2>3. [NoWork EXCEPT !.full = everybody, !.todo = changed] \in Work
    BY NoWorkType DEF Work
  <2>4. work' \in [Processes -> Work]
    BY <2>2, <2>3, <1>p DEF TypeOK
  <2>5. step' \in [Processes -> RequestSteps \cup WorkerSteps]
    BY <1>2, <1>s, <1>p, <1>g DEF Change
  <2> QED
    BY <1>2, <2>0, <2>1, <2>4, <2>5 DEF Change, TypeOK
<1>3. ASSUME NEW r \in Requests, RecalculateAllDaily(r) PROVE TypeOK'
  <2>1. [NoWork EXCEPT !.full = TRUE, !.todo = Students] \in Work
    BY NoWorkType DEF Work
  <2>2. work' \in [Processes -> Work]
    BY <1>3, <1>p, <2>1 DEF RecalculateAllDaily, TypeOK
  <2>3. step' \in [Processes -> RequestSteps \cup WorkerSteps]
    BY <1>3, <1>s, <1>p, <1>g DEF RecalculateAllDaily
  <2> QED
    BY <1>3, <2>2, <2>3 DEF RecalculateAllDaily, TypeOK
<1>4. ASSUME NEW r \in Requests, MarkDirty(r) PROVE TypeOK'
  <2>1. step' \in [Processes -> RequestSteps \cup WorkerSteps]
    BY <1>4, <1>s, <1>p, <1>g DEF MarkDirty
  <2>2. keys' \in Keys
    <3>1. work[r].todo \subseteq Students
      BY <1>p DEF TypeOK, Work
    <3> QED
      BY <1>4, <3>1 DEF MarkDirty, TypeOK, Keys
  <2>3. recorded' \in [Students -> Versions]
    BY <1>4 DEF MarkDirty, TypeOK
  <2> QED
    BY <1>4, <2>1, <2>2, <2>3 DEF MarkDirty, TypeOK
<1>5. ASSUME NEW r \in Requests, ScheduleDrain(r) PROVE TypeOK'
  <2>1. step' \in [Processes -> RequestSteps \cup WorkerSteps] /\ work' \in [Processes -> Work]
    <3>1. CASE Return(r)
      BY <3>1, <1>p, ReturnType
    <3>2. CASE Goto(r, "add") /\ UNCHANGED work
      BY <3>2, <1>s, <1>p, <1>g DEF TypeOK
    <3> QED
      BY <1>5, <3>1, <3>2 DEF ScheduleDrain
  <2>2. keys' \in Keys
    BY <1>5 DEF ScheduleDrain, TypeOK, Keys
  <2> QED
    BY <1>5, <2>1, <2>2 DEF ScheduleDrain, TypeOK
<1>6. ASSUME NEW r \in Requests, AddDrainJob(r) PROVE TypeOK'
  BY <1>6, <1>p, ReturnType DEF AddDrainJob, TypeOK
<1>7. ASSUME NEW r \in Requests, QueueFails(r) PROVE TypeOK'
  <2>1. step' \in [Processes -> RequestSteps \cup WorkerSteps] /\ work' \in [Processes -> Work]
    <3>1. CASE Return(r)
      BY <3>1, <1>p, ReturnType
    <3>2. CASE Goto(r, "read") /\ UNCHANGED work
      BY <3>2, <1>s, <1>p, <1>g DEF TypeOK
    <3> QED
      BY <1>7, <3>1, <3>2 DEF QueueFails
  <2>2. keys' \in Keys
    BY <1>7 DEF QueueFails, TypeOK, Keys
  <2> QED
    BY <1>7, <2>1, <2>2, FailureType DEF QueueFails, TypeOK
<1>8. ASSUME NEW r \in Requests, RequestStops(r) PROVE TypeOK'
  BY <1>8, <1>p, ReturnType, FailureType DEF RequestStops, TypeOK
<1>9. ASSUME NEW w \in Workers, StartJob(w) PROVE TypeOK'
  <2>1. step' \in [Processes -> RequestSteps \cup WorkerSteps]
    BY <1>9, <1>s, <1>p, <1>g DEF StartJob
  <2>2. job' \in [Workers -> Jobs \cup {NoJob}]
    BY <1>9 DEF StartJob, TypeOK
  <2> QED
    BY <1>9, <2>1, <2>2 DEF StartJob, TypeOK
<1>10. ASSUME NEW w \in Workers, GetFull(w) \/ GetRenamed(w) \/ ReadMembers(w) PROVE TypeOK'
  <2>0. work[w] \in Work /\ keys \in Keys
    BY <1>p DEF TypeOK
  <2>1. /\ [work[w] EXCEPT !.full = keys.drainingFull] \in Work
        /\ [work[w] EXCEPT !.todo = IF work[w].full THEN Students ELSE keys.draining] \in Work
    BY <2>0 DEF Work, Keys
  <2>2. work' \in [Processes -> Work]
    BY <1>10, <1>p, <2>1 DEF GetFull, GetRenamed, ReadMembers, TypeOK
  <2>3. step' \in [Processes -> RequestSteps \cup WorkerSteps]
    BY <1>10, <1>s, <1>p, <1>g DEF GetFull, GetRenamed, ReadMembers
  <2> QED
    BY <1>10, <2>2, <2>3 DEF GetFull, GetRenamed, ReadMembers, TypeOK
<1>11. ASSUME NEW w \in Workers,
              RenameFull(w) \/ DrainingExists(w) \/ RenameStudents(w) \/ Acknowledge(w)
       PROVE  TypeOK'
  <2>1. keys' \in Keys
    BY ZenonT(30), <1>11 DEF RenameFull, DrainingExists, RenameStudents, Acknowledge, TypeOK, Keys
  <2>2. step' \in [Processes -> RequestSteps \cup WorkerSteps]
    BY <1>11, <1>s, <1>p, <1>g DEF RenameFull, DrainingExists, RenameStudents, Acknowledge
  <2> QED
    BY <1>11, <2>1, <2>2 DEF RenameFull, DrainingExists, RenameStudents, Acknowledge, TypeOK
<1>12. ASSUME NEW w \in Workers, Release(w) PROVE TypeOK'
  <2>1. keys' \in Keys
    BY <1>12 DEF Release, TypeOK, Keys
  <2>2. step' \in [Processes -> RequestSteps \cup WorkerSteps]
    BY <1>12, <1>s, <1>p, <1>g DEF Release
  <2>3. attempt' \in [Jobs -> 0 .. Attempts] /\ job' \in [Workers -> Jobs \cup {NoJob}]
    BY <1>12 DEF Release, TypeOK
  <2> QED
    BY <1>12, <2>1, <2>2, <2>3 DEF Release, TypeOK
<1>13. ASSUME NEW w \in Workers, FollowUp(w) PROVE TypeOK'
  <2>1. attempt' \in [Jobs -> 0 .. Attempts]
    <3>1. 1 \in 0 .. Attempts
      OBVIOUS
    <3> QED
      BY <1>13, <3>1 DEF FollowUp, TypeOK
  <2>2. job' \in [Workers -> Jobs \cup {NoJob}]
    BY <1>13 DEF FollowUp, TypeOK
  <2> QED
    BY <1>13, <2>1, <2>2, <1>p, ReturnType DEF FollowUp, TypeOK
<1>14. ASSUME NEW w \in Workers, JobFails(w) PROVE TypeOK'
  <2>1. \A n \in 0 .. Attempts : NextAttempt(n) \in 0 .. Attempts
    BY DEF NextAttempt
  <2> DEFINE retry == [attempt EXCEPT ![job[w]] = NextAttempt(@)]
  <2>2. retry \in [Jobs -> 0 .. Attempts]
    BY <2>1 DEF TypeOK
  <2>3. attempt' \in [Jobs -> 0 .. Attempts]
    <3>1. attempt' = retry \/ \E j \in Jobs : attempt' = [retry EXCEPT ![j] = 1]
      BY <1>14 DEF JobFails
    <3> HIDE DEF retry
    <3> QED
      BY <2>2, <3>1
  <2>4. job' \in [Workers -> Jobs \cup {NoJob}]
    BY <1>14 DEF JobFails, TypeOK
  <2> QED
    BY <1>14, <2>3, <2>4, <1>p, ReturnType, FailureType DEF JobFails, TypeOK
<1>15. CASE UNCHANGED vars
  BY <1>15 DEF vars, TypeOK
<1> QED
  BY <1>p, <1>c, <1>d, <1>1, <1>2, <1>3, <1>4, <1>5, <1>6, <1>7, <1>8, <1>9, <1>10, <1>11, <1>12,
     <1>13, <1>14, <1>15 DEF Next, RequestStep, DrainStep

-----------------------------------------------------------------------------
(* What was marked is in the past: only a change and a mark matter. *)

LEMMA StepOrder ==
  TypeOK /\ RecordedIsPast /\ [Next]_vars => RecordedIsPast'
<1> SUFFICES ASSUME TypeOK, RecordedIsPast, [Next]_vars PROVE RecordedIsPast'
  OBVIOUS
<1> USE DEF RecordedIsPast
<1>1. CASE UNCHANGED <<commits, source, recorded>>
  BY <1>1
<1>2. ASSUME NEW r \in Requests, Change(r) PROVE RecordedIsPast'
  BY <1>2 DEF Change, TypeOK, Versions
<1>3. ASSUME NEW r \in Requests, MarkDirty(r) PROVE RecordedIsPast'
  BY <1>3 DEF MarkDirty, TypeOK, Versions
<1> QED
  BY <1>1, <1>2, <1>3
  DEF Next, RequestStep, DrainStep, MarkerExpires, RecalculateAllDaily, ScheduleDrain, AddDrainJob,
      ReadSources, UpsertProfiles, QueueFails, RequestStops, StartJob, GetFull, RenameFull,
      GetRenamed, DrainingExists, RenameStudents, ReadMembers, Acknowledge, Release, FollowUp,
      JobFails, vars, data

(* A step that leaves the keys and the profiles alone keeps the claims.      *)
LEMMA QuietStep ==
  ASSUME TypeOK, Claims, UNCHANGED <<recorded, reflected>>,
         keys'.dirty = keys.dirty, keys'.dirtyFull = keys.dirtyFull,
         keys'.draining = keys.draining, keys'.drainingFull = keys.drainingFull,
         \A w \in Workers : \/ step'[w] = step[w] /\ work'[w] = work[w]
                            \/ step'[w] \in {"idle", "getFull", "followUp"}
  PROVE  Claims'
<1> USE DEF Pending
<1>1. SnapshotIsRecent'
  BY DEF Claims, SnapshotIsRecent
<1>2. ClaimInOrder'
  BY DEF Claims, ClaimInOrder
<1>3. ClaimIsWorkedOff'
  BY DEF Claims, ClaimIsWorkedOff
<1>4. RecordedChangeIsKept'
  BY DEF Claims, RecordedChangeIsKept, InKeys
<1> QED
  BY <1>1, <1>2, <1>3, <1>4 DEF Claims

(* A mark makes pending what it records. *)
LEMMA MarkStep ==
  ASSUME TypeOK, Claims, NEW r \in Requests, MarkDirty(r)
  PROVE  Claims'
<1> USE RiskAssumption DEF TypeOK
<1>1. /\ UNCHANGED <<reflected, work>>
      /\ keys'.draining = keys.draining /\ keys'.drainingFull = keys.drainingFull
      /\ \A w \in Workers : step'[w] = step[w]
  BY DEF MarkDirty, Keys, Goto, Processes
<1>2. \A s \in Students : Pending(s) => Pending(s)'
  BY DEF MarkDirty, Keys, Pending
<1>3. \A s \in Students : recorded'[s] = recorded[s] \/ Pending(s)'
  BY DEF MarkDirty, Keys, Pending
<1>4. \A w \in Workers : work[w].batch \subseteq Students
  BY DEF Processes, Work
<1>5. SnapshotIsRecent'
  BY <1>1, <1>2, <1>3, <1>4 DEF Claims, SnapshotIsRecent
<1>6. ClaimInOrder'
  BY <1>1 DEF Claims, ClaimInOrder
<1>7. ClaimIsWorkedOff'
  BY <1>1, <1>2, <1>3 DEF Claims, ClaimIsWorkedOff
<1>8. RecordedChangeIsKept'
  <2>1. \A s \in Students : InKeys(s) => InKeys(s)'
    BY <1>1 DEF InKeys, MarkDirty, Keys
  <2>2. \A s \in Students : Pending(s)' => InKeys(s)'
    BY DEF Pending, InKeys
  <2> QED
    BY <1>1, <1>3, <2>1, <2>2 DEF Claims, RecordedChangeIsKept
<1> QED
  BY <1>5, <1>6, <1>7, <1>8 DEF Claims

(* Profiles written inline only reflect more. *)
LEMMA InlineStep ==
  ASSUME TypeOK, Claims, NEW r \in Requests, UpsertProfiles(r)
  PROVE  Claims'
<1> USE RiskAssumption DEF TypeOK
<1>1. UNCHANGED <<recorded, keys>> /\ \A w \in Workers : step'[w] = step[w] /\ work'[w] = work[w]
  BY DEF UpsertProfiles, Goto, Processes
<1>2. \A s \in Students : reflected[s] <= reflected'[s] /\ reflected'[s] \in Nat
  BY DEF UpsertProfiles, Later, Processes, Work, Versions
<1>3. \A s \in Students : recorded[s] \in Nat /\ reflected[s] \in Nat
  BY DEF Versions
<1>4. SnapshotIsRecent' /\ ClaimInOrder'
  BY <1>1 DEF Claims, SnapshotIsRecent, ClaimInOrder, Pending
<1>5. ClaimIsWorkedOff'
  BY <1>1, <1>2, <1>3 DEF Claims, ClaimIsWorkedOff, Pending
<1>6. RecordedChangeIsKept'
  BY <1>1, <1>2, <1>3 DEF Claims, RecordedChangeIsKept, InKeys
<1> QED
  BY <1>4, <1>5, <1>6 DEF Claims

(* Profiles written by the drain reflect what the statement has read. *)
LEMMA DrainWriteStep ==
  ASSUME OneWorker, TypeOK, Claims, NEW w \in Workers, UpsertProfiles(w)
  PROVE  Claims'
<1> USE RiskAssumption DEF TypeOK
<1> DEFINE left == work[w].todo \ work[w].batch
<1>0. work[w] \in Work /\ w \in Processes
  BY DEF Processes
<1>1. /\ UNCHANGED <<recorded, keys>> /\ step[w] = "write"
      /\ step'[w] = IF left # {} THEN "read" ELSE "ack"
      /\ work'[w].todo = left
  BY <1>0 DEF UpsertProfiles, Goto, NoWork
<1>2. \A s \in Students : reflected[s] <= reflected'[s] /\ reflected'[s] \in Nat
  BY <1>0 DEF UpsertProfiles, Later, Work, Versions
<1>3. \A s \in Students : s \in work[w].batch => work[w].snapshot[s] <= reflected'[s]
  BY <1>0 DEF UpsertProfiles, Later, Work, Versions
<1>4. \A s \in Students : /\ recorded[s] \in Nat /\ reflected[s] \in Nat
                          /\ work[w].snapshot[s] \in Nat
  BY <1>0 DEF Versions, Work
<1>5. SnapshotIsRecent' /\ ClaimInOrder'
  BY <1>1 DEF OneWorker, SnapshotIsRecent, ClaimInOrder
<1>6. \A s \in Students : Pending(s)' <=> Pending(s)
  BY <1>1 DEF Pending
<1>7. \A s \in Students : s \in work[w].batch => recorded[s] <= reflected'[s] \/ Pending(s)
  BY <1>1, <1>2, <1>3, <1>4 DEF Claims, SnapshotIsRecent
<1>8. ClaimIsWorkedOff'
  <2> SUFFICES ASSUME NEW s \in Students, s \in keys.draining \/ keys.drainingFull
               PROVE  \/ step'[w] # "ack" /\ s \in work'[w].todo
                      \/ recorded[s] <= reflected'[s]
                      \/ Pending(s)
    BY <1>1, <1>6 DEF OneWorker, ClaimIsWorkedOff
  <2>1. \/ s \in work[w].todo \/ recorded[s] <= reflected[s] \/ Pending(s)
    BY <1>1 DEF Claims, ClaimIsWorkedOff
  <2>2. CASE s \in left
    BY <1>1, <2>2
  <2>3. CASE s \notin left
    BY <2>1, <2>3, <1>2, <1>4, <1>7
  <2> QED
    BY <2>2, <2>3
<1>9. RecordedChangeIsKept'
  BY <1>1, <1>2, <1>4 DEF Claims, RecordedChangeIsKept, InKeys
<1> QED
  BY <1>5, <1>8, <1>9 DEF Claims

(* A statement reads everything that was marked until then. *)
LEMMA DrainReadStep ==
  ASSUME OneWorker, TypeOK, RecordedIsPast, Claims, NEW w \in Workers, ReadSources(w)
  PROVE  Claims'
<1> USE RiskAssumption DEF TypeOK
<1>0. work[w] \in Work /\ w \in Processes
  BY DEF Processes
<1>1. /\ UNCHANGED <<recorded, reflected, keys>>
      /\ step[w] = "read" /\ step'[w] = "write" /\ work'[w].todo = work[w].todo
      /\ work'[w].batch \subseteq Students
      /\ \A s \in work'[w].batch : work'[w].snapshot[s] = source[s]
  <2>1. PICK B \in SUBSET work[w].todo : work' = [work EXCEPT ![w].batch = B,
           ![w].snapshot = [s \in Students |-> IF s \in B THEN source[s] ELSE 0]]
    BY DEF ReadSources
  <2>2. /\ work'[w].todo = work[w].todo /\ work'[w].batch = B
        /\ work'[w].snapshot = [s \in Students |-> IF s \in B THEN source[s] ELSE 0]
    BY <2>1, <1>0 DEF Work
  <2>3. B \subseteq Students
    BY <1>0 DEF Work
  <2> QED
    BY <1>0, <2>2, <2>3 DEF ReadSources, Goto, data
<1>2. SnapshotIsRecent' /\ ClaimInOrder'
  BY <1>1 DEF OneWorker, SnapshotIsRecent, ClaimInOrder, RecordedIsPast
<1>3. ClaimIsWorkedOff' /\ RecordedChangeIsKept'
  BY <1>1 DEF OneWorker, Claims, ClaimIsWorkedOff, RecordedChangeIsKept, InKeys, Pending
<1> QED
  BY <1>2, <1>3 DEF Claims

(* The worker claims the dirty keys only where nothing is claimed, and       *)
(* deletes them when everything is done or marked again.                     *)
LEMMA ClaimStep ==
  ASSUME OneWorker, TypeOK, Claims, NEW w \in Workers,
         \/ GetFull(w) \/ RenameFull(w) \/ GetRenamed(w) \/ DrainingExists(w)
         \/ RenameStudents(w) \/ ReadMembers(w) \/ Acknowledge(w)
  PROVE  Claims'
<1> USE RiskAssumption DEF TypeOK
<1>0. work[w] \in Work /\ w \in Processes
  BY DEF Processes
<1>1. UNCHANGED <<recorded, reflected>>
  BY DEF GetFull, RenameFull, GetRenamed, DrainingExists, RenameStudents, ReadMembers, Acknowledge,
         data
<1>2. SnapshotIsRecent'
  <2>1. step'[w] # "write"
    BY <1>0 DEF GetFull, RenameFull, GetRenamed, DrainingExists, RenameStudents, ReadMembers,
                Acknowledge, Goto
  <2> QED
    BY <2>1 DEF OneWorker, SnapshotIsRecent
<1>3. ClaimInOrder'
  <2> SUFFICES
        /\ step'[w] = "renameFull" => ~keys'.drainingFull
        /\ step'[w] \in {"exists", "renameStudents", "members"} => (keys'.drainingFull => work'[w].full)
        /\ step'[w] = "renameStudents" => keys'.draining = {}
    BY DEF OneWorker, ClaimInOrder
  <2>a. ClaimInOrder
    BY DEF Claims
  <2>1. CASE GetFull(w) \/ GetRenamed(w)
    BY <1>0, <2>1 DEF GetFull, GetRenamed, Goto, Work
  <2>2. CASE RenameFull(w)
    BY <1>0, <2>a, <2>2 DEF RenameFull, Goto, Keys, ClaimInOrder
  <2>3. CASE DrainingExists(w) \/ RenameStudents(w)
    BY <1>0, <2>a, <2>3 DEF DrainingExists, RenameStudents, Goto, Keys, ClaimInOrder
  <2>4. CASE ReadMembers(w) \/ Acknowledge(w)
    BY <1>0, <2>4 DEF ReadMembers, Acknowledge, Goto
  <2> QED
    BY <2>1, <2>2, <2>3, <2>4
<1>4. ClaimIsWorkedOff'
  <2>1. CASE ReadMembers(w)
    <3>1. /\ UNCHANGED keys /\ step[w] = "members"
          /\ work'[w].todo = IF work[w].full THEN Students ELSE keys.draining
      BY <1>0, <2>1 DEF ReadMembers, Work
    <3>2. keys.drainingFull => work[w].full
      BY <3>1 DEF Claims, ClaimInOrder
    <3>3. step'[w] # "ack"
      BY <1>0, <2>1 DEF ReadMembers, Goto
    <3> QED
      BY <3>1, <3>2, <3>3 DEF OneWorker, ClaimIsWorkedOff
  <2>2. CASE ~ReadMembers(w)
    <3>1. step'[w] \notin {"read", "write", "ack"}
      BY <1>0, <2>2 DEF GetFull, RenameFull, GetRenamed, DrainingExists, RenameStudents,
                        Acknowledge, Goto
    <3> QED
      BY <3>1 DEF OneWorker, ClaimIsWorkedOff
  <2> QED
    BY <2>1, <2>2
<1>5. RecordedChangeIsKept'
  <2> SUFFICES ASSUME NEW s \in Students, reflected[s] < recorded[s]
               PROVE  InKeys(s)'
    BY <1>1 DEF RecordedChangeIsKept
  <2>a. InKeys(s)
    BY DEF Claims, RecordedChangeIsKept
  <2>1. CASE GetFull(w) \/ GetRenamed(w) \/ DrainingExists(w) \/ ReadMembers(w)
    BY <2>a, <2>1 DEF GetFull, GetRenamed, DrainingExists, ReadMembers, InKeys
  <2>2. CASE RenameFull(w)
    BY <2>a, <2>2 DEF RenameFull, InKeys, Keys
  <2>3. CASE RenameStudents(w)
    <3>1. keys.draining = {}
      BY <2>3 DEF RenameStudents, Claims, ClaimInOrder
    <3> QED
      BY <2>a, <2>3, <3>1 DEF RenameStudents, InKeys, Keys
  <2>4. CASE Acknowledge(w)
    <3>1. ~(recorded[s] <= reflected[s])
      BY DEF Versions
    <3>2. s \in keys.draining \/ keys.drainingFull => Pending(s)
      BY <2>4, <3>1 DEF Acknowledge, Claims, ClaimIsWorkedOff
    <3>3. Pending(s)
      BY <2>a, <3>2 DEF InKeys, Pending
    <3> QED
      BY <2>4, <3>3 DEF Acknowledge, InKeys, Keys, Pending
  <2> QED
    BY <2>1, <2>2, <2>3, <2>4
<1> QED
  BY <1>2, <1>3, <1>4, <1>5 DEF Claims

LEMMA StepClaims ==
  ASSUME OneWorker, TypeOK, RecordedIsPast, Claims, [Next]_vars
  PROVE  Claims'
<1> USE RiskAssumption
<1>p. Requests \subseteq Processes /\ Workers \subseteq Processes /\ Requests \cap Workers = {}
  BY DEF Processes
<1>1. CASE MarkerExpires
  BY <1>1, QuietStep DEF MarkerExpires, TypeOK, Keys, data
<1>2. ASSUME NEW r \in Requests,
             \/ Change(r) \/ RecalculateAllDaily(r) \/ ScheduleDrain(r) \/ AddDrainJob(r)
             \/ ReadSources(r) \/ QueueFails(r) \/ RequestStops(r)
      PROVE  Claims'
  <2>1. \A w \in Workers : step'[w] = step[w] /\ work'[w] = work[w]
    BY <1>2, <1>p DEF Change, RecalculateAllDaily, ScheduleDrain, AddDrainJob, ReadSources,
                      QueueFails, RequestStops, Return, Goto, TypeOK
  <2>2. UNCHANGED <<recorded, reflected>>
    BY <1>2 DEF Change, RecalculateAllDaily, ScheduleDrain, AddDrainJob, ReadSources,
                QueueFails, RequestStops, data
  <2>3. /\ keys'.dirty = keys.dirty /\ keys'.dirtyFull = keys.dirtyFull
        /\ keys'.draining = keys.draining /\ keys'.drainingFull = keys.drainingFull
    BY <1>2 DEF Change, RecalculateAllDaily, ScheduleDrain, AddDrainJob, ReadSources,
                QueueFails, RequestStops, TypeOK, Keys
  <2> QED
    BY <2>1, <2>2, <2>3, QuietStep
<1>3. ASSUME NEW v \in Workers, StartJob(v) \/ Release(v) \/ FollowUp(v) \/ JobFails(v)
      PROVE  Claims'
  <2>1. \A w \in Workers : step'[w] \in {"idle", "getFull", "followUp"}
    BY <1>3, <1>p DEF StartJob, Release, FollowUp, JobFails, Return, Goto, TypeOK, OneWorker
  <2>2. UNCHANGED <<recorded, reflected>>
    BY <1>3 DEF StartJob, Release, FollowUp, JobFails, data
  <2>3. /\ keys'.dirty = keys.dirty /\ keys'.dirtyFull = keys.dirtyFull
        /\ keys'.draining = keys.draining /\ keys'.drainingFull = keys.drainingFull
    BY <1>3 DEF StartJob, Release, FollowUp, JobFails, TypeOK, Keys
  <2> QED
    BY <2>1, <2>2, <2>3, QuietStep
<1>4. CASE UNCHANGED vars
  BY <1>4, QuietStep DEF vars, data
<1> QED
  BY <1>1, <1>2, <1>3, <1>4, MarkStep, InlineStep, DrainWriteStep, DrainReadStep, ClaimStep
  DEF Next, RequestStep, DrainStep

LEMMA InitClaims == Init => RecordedIsPast /\ Claims
<1> SUFFICES ASSUME Init PROVE RecordedIsPast /\ Claims
  OBVIOUS
<1>1. \A w \in Workers : step[w] = "idle"
  BY DEF Init, Processes
<1>2. \A s \in Students : recorded[s] = 0 /\ source[s] = 0 /\ commits = 0 /\ reflected[s] = 0
  BY DEF Init
<1>3. SnapshotIsRecent /\ ClaimInOrder /\ ClaimIsWorkedOff
  BY <1>1 DEF SnapshotIsRecent, ClaimInOrder, ClaimIsWorkedOff
<1>4. RecordedChangeIsKept /\ RecordedIsPast
  BY <1>2 DEF RecordedChangeIsKept, RecordedIsPast
<1> QED
  BY <1>3, <1>4 DEF Claims

-----------------------------------------------------------------------------
(* A drain to come, with any number of workers. *)

ActiveJob == \E j \in Jobs : attempt[j] > 0
Adding == \E r \in Requests : step[r] = "add"

(* Only a process that runs a job is beyond "idle", and as long as nothing   *)
(* fails, whoever set the marker still adds its job, or it is there.         *)
BusyWorkerHasJob == \A w \in Workers : step[w] # "idle" => job[w] \in Jobs
MarkerHasDrain == failures = 0 /\ keys.marker => ActiveJob \/ Adding

Drains == BusyWorkerHasJob /\ MarkerHasDrain /\ WorkHasDrain

LEMMA InitDrains == Init => Drains
BY DEF Init, Drains, BusyWorkerHasJob, MarkerHasDrain, WorkHasDrain, HasWork, Processes

LEMMA FailureCounts == Failure /\ TypeOK => failures' # 0
BY RiskAssumption DEF Failure, TypeOK

(* Where the keys, the jobs and the requests' places stay, drains do.        *)
LEMMA NoDrainChange ==
  ASSUME TypeOK, Drains, failures' = failures,
         \A j \in Jobs : attempt'[j] > 0 <=> attempt[j] > 0,
         keys'.marker => keys.marker,
         HasWork' => HasWork,
         \A r \in Requests : /\ step[r] = "add" => step'[r] = "add"
                             /\ step[r] = "schedule" => step'[r] = "schedule"
  PROVE  MarkerHasDrain' /\ WorkHasDrain'
BY DEF Drains, MarkerHasDrain, WorkHasDrain, ActiveJob, Adding, Scheduling

(* A worker that is busy afterwards was busy before with the same job, or    *)
(* has just taken one.                                                       *)
LEMMA BusyStep == TypeOK /\ BusyWorkerHasJob /\ [Next]_vars => BusyWorkerHasJob'
<1> SUFFICES ASSUME TypeOK, BusyWorkerHasJob, [Next]_vars, NEW w \in Workers, step'[w] # "idle"
             PROVE  job'[w] \in Jobs
  BY DEF BusyWorkerHasJob
<1> USE DEF BusyWorkerHasJob
<1>p. /\ Requests \subseteq Processes /\ Workers \subseteq Processes /\ Requests \cap Workers = {}
      /\ step \in [Processes -> RequestSteps \cup WorkerSteps] /\ job \in [Workers -> Jobs \cup {NoJob}]
  BY RiskAssumption DEF Processes, TypeOK
<1>1. ASSUME NEW r \in Requests,
             \/ Change(r) \/ RecalculateAllDaily(r) \/ RequestStep(r)
             \/ QueueFails(r) \/ RequestStops(r)
      PROVE  step'[w] = step[w] /\ job' = job
  BY <1>1, <1>p DEF Change, RecalculateAllDaily, RequestStep, MarkDirty, ScheduleDrain, AddDrainJob,
     ReadSources, UpsertProfiles, QueueFails, RequestStops, Return, Goto
<1>2. ASSUME NEW v \in Workers, StartJob(v) PROVE job'[w] \in Jobs
  BY <1>2, <1>p DEF StartJob, Goto
<1>3. ASSUME NEW v \in Workers, DrainStep(v) PROVE job'[w] \in Jobs
  <2>1. CASE v = w
    BY <1>3, <1>p, <2>1 DEF DrainStep, GetFull, RenameFull, GetRenamed, DrainingExists, RenameStudents,
       ReadMembers, ReadSources, UpsertProfiles, Acknowledge, Release, FollowUp, Return, Goto
  <2>2. CASE v # w
    <3>1. step'[w] = step[w] /\ job'[w] = job[w]
      BY <1>3, <1>p, <2>2 DEF DrainStep, GetFull, RenameFull, GetRenamed, DrainingExists, RenameStudents,
         ReadMembers, ReadSources, UpsertProfiles, Acknowledge, Release, FollowUp, Return, Goto
    <3> QED
      BY <3>1
  <2> QED
    BY <2>1, <2>2
<1>4. ASSUME NEW v \in Workers, JobFails(v) PROVE job'[w] \in Jobs
  BY <1>4, <1>p DEF JobFails, Return, Goto
<1>5. CASE MarkerExpires \/ UNCHANGED vars
  BY <1>5 DEF MarkerExpires, vars
<1> QED
  BY <1>1, <1>2, <1>3, <1>4, <1>5 DEF Next

(* The requests' steps. *)
LEMMA RequestDrains ==
  ASSUME TypeOK, Drains, NEW r \in Requests,
         \/ Change(r) \/ RecalculateAllDaily(r) \/ RequestStep(r)
         \/ QueueFails(r) \/ RequestStops(r)
  PROVE  MarkerHasDrain' /\ WorkHasDrain'
<1>p. /\ r \in Processes /\ Requests \subseteq Processes
      /\ step \in [Processes -> RequestSteps \cup WorkerSteps]
      /\ attempt \in [Jobs -> 0 .. Attempts] /\ keys \in Keys
  BY DEF Processes, TypeOK
<1>1. CASE Change(r) \/ RecalculateAllDaily(r) \/ ReadSources(r) \/ UpsertProfiles(r)
  <2>1. UNCHANGED <<keys, attempt, failures>>
    BY <1>1 DEF Change, RecalculateAllDaily, ReadSources, UpsertProfiles
  <2>2. \A q \in Requests : step[q] \in {"add", "schedule"} => step'[q] = step[q]
    BY <1>1, <1>p DEF Change, RecalculateAllDaily, ReadSources, UpsertProfiles, Goto
  <2> QED
    BY <2>1, <2>2, NoDrainChange DEF HasWork
<1>2. CASE MarkDirty(r)
  <2>1. /\ UNCHANGED <<attempt, failures>> /\ keys'.marker = keys.marker
        /\ step[r] = "mark" /\ step' = [step EXCEPT ![r] = "schedule"]
    BY <1>2, <1>p DEF MarkDirty, Goto, Keys
  <2>2. MarkerHasDrain'
    BY <1>p, <2>1 DEF Drains, MarkerHasDrain, ActiveJob, Adding
  <2>3. WorkHasDrain'
    BY <1>p, <2>1 DEF WorkHasDrain, Scheduling
  <2> QED
    BY <2>2, <2>3
<1>3. CASE ScheduleDrain(r)
  <2>1. /\ UNCHANGED <<attempt, failures>> /\ HasWork' = HasWork
        /\ step[r] = "schedule"
        /\ step' = [step EXCEPT ![r] = IF keys.marker THEN "idle" ELSE "add"]
    BY <1>3, <1>p DEF ScheduleDrain, Goto, Return, Keys, HasWork, data
  <2>2. failures = 0 => ActiveJob' \/ Adding'
    <3>1. CASE keys.marker
      BY <1>p, <2>1, <3>1 DEF Drains, MarkerHasDrain, ActiveJob, Adding
    <3>2. CASE ~keys.marker
      BY <1>p, <2>1, <3>2 DEF Adding
    <3> QED
      BY <3>1, <3>2
  <2> QED
    BY <2>1, <2>2 DEF MarkerHasDrain, WorkHasDrain, ActiveJob, Adding, Scheduling
<1>4. CASE AddDrainJob(r)
  <2>1. ActiveJob'
    BY <1>4, <1>p DEF AddDrainJob, ActiveJob
  <2> QED
    BY <2>1 DEF MarkerHasDrain, WorkHasDrain, ActiveJob
<1>5. CASE QueueFails(r) \/ RequestStops(r)
  <2>1. failures' # 0
    BY <1>5, FailureCounts DEF QueueFails, RequestStops
  <2> QED
    BY <2>1 DEF MarkerHasDrain, WorkHasDrain
<1> QED
  BY <1>1, <1>2, <1>3, <1>4, <1>5 DEF RequestStep

(* The workers' steps: a job ends only where no work is left and gives the   *)
(* marker back, or puts another in its place.                                *)
LEMMA WorkerDrains ==
  ASSUME TypeOK, Drains, NEW w \in Workers, StartJob(w) \/ DrainStep(w) \/ JobFails(w)
  PROVE  MarkerHasDrain' /\ WorkHasDrain'
<1>p. /\ Requests \subseteq Processes /\ w \in Processes /\ w \notin Requests
      /\ step \in [Processes -> RequestSteps \cup WorkerSteps] /\ keys \in Keys
      /\ attempt \in [Jobs -> 0 .. Attempts] /\ job \in [Workers -> Jobs \cup {NoJob}]
  BY RiskAssumption DEF Processes, TypeOK
<1>1. CASE \/ StartJob(w) \/ GetFull(w) \/ RenameFull(w) \/ GetRenamed(w) \/ DrainingExists(w)
           \/ RenameStudents(w) \/ ReadMembers(w) \/ ReadSources(w) \/ UpsertProfiles(w)
           \/ Acknowledge(w)
  <2>1. \A r \in Requests : step'[r] = step[r]
    BY <1>1, <1>p DEF StartJob, GetFull, RenameFull, GetRenamed, DrainingExists, RenameStudents,
       ReadMembers, ReadSources, UpsertProfiles, Acknowledge, Goto
  <2>2. UNCHANGED <<attempt, failures>>
    BY <1>1 DEF StartJob, GetFull, RenameFull, GetRenamed, DrainingExists, RenameStudents,
       ReadMembers, ReadSources, UpsertProfiles, Acknowledge
  <2>3. keys'.marker = keys.marker /\ (HasWork' => HasWork)
    <3>1. CASE RenameFull(w) \/ RenameStudents(w) \/ Acknowledge(w)
      BY <1>p, <3>1 DEF RenameFull, RenameStudents, Acknowledge, Keys, HasWork
    <3>2. CASE keys' = keys
      BY <3>2 DEF HasWork
    <3> QED
      BY <1>1, <3>1, <3>2 DEF StartJob, GetFull, GetRenamed, DrainingExists, ReadMembers,
         ReadSources, UpsertProfiles
  <2> QED
    BY <2>1, <2>2, <2>3, NoDrainChange
<1>2. CASE Release(w)
  <2>1. CASE HasWork
    <3>1. UNCHANGED <<keys, attempt, failures>> /\ \A r \in Requests : step'[r] = step[r]
      BY <1>2, <1>p, <2>1 DEF Release, Goto
    <3> QED
      BY <3>1, NoDrainChange DEF HasWork
  <2>2. CASE ~HasWork
    <3>1. ~keys'.marker /\ ~HasWork'
      BY <1>2, <1>p, <2>2 DEF Release, Keys, HasWork
    <3> QED
      BY <3>1 DEF MarkerHasDrain, WorkHasDrain, HasWork
  <2> QED
    BY <2>1, <2>2
<1>3. CASE FollowUp(w)
  <2>1. job[w] \in Jobs
    BY <1>3 DEF FollowUp, Drains, BusyWorkerHasJob
  <2>2. ActiveJob'
    BY <1>3, <1>p, <2>1 DEF FollowUp, ActiveJob
  <2> QED
    BY <2>2 DEF MarkerHasDrain, WorkHasDrain, ActiveJob
<1>4. CASE JobFails(w)
  BY <1>4, FailureCounts DEF JobFails, MarkerHasDrain, WorkHasDrain
<1> QED
  BY <1>1, <1>2, <1>3, <1>4 DEF DrainStep

LEMMA StepDrains == TypeOK /\ Drains /\ [Next]_vars => Drains'
<1> SUFFICES ASSUME TypeOK, Drains, [Next]_vars PROVE Drains'
  OBVIOUS
<1>1. BusyWorkerHasJob'
  BY BusyStep DEF Drains
<1>2. CASE MarkerExpires
  <2>1. UNCHANGED <<attempt, step, failures>> /\ ~keys'.marker /\ HasWork' = HasWork
    BY <1>2 DEF MarkerExpires, TypeOK, Keys, HasWork
  <2> QED
    BY <1>1, <2>1, NoDrainChange DEF Drains
<1>3. CASE UNCHANGED vars
  BY <1>1, <1>3, NoDrainChange DEF vars, Drains, HasWork
<1> QED
  BY <1>1, <1>2, <1>3, RequestDrains, WorkerDrains DEF Next, Drains

-----------------------------------------------------------------------------

(* Every variable keeps its type, with any number of workers. *)
THEOREM RiskQueueTypes == Spec => []TypeOK
BY InitTypeOK, StepTypeOK, PTL DEF Spec

(* A change that was marked is computed from or still named by the keys,     *)
(* whatever fails and however often a drain is repeated, as long as one      *)
(* worker drains.                                                            *)
THEOREM NothingRecordedIsLost == OneWorker => (Spec => []RecordedChangeIsKept)
<1> SUFFICES ASSUME OneWorker PROVE Spec => []RecordedChangeIsKept
  OBVIOUS
<1>1. Init => IInv
  BY InitTypeOK, InitClaims DEF IInv
<1>2. IInv /\ [Next]_vars => IInv'
  BY StepTypeOK, StepOrder, StepClaims DEF IInv
<1>3. IInv => RecordedChangeIsKept
  BY DEF IInv, Claims
<1> QED
  BY <1>1, <1>2, <1>3, PTL DEF Spec

(* Dirty keys always have a drain to come while nothing fails, with any      *)
(* number of workers and whenever the marker's lease runs out.               *)
THEOREM DirtyKeysHaveDrain == Spec => []WorkHasDrain
<1>1. Init => TypeOK /\ Drains
  BY InitTypeOK, InitDrains
<1>2. (TypeOK /\ Drains) /\ [Next]_vars => (TypeOK /\ Drains)'
  BY StepTypeOK, StepDrains
<1>3. TypeOK /\ Drains => WorkHasDrain
  BY DEF Drains
<1> QED
  BY <1>1, <1>2, <1>3, PTL DEF Spec

=============================================================================
