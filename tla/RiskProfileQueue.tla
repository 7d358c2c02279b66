-------------------------- MODULE RiskProfileQueue --------------------------
(***************************************************************************)
(* The recalculation of student risk profiles (RiskProfileService).  A     *)
(* profile is derived from a student's attendance and cases: here the      *)
(* source of a student is a version, a profile the version it was computed *)
(* from.  A change of the source is recalculated by its own request        *)
(* (inline), or marked in Redis and left to a drain: a BullMQ job, added   *)
(* under a leased marker, whose worker renames the dirty keys to draining  *)
(* keys, recalculates what they name and then deletes them.                *)
(*                                                                         *)
(* One action is one Redis command or one SQL statement; commands of       *)
(* requests and workers interleave, each may fail, and a process may stop  *)
(* between any two.  Redis and BullMQ are external: a job is handed to one *)
(* worker at a time and attempted again, Attempts times in all.            *)
(***************************************************************************)
EXTENDS Naturals

CONSTANTS Students,
          Requests,    \* the API's processes, one request at a time each
          Workers,     \* worker processes; each runs one job at a time
          Jobs,        \* bound: identities of jobs that exist at a time
          NoJob,
          Attempts,    \* attempts of a job before BullMQ gives it up
          MaxVersion,  \* bound: changes, each of one student or several
          MaxFailures  \* bound: calls that fail and processes that stop

ASSUME RiskAssumption ==
  /\ Requests \cap Workers = {}
  /\ NoJob \notin Jobs
  /\ Attempts \in Nat \ {0}
  /\ MaxVersion \in Nat /\ MaxFailures \in Nat

VARIABLES
  commits,   \* changes committed so far; each makes a version of its students
  source,    \* per student, the version of what a profile is computed from
  profile,   \* per student, the version its profile row was computed from
  recorded,  \* history: the newest version that was marked in Redis
  reflected, \* history: the newest version ever written to the profile
  keys,      \* the Redis keys
  attempt,   \* per job, the attempt that waits or runs; 0 without the job
  step,      \* per process, the statement it runs next
  work,      \* per process, its local variables: whether it makes a full pass,
             \* the students still to recalculate, those of the running statement
             \* and the versions that statement has read
  job,       \* per worker, its job
  failures   \* how many calls failed and processes stopped

Processes == Requests \cup Workers
Versions == 0 .. MaxVersion

data == <<commits, source, profile, recorded, reflected>>
vars == <<data, keys, attempt, step, work, job, failures>>

RequestSteps == {"idle", "mark", "schedule", "add", "read", "write"}
WorkerSteps == {"idle", "getFull", "renameFull", "getRenamed", "exists", "renameStudents",
                "members", "read", "write", "ack", "release", "followUp"}

Keys == [dirty : SUBSET Students, draining : SUBSET Students,
         dirtyFull : BOOLEAN, drainingFull : BOOLEAN, marker : BOOLEAN]

Work == [full : BOOLEAN, todo : SUBSET Students, batch : SUBSET Students,
         snapshot : [Students -> Versions]]

NoWork == [full |-> FALSE, todo |-> {}, batch |-> {}, snapshot |-> [s \in Students |-> 0]]

Later(v, w) == IF v < w THEN w ELSE v

Init ==
  /\ commits = 0 /\ source = [s \in Students |-> 0]
  /\ profile = source /\ recorded = source /\ reflected = source
  /\ keys = [dirty |-> {}, draining |-> {}, dirtyFull |-> FALSE, drainingFull |-> FALSE,
             marker |-> FALSE]
  /\ attempt = [j \in Jobs |-> 0]
  /\ step = [x \in Processes |-> "idle"]
  /\ work = [x \in Processes |-> NoWork]
  /\ job = [w \in Workers |-> NoJob]
  /\ failures = 0

Goto(x, next) == step' = [step EXCEPT ![x] = next]

(* The call ends, and its local variables with it. *)
Return(x) == Goto(x, "idle") /\ work' = [work EXCEPT ![x] = NoWork]

Failure == failures < MaxFailures /\ failures' = failures + 1

HasWork == keys.dirty # {} \/ keys.dirtyFull

-----------------------------------------------------------------------------
(* The one statement that computes profiles: it reads the sources of its     *)
(* students in one snapshot, and then overwrites whatever their rows hold.   *)

ReadSources(x) ==
  /\ step[x] = "read"
  /\ \E B \in SUBSET work[x].todo \ {{}} :
       /\ work[x].full \/ x \in Requests => B = work[x].todo
       /\ work' = [work EXCEPT ![x].batch = B,
                             ![x].snapshot = [s \in Students |-> IF s \in B THEN source[s] ELSE 0]]
  /\ Goto(x, "write")
  /\ UNCHANGED <<data, keys, attempt, job, failures>>

UpsertProfiles(x) ==
  LET wrote == work[x].batch
      left == work[x].todo \ wrote
      version == work[x].snapshot
  IN
  /\ step[x] = "write"
  /\ profile' = [s \in Students |-> IF s \in wrote THEN version[s] ELSE profile[s]]
  /\ reflected' = [s \in Students |-> IF s \in wrote THEN Later(reflected[s], version[s])
                                                     ELSE reflected[s]]
  /\ work' = [work EXCEPT ![x] = [NoWork EXCEPT !.full = work[x].full /\ left # {}, !.todo = left]]
  /\ Goto(x, IF left # {} THEN "read" ELSE IF x \in Workers THEN "ack" ELSE "idle")
  /\ UNCHANGED <<commits, source, recorded, keys, attempt, job, failures>>

-----------------------------------------------------------------------------
(* Requests. *)

(* A request commits a change and asks for a recalculation: of its students, *)
(* inline if they are few or the caller wants it at once, else by a drain;   *)
(* or, after a change of the thresholds, of everybody.                       *)
Change(r) ==
  /\ step[r] = "idle"
  /\ commits < MaxVersion /\ commits' = commits + 1
  /\ \E changed \in SUBSET Students \ {{}}, everybody \in BOOLEAN, inline \in BOOLEAN :
       /\ everybody => changed = Students /\ ~inline
       /\ source' = [s \in Students |-> IF s \in changed THEN commits + 1 ELSE source[s]]
       /\ work' = [work EXCEPT ![r] = [NoWork EXCEPT !.full = everybody, !.todo = changed]]
       /\ Goto(r, IF inline THEN "read" ELSE "mark")
  /\ UNCHANGED <<profile, recorded, reflected, keys, attempt, job, failures>>

(* The daily safety net asks for everybody. *)
RecalculateAllDaily(r) ==
  /\ step[r] = "idle"
  /\ work' = [work EXCEPT ![r] = [NoWork EXCEPT !.full = TRUE, !.todo = Students]]
  /\ Goto(r, "mark")
  /\ UNCHANGED <<data, keys, attempt, job, failures>>

(* SADD the students to the dirty set, or SET the key of a full pass. *)
MarkDirty(r) ==
  /\ step[r] = "mark"
  /\ keys' = IF work[r].full THEN [keys EXCEPT !.dirtyFull = TRUE]
                        ELSE [keys EXCEPT !.dirty = @ \cup work[r].todo]
  /\ recorded' = [s \in Students |-> IF s \in work[r].todo THEN source[s] ELSE recorded[s]]
  /\ Goto(r, "schedule")
  /\ UNCHANGED <<commits, source, profile, reflected, attempt, work, job, failures>>

(* SET NX: whoever sets the marker adds the job. *)
ScheduleDrain(r) ==
  /\ step[r] = "schedule"
  /\ keys' = [keys EXCEPT !.marker = TRUE]
  /\ IF keys.marker THEN Return(r) ELSE Goto(r, "add") /\ UNCHANGED work
  /\ UNCHANGED <<data, attempt, job, failures>>

AddDrainJob(r) ==
  /\ step[r] = "add"
  /\ \E j \in Jobs : attempt[j] = 0 /\ attempt' = [attempt EXCEPT ![j] = 1]
  /\ Return(r)
  /\ UNCHANGED <<data, keys, job, failures>>

(* A command fails.  A failed add gives the marker back if Redis still       *)
(* answers.  Students are then recalculated inline; a full pass is dropped   *)
(* by its callers, which only log.  A command that is carried out although   *)
(* its answer is lost is the command, and then the failure of the next one.  *)
QueueFails(r) ==
  /\ step[r] \in {"mark", "schedule", "add"}
  /\ \/ UNCHANGED keys
     \/ step[r] = "add" /\ keys' = [keys EXCEPT !.marker = FALSE]
  /\ Failure
  /\ IF work[r].full THEN Return(r) ELSE Goto(r, "read") /\ UNCHANGED work
  /\ UNCHANGED <<data, attempt, job>>

(* The statement fails, or the process stops. *)
RequestStops(r) ==
  /\ step[r] # "idle"
  /\ Failure
  /\ Return(r)
  /\ UNCHANGED <<data, keys, attempt, job>>

(* The marker's five-minute lease runs out. *)
MarkerExpires ==
  /\ keys.marker
  /\ keys' = [keys EXCEPT !.marker = FALSE]
  /\ UNCHANGED <<data, attempt, step, work, job, failures>>

-----------------------------------------------------------------------------
(* Workers: processJob. *)

StartJob(w) ==
  /\ step[w] = "idle"
  /\ \E j \in Jobs :
       /\ attempt[j] > 0
       /\ \A v \in Workers : job[v] # j
       /\ job' = [job EXCEPT ![w] = j]
  /\ Goto(w, "getFull")
  /\ UNCHANGED <<data, keys, attempt, work, failures>>

(* claimFullGeneration: GET, RENAME, GET. *)
GetFull(w) ==
  /\ step[w] = "getFull"
  /\ work' = [work EXCEPT ![w].full = keys.drainingFull]
  /\ Goto(w, IF keys.drainingFull THEN "exists" ELSE "renameFull")
  /\ UNCHANGED <<data, keys, attempt, job, failures>>

RenameFull(w) ==
  /\ step[w] = "renameFull"
  /\ keys' = IF keys.dirtyFull THEN [keys EXCEPT !.dirtyFull = FALSE, !.drainingFull = TRUE] ELSE keys
  /\ Goto(w, IF keys.dirtyFull THEN "getRenamed" ELSE "exists")
  /\ UNCHANGED <<data, attempt, work, job, failures>>

GetRenamed(w) ==
  /\ step[w] = "getRenamed"
  /\ work' = [work EXCEPT ![w].full = keys.drainingFull]
  /\ Goto(w, "exists")
  /\ UNCHANGED <<data, keys, attempt, job, failures>>

MutantDrainingExists(w) ==
  /\ step[w] = "exists"
  /\ Goto(w, "renameStudents")
  /\ UNCHANGED <<data, keys, attempt, work, job, failures>>

(* claimStudentGeneration: EXISTS, RENAME, SMEMBERS. *)
DrainingExists(w) ==
  /\ step[w] = "exists"
  /\ Goto(w, IF keys.draining = {} THEN "renameStudents" ELSE "members")
  /\ UNCHANGED <<data, keys, attempt, work, job, failures>>

RenameStudents(w) ==
  /\ step[w] = "renameStudents"
  /\ keys' = IF keys.dirty = {} THEN keys ELSE [keys EXCEPT !.draining = keys.dirty, !.dirty = {}]
  /\ Goto(w, "members")
  /\ UNCHANGED <<data, attempt, work, job, failures>>

MutantReadMembers(w) ==
  /\ step[w] = "members"
  /\ work' = [work EXCEPT ![w].todo = keys.draining]
  /\ Goto(w, IF keys.draining = {} THEN "release" ELSE "read")
  /\ UNCHANGED <<data, keys, attempt, job, failures>>

(* With nothing claimed the marker is given back; a full pass covers         *)
(* everybody, whatever the set holds.                                        *)
ReadMembers(w) ==
  /\ step[w] = "members"
  /\ work' = [work EXCEPT ![w].todo = IF work[w].full THEN Students ELSE keys.draining]
  /\ Goto(w, IF ~work[w].full /\ keys.draining = {} THEN "release" ELSE "read")
  /\ UNCHANGED <<data, keys, attempt, job, failures>>

(* DEL both draining keys, once everything claimed is recalculated. *)
Acknowledge(w) ==
  /\ step[w] = "ack"
  /\ keys' = [keys EXCEPT !.draining = {}, !.drainingFull = FALSE]
  /\ Goto(w, "release")
  /\ UNCHANGED <<data, attempt, work, job, failures>>

MutantRelease(w) ==
  /\ step[w] = "release"
  /\ keys' = [keys EXCEPT !.marker = FALSE]
  /\ attempt' = [attempt EXCEPT ![job[w]] = 0]
  /\ job' = [job EXCEPT ![w] = NoJob]
  /\ Goto(w, "idle")
  /\ UNCHANGED <<data, work, failures>>

(* The script keeps the marker while there is work, and deletes it           *)
(* otherwise; the job is then complete.                                      *)
Release(w) ==
  /\ step[w] = "release"
  /\ IF HasWork
     THEN Goto(w, "followUp") /\ UNCHANGED <<keys, attempt, job>>
     ELSE /\ keys' = [keys EXCEPT !.marker = FALSE]
          /\ attempt' = [attempt EXCEPT ![job[w]] = 0]
          /\ job' = [job EXCEPT ![w] = NoJob]
          /\ Goto(w, "idle")
  /\ UNCHANGED <<data, work, failures>>

(* A new job takes the place of this one. *)
FollowUp(w) ==
  /\ step[w] = "followUp"
  /\ attempt' = [attempt EXCEPT ![job[w]] = 1]
  /\ job' = [job EXCEPT ![w] = NoJob]
  /\ Return(w)
  /\ UNCHANGED <<data, keys, failures>>

MutantNextAttempt(n) == n + 1
NextAttempt(n) == IF n = Attempts THEN 0 ELSE n + 1

(* A command or a statement fails, or the worker's process stops: BullMQ     *)
(* attempts the job again, or gives it up.  A worker that stops after adding *)
(* the follow-up leaves two jobs.                                            *)
JobFails(w) ==
  /\ job[w] # NoJob
  /\ LET retry == [attempt EXCEPT ![job[w]] = NextAttempt(@)]
     IN \/ attempt' = retry
        \/ /\ step[w] = "followUp"
           /\ \E j \in Jobs : attempt[j] = 0 /\ attempt' = [retry EXCEPT ![j] = 1]
  /\ Failure
  /\ job' = [job EXCEPT ![w] = NoJob]
  /\ Return(w)
  /\ UNCHANGED <<data, keys>>

-----------------------------------------------------------------------------
(* The specification. *)

RequestStep(r) ==
  MarkDirty(r) \/ ScheduleDrain(r) \/ AddDrainJob(r) \/ ReadSources(r) \/ UpsertProfiles(r)

DrainStep(w) ==
  \/ GetFull(w) \/ RenameFull(w) \/ GetRenamed(w)
  \/ DrainingExists(w) \/ RenameStudents(w) \/ ReadMembers(w)
  \/ ReadSources(w) \/ UpsertProfiles(w)
  \/ Acknowledge(w) \/ Release(w) \/ FollowUp(w)

Next ==
  \/ MarkerExpires
  \/ \E r \in Requests :
       \/ Change(r) \/ RecalculateAllDaily(r)
       \/ RequestStep(r) \/ QueueFails(r) \/ RequestStops(r)
  \/ \E w \in Workers : StartJob(w) \/ DrainStep(w) \/ JobFails(w)

Spec == Init /\ [][Next]_vars

(* A process that is not stopped runs on, BullMQ hands out a job that waits, *)
(* the lease runs out and the daily pass never ceases.                       *)
FairSpec ==
  /\ Spec
  /\ WF_vars(MarkerExpires)
  /\ \A r \in Requests : WF_vars(RecalculateAllDaily(r)) /\ WF_vars(RequestStep(r))
  /\ \A w \in Workers : WF_vars(StartJob(w)) /\ WF_vars(DrainStep(w))

-----------------------------------------------------------------------------
(* What must hold. *)

(* Every variable keeps its type. *)
TypeOK ==
  /\ commits \in Versions
  /\ source \in [Students -> Versions] /\ profile \in [Students -> Versions]
  /\ recorded \in [Students -> Versions] /\ reflected \in [Students -> Versions]
  /\ keys \in Keys
  /\ attempt \in [Jobs -> 0 .. Attempts]
  /\ step \in [Processes -> RequestSteps \cup WorkerSteps]
  /\ work \in [Processes -> Work]
  /\ job \in [Workers -> Jobs \cup {NoJob}]
  /\ failures \in 0 .. MaxFailures

InKeys(s) == s \in keys.dirty \cup keys.draining \/ keys.dirtyFull \/ keys.drainingFull

(* "an event arriving mid-run is delayed, never lost": until a profile was   *)
(* computed from a change that was marked, or from a later one, the keys     *)
(* still name its student.                                                   *)
RecordedChangeIsKept == \A s \in Students : reflected[s] < recorded[s] => InKeys(s)

Scheduling(r) == step[r] \in {"schedule", "add"}

(* A set of dirty keys does not lie there without a drain to come: as long   *)
(* as nothing fails, there is a job, or a request that is about to look at   *)
(* the marker.                                                               *)
WorkHasDrain ==
  HasWork /\ failures = 0 =>
    (\E j \in Jobs : attempt[j] > 0) \/ (\E r \in Requests : Scheduling(r))

(* A marked change reaches the profile in the end, whatever fails on the     *)
(* way, thanks to the daily pass: again and again no marked change waits.    *)
RecordedChangeIsReflected == \A s \in Students : []<>(reflected[s] >= recorded[s])

=============================================================================
