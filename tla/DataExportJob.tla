---------------------------- MODULE DataExportJob ----------------------------
(***************************************************************************)
(* One data export (DataExportsService): its row in data_export_job, the   *)
(* BullMQ job that carries its id, and its file in the artifact storage.   *)
(* Requests create, cancel and retry it, workers build the file, a cron    *)
(* job expires it.  The row is changed by single statements that look at   *)
(* its status; between them everything interleaves, a call may fail, with  *)
(* or without its effect, and a process may stop.                          *)
(*                                                                         *)
(* BullMQ and the storage are external.  The queue hands a job to one      *)
(* worker at a time, attempts it again when the handler throws, and takes  *)
(* it back from a worker whose lock ran out, running or dead (a stall).    *)
(* An object appears in the storage whole or not at all.                   *)
(***************************************************************************)
EXTENDS Naturals

CONSTANTS Requests,    \* requests of the API on this export in flight at once
          Workers,     \* worker processes; each runs one job at a time
          Nobody,
          Attempts,    \* attempts of the job before BullMQ gives it up
          MaxStalls,   \* stalls before BullMQ gives it up
          MaxFailures  \* bound: calls that fail and processes that stop

ASSUME ExportAssumption ==
  /\ Requests \cap Workers = {}
  /\ Nobody \notin Workers
  /\ Attempts \in Nat \ {0} /\ MaxStalls \in Nat /\ MaxFailures \in Nat

VARIABLES
  row,      \* data_export_job.status; NONE before the INSERT
  key,      \* artifact_storage_key is set
  file,     \* the storage holds an object under the export's key
  due,      \* expires_at has passed
  queue,    \* the state of the BullMQ job; NONE without one
  tries,    \* its failed attempts
  stalls,   \* how often it stalled
  owner,    \* the worker whose lock on it is valid
  step,     \* per request and worker, the call it makes next
  reason,   \* per worker, why it discards the file
  cleaning, \* what the expiry pass does next
  failures, \* how many calls failed and processes stopped
  harm      \* history: what failures and races left behind

table == <<row, key, due>>
bull == <<queue, tries, stalls, owner>>
vars == <<table, file, bull, step, reason, cleaning, failures, harm>>

Processes == Requests \cup Workers

Rows == {"NONE", "PENDING", "RUNNING", "COMPLETED", "FAILED", "CANCELED", "EXPIRED"}
QueueStates == {"NONE", "waiting", "active", "delayed", "failed"}
RequestSteps == {"idle", "requested", "add", "look", "prepareAbsent", "prepareFailed",
                 "addAgain", "retry", "undo"}
WorkerSteps == {"idle", "claim", "started", "access", "snapshot", "upload", "complete",
                "completed", "discard", "fail", "failed", "return", "throw"}
Reasons == {"none", "stopped", "revoked", "error"}

(* A worker between its claim and the statement that gives the row up. *)
Holding == {"started", "access", "snapshot", "upload", "complete", "discard", "fail"}

(* Such a worker will move the row, unless it only has to delete its file    *)
(* because the row is not its own any more.                                  *)
Working(w) == step[w] \in Holding /\ ~(step[w] = "discard" /\ reason[w] = "stopped")

(* What a failure may leave behind: an export nobody will dispatch, a run    *)
(* nobody will finish, a completed export whose worker did not learn of it,  *)
(* an object nobody will delete; and what a race may: a retry prepared after *)
(* the queue it looked at had changed, a row claimed from a worker at work.  *)
Harms == {"dispatch", "run", "report", "object", "stale", "overlap"}

Init ==
  /\ row = "NONE" /\ key = FALSE /\ due = FALSE
  /\ file = FALSE
  /\ queue = "NONE" /\ tries = 0 /\ stalls = 0 /\ owner = Nobody
  /\ step = [p \in Processes |-> "idle"]
  /\ reason = [w \in Workers |-> "none"]
  /\ cleaning = "idle"
  /\ failures = 0 /\ harm = {}

Goto(p, next) == step' = [step EXCEPT ![p] = next]

(* A call fails, or a process stops, and leaves something behind. *)
Failure(left) ==
  /\ failures < MaxFailures
  /\ failures' = failures + 1
  /\ harm' = harm \cup left

(* UPDATE ... SET status = to WHERE status IN from. *)
Moves(from, to) == row \in from /\ row' = to

-----------------------------------------------------------------------------
(* Requests. *)

CreateJob(r) ==
  /\ step[r] = "idle"
  /\ Moves({"NONE"}, "PENDING")
  /\ Goto(r, "requested")
  /\ UNCHANGED <<key, due, file, bull, reason, cleaning, failures, harm>>

(* The REQUESTED event is written before the job is queued. *)
RecordRequest(r) ==
  /\ step[r] = "requested"
  /\ Goto(r, "add")
  /\ UNCHANGED <<table, file, bull, reason, cleaning, failures, harm>>

(* Adding a job whose id the queue still knows changes nothing. *)
Enqueue ==
  IF queue = "NONE"
    THEN queue' = "waiting" /\ tries' = 0 /\ stalls' = 0 /\ owner' = Nobody
    ELSE UNCHANGED bull

AddJob(r) ==
  /\ step[r] \in {"add", "addAgain"}
  /\ Enqueue
  /\ Goto(r, "idle")
  /\ UNCHANGED <<table, file, reason, cleaning, failures, harm>>

(* queueJob.retry() refuses a job that is not in the failed set. *)
RetryJob(r) ==
  /\ step[r] = "retry"
  /\ IF queue = "failed" THEN queue' = "waiting" /\ Goto(r, "idle")
                         ELSE UNCHANGED queue /\ Goto(r, "undo")
  /\ UNCHANGED <<table, file, tries, stalls, owner, reason, cleaning, failures, harm>>

(* The queue does not answer; the job may be in it all the same. *)
DispatchFails(r) ==
  /\ step[r] \in {"add", "addAgain", "retry"}
  /\ \/ UNCHANGED bull
     \/ step[r] # "retry" /\ Enqueue
     \/ /\ step[r] = "retry" /\ queue = "failed"
        /\ queue' = "waiting" /\ UNCHANGED <<tries, stalls, owner>>
  /\ Failure({})
  /\ Goto(r, "undo")
  /\ UNCHANGED <<table, file, reason, cleaning>>

MutantFailRow == row' = IF row = "PENDING" THEN "FAILED" ELSE row

MutantFailCode == row' = IF row \in {"PENDING", "RUNNING"} THEN "ERROR" ELSE row

(* failJob *)
FailRow == row' = IF row \in {"PENDING", "RUNNING"} THEN "FAILED" ELSE row

MutantUndoDispatch(r) ==
  /\ step[r] = "undo"
  /\ Goto(r, "idle")
  /\ UNCHANGED <<table, file, bull, reason, cleaning, failures, harm>>

UndoDispatch(r) ==
  /\ step[r] = "undo"
  /\ FailRow
  /\ Goto(r, "idle")
  /\ UNCHANGED <<key, due, file, bull, reason, cleaning, failures, harm>>

(* A request that has left a row PENDING, and has not queued its job. *)
Dispatching(r) == step[r] \in {"requested", "add", "addAgain", "retry", "undo"}

(* A statement of the request fails, or the API process stops: the row may   *)
(* stay PENDING without a job.                                               *)
RequestStops(r) ==
  /\ step[r] # "idle"
  /\ Failure({h \in {"dispatch"} : Dispatching(r)})
  /\ Goto(r, "idle")
  /\ UNCHANGED <<table, file, bull, reason, cleaning>>

CancelJob ==
  /\ Moves({"PENDING"}, "CANCELED")
  /\ UNCHANGED <<key, due, file, bull, step, reason, cleaning, failures, harm>>

(* A retry reads the row, looks at the queue, and then claims the row. *)
BeginRetry(r) ==
  /\ step[r] = "idle"
  /\ row = "FAILED"
  /\ Goto(r, "look")
  /\ UNCHANGED <<table, file, bull, reason, cleaning, failures, harm>>

LookAtQueue(r) ==
  /\ step[r] = "look"
  /\ Goto(r, CASE queue = "NONE" -> "prepareAbsent"
               [] queue = "failed" -> "prepareFailed"
               [] OTHER -> "idle")
  /\ UNCHANGED <<table, file, bull, reason, cleaning, failures, harm>>

PrepareRetry(r) ==
  /\ step[r] \in {"prepareAbsent", "prepareFailed"}
  /\ row' = IF row = "FAILED" THEN "PENDING" ELSE row
  /\ Goto(r, IF row # "FAILED" THEN "idle"
             ELSE IF step[r] = "prepareAbsent" THEN "addAgain" ELSE "retry")
  /\ harm' = IF row = "FAILED" /\ queue # (IF step[r] = "prepareAbsent" THEN "NONE" ELSE "failed")
               THEN harm \cup {"stale"} ELSE harm
  /\ UNCHANGED <<key, due, file, bull, reason, cleaning, failures>>

-----------------------------------------------------------------------------
(* Workers: processJob. *)

TakeJob(w) ==
  /\ step[w] = "idle"
  /\ queue = "waiting"
  /\ queue' = "active" /\ owner' = w
  /\ Goto(w, "claim")
  /\ UNCHANGED <<table, file, tries, stalls, reason, cleaning, failures, harm>>

Claimable == {"PENDING", "FAILED"}

ClaimJob(w) ==
  /\ step[w] = "claim"
  /\ row' = IF row \in Claimable THEN "RUNNING" ELSE row
  /\ Goto(w, IF row \in Claimable THEN "started" ELSE "return")
  /\ harm' = IF row \in Claimable /\ \E v \in Workers : step[v] \in Holding
               THEN harm \cup {"overlap"} ELSE harm
  /\ UNCHANGED <<key, due, file, bull, reason, cleaning, failures>>

(* The STARTED event is written outside the try. *)
RecordStart(w) ==
  /\ step[w] = "started"
  /\ Goto(w, "access")
  /\ UNCHANGED <<table, file, bull, reason, cleaning, failures, harm>>

(* What the requester may see is checked again. *)
CheckAccess(w) ==
  /\ step[w] = "access"
  /\ \/ Goto(w, "snapshot") /\ UNCHANGED reason
     \/ Goto(w, "fail") /\ reason' = [reason EXCEPT ![w] = "revoked"]
  /\ UNCHANGED <<table, file, bull, cleaning, failures, harm>>

Discard(w, why) == Goto(w, "discard") /\ reason' = [reason EXCEPT ![w] = why]

(* The rows, and the status that is looked at after each chunk of them, are  *)
(* read in one REPEATABLE READ transaction: the look sees the status of the  *)
(* first query, and an export without rows does not look.                    *)
TakeSnapshot(w) ==
  /\ step[w] = "snapshot"
  /\ \/ Goto(w, "upload") /\ UNCHANGED reason
     \/ row # "RUNNING" /\ Discard(w, "stopped")
  /\ UNCHANGED <<table, file, bull, cleaning, failures, harm>>

(* The upload ends, or the cap on rows breaks it off. *)
Upload(w) ==
  /\ step[w] = "upload"
  /\ \/ file' = TRUE /\ Goto(w, "complete") /\ UNCHANGED reason
     \/ UNCHANGED file /\ Discard(w, "error")
  /\ UNCHANGED <<table, bull, cleaning, failures, harm>>

CompleteRow == row' = "COMPLETED" /\ key' = TRUE /\ due' = FALSE

CompleteJob(w) ==
  /\ step[w] = "complete"
  /\ IF row = "RUNNING"
       THEN CompleteRow /\ Goto(w, "completed") /\ UNCHANGED reason
       ELSE UNCHANGED table /\ Discard(w, "stopped")
  /\ UNCHANGED <<file, bull, cleaning, failures, harm>>

RecordCompletion(w) ==
  /\ step[w] = "completed"
  /\ Goto(w, "return")
  /\ UNCHANGED <<table, file, bull, reason, cleaning, failures, harm>>

MutantDeleteArtifact(w) ==
  /\ step[w] = "discard"
  /\ Goto(w, IF reason[w] = "stopped" THEN "return" ELSE "fail")
  /\ UNCHANGED <<table, file, bull, reason, cleaning, failures, harm>>

DeleteArtifact(w) ==
  /\ step[w] = "discard"
  /\ file' = FALSE
  /\ Goto(w, IF reason[w] = "stopped" THEN "return" ELSE "fail")
  /\ UNCHANGED <<table, bull, reason, cleaning, failures, harm>>

FailJob(w) ==
  /\ step[w] = "fail"
  /\ FailRow
  /\ Goto(w, "failed")
  /\ UNCHANGED <<key, due, file, bull, reason, cleaning, failures, harm>>

(* A revoked export is not attempted again; any other failure is thrown. *)
RecordFailure(w) ==
  /\ step[w] = "failed"
  /\ Goto(w, IF reason[w] = "revoked" THEN "return" ELSE "throw")
  /\ UNCHANGED <<table, file, bull, reason, cleaning, failures, harm>>

Forget(w) == Goto(w, "idle") /\ reason' = [reason EXCEPT ![w] = "none"]

(* The handler returns: the job is removed, if the lock still holds. *)
ReturnJob(w) ==
  /\ step[w] = "return"
  /\ IF owner = w THEN queue' = "NONE" /\ owner' = Nobody ELSE UNCHANGED <<queue, owner>>
  /\ Forget(w)
  /\ UNCHANGED <<table, file, tries, stalls, cleaning, failures, harm>>

(* The handler throws: the job is attempted again after a delay, or failed. *)
ThrowJob(w) ==
  /\ step[w] = "throw"
  /\ IF owner = w
       THEN /\ queue' = IF tries + 1 < Attempts THEN "delayed" ELSE "failed"
            /\ tries' = IF tries < Attempts THEN tries + 1 ELSE tries
            /\ owner' = Nobody
       ELSE UNCHANGED <<queue, tries, owner>>
  /\ Forget(w)
  /\ UNCHANGED <<table, file, stalls, cleaning, failures, harm>>

-----------------------------------------------------------------------------
(* What fails under a worker. *)

(* Before the try: the handler throws, and a claimed row stays RUNNING. *)
StartFails(w) ==
  /\ \/ step[w] = "claim" /\ UNCHANGED row /\ Failure({"dispatch"})
     \/ step[w] = "claim" /\ Moves(Claimable, "RUNNING") /\ Failure({"run"})
     \/ step[w] = "started" /\ UNCHANGED row /\ Failure({"run"})
  /\ Goto(w, "throw")
  /\ UNCHANGED <<key, due, file, bull, reason, cleaning>>

(* Inside the try, before the key of the object is known. *)
AccessFails(w) ==
  /\ step[w] = "access"
  /\ Failure({})
  /\ Goto(w, "fail")
  /\ reason' = [reason EXCEPT ![w] = "error"]
  /\ UNCHANGED <<table, file, bull, cleaning>>

(* From here on, what was stored is deleted.  The statement that completes   *)
(* the export, and the event after it, are inside the try as well.           *)
ExportFails(w) ==
  /\ \/ step[w] \in {"snapshot", "complete"} /\ UNCHANGED <<table, file>> /\ Failure({})
     \/ step[w] = "upload" /\ UNCHANGED table /\ file' \in {file, TRUE} /\ Failure({})
     \/ /\ step[w] = "complete" /\ row = "RUNNING"
        /\ CompleteRow /\ UNCHANGED file /\ Failure({"report"})
     \/ step[w] = "completed" /\ UNCHANGED <<table, file>> /\ Failure({"report"})
  /\ Discard(w, "error")
  /\ UNCHANGED <<bull, cleaning>>

(* The deletion fails, and nobody is told. *)
DeleteFails(w) ==
  /\ step[w] = "discard"
  /\ Failure({"object"})
  /\ Goto(w, IF reason[w] = "stopped" THEN "return" ELSE "fail")
  /\ UNCHANGED <<table, file, bull, reason, cleaning>>

(* In the catch: the handler throws, whatever the reason was. *)
ReportFails(w) ==
  /\ \/ step[w] = "fail" /\ Failure({"run"})
     \/ step[w] = "failed" /\ Failure({})
  /\ Goto(w, "throw")
  /\ UNCHANGED <<table, file, bull, reason, cleaning>>

(* What is lost with a worker: the job it was to claim, the row it was to    *)
(* move, the object it was to give a row or to delete.                       *)
LostWith(w) ==
  {h \in Harms : \/ h = "dispatch" /\ step[w] = "claim"
                 \/ h = "run" /\ Working(w)
                 \/ h = "object" /\ step[w] \in {"complete", "discard"}}

(* The worker's process stops; its lock on the job runs out later. *)
WorkerStops(w) ==
  /\ step[w] # "idle"
  /\ Failure(LostWith(w))
  /\ Forget(w)
  /\ UNCHANGED <<table, file, bull, cleaning>>

-----------------------------------------------------------------------------
(* The queue's clocks. *)

(* The lock ran out: its worker stopped, or was too busy to renew it. *)
Stall ==
  /\ queue = "active"
  /\ queue' = IF stalls < MaxStalls THEN "waiting" ELSE "failed"
  /\ stalls' = IF stalls < MaxStalls THEN stalls + 1 ELSE stalls
  /\ owner' = Nobody
  /\ UNCHANGED <<table, file, tries, step, reason, cleaning, failures, harm>>

DelayEnds ==
  /\ queue = "delayed"
  /\ queue' = "waiting"
  /\ UNCHANGED <<table, file, tries, stalls, owner, step, reason, cleaning, failures, harm>>

(* Failed jobs are kept for a week, or until there are too many of them. *)
ForgetFailed ==
  /\ queue = "failed"
  /\ queue' = "NONE"
  /\ UNCHANGED <<table, file, tries, stalls, owner, step, reason, cleaning, failures, harm>>

-----------------------------------------------------------------------------
(* The expiry pass of every fifteen minutes (cleanupExpiredArtifacts). *)

PassTTL ==
  /\ row = "COMPLETED" /\ ~due
  /\ due' = TRUE
  /\ UNCHANGED <<row, key, file, bull, step, reason, cleaning, failures, harm>>

ExpireCompleted ==
  /\ cleaning = "idle"
  /\ due /\ Moves({"COMPLETED"}, "EXPIRED")
  /\ cleaning' = "list"
  /\ UNCHANGED <<key, due, file, bull, step, reason, failures, harm>>

MutantListExpired ==
  /\ cleaning \in {"idle", "list"}
  /\ cleaning' = IF key THEN "delete" ELSE "idle"
  /\ cleaning # cleaning'
  /\ UNCHANGED <<table, file, bull, step, reason, failures, harm>>

ListExpired ==
  /\ cleaning \in {"idle", "list"}
  /\ cleaning' = IF row = "EXPIRED" /\ key THEN "delete" ELSE "idle"
  /\ cleaning # cleaning'
  /\ UNCHANGED <<table, file, bull, step, reason, failures, harm>>

DeleteExpired ==
  /\ cleaning = "delete"
  /\ file' = FALSE
  /\ cleaning' = "clear"
  /\ UNCHANGED <<table, bull, step, reason, failures, harm>>

MutantClearKey ==
  /\ cleaning = "clear"
  /\ cleaning' = "idle"
  /\ UNCHANGED <<table, file, bull, step, reason, failures, harm>>

ClearKey ==
  /\ cleaning = "clear"
  /\ key' = IF row = "EXPIRED" THEN FALSE ELSE key
  /\ cleaning' = "idle"
  /\ UNCHANGED <<row, due, file, bull, step, reason, failures, harm>>

(* A call of the pass fails: the next pass finds the key again. *)
CleanupFails ==
  /\ cleaning # "idle"
  /\ Failure({})
  /\ cleaning' = "idle"
  /\ UNCHANGED <<table, file, bull, step, reason>>

-----------------------------------------------------------------------------

RequestStep(r) ==
  \/ RecordRequest(r) \/ AddJob(r) \/ RetryJob(r) \/ UndoDispatch(r)
  \/ LookAtQueue(r) \/ PrepareRetry(r)

WorkerStep(w) ==
  \/ ClaimJob(w) \/ RecordStart(w) \/ CheckAccess(w) \/ TakeSnapshot(w) \/ Upload(w)
  \/ CompleteJob(w) \/ RecordCompletion(w) \/ DeleteArtifact(w) \/ FailJob(w)
  \/ RecordFailure(w) \/ ReturnJob(w) \/ ThrowJob(w)

WorkerFails(w) ==
  \/ StartFails(w) \/ AccessFails(w) \/ ExportFails(w) \/ DeleteFails(w) \/ ReportFails(w)
  \/ WorkerStops(w)

Cleanup == ExpireCompleted \/ ListExpired \/ DeleteExpired \/ ClearKey

Next ==
  \/ \E r \in Requests : CreateJob(r) \/ BeginRetry(r) \/ RequestStep(r)
                         \/ DispatchFails(r) \/ RequestStops(r)
  \/ CancelJob
  \/ \E w \in Workers : TakeJob(w) \/ WorkerStep(w) \/ WorkerFails(w)
  \/ Stall \/ DelayEnds \/ ForgetFailed
  \/ PassTTL \/ Cleanup \/ CleanupFails

Spec == Init /\ [][Next]_vars

(* Requests and workers go on, the queue hands out its jobs and takes back   *)
(* those of dead workers, and the cron job runs.                             *)
Fairness ==
  /\ \A r \in Requests : WF_vars(RequestStep(r))
  /\ \A w \in Workers : WF_vars(WorkerStep(w))
  /\ WF_vars(\E w \in Workers : TakeJob(w))
  /\ WF_vars(DelayEnds)
  /\ WF_vars(PassTTL) /\ WF_vars(Cleanup)

FairSpec == Spec /\ Fairness

-----------------------------------------------------------------------------
(* What must hold. *)

(* Every variable keeps its type. *)
TypeOK ==
  /\ row \in Rows /\ key \in BOOLEAN /\ due \in BOOLEAN /\ file \in BOOLEAN
  /\ queue \in QueueStates /\ tries \in 0 .. Attempts /\ stalls \in 0 .. MaxStalls
  /\ owner \in Workers \cup {Nobody}
  /\ step \in [Processes -> RequestSteps \cup WorkerSteps]
  /\ \A r \in Requests : step[r] \in RequestSteps
  /\ \A w \in Workers : step[w] \in WorkerSteps
  /\ reason \in [Workers -> Reasons]
  /\ cleaning \in {"idle", "list", "delete", "clear"}
  /\ failures \in 0 .. MaxFailures
  /\ harm \subseteq Harms

(* A row that reads RUNNING is being worked on, unless the worker that had   *)
(* to move it stopped or a call outside its handler's try failed ("run"): no *)
(* interleaving of retries, stalls and late dispatches leaves it RUNNING for *)
(* ever.                                                                     *)
RunningIsWorkedOn ==
  row = "RUNNING" /\ "run" \notin harm => \E w \in Workers : Working(w)

(* An export that waits has a job in the queue that will claim it, or a      *)
(* request about to put one there.  Excepted are a process that stopped, or  *)
(* a claim that failed, between the row and the queue ("dispatch"), and a    *)
(* retry that acted on a queue that had changed since its look ("stale"):    *)
(* the code leaves such a row PENDING without a job.                         *)
PendingIsDispatched ==
  row = "PENDING" /\ harm \cap {"dispatch", "stale"} = {} =>
    \/ queue \in {"waiting", "delayed"}
    \/ \E w \in Workers : step[w] = "claim"
    \/ \E r \in Requests : Dispatching(r)

(* A completed export can be downloaded: its file is there until it expires. *)
(* Excepted are a worker that did not learn that it had completed the row,   *)
(* or could not write the COMPLETED event after it ("report"), and a row     *)
(* that two workers had at once, after a stall or a retry ("overlap"): there *)
(* the catch of one worker deletes the file of the completed export.         *)
CompletedIsDownloadable ==
  row = "COMPLETED" /\ harm \cap {"report", "overlap"} = {} => file

(* Nothing is left in the storage that no row names, once the work is done,  *)
(* unless its deletion failed or its worker stopped before it ("object").    *)
NoObjectLeftBehind ==
  file => \/ key
          \/ "object" \in harm
          \/ \E w \in Workers : step[w] # "idle"

(* An expired export gives its file up, and its key with it. *)
ExpiredIsCleared == row = "EXPIRED" ~> ~key /\ (file => "object" \in harm)

(* An export that was asked for ends, unless a failure or a stale retry left *)
(* it behind ("dispatch", "run", "stale").                                   *)
ExportEnds ==
  row \in {"PENDING", "RUNNING"} ~>
    row \notin {"PENDING", "RUNNING"} \/ harm \cap {"dispatch", "run", "stale"} # {}

=============================================================================
