------------------------ MODULE DataExportJobProofs ------------------------
(***************************************************************************)
(* Type correctness and the safety properties of one export, for every     *)
(* number of workers and requests, every bound on attempts and stalls and  *)
(* every number of failures.  Each part of the inductive invariant has a   *)
(* lemma of its own, with one step per action.                             *)
(***************************************************************************)
EXTENDS DataExportJob, TLAPS

(* No race between two workers, no completion its worker did not learn of. *)
Clean == harm \cap {"report", "overlap"} = {}

(* Nothing happens before the row exists.                                  *)
Fresh == row = "NONE" => queue = "NONE" /\ \A p \in Processes : step[p] = "idle"

(* Only an active job is locked by a worker.                               *)
OwnedIsActive == owner # Nobody => queue = "active"

(* What becomes of a waiting row: a request that will add its job finds    *)
(* the queue empty, so that the job is not refused as a duplicate.         *)
PendingIsQueued ==
  row = "PENDING" /\ harm \cap {"dispatch", "stale"} = {} =>
    \/ queue \in {"waiting", "delayed"}
    \/ \E w \in Workers : step[w] = "claim"
    \/ queue = "NONE" /\ \E r \in Requests : step[r] \in {"requested", "add", "addAgain"}
    \/ \E r \in Requests : step[r] \in {"retry", "undo"}

(* One worker at a time has the row.                                       *)
OneHolder ==
  Clean => \A v, w \in Workers : step[v] \in Holding /\ step[w] \in Holding => v = w

(* Nobody works on a row that is completed.                                *)
ClosedAlone ==
  Clean /\ row \in {"COMPLETED", "EXPIRED"} => \A w \in Workers : step[w] \notin Holding

(* The object is there before the row says so.                             *)
StoredBeforeCompletion == Clean => \A w \in Workers : step[w] = "complete" => file

(* The expiry pass deletes the object of an expired row only.              *)
CleaningExpired == cleaning \in {"delete", "clear"} => row = "EXPIRED"

(* An object without a row that names it has a worker that will delete it, *)
(* also while the expiry pass is about to clear the key.                   *)
ObjectIsKept ==
  file /\ "object" \notin harm /\ (~key \/ cleaning = "clear") =>
    \E w \in Workers : step[w] \in {"complete", "discard"}

-----------------------------------------------------------------------------
(* Types. *)

LEMMA GotoType ==
  ASSUME TypeOK, NEW p \in Processes, NEW next, Goto(p, next),
         p \in Requests => next \in RequestSteps,
         p \in Workers => next \in WorkerSteps
  PROVE  /\ step' \in [Processes -> RequestSteps \cup WorkerSteps]
         /\ \A r \in Requests : step'[r] \in RequestSteps
         /\ \A w \in Workers : step'[w] \in WorkerSteps
BY DEF TypeOK, Goto, Processes

LEMMA FailureType ==
  ASSUME TypeOK, NEW left \in SUBSET Harms, Failure(left)
  PROVE  failures' \in 0 .. MaxFailures /\ harm' \subseteq Harms
BY ExportAssumption DEF TypeOK, Failure

(* What is lost with a worker is one of the harms, and is marked.             *)
LEMMA LostEffect ==
  ASSUME NEW w \in Workers, WorkerStops(w)
  PROVE  /\ LostWith(w) \in SUBSET Harms
         /\ harm' = harm \cup LostWith(w)
         /\ "dispatch" \notin harm' => "dispatch" \notin harm /\ step[w] # "claim"
         /\ "run" \notin harm' => "run" \notin harm /\ ~Working(w)
         /\ "object" \notin harm' => "object" \notin harm /\ step[w] \notin {"complete", "discard"}
BY DEF WorkerStops, Failure, LostWith, Harms

LEMMA DiscardType ==
  ASSUME TypeOK, NEW w \in Workers, NEW why \in Reasons, Discard(w, why)
  PROVE  /\ step' \in [Processes -> RequestSteps \cup WorkerSteps]
         /\ \A r \in Requests : step'[r] \in RequestSteps
         /\ \A v \in Workers : step'[v] \in WorkerSteps
         /\ reason' \in [Workers -> Reasons]
<1>1. Goto(w, "discard") /\ w \in Processes /\ w \notin Requests /\ "discard" \in WorkerSteps
  BY ExportAssumption DEF Discard, Processes, WorkerSteps
<1>2. reason' \in [Workers -> Reasons]
  BY DEF Discard, TypeOK
<1> QED
  BY <1>1, <1>2, GotoType

LEMMA EnqueueType ==
  ASSUME TypeOK, Enqueue
  PROVE  /\ queue' \in QueueStates /\ tries' \in 0 .. Attempts /\ stalls' \in 0 .. MaxStalls
         /\ owner' \in Workers \cup {Nobody}
BY ExportAssumption DEF TypeOK, Enqueue, bull, QueueStates

LEMMA TypeStep ==
  ASSUME TypeOK, [Next]_vars
  PROVE  TypeOK'
<1> USE ExportAssumption DEF TypeOK, Processes, Rows, QueueStates, RequestSteps, WorkerSteps,
      Reasons, Harms
<1>1. ASSUME NEW r \in Requests, CreateJob(r) PROVE TypeOK'
  BY <1>1 DEF CreateJob, Moves, Goto, table, bull
<1>2. ASSUME NEW r \in Requests, RecordRequest(r) PROVE TypeOK'
  BY <1>2 DEF RecordRequest, Goto, table, bull
<1>3. ASSUME NEW r \in Requests, AddJob(r) PROVE TypeOK'
  BY <1>3 DEF AddJob, Enqueue, Goto, table, bull
<1>4. ASSUME NEW r \in Requests, RetryJob(r) PROVE TypeOK'
  BY <1>4 DEF RetryJob, Goto, table, bull
<1>5. ASSUME NEW r \in Requests, DispatchFails(r) PROVE TypeOK'
  <2>1. Goto(r, "undo") /\ Failure({})
    BY <1>5 DEF DispatchFails
  <2>2. CASE Enqueue
    BY <1>5, <2>1, <2>2, GotoType, FailureType, EnqueueType DEF DispatchFails, table
  <2>3. CASE ~Enqueue
    BY <1>5, <2>1, <2>3, GotoType, FailureType DEF DispatchFails, table, bull
  <2> QED
    BY <2>2, <2>3
<1>6. ASSUME NEW r \in Requests, UndoDispatch(r) PROVE TypeOK'
  BY <1>6 DEF UndoDispatch, FailRow, Goto, table, bull
<1>7. ASSUME NEW r \in Requests, RequestStops(r) PROVE TypeOK'
  <2>1. Failure({h \in {"dispatch"} : Dispatching(r)}) /\ Goto(r, "idle")
    BY <1>7 DEF RequestStops
  <2> QED
    BY <1>7, <2>1, GotoType, FailureType DEF RequestStops, table, bull
<1>8. ASSUME NEW r \in Requests, BeginRetry(r) PROVE TypeOK'
  BY <1>8 DEF BeginRetry, Goto, table, bull
<1>9. ASSUME NEW r \in Requests, LookAtQueue(r) PROVE TypeOK'
  BY <1>9 DEF LookAtQueue, Goto, table, bull
<1>10. ASSUME NEW r \in Requests, PrepareRetry(r) PROVE TypeOK'
  BY <1>10 DEF PrepareRetry, Goto, table, bull
<1>11. ASSUME NEW w \in Workers, TakeJob(w) PROVE TypeOK'
  BY <1>11 DEF TakeJob, Goto, table, bull
<1>12. ASSUME NEW w \in Workers, ClaimJob(w) PROVE TypeOK'
  BY <1>12 DEF ClaimJob, Claimable, Goto, table, bull
<1>13. ASSUME NEW w \in Workers, RecordStart(w) PROVE TypeOK'
  BY <1>13 DEF RecordStart, Goto, table, bull
<1>14. ASSUME NEW w \in Workers, CheckAccess(w) PROVE TypeOK'
  BY <1>14 DEF CheckAccess, Goto, table, bull
<1>15. ASSUME NEW w \in Workers, TakeSnapshot(w) PROVE TypeOK'
  BY <1>15 DEF TakeSnapshot, Discard, Goto, table, bull
<1>16. ASSUME NEW w \in Workers, Upload(w) PROVE TypeOK'
  <2>1. CASE file' = TRUE /\ Goto(w, "complete") /\ UNCHANGED reason
    BY <1>16, <2>1, GotoType DEF Upload, table, bull
  <2>2. CASE UNCHANGED file /\ Discard(w, "error")
    BY <1>16, <2>2, DiscardType DEF Upload, table, bull
  <2> QED
    BY <1>16, <2>1, <2>2 DEF Upload
<1>17. ASSUME NEW w \in Workers, CompleteJob(w) PROVE TypeOK'
  <2>1. CASE row = "RUNNING"
    BY ZenonT(30), <1>17, <2>1 DEF CompleteJob, CompleteRow, Goto, table, bull
  <2>2. CASE row # "RUNNING"
    BY <1>17, <2>2, DiscardType DEF CompleteJob, table, bull
  <2> QED
    BY <1>17, <2>1, <2>2
<1>18. ASSUME NEW w \in Workers, RecordCompletion(w) PROVE TypeOK'
  BY <1>18 DEF RecordCompletion, Goto, table, bull
<1>19. ASSUME NEW w \in Workers, DeleteArtifact(w) PROVE TypeOK'
  BY ZenonT(30), <1>19 DEF DeleteArtifact, Goto, table, bull
<1>20. ASSUME NEW w \in Workers, FailJob(w) PROVE TypeOK'
  BY <1>20 DEF FailJob, FailRow, Goto, table, bull
<1>21. ASSUME NEW w \in Workers, RecordFailure(w) PROVE TypeOK'
  BY <1>21 DEF RecordFailure, Goto, table, bull
<1>22. ASSUME NEW w \in Workers, ReturnJob(w) PROVE TypeOK'
  BY <1>22 DEF ReturnJob, Forget, Goto, table, bull
<1>23. ASSUME NEW w \in Workers, ThrowJob(w) PROVE TypeOK'
  BY <1>23 DEF ThrowJob, Forget, Goto, table, bull
<1>24. ASSUME NEW w \in Workers, StartFails(w) PROVE TypeOK'
  <2>1. Goto(w, "throw") /\ (Failure({"dispatch"}) \/ Failure({"run"}))
    BY <1>24 DEF StartFails
  <2>2. row' \in Rows
    BY <1>24 DEF StartFails, Moves
  <2> QED
    BY <1>24, <2>1, <2>2, GotoType, FailureType DEF StartFails, table, bull
<1>25. ASSUME NEW w \in Workers, AccessFails(w) PROVE TypeOK'
  BY <1>25 DEF AccessFails, Failure, Goto, table, bull
<1>26. ASSUME NEW w \in Workers, ExportFails(w) PROVE TypeOK'
  <2>1. Discard(w, "error") /\ (Failure({}) \/ Failure({"report"}))
    BY <1>26 DEF ExportFails
  <2>2. row' \in Rows /\ key' \in BOOLEAN /\ due' \in BOOLEAN /\ file' \in BOOLEAN
    BY <1>26 DEF ExportFails, CompleteRow, table
  <2> QED
    BY <1>26, <2>1, <2>2, DiscardType, FailureType DEF ExportFails, bull
<1>27. ASSUME NEW w \in Workers, DeleteFails(w) PROVE TypeOK'
  BY <1>27 DEF DeleteFails, Failure, Goto, table, bull
<1>28. ASSUME NEW w \in Workers, ReportFails(w) PROVE TypeOK'
  <2>1. Goto(w, "throw") /\ (Failure({}) \/ Failure({"run"}))
    BY <1>28 DEF ReportFails
  <2> QED
    BY <1>28, <2>1, GotoType, FailureType DEF ReportFails, table, bull
<1>29. ASSUME NEW w \in Workers, WorkerStops(w) PROVE TypeOK'
  <2>1. failures' \in 0 .. MaxFailures /\ harm' \subseteq Harms
    BY <1>29, LostEffect, FailureType DEF WorkerStops
  <2>2. Goto(w, "idle") /\ reason' \in [Workers -> Reasons]
    BY <1>29 DEF WorkerStops, Forget
  <2> QED
    BY <1>29, <2>1, <2>2, GotoType DEF WorkerStops, table, bull
<1>30. CASE CancelJob
  BY <1>30 DEF CancelJob, Moves, table, bull
<1>31. CASE Stall
  BY <1>31 DEF Stall, table, bull
<1>32. CASE DelayEnds
  BY <1>32 DEF DelayEnds, table, bull
<1>33. CASE ForgetFailed
  BY <1>33 DEF ForgetFailed, table, bull
<1>34. CASE PassTTL
  BY <1>34 DEF PassTTL, table, bull
<1>35. CASE ExpireCompleted
  BY <1>35 DEF ExpireCompleted, Moves, table, bull
<1>36. CASE ListExpired
  BY <1>36 DEF ListExpired, table, bull
<1>37. CASE DeleteExpired
  BY <1>37 DEF DeleteExpired, table, bull
<1>38. CASE ClearKey
  BY <1>38 DEF ClearKey, table, bull
<1>39. CASE CleanupFails
  BY <1>39 DEF CleanupFails, Failure, table, bull
<1>40. CASE UNCHANGED vars
  BY <1>40 DEF vars, table, bull
<1> QED
  BY <1>1, <1>2, <1>3, <1>4, <1>5, <1>6, <1>7, <1>8, <1>9, <1>10, <1>11, <1>12, <1>13,
     <1>14, <1>15, <1>16, <1>17, <1>18, <1>19, <1>20, <1>21, <1>22, <1>23, <1>24, <1>25,
     <1>26, <1>27, <1>28, <1>29, <1>30, <1>31, <1>32, <1>33, <1>34, <1>35, <1>36, <1>37,
     <1>38, <1>39, <1>40 DEF Next, RequestStep, WorkerStep, WorkerFails, Cleanup

-----------------------------------------------------------------------------
(* Each part of the inductive invariant is preserved. *)

LEMMA FreshStep ==
  ASSUME TypeOK, Fresh, [Next]_vars
  PROVE  Fresh'
<1> USE ExportAssumption DEF TypeOK, Processes, Fresh, Claimable
<1>1. ASSUME NEW r \in Requests, CreateJob(r) PROVE Fresh'
  BY <1>1 DEF CreateJob, Moves, Goto, table, bull
<1>2. ASSUME NEW r \in Requests, RecordRequest(r) PROVE Fresh'
  BY <1>2 DEF RecordRequest, Goto, table, bull
<1>3. ASSUME NEW r \in Requests, AddJob(r) PROVE Fresh'
  BY <1>3 DEF AddJob, Enqueue, Goto, table, bull
<1>4. ASSUME NEW r \in Requests, RetryJob(r) PROVE Fresh'
  BY <1>4 DEF RetryJob, Goto, table, bull
<1>5. ASSUME NEW r \in Requests, DispatchFails(r) PROVE Fresh'
  BY <1>5 DEF DispatchFails, Enqueue, Failure, Goto, table, bull
<1>6. ASSUME NEW r \in Requests, UndoDispatch(r) PROVE Fresh'
  BY <1>6 DEF UndoDispatch, FailRow, Goto, table, bull
<1>7. ASSUME NEW r \in Requests, RequestStops(r) PROVE Fresh'
  BY <1>7 DEF RequestStops, Dispatching, Failure, Goto, table, bull
<1>8. ASSUME NEW r \in Requests, BeginRetry(r) PROVE Fresh'
  BY <1>8 DEF BeginRetry, Goto, table, bull
<1>9. ASSUME NEW r \in Requests, LookAtQueue(r) PROVE Fresh'
  BY <1>9 DEF LookAtQueue, Goto, table, bull
<1>10. ASSUME NEW r \in Requests, PrepareRetry(r) PROVE Fresh'
  BY <1>10 DEF PrepareRetry, Goto, table, bull
<1>11. ASSUME NEW w \in Workers, TakeJob(w) PROVE Fresh'
  BY <1>11 DEF TakeJob, Goto, table, bull
<1>12. ASSUME NEW w \in Workers, ClaimJob(w) PROVE Fresh'
  BY <1>12 DEF ClaimJob, Claimable, Goto, table, bull
<1>13. ASSUME NEW w \in Workers, RecordStart(w) PROVE Fresh'
  BY <1>13 DEF RecordStart, Goto, table, bull
<1>14. ASSUME NEW w \in Workers, CheckAccess(w) PROVE Fresh'
  BY <1>14 DEF CheckAccess, Goto, table, bull
<1>15. ASSUME NEW w \in Workers, TakeSnapshot(w) PROVE Fresh'
  BY <1>15 DEF TakeSnapshot, Discard, Goto, table, bull
<1>16. ASSUME NEW w \in Workers, Upload(w) PROVE Fresh'
  BY <1>16 DEF Upload, Discard, Goto, table, bull
<1>17. ASSUME NEW w \in Workers, CompleteJob(w) PROVE Fresh'
  BY <1>17 DEF CompleteJob, Discard, CompleteRow, Goto, table, bull
<1>18. ASSUME NEW w \in Workers, RecordCompletion(w) PROVE Fresh'
  BY <1>18 DEF RecordCompletion, Goto, table, bull
<1>19. ASSUME NEW w \in Workers, DeleteArtifact(w) PROVE Fresh'
  BY <1>19 DEF DeleteArtifact, Goto, table, bull
<1>20. ASSUME NEW w \in Workers, FailJob(w) PROVE Fresh'
  BY <1>20 DEF FailJob, FailRow, Goto, table, bull
<1>21. ASSUME NEW w \in Workers, RecordFailure(w) PROVE Fresh'
  BY <1>21 DEF RecordFailure, Goto, table, bull
<1>22. ASSUME NEW w \in Workers, ReturnJob(w) PROVE Fresh'
  BY <1>22 DEF ReturnJob, Forget, Goto, table, bull
<1>23. ASSUME NEW w \in Workers, ThrowJob(w) PROVE Fresh'
  BY <1>23 DEF ThrowJob, Forget, Goto, table, bull
<1>24. ASSUME NEW w \in Workers, StartFails(w) PROVE Fresh'
  BY <1>24 DEF StartFails, Failure, Claimable, Moves, Goto, table, bull
<1>25. ASSUME NEW w \in Workers, AccessFails(w) PROVE Fresh'
  BY <1>25 DEF AccessFails, Failure, Goto, table, bull
<1>26. ASSUME NEW w \in Workers, ExportFails(w) PROVE Fresh'
  BY <1>26 DEF ExportFails, Failure, Discard, CompleteRow, Goto, table, bull
<1>27. ASSUME NEW w \in Workers, DeleteFails(w) PROVE Fresh'
  BY <1>27 DEF DeleteFails, Failure, Goto, table, bull
<1>28. ASSUME NEW w \in Workers, ReportFails(w) PROVE Fresh'
  BY <1>28 DEF ReportFails, Failure, Goto, table, bull
<1>29. ASSUME NEW w \in Workers, WorkerStops(w) PROVE Fresh'
  BY <1>29 DEF WorkerStops, LostWith, Failure, Forget, Goto, table, bull
<1>30. CASE CancelJob
  BY <1>30 DEF CancelJob, Moves, table, bull
<1>31. CASE Stall
  BY <1>31 DEF Stall, table, bull
<1>32. CASE DelayEnds
  BY <1>32 DEF DelayEnds, table, bull
<1>33. CASE ForgetFailed
  BY <1>33 DEF ForgetFailed, table, bull
<1>34. CASE PassTTL
  BY <1>34 DEF PassTTL, table, bull
<1>35. CASE ExpireCompleted
  BY <1>35 DEF ExpireCompleted, Moves, table, bull
<1>36. CASE ListExpired
  BY <1>36 DEF ListExpired, table, bull
<1>37. CASE DeleteExpired
  BY <1>37 DEF DeleteExpired, table, bull
<1>38. CASE ClearKey
  BY <1>38 DEF ClearKey, table, bull
<1>39. CASE CleanupFails
  BY <1>39 DEF CleanupFails, Failure, table, bull
<1>40. CASE UNCHANGED vars
  BY <1>40 DEF vars, table, bull
<1> QED
  BY <1>1, <1>2, <1>3, <1>4, <1>5, <1>6, <1>7, <1>8, <1>9, <1>10, <1>11, <1>12, <1>13,
     <1>14, <1>15, <1>16, <1>17, <1>18, <1>19, <1>20, <1>21, <1>22, <1>23, <1>24, <1>25,
     <1>26, <1>27, <1>28, <1>29, <1>30, <1>31, <1>32, <1>33, <1>34, <1>35, <1>36, <1>37,
     <1>38, <1>39, <1>40 DEF Next, RequestStep, WorkerStep, WorkerFails, Cleanup

LEMMA OwnedStep ==
  ASSUME TypeOK, OwnedIsActive, [Next]_vars
  PROVE  OwnedIsActive'
<1> USE ExportAssumption DEF TypeOK, Processes, OwnedIsActive
<1>1. ASSUME NEW r \in Requests, CreateJob(r) PROVE OwnedIsActive'
  BY <1>1 DEF CreateJob, Moves, Goto, table, bull
<1>2. ASSUME NEW r \in Requests, RecordRequest(r) PROVE OwnedIsActive'
  BY <1>2 DEF RecordRequest, Goto, table, bull
<1>3. ASSUME NEW r \in Requests, AddJob(r) PROVE OwnedIsActive'
  BY <1>3 DEF AddJob, Enqueue, Goto, table, bull
<1>4. ASSUME NEW r \in Requests, RetryJob(r) PROVE OwnedIsActive'
  BY <1>4 DEF RetryJob, Goto, table, bull
<1>5. ASSUME NEW r \in Requests, DispatchFails(r) PROVE OwnedIsActive'
  BY <1>5 DEF DispatchFails, Enqueue, Failure, Goto, table, bull
<1>6. ASSUME NEW r \in Requests, UndoDispatch(r) PROVE OwnedIsActive'
  BY <1>6 DEF UndoDispatch, FailRow, Goto, table, bull
<1>7. ASSUME NEW r \in Requests, RequestStops(r) PROVE OwnedIsActive'
  BY <1>7 DEF RequestStops, Dispatching, Failure, Goto, table, bull
<1>8. ASSUME NEW r \in Requests, BeginRetry(r) PROVE OwnedIsActive'
  BY <1>8 DEF BeginRetry, Goto, table, bull
<1>9. ASSUME NEW r \in Requests, LookAtQueue(r) PROVE OwnedIsActive'
  BY <1>9 DEF LookAtQueue, Goto, table, bull
<1>10. ASSUME NEW r \in Requests, PrepareRetry(r) PROVE OwnedIsActive'
  BY <1>10 DEF PrepareRetry, Goto, table, bull
<1>11. ASSUME NEW w \in Workers, TakeJob(w) PROVE OwnedIsActive'
  BY <1>11 DEF TakeJob, Goto, table, bull
<1>12. ASSUME NEW w \in Workers, ClaimJob(w) PROVE OwnedIsActive'
  BY <1>12 DEF ClaimJob, Claimable, Goto, table, bull
<1>13. ASSUME NEW w \in Workers, RecordStart(w) PROVE OwnedIsActive'
  BY <1>13 DEF RecordStart, Goto, table, bull
<1>14. ASSUME NEW w \in Workers, CheckAccess(w) PROVE OwnedIsActive'
  BY <1>14 DEF CheckAccess, Goto, table, bull
<1>15. ASSUME NEW w \in Workers, TakeSnapshot(w) PROVE OwnedIsActive'
  BY <1>15 DEF TakeSnapshot, Discard, Goto, table, bull
<1>16. ASSUME NEW w \in Workers, Upload(w) PROVE OwnedIsActive'
  BY <1>16 DEF Upload, Discard, Goto, table, bull
<1>17. ASSUME NEW w \in Workers, CompleteJob(w) PROVE OwnedIsActive'
  BY <1>17 DEF CompleteJob, Discard, CompleteRow, Goto, table, bull
<1>18. ASSUME NEW w \in Workers, RecordCompletion(w) PROVE OwnedIsActive'
  BY <1>18 DEF RecordCompletion, Goto, table, bull
<1>19. ASSUME NEW w \in Workers, DeleteArtifact(w) PROVE OwnedIsActive'
  BY <1>19 DEF DeleteArtifact, Goto, table, bull
<1>20. ASSUME NEW w \in Workers, FailJob(w) PROVE OwnedIsActive'
  BY <1>20 DEF FailJob, FailRow, Goto, table, bull
<1>21. ASSUME NEW w \in Workers, RecordFailure(w) PROVE OwnedIsActive'
  BY <1>21 DEF RecordFailure, Goto, table, bull
<1>22. ASSUME NEW w \in Workers, ReturnJob(w) PROVE OwnedIsActive'
  BY <1>22 DEF ReturnJob, Forget, Goto, table, bull
<1>23. ASSUME NEW w \in Workers, ThrowJob(w) PROVE OwnedIsActive'
  BY <1>23 DEF ThrowJob, Forget, Goto, table, bull
<1>24. ASSUME NEW w \in Workers, StartFails(w) PROVE OwnedIsActive'
  BY <1>24 DEF StartFails, Failure, Claimable, Moves, Goto, table, bull
<1>25. ASSUME NEW w \in Workers, AccessFails(w) PROVE OwnedIsActive'
  BY <1>25 DEF AccessFails, Failure, Goto, table, bull
<1>26. ASSUME NEW w \in Workers, ExportFails(w) PROVE OwnedIsActive'
  BY <1>26 DEF ExportFails, Failure, Discard, CompleteRow, Goto, table, bull
<1>27. ASSUME NEW w \in Workers, DeleteFails(w) PROVE OwnedIsActive'
  BY <1>27 DEF DeleteFails, Failure, Goto, table, bull
<1>28. ASSUME NEW w \in Workers, ReportFails(w) PROVE OwnedIsActive'
  BY <1>28 DEF ReportFails, Failure, Goto, table, bull
<1>29. ASSUME NEW w \in Workers, WorkerStops(w) PROVE OwnedIsActive'
  BY <1>29 DEF WorkerStops, LostWith, Failure, Forget, Goto, table, bull
<1>30. CASE CancelJob
  BY <1>30 DEF CancelJob, Moves, table, bull
<1>31. CASE Stall
  BY <1>31 DEF Stall, table, bull
<1>32. CASE DelayEnds
  BY <1>32 DEF DelayEnds, table, bull
<1>33. CASE ForgetFailed
  BY <1>33 DEF ForgetFailed, table, bull
<1>34. CASE PassTTL
  BY <1>34 DEF PassTTL, table, bull
<1>35. CASE ExpireCompleted
  BY <1>35 DEF ExpireCompleted, Moves, table, bull
<1>36. CASE ListExpired
  BY <1>36 DEF ListExpired, table, bull
<1>37. CASE DeleteExpired
  BY <1>37 DEF DeleteExpired, table, bull
<1>38. CASE ClearKey
  BY <1>38 DEF ClearKey, table, bull
<1>39. CASE CleanupFails
  BY <1>39 DEF CleanupFails, Failure, table, bull
<1>40. CASE UNCHANGED vars
  BY <1>40 DEF vars, table, bull
<1> QED
  BY <1>1, <1>2, <1>3, <1>4, <1>5, <1>6, <1>7, <1>8, <1>9, <1>10, <1>11, <1>12, <1>13,
     <1>14, <1>15, <1>16, <1>17, <1>18, <1>19, <1>20, <1>21, <1>22, <1>23, <1>24, <1>25,
     <1>26, <1>27, <1>28, <1>29, <1>30, <1>31, <1>32, <1>33, <1>34, <1>35, <1>36, <1>37,
     <1>38, <1>39, <1>40 DEF Next, RequestStep, WorkerStep, WorkerFails, Cleanup

LEMMA PendingStep ==
  ASSUME TypeOK, Fresh, PendingIsQueued, OwnedIsActive, [Next]_vars
  PROVE  PendingIsQueued'
<1> USE ExportAssumption DEF TypeOK, Processes, Fresh, PendingIsQueued, OwnedIsActive
<1>1. ASSUME NEW r \in Requests, CreateJob(r) PROVE PendingIsQueued'
  BY <1>1 DEF CreateJob, Moves, Goto, table, bull
<1>2. ASSUME NEW r \in Requests, RecordRequest(r) PROVE PendingIsQueued'
  BY <1>2 DEF RecordRequest, Goto, table, bull
<1>3. ASSUME NEW r \in Requests, AddJob(r) PROVE PendingIsQueued'
  BY <1>3 DEF AddJob, Enqueue, Goto, table, bull
<1>4. ASSUME NEW r \in Requests, RetryJob(r) PROVE PendingIsQueued'
  BY <1>4 DEF RetryJob, Goto, table, bull
<1>5. ASSUME NEW r \in Requests, DispatchFails(r) PROVE PendingIsQueued'
  BY <1>5 DEF DispatchFails, Enqueue, Failure, Goto, table, bull
<1>6. ASSUME NEW r \in Requests, UndoDispatch(r) PROVE PendingIsQueued'
  BY <1>6 DEF UndoDispatch, FailRow, Goto, table, bull
<1>7. ASSUME NEW r \in Requests, RequestStops(r) PROVE PendingIsQueued'
  BY <1>7 DEF RequestStops, Dispatching, Failure, Goto, table, bull
<1>8. ASSUME NEW r \in Requests, BeginRetry(r) PROVE PendingIsQueued'
  BY <1>8 DEF BeginRetry, Goto, table, bull
<1>9. ASSUME NEW r \in Requests, LookAtQueue(r) PROVE PendingIsQueued'
  BY <1>9 DEF LookAtQueue, Goto, table, bull
<1>10. ASSUME NEW r \in Requests, PrepareRetry(r) PROVE PendingIsQueued'
  BY <1>10 DEF PrepareRetry, Goto, table, bull
<1>11. ASSUME NEW w \in Workers, TakeJob(w) PROVE PendingIsQueued'
  BY <1>11 DEF TakeJob, Goto, table, bull
<1>12. ASSUME NEW w \in Workers, ClaimJob(w) PROVE PendingIsQueued'
  BY <1>12 DEF ClaimJob, Claimable, Goto, table, bull
<1>13. ASSUME NEW w \in Workers, RecordStart(w) PROVE PendingIsQueued'
  BY <1>13 DEF RecordStart, Goto, table, bull
<1>14. ASSUME NEW w \in Workers, CheckAccess(w) PROVE PendingIsQueued'
  BY <1>14 DEF CheckAccess, Goto, table, bull
<1>15. ASSUME NEW w \in Workers, TakeSnapshot(w) PROVE PendingIsQueued'
  BY <1>15 DEF TakeSnapshot, Discard, Goto, table, bull
<1>16. ASSUME NEW w \in Workers, Upload(w) PROVE PendingIsQueued'
  BY <1>16 DEF Upload, Discard, Goto, table, bull
<1>17. ASSUME NEW w \in Workers, CompleteJob(w) PROVE PendingIsQueued'
  BY <1>17 DEF CompleteJob, Discard, CompleteRow, Goto, table, bull
<1>18. ASSUME NEW w \in Workers, RecordCompletion(w) PROVE PendingIsQueued'
  BY <1>18 DEF RecordCompletion, Goto, table, bull
<1>19. ASSUME NEW w \in Workers, DeleteArtifact(w) PROVE PendingIsQueued'
  BY <1>19 DEF DeleteArtifact, Goto, table, bull
<1>20. ASSUME NEW w \in Workers, FailJob(w) PROVE PendingIsQueued'
  BY <1>20 DEF FailJob, FailRow, Goto, table, bull
<1>21. ASSUME NEW w \in Workers, RecordFailure(w) PROVE PendingIsQueued'
  BY <1>21 DEF RecordFailure, Goto, table, bull
<1>22. ASSUME NEW w \in Workers, ReturnJob(w) PROVE PendingIsQueued'
  BY <1>22 DEF ReturnJob, Forget, Goto, table, bull
<1>23. ASSUME NEW w \in Workers, ThrowJob(w) PROVE PendingIsQueued'
  BY <1>23 DEF ThrowJob, Forget, Goto, table, bull
<1>24. ASSUME NEW w \in Workers, StartFails(w) PROVE PendingIsQueued'
  BY <1>24 DEF StartFails, Failure, Claimable, Moves, Goto, table, bull
<1>25. ASSUME NEW w \in Workers, AccessFails(w) PROVE PendingIsQueued'
  BY <1>25 DEF AccessFails, Failure, Goto, table, bull
<1>26. ASSUME NEW w \in Workers, ExportFails(w) PROVE PendingIsQueued'
  BY <1>26 DEF ExportFails, Failure, Discard, CompleteRow, Goto, table, bull
<1>27. ASSUME NEW w \in Workers, DeleteFails(w) PROVE PendingIsQueued'
  BY <1>27 DEF DeleteFails, Failure, Goto, table, bull
<1>28. ASSUME NEW w \in Workers, ReportFails(w) PROVE PendingIsQueued'
  BY <1>28 DEF ReportFails, Failure, Goto, table, bull
<1>29. ASSUME NEW w \in Workers, WorkerStops(w) PROVE PendingIsQueued'
  <2>1. \A v \in Workers \ {w} : step'[v] = step[v]
    BY <1>29 DEF WorkerStops, Forget, Goto
  <2>2. UNCHANGED <<row, key, file, queue, cleaning>>
    BY <1>29 DEF WorkerStops, table, bull
  <2> QED
    BY <1>29, <2>1, <2>2, LostEffect DEF WorkerStops, Forget, Goto
<1>30. CASE CancelJob
  BY <1>30 DEF CancelJob, Moves, table, bull
<1>31. CASE Stall
  BY <1>31 DEF Stall, table, bull
<1>32. CASE DelayEnds
  BY <1>32 DEF DelayEnds, table, bull
<1>33. CASE ForgetFailed
  BY <1>33 DEF ForgetFailed, table, bull
<1>34. CASE PassTTL
  BY <1>34 DEF PassTTL, table, bull
<1>35. CASE ExpireCompleted
  BY <1>35 DEF ExpireCompleted, Moves, table, bull
<1>36. CASE ListExpired
  BY <1>36 DEF ListExpired, table, bull
<1>37. CASE DeleteExpired
  BY <1>37 DEF DeleteExpired, table, bull
<1>38. CASE ClearKey
  BY <1>38 DEF ClearKey, table, bull
<1>39. CASE CleanupFails
  BY <1>39 DEF CleanupFails, Failure, table, bull
<1>40. CASE UNCHANGED vars
  BY <1>40 DEF vars, table, bull
<1> QED
  BY <1>1, <1>2, <1>3, <1>4, <1>5, <1>6, <1>7, <1>8, <1>9, <1>10, <1>11, <1>12, <1>13,
     <1>14, <1>15, <1>16, <1>17, <1>18, <1>19, <1>20, <1>21, <1>22, <1>23, <1>24, <1>25,
     <1>26, <1>27, <1>28, <1>29, <1>30, <1>31, <1>32, <1>33, <1>34, <1>35, <1>36, <1>37,
     <1>38, <1>39, <1>40 DEF Next, RequestStep, WorkerStep, WorkerFails, Cleanup

LEMMA RunningStep ==
  ASSUME TypeOK, RunningIsWorkedOn, [Next]_vars
  PROVE  RunningIsWorkedOn'
<1> USE ExportAssumption DEF TypeOK, Processes, RunningIsWorkedOn, Working, Holding
<1>1. ASSUME NEW r \in Requests, CreateJob(r) PROVE RunningIsWorkedOn'
  BY <1>1 DEF CreateJob, Moves, Goto, table, bull
<1>2. ASSUME NEW r \in Requests, RecordRequest(r) PROVE RunningIsWorkedOn'
  BY <1>2 DEF RecordRequest, Goto, table, bull
<1>3. ASSUME NEW r \in Requests, AddJob(r) PROVE RunningIsWorkedOn'
  BY <1>3 DEF AddJob, Enqueue, Goto, table, bull
<1>4. ASSUME NEW r \in Requests, RetryJob(r) PROVE RunningIsWorkedOn'
  BY <1>4 DEF RetryJob, Goto, table, bull
<1>5. ASSUME NEW r \in Requests, DispatchFails(r) PROVE RunningIsWorkedOn'
  BY <1>5 DEF DispatchFails, Enqueue, Failure, Goto, table, bull
<1>6. ASSUME NEW r \in Requests, UndoDispatch(r) PROVE RunningIsWorkedOn'
  BY <1>6 DEF UndoDispatch, FailRow, Goto, table, bull
<1>7. ASSUME NEW r \in Requests, RequestStops(r) PROVE RunningIsWorkedOn'
  BY <1>7 DEF RequestStops, Dispatching, Failure, Goto, table, bull
<1>8. ASSUME NEW r \in Requests, BeginRetry(r) PROVE RunningIsWorkedOn'
  BY <1>8 DEF BeginRetry, Goto, table, bull
<1>9. ASSUME NEW r \in Requests, LookAtQueue(r) PROVE RunningIsWorkedOn'
  BY <1>9 DEF LookAtQueue, Goto, table, bull
<1>10. ASSUME NEW r \in Requests, PrepareRetry(r) PROVE RunningIsWorkedOn'
  BY <1>10 DEF PrepareRetry, Goto, table, bull
<1>11. ASSUME NEW w \in Workers, TakeJob(w) PROVE RunningIsWorkedOn'
  BY <1>11 DEF TakeJob, Goto, table, bull
<1>12. ASSUME NEW w \in Workers, ClaimJob(w) PROVE RunningIsWorkedOn'
  BY <1>12 DEF ClaimJob, Claimable, Goto, table, bull
<1>13. ASSUME NEW w \in Workers, RecordStart(w) PROVE RunningIsWorkedOn'
  BY <1>13 DEF RecordStart, Goto, table, bull
<1>14. ASSUME NEW w \in Workers, CheckAccess(w) PROVE RunningIsWorkedOn'
  BY <1>14 DEF CheckAccess, Goto, table, bull
<1>15. ASSUME NEW w \in Workers, TakeSnapshot(w) PROVE RunningIsWorkedOn'
  BY <1>15 DEF TakeSnapshot, Discard, Goto, table, bull
<1>16. ASSUME NEW w \in Workers, Upload(w) PROVE RunningIsWorkedOn'
  BY <1>16 DEF Upload, Discard, Goto, table, bull
<1>17. ASSUME NEW w \in Workers, CompleteJob(w) PROVE RunningIsWorkedOn'
  BY <1>17 DEF CompleteJob, Discard, CompleteRow, Goto, table, bull
<1>18. ASSUME NEW w \in Workers, RecordCompletion(w) PROVE RunningIsWorkedOn'
  BY <1>18 DEF RecordCompletion, Goto, table, bull
<1>19. ASSUME NEW w \in Workers, DeleteArtifact(w) PROVE RunningIsWorkedOn'
  BY <1>19 DEF DeleteArtifact, Goto, table, bull
<1>20. ASSUME NEW w \in Workers, FailJob(w) PROVE RunningIsWorkedOn'
  BY <1>20 DEF FailJob, FailRow, Goto, table, bull
<1>21. ASSUME NEW w \in Workers, RecordFailure(w) PROVE RunningIsWorkedOn'
  BY <1>21 DEF RecordFailure, Goto, table, bull
<1>22. ASSUME NEW w \in Workers, ReturnJob(w) PROVE RunningIsWorkedOn'
  BY <1>22 DEF ReturnJob, Forget, Goto, table, bull
<1>23. ASSUME NEW w \in Workers, ThrowJob(w) PROVE RunningIsWorkedOn'
  BY <1>23 DEF ThrowJob, Forget, Goto, table, bull
<1>24. ASSUME NEW w \in Workers, StartFails(w) PROVE RunningIsWorkedOn'
  BY <1>24 DEF StartFails, Failure, Claimable, Moves, Goto, table, bull
<1>25. ASSUME NEW w \in Workers, AccessFails(w) PROVE RunningIsWorkedOn'
  BY <1>25 DEF AccessFails, Failure, Goto, table, bull
<1>26. ASSUME NEW w \in Workers, ExportFails(w) PROVE RunningIsWorkedOn'
  BY <1>26 DEF ExportFails, Failure, Discard, CompleteRow, Goto, table, bull
<1>27. ASSUME NEW w \in Workers, DeleteFails(w) PROVE RunningIsWorkedOn'
  BY <1>27 DEF DeleteFails, Failure, Goto, table, bull
<1>28. ASSUME NEW w \in Workers, ReportFails(w) PROVE RunningIsWorkedOn'
  BY <1>28 DEF ReportFails, Failure, Goto, table, bull
<1>29. ASSUME NEW w \in Workers, WorkerStops(w) PROVE RunningIsWorkedOn'
  <2>1. \A v \in Workers \ {w} : step'[v] = step[v]
    BY <1>29 DEF WorkerStops, Forget, Goto
  <2>2. UNCHANGED <<row, key, file, queue, cleaning>>
    BY <1>29 DEF WorkerStops, table, bull
  <2> QED
    BY <1>29, <2>1, <2>2, LostEffect DEF WorkerStops, Forget, Goto
<1>30. CASE CancelJob
  BY <1>30 DEF CancelJob, Moves, table, bull
<1>31. CASE Stall
  BY <1>31 DEF Stall, table, bull
<1>32. CASE DelayEnds
  BY <1>32 DEF DelayEnds, table, bull
<1>33. CASE ForgetFailed
  BY <1>33 DEF ForgetFailed, table, bull
<1>34. CASE PassTTL
  BY <1>34 DEF PassTTL, table, bull
<1>35. CASE ExpireCompleted
  BY <1>35 DEF ExpireCompleted, Moves, table, bull
<1>36. CASE ListExpired
  BY <1>36 DEF ListExpired, table, bull
<1>37. CASE DeleteExpired
  BY <1>37 DEF DeleteExpired, table, bull
<1>38. CASE ClearKey
  BY <1>38 DEF ClearKey, table, bull
<1>39. CASE CleanupFails
  BY <1>39 DEF CleanupFails, Failure, table, bull
<1>40. CASE UNCHANGED vars
  BY <1>40 DEF vars, table, bull
<1> QED
  BY <1>1, <1>2, <1>3, <1>4, <1>5, <1>6, <1>7, <1>8, <1>9, <1>10, <1>11, <1>12, <1>13,
     <1>14, <1>15, <1>16, <1>17, <1>18, <1>19, <1>20, <1>21, <1>22, <1>23, <1>24, <1>25,
     <1>26, <1>27, <1>28, <1>29, <1>30, <1>31, <1>32, <1>33, <1>34, <1>35, <1>36, <1>37,
     <1>38, <1>39, <1>40 DEF Next, RequestStep, WorkerStep, WorkerFails, Cleanup

LEMMA OneHolderStep ==
  ASSUME TypeOK, OneHolder, [Next]_vars
  PROVE  OneHolder'
<1> USE ExportAssumption DEF TypeOK, Processes, OneHolder, Clean, Holding
<1>1. ASSUME NEW r \in Requests, CreateJob(r) PROVE OneHolder'
  BY <1>1 DEF CreateJob, Moves, Goto, table, bull
<1>2. ASSUME NEW r \in Requests, RecordRequest(r) PROVE OneHolder'
  BY <1>2 DEF RecordRequest, Goto, table, bull
<1>3. ASSUME NEW r \in Requests, AddJob(r) PROVE OneHolder'
  BY <1>3 DEF AddJob, Enqueue, Goto, table, bull
<1>4. ASSUME NEW r \in Requests, RetryJob(r) PROVE OneHolder'
  BY <1>4 DEF RetryJob, Goto, table, bull
<1>5. ASSUME NEW r \in Requests, DispatchFails(r) PROVE OneHolder'
  BY <1>5 DEF DispatchFails, Enqueue, Failure, Goto, table, bull
<1>6. ASSUME NEW r \in Requests, UndoDispatch(r) PROVE OneHolder'
  BY <1>6 DEF UndoDispatch, FailRow, Goto, table, bull
<1>7. ASSUME NEW r \in Requests, RequestStops(r) PROVE OneHolder'
  BY <1>7 DEF RequestStops, Dispatching, Failure, Goto, table, bull
<1>8. ASSUME NEW r \in Requests, BeginRetry(r) PROVE OneHolder'
  BY <1>8 DEF BeginRetry, Goto, table, bull
<1>9. ASSUME NEW r \in Requests, LookAtQueue(r) PROVE OneHolder'
  BY <1>9 DEF LookAtQueue, Goto, table, bull
<1>10. ASSUME NEW r \in Requests, PrepareRetry(r) PROVE OneHolder'
  BY <1>10 DEF PrepareRetry, Goto, table, bull
<1>11. ASSUME NEW w \in Workers, TakeJob(w) PROVE OneHolder'
  BY <1>11 DEF TakeJob, Goto, table, bull
<1>12. ASSUME NEW w \in Workers, ClaimJob(w) PROVE OneHolder'
  BY <1>12 DEF ClaimJob, Claimable, Goto, table, bull
<1>13. ASSUME NEW w \in Workers, RecordStart(w) PROVE OneHolder'
  BY <1>13 DEF RecordStart, Goto, table, bull
<1>14. ASSUME NEW w \in Workers, CheckAccess(w) PROVE OneHolder'
  BY <1>14 DEF CheckAccess, Goto, table, bull
<1>15. ASSUME NEW w \in Workers, TakeSnapshot(w) PROVE OneHolder'
  BY <1>15 DEF TakeSnapshot, Discard, Goto, table, bull
<1>16. ASSUME NEW w \in Workers, Upload(w) PROVE OneHolder'
  BY <1>16 DEF Upload, Discard, Goto, table, bull
<1>17. ASSUME NEW w \in Workers, CompleteJob(w) PROVE OneHolder'
  BY <1>17 DEF CompleteJob, Discard, CompleteRow, Goto, table, bull
<1>18. ASSUME NEW w \in Workers, RecordCompletion(w) PROVE OneHolder'
  BY <1>18 DEF RecordCompletion, Goto, table, bull
<1>19. ASSUME NEW w \in Workers, DeleteArtifact(w) PROVE OneHolder'
  BY <1>19 DEF DeleteArtifact, Goto, table, bull
<1>20. ASSUME NEW w \in Workers, FailJob(w) PROVE OneHolder'
  BY <1>20 DEF FailJob, FailRow, Goto, table, bull
<1>21. ASSUME NEW w \in Workers, RecordFailure(w) PROVE OneHolder'
  BY <1>21 DEF RecordFailure, Goto, table, bull
<1>22. ASSUME NEW w \in Workers, ReturnJob(w) PROVE OneHolder'
  BY <1>22 DEF ReturnJob, Forget, Goto, table, bull
<1>23. ASSUME NEW w \in Workers, ThrowJob(w) PROVE OneHolder'
  BY <1>23 DEF ThrowJob, Forget, Goto, table, bull
<1>24. ASSUME NEW w \in Workers, StartFails(w) PROVE OneHolder'
  BY <1>24 DEF StartFails, Failure, Claimable, Moves, Goto, table, bull
<1>25. ASSUME NEW w \in Workers, AccessFails(w) PROVE OneHolder'
  BY <1>25 DEF AccessFails, Failure, Goto, table, bull
<1>26. ASSUME NEW w \in Workers, ExportFails(w) PROVE OneHolder'
  BY <1>26 DEF ExportFails, Failure, Discard, CompleteRow, Goto, table, bull
<1>27. ASSUME NEW w \in Workers, DeleteFails(w) PROVE OneHolder'
  BY <1>27 DEF DeleteFails, Failure, Goto, table, bull
<1>28. ASSUME NEW w \in Workers, ReportFails(w) PROVE OneHolder'
  BY <1>28 DEF ReportFails, Failure, Goto, table, bull
<1>29. ASSUME NEW w \in Workers, WorkerStops(w) PROVE OneHolder'
  BY <1>29 DEF WorkerStops, LostWith, Failure, Forget, Goto, table, bull
<1>30. CASE CancelJob
  BY <1>30 DEF CancelJob, Moves, table, bull
<1>31. CASE Stall
  BY <1>31 DEF Stall, table, bull
<1>32. CASE DelayEnds
  BY <1>32 DEF DelayEnds, table, bull
<1>33. CASE ForgetFailed
  BY <1>33 DEF ForgetFailed, table, bull
<1>34. CASE PassTTL
  BY <1>34 DEF PassTTL, table, bull
<1>35. CASE ExpireCompleted
  BY <1>35 DEF ExpireCompleted, Moves, table, bull
<1>36. CASE ListExpired
  BY <1>36 DEF ListExpired, table, bull
<1>37. CASE DeleteExpired
  BY <1>37 DEF DeleteExpired, table, bull
<1>38. CASE ClearKey
  BY <1>38 DEF ClearKey, table, bull
<1>39. CASE CleanupFails
  BY <1>39 DEF CleanupFails, Failure, table, bull
<1>40. CASE UNCHANGED vars
  BY <1>40 DEF vars, table, bull
<1> QED
  BY <1>1, <1>2, <1>3, <1>4, <1>5, <1>6, <1>7, <1>8, <1>9, <1>10, <1>11, <1>12, <1>13,
     <1>14, <1>15, <1>16, <1>17, <1>18, <1>19, <1>20, <1>21, <1>22, <1>23, <1>24, <1>25,
     <1>26, <1>27, <1>28, <1>29, <1>30, <1>31, <1>32, <1>33, <1>34, <1>35, <1>36, <1>37,
     <1>38, <1>39, <1>40 DEF Next, RequestStep, WorkerStep, WorkerFails, Cleanup

LEMMA ClosedStep ==
  ASSUME TypeOK, OneHolder, ClosedAlone, [Next]_vars
  PROVE  ClosedAlone'
<1> USE ExportAssumption DEF TypeOK, Processes, OneHolder, ClosedAlone, Clean, Holding
<1>1. ASSUME NEW r \in Requests, CreateJob(r) PROVE ClosedAlone'
  BY <1>1 DEF CreateJob, Moves, Goto, table, bull
<1>2. ASSUME NEW r \in Requests, RecordRequest(r) PROVE ClosedAlone'
  BY <1>2 DEF RecordRequest, Goto, table, bull
<1>3. ASSUME NEW r \in Requests, AddJob(r) PROVE ClosedAlone'
  BY <1>3 DEF AddJob, Enqueue, Goto, table, bull
<1>4. ASSUME NEW r \in Requests, RetryJob(r) PROVE ClosedAlone'
  BY <1>4 DEF RetryJob, Goto, table, bull
<1>5. ASSUME NEW r \in Requests, DispatchFails(r) PROVE ClosedAlone'
  BY <1>5 DEF DispatchFails, Enqueue, Failure, Goto, table, bull
<1>6. ASSUME NEW r \in Requests, UndoDispatch(r) PROVE ClosedAlone'
  BY <1>6 DEF UndoDispatch, FailRow, Goto, table, bull
<1>7. ASSUME NEW r \in Requests, RequestStops(r) PROVE ClosedAlone'
  BY <1>7 DEF RequestStops, Dispatching, Failure, Goto, table, bull
<1>8. ASSUME NEW r \in Requests, BeginRetry(r) PROVE ClosedAlone'
  BY <1>8 DEF BeginRetry, Goto, table, bull
<1>9. ASSUME NEW r \in Requests, LookAtQueue(r) PROVE ClosedAlone'
  BY <1>9 DEF LookAtQueue, Goto, table, bull
<1>10. ASSUME NEW r \in Requests, PrepareRetry(r) PROVE ClosedAlone'
  BY <1>10 DEF PrepareRetry, Goto, table, bull
<1>11. ASSUME NEW w \in Workers, TakeJob(w) PROVE ClosedAlone'
  BY <1>11 DEF TakeJob, Goto, table, bull
<1>12. ASSUME NEW w \in Workers, ClaimJob(w) PROVE ClosedAlone'
  BY <1>12 DEF ClaimJob, Claimable, Goto, table, bull
<1>13. ASSUME NEW w \in Workers, RecordStart(w) PROVE ClosedAlone'
  BY <1>13 DEF RecordStart, Goto, table, bull
<1>14. ASSUME NEW w \in Workers, CheckAccess(w) PROVE ClosedAlone'
  BY <1>14 DEF CheckAccess, Goto, table, bull
<1>15. ASSUME NEW w \in Workers, TakeSnapshot(w) PROVE ClosedAlone'
  BY <1>15 DEF TakeSnapshot, Discard, Goto, table, bull
<1>16. ASSUME NEW w \in Workers, Upload(w) PROVE ClosedAlone'
  BY <1>16 DEF Upload, Discard, Goto, table, bull
<1>17. ASSUME NEW w \in Workers, CompleteJob(w) PROVE ClosedAlone'
  BY <1>17 DEF CompleteJob, Discard, CompleteRow, Goto, table, bull
<1>18. ASSUME NEW w \in Workers, RecordCompletion(w) PROVE ClosedAlone'
  BY <1>18 DEF RecordCompletion, Goto, table, bull
<1>19. ASSUME NEW w \in Workers, DeleteArtifact(w) PROVE ClosedAlone'
  BY <1>19 DEF DeleteArtifact, Goto, table, bull
<1>20. ASSUME NEW w \in Workers, FailJob(w) PROVE ClosedAlone'
  BY <1>20 DEF FailJob, FailRow, Goto, table, bull
<1>21. ASSUME NEW w \in Workers, RecordFailure(w) PROVE ClosedAlone'
  BY <1>21 DEF RecordFailure, Goto, table, bull
<1>22. ASSUME NEW w \in Workers, ReturnJob(w) PROVE ClosedAlone'
  BY <1>22 DEF ReturnJob, Forget, Goto, table, bull
<1>23. ASSUME NEW w \in Workers, ThrowJob(w) PROVE ClosedAlone'
  BY <1>23 DEF ThrowJob, Forget, Goto, table, bull
<1>24. ASSUME NEW w \in Workers, StartFails(w) PROVE ClosedAlone'
  BY <1>24 DEF StartFails, Failure, Claimable, Moves, Goto, table, bull
<1>25. ASSUME NEW w \in Workers, AccessFails(w) PROVE ClosedAlone'
  BY <1>25 DEF AccessFails, Failure, Goto, table, bull
<1>26. ASSUME NEW w \in Workers, ExportFails(w) PROVE ClosedAlone'
  BY <1>26 DEF ExportFails, Failure, Discard, CompleteRow, Goto, table, bull
<1>27. ASSUME NEW w \in Workers, DeleteFails(w) PROVE ClosedAlone'
  BY <1>27 DEF DeleteFails, Failure, Goto, table, bull
<1>28. ASSUME NEW w \in Workers, ReportFails(w) PROVE ClosedAlone'
  BY <1>28 DEF ReportFails, Failure, Goto, table, bull
<1>29. ASSUME NEW w \in Workers, WorkerStops(w) PROVE ClosedAlone'
  BY <1>29 DEF WorkerStops, LostWith, Failure, Forget, Goto, table, bull
<1>30. CASE CancelJob
  BY <1>30 DEF CancelJob, Moves, table, bull
<1>31. CASE Stall
  BY <1>31 DEF Stall, table, bull
<1>32. CASE DelayEnds
  BY <1>32 DEF DelayEnds, table, bull
<1>33. CASE ForgetFailed
  BY <1>33 DEF ForgetFailed, table, bull
<1>34. CASE PassTTL
  BY <1>34 DEF PassTTL, table, bull
<1>35. CASE ExpireCompleted
  BY <1>35 DEF ExpireCompleted, Moves, table, bull
<1>36. CASE ListExpired
  BY <1>36 DEF ListExpired, table, bull
<1>37. CASE DeleteExpired
  BY <1>37 DEF DeleteExpired, table, bull
<1>38. CASE ClearKey
  BY <1>38 DEF ClearKey, table, bull
<1>39. CASE CleanupFails
  BY <1>39 DEF CleanupFails, Failure, table, bull
<1>40. CASE UNCHANGED vars
  BY <1>40 DEF vars, table, bull
<1> QED
  BY <1>1, <1>2, <1>3, <1>4, <1>5, <1>6, <1>7, <1>8, <1>9, <1>10, <1>11, <1>12, <1>13,
     <1>14, <1>15, <1>16, <1>17, <1>18, <1>19, <1>20, <1>21, <1>22, <1>23, <1>24, <1>25,
     <1>26, <1>27, <1>28, <1>29, <1>30, <1>31, <1>32, <1>33, <1>34, <1>35, <1>36, <1>37,
     <1>38, <1>39, <1>40 DEF Next, RequestStep, WorkerStep, WorkerFails, Cleanup

LEMMA StoredStep ==
  ASSUME TypeOK, OneHolder, ClosedAlone, StoredBeforeCompletion, CleaningExpired, [Next]_vars
  PROVE  StoredBeforeCompletion'
<1> USE ExportAssumption DEF TypeOK, Processes, OneHolder, ClosedAlone,
      StoredBeforeCompletion, CleaningExpired, Clean, Holding
<1>1. ASSUME NEW r \in Requests, CreateJob(r) PROVE StoredBeforeCompletion'
  BY <1>1 DEF CreateJob, Moves, Goto, table, bull
<1>2. ASSUME NEW r \in Requests, RecordRequest(r) PROVE StoredBeforeCompletion'
  BY <1>2 DEF RecordRequest, Goto, table, bull
<1>3. ASSUME NEW r \in Requests, AddJob(r) PROVE StoredBeforeCompletion'
  BY <1>3 DEF AddJob, Enqueue, Goto, table, bull
<1>4. ASSUME NEW r \in Requests, RetryJob(r) PROVE StoredBeforeCompletion'
  BY <1>4 DEF RetryJob, Goto, table, bull
<1>5. ASSUME NEW r \in Requests, DispatchFails(r) PROVE StoredBeforeCompletion'
  BY <1>5 DEF DispatchFails, Enqueue, Failure, Goto, table, bull
<1>6. ASSUME NEW r \in Requests, UndoDispatch(r) PROVE StoredBeforeCompletion'
  BY <1>6 DEF UndoDispatch, FailRow, Goto, table, bull
<1>7. ASSUME NEW r \in Requests, RequestStops(r) PROVE StoredBeforeCompletion'
  BY <1>7 DEF RequestStops, Dispatching, Failure, Goto, table, bull
<1>8. ASSUME NEW r \in Requests, BeginRetry(r) PROVE StoredBeforeCompletion'
  BY <1>8 DEF BeginRetry, Goto, table, bull
<1>9. ASSUME NEW r \in Requests, LookAtQueue(r) PROVE StoredBeforeCompletion'
  BY <1>9 DEF LookAtQueue, Goto, table, bull
<1>10. ASSUME NEW r \in Requests, PrepareRetry(r) PROVE StoredBeforeCompletion'
  BY <1>10 DEF PrepareRetry, Goto, table, bull
<1>11. ASSUME NEW w \in Workers, TakeJob(w) PROVE StoredBeforeCompletion'
  BY <1>11 DEF TakeJob, Goto, table, bull
<1>12. ASSUME NEW w \in Workers, ClaimJob(w) PROVE StoredBeforeCompletion'
  BY <1>12 DEF ClaimJob, Claimable, Goto, table, bull
<1>13. ASSUME NEW w \in Workers, RecordStart(w) PROVE StoredBeforeCompletion'
  BY <1>13 DEF RecordStart, Goto, table, bull
<1>14. ASSUME NEW w \in Workers, CheckAccess(w) PROVE StoredBeforeCompletion'
  BY <1>14 DEF CheckAccess, Goto, table, bull
<1>15. ASSUME NEW w \in Workers, TakeSnapshot(w) PROVE StoredBeforeCompletion'
  BY <1>15 DEF TakeSnapshot, Discard, Goto, table, bull
<1>16. ASSUME NEW w \in Workers, Upload(w) PROVE StoredBeforeCompletion'
  BY <1>16 DEF Upload, Discard, Goto, table, bull
<1>17. ASSUME NEW w \in Workers, CompleteJob(w) PROVE StoredBeforeCompletion'
  BY <1>17 DEF CompleteJob, Discard, CompleteRow, Goto, table, bull
<1>18. ASSUME NEW w \in Workers, RecordCompletion(w) PROVE StoredBeforeCompletion'
  BY <1>18 DEF RecordCompletion, Goto, table, bull
<1>19. ASSUME NEW w \in Workers, DeleteArtifact(w) PROVE StoredBeforeCompletion'
  BY <1>19 DEF DeleteArtifact, Goto, table, bull
<1>20. ASSUME NEW w \in Workers, FailJob(w) PROVE StoredBeforeCompletion'
  BY <1>20 DEF FailJob, FailRow, Goto, table, bull
<1>21. ASSUME NEW w \in Workers, RecordFailure(w) PROVE StoredBeforeCompletion'
  BY <1>21 DEF RecordFailure, Goto, table, bull
<1>22. ASSUME NEW w \in Workers, ReturnJob(w) PROVE StoredBeforeCompletion'
  BY <1>22 DEF ReturnJob, Forget, Goto, table, bull
<1>23. ASSUME NEW w \in Workers, ThrowJob(w) PROVE StoredBeforeCompletion'
  BY <1>23 DEF ThrowJob, Forget, Goto, table, bull
<1>24. ASSUME NEW w \in Workers, StartFails(w) PROVE StoredBeforeCompletion'
  BY <1>24 DEF StartFails, Failure, Claimable, Moves, Goto, table, bull
<1>25. ASSUME NEW w \in Workers, AccessFails(w) PROVE StoredBeforeCompletion'
  BY <1>25 DEF AccessFails, Failure, Goto, table, bull
<1>26. ASSUME NEW w \in Workers, ExportFails(w) PROVE StoredBeforeCompletion'
  BY <1>26 DEF ExportFails, Failure, Discard, CompleteRow, Goto, table, bull
<1>27. ASSUME NEW w \in Workers, DeleteFails(w) PROVE StoredBeforeCompletion'
  BY <1>27 DEF DeleteFails, Failure, Goto, table, bull
<1>28. ASSUME NEW w \in Workers, ReportFails(w) PROVE StoredBeforeCompletion'
  BY <1>28 DEF ReportFails, Failure, Goto, table, bull
<1>29. ASSUME NEW w \in Workers, WorkerStops(w) PROVE StoredBeforeCompletion'
  BY <1>29 DEF WorkerStops, LostWith, Failure, Forget, Goto, table, bull
<1>30. CASE CancelJob
  BY <1>30 DEF CancelJob, Moves, table, bull
<1>31. CASE Stall
  BY <1>31 DEF Stall, table, bull
<1>32. CASE DelayEnds
  BY <1>32 DEF DelayEnds, table, bull
<1>33. CASE ForgetFailed
  BY <1>33 DEF ForgetFailed, table, bull
<1>34. CASE PassTTL
  BY <1>34 DEF PassTTL, table, bull
<1>35. CASE ExpireCompleted
  BY <1>35 DEF ExpireCompleted, Moves, table, bull
<1>36. CASE ListExpired
  BY <1>36 DEF ListExpired, table, bull
<1>37. CASE DeleteExpired
  BY <1>37 DEF DeleteExpired, table, bull
<1>38. CASE ClearKey
  BY <1>38 DEF ClearKey, table, bull
<1>39. CASE CleanupFails
  BY <1>39 DEF CleanupFails, Failure, table, bull
<1>40. CASE UNCHANGED vars
  BY <1>40 DEF vars, table, bull
<1> QED
  BY <1>1, <1>2, <1>3, <1>4, <1>5, <1>6, <1>7, <1>8, <1>9, <1>10, <1>11, <1>12, <1>13,
     <1>14, <1>15, <1>16, <1>17, <1>18, <1>19, <1>20, <1>21, <1>22, <1>23, <1>24, <1>25,
     <1>26, <1>27, <1>28, <1>29, <1>30, <1>31, <1>32, <1>33, <1>34, <1>35, <1>36, <1>37,
     <1>38, <1>39, <1>40 DEF Next, RequestStep, WorkerStep, WorkerFails, Cleanup

LEMMA DownloadableStep ==
  ASSUME TypeOK, OneHolder, ClosedAlone, StoredBeforeCompletion, CleaningExpired,
         CompletedIsDownloadable, [Next]_vars
  PROVE  CompletedIsDownloadable'
<1> USE ExportAssumption DEF TypeOK, Processes, ClosedAlone, StoredBeforeCompletion,
      CleaningExpired, CompletedIsDownloadable, Clean, Holding
<1>1. ASSUME NEW r \in Requests, CreateJob(r) PROVE CompletedIsDownloadable'
  BY <1>1 DEF CreateJob, Moves, Goto, table, bull
<1>2. ASSUME NEW r \in Requests, RecordRequest(r) PROVE CompletedIsDownloadable'
  BY <1>2 DEF RecordRequest, Goto, table, bull
<1>3. ASSUME NEW r \in Requests, AddJob(r) PROVE CompletedIsDownloadable'
  BY <1>3 DEF AddJob, Enqueue, Goto, table, bull
<1>4. ASSUME NEW r \in Requests, RetryJob(r) PROVE CompletedIsDownloadable'
  BY <1>4 DEF RetryJob, Goto, table, bull
<1>5. ASSUME NEW r \in Requests, DispatchFails(r) PROVE CompletedIsDownloadable'
  BY <1>5 DEF DispatchFails, Enqueue, Failure, Goto, table, bull
<1>6. ASSUME NEW r \in Requests, UndoDispatch(r) PROVE CompletedIsDownloadable'
  BY <1>6 DEF UndoDispatch, FailRow, Goto, table, bull
<1>7. ASSUME NEW r \in Requests, RequestStops(r) PROVE CompletedIsDownloadable'
  BY <1>7 DEF RequestStops, Dispatching, Failure, Goto, table, bull
<1>8. ASSUME NEW r \in Requests, BeginRetry(r) PROVE CompletedIsDownloadable'
  BY <1>8 DEF BeginRetry, Goto, table, bull
<1>9. ASSUME NEW r \in Requests, LookAtQueue(r) PROVE CompletedIsDownloadable'
  BY <1>9 DEF LookAtQueue, Goto, table, bull
<1>10. ASSUME NEW r \in Requests, PrepareRetry(r) PROVE CompletedIsDownloadable'
  BY <1>10 DEF PrepareRetry, Goto, table, bull
<1>11. ASSUME NEW w \in Workers, TakeJob(w) PROVE CompletedIsDownloadable'
  BY <1>11 DEF TakeJob, Goto, table, bull
<1>12. ASSUME NEW w \in Workers, ClaimJob(w) PROVE CompletedIsDownloadable'
  BY <1>12 DEF ClaimJob, Claimable, Goto, table, bull
<1>13. ASSUME NEW w \in Workers, RecordStart(w) PROVE CompletedIsDownloadable'
  BY <1>13 DEF RecordStart, Goto, table, bull
<1>14. ASSUME NEW w \in Workers, CheckAccess(w) PROVE CompletedIsDownloadable'
  BY <1>14 DEF CheckAccess, Goto, table, bull
<1>15. ASSUME NEW w \in Workers, TakeSnapshot(w) PROVE CompletedIsDownloadable'
  BY <1>15 DEF TakeSnapshot, Discard, Goto, table, bull
<1>16. ASSUME NEW w \in Workers, Upload(w) PROVE CompletedIsDownloadable'
  BY <1>16 DEF Upload, Discard, Goto, table, bull
<1>17. ASSUME NEW w \in Workers, CompleteJob(w) PROVE CompletedIsDownloadable'
  BY <1>17 DEF CompleteJob, Discard, CompleteRow, Goto, table, bull
<1>18. ASSUME NEW w \in Workers, RecordCompletion(w) PROVE CompletedIsDownloadable'
  BY <1>18 DEF RecordCompletion, Goto, table, bull
<1>19. ASSUME NEW w \in Workers, DeleteArtifact(w) PROVE CompletedIsDownloadable'
  BY <1>19 DEF DeleteArtifact, Goto, table, bull
<1>20. ASSUME NEW w \in Workers, FailJob(w) PROVE CompletedIsDownloadable'
  BY <1>20 DEF FailJob, FailRow, Goto, table, bull
<1>21. ASSUME NEW w \in Workers, RecordFailure(w) PROVE CompletedIsDownloadable'
  BY <1>21 DEF RecordFailure, Goto, table, bull
<1>22. ASSUME NEW w \in Workers, ReturnJob(w) PROVE CompletedIsDownloadable'
  BY <1>22 DEF ReturnJob, Forget, Goto, table, bull
<1>23. ASSUME NEW w \in Workers, ThrowJob(w) PROVE CompletedIsDownloadable'
  BY <1>23 DEF ThrowJob, Forget, Goto, table, bull
<1>24. ASSUME NEW w \in Workers, StartFails(w) PROVE CompletedIsDownloadable'
  BY <1>24 DEF StartFails, Failure, Claimable, Moves, Goto, table, bull
<1>25. ASSUME NEW w \in Workers, AccessFails(w) PROVE CompletedIsDownloadable'
  BY <1>25 DEF AccessFails, Failure, Goto, table, bull
<1>26. ASSUME NEW w \in Workers, ExportFails(w) PROVE CompletedIsDownloadable'
  BY <1>26 DEF ExportFails, Failure, Discard, CompleteRow, Goto, table, bull
<1>27. ASSUME NEW w \in Workers, DeleteFails(w) PROVE CompletedIsDownloadable'
  BY <1>27 DEF DeleteFails, Failure, Goto, table, bull
<1>28. ASSUME NEW w \in Workers, ReportFails(w) PROVE CompletedIsDownloadable'
  BY <1>28 DEF ReportFails, Failure, Goto, table, bull
<1>29. ASSUME NEW w \in Workers, WorkerStops(w) PROVE CompletedIsDownloadable'
  BY <1>29 DEF WorkerStops, LostWith, Failure, Forget, Goto, table, bull
<1>30. CASE CancelJob
  BY <1>30 DEF CancelJob, Moves, table, bull
<1>31. CASE Stall
  BY <1>31 DEF Stall, table, bull
<1>32. CASE DelayEnds
  BY <1>32 DEF DelayEnds, table, bull
<1>33. CASE ForgetFailed
  BY <1>33 DEF ForgetFailed, table, bull
<1>34. CASE PassTTL
  BY <1>34 DEF PassTTL, table, bull
<1>35. CASE ExpireCompleted
  BY <1>35 DEF ExpireCompleted, Moves, table, bull
<1>36. CASE ListExpired
  BY <1>36 DEF ListExpired, table, bull
<1>37. CASE DeleteExpired
  BY <1>37 DEF DeleteExpired, table, bull
<1>38. CASE ClearKey
  BY <1>38 DEF ClearKey, table, bull
<1>39. CASE CleanupFails
  BY <1>39 DEF CleanupFails, Failure, table, bull
<1>40. CASE UNCHANGED vars
  BY <1>40 DEF vars, table, bull
<1> QED
  BY <1>1, <1>2, <1>3, <1>4, <1>5, <1>6, <1>7, <1>8, <1>9, <1>10, <1>11, <1>12, <1>13,
     <1>14, <1>15, <1>16, <1>17, <1>18, <1>19, <1>20, <1>21, <1>22, <1>23, <1>24, <1>25,
     <1>26, <1>27, <1>28, <1>29, <1>30, <1>31, <1>32, <1>33, <1>34, <1>35, <1>36, <1>37,
     <1>38, <1>39, <1>40 DEF Next, RequestStep, WorkerStep, WorkerFails, Cleanup

LEMMA CleaningStep ==
  ASSUME TypeOK, CleaningExpired, [Next]_vars
  PROVE  CleaningExpired'
<1> USE ExportAssumption DEF TypeOK, Processes, CleaningExpired
<1>1. ASSUME NEW r \in Requests, CreateJob(r) PROVE CleaningExpired'
  BY <1>1 DEF CreateJob, Moves, Goto, table, bull
<1>2. ASSUME NEW r \in Requests, RecordRequest(r) PROVE CleaningExpired'
  BY <1>2 DEF RecordRequest, Goto, table, bull
<1>3. ASSUME NEW r \in Requests, AddJob(r) PROVE CleaningExpired'
  BY <1>3 DEF AddJob, Enqueue, Goto, table, bull
<1>4. ASSUME NEW r \in Requests, RetryJob(r) PROVE CleaningExpired'
  BY <1>4 DEF RetryJob, Goto, table, bull
<1>5. ASSUME NEW r \in Requests, DispatchFails(r) PROVE CleaningExpired'
  BY <1>5 DEF DispatchFails, Enqueue, Failure, Goto, table, bull
<1>6. ASSUME NEW r \in Requests, UndoDispatch(r) PROVE CleaningExpired'
  BY <1>6 DEF UndoDispatch, FailRow, Goto, table, bull
<1>7. ASSUME NEW r \in Requests, RequestStops(r) PROVE CleaningExpired'
  BY <1>7 DEF RequestStops, Dispatching, Failure, Goto, table, bull
<1>8. ASSUME NEW r \in Requests, BeginRetry(r) PROVE CleaningExpired'
  BY <1>8 DEF BeginRetry, Goto, table, bull
<1>9. ASSUME NEW r \in Requests, LookAtQueue(r) PROVE CleaningExpired'
  BY <1>9 DEF LookAtQueue, Goto, table, bull
<1>10. ASSUME NEW r \in Requests, PrepareRetry(r) PROVE CleaningExpired'
  BY <1>10 DEF PrepareRetry, Goto, table, bull
<1>11. ASSUME NEW w \in Workers, TakeJob(w) PROVE CleaningExpired'
  BY <1>11 DEF TakeJob, Goto, table, bull
<1>12. ASSUME NEW w \in Workers, ClaimJob(w) PROVE CleaningExpired'
  BY <1>12 DEF ClaimJob, Claimable, Goto, table, bull
<1>13. ASSUME NEW w \in Workers, RecordStart(w) PROVE CleaningExpired'
  BY <1>13 DEF RecordStart, Goto, table, bull
<1>14. ASSUME NEW w \in Workers, CheckAccess(w) PROVE CleaningExpired'
  BY <1>14 DEF CheckAccess, Goto, table, bull
<1>15. ASSUME NEW w \in Workers, TakeSnapshot(w) PROVE CleaningExpired'
  BY <1>15 DEF TakeSnapshot, Discard, Goto, table, bull
<1>16. ASSUME NEW w \in Workers, Upload(w) PROVE CleaningExpired'
  BY <1>16 DEF Upload, Discard, Goto, table, bull
<1>17. ASSUME NEW w \in Workers, CompleteJob(w) PROVE CleaningExpired'
  BY <1>17 DEF CompleteJob, Discard, CompleteRow, Goto, table, bull
<1>18. ASSUME NEW w \in Workers, RecordCompletion(w) PROVE CleaningExpired'
  BY <1>18 DEF RecordCompletion, Goto, table, bull
<1>19. ASSUME NEW w \in Workers, DeleteArtifact(w) PROVE CleaningExpired'
  BY <1>19 DEF DeleteArtifact, Goto, table, bull
<1>20. ASSUME NEW w \in Workers, FailJob(w) PROVE CleaningExpired'
  BY <1>20 DEF FailJob, FailRow, Goto, table, bull
<1>21. ASSUME NEW w \in Workers, RecordFailure(w) PROVE CleaningExpired'
  BY <1>21 DEF RecordFailure, Goto, table, bull
<1>22. ASSUME NEW w \in Workers, ReturnJob(w) PROVE CleaningExpired'
  BY <1>22 DEF ReturnJob, Forget, Goto, table, bull
<1>23. ASSUME NEW w \in Workers, ThrowJob(w) PROVE CleaningExpired'
  BY <1>23 DEF ThrowJob, Forget, Goto, table, bull
<1>24. ASSUME NEW w \in Workers, StartFails(w) PROVE CleaningExpired'
  BY <1>24 DEF StartFails, Failure, Claimable, Moves, Goto, table, bull
<1>25. ASSUME NEW w \in Workers, AccessFails(w) PROVE CleaningExpired'
  BY <1>25 DEF AccessFails, Failure, Goto, table, bull
<1>26. ASSUME NEW w \in Workers, ExportFails(w) PROVE CleaningExpired'
  BY <1>26 DEF ExportFails, Failure, Discard, CompleteRow, Goto, table, bull
<1>27. ASSUME NEW w \in Workers, DeleteFails(w) PROVE CleaningExpired'
  BY <1>27 DEF DeleteFails, Failure, Goto, table, bull
<1>28. ASSUME NEW w \in Workers, ReportFails(w) PROVE CleaningExpired'
  BY <1>28 DEF ReportFails, Failure, Goto, table, bull
<1>29. ASSUME NEW w \in Workers, WorkerStops(w) PROVE CleaningExpired'
  BY <1>29 DEF WorkerStops, LostWith, Failure, Forget, Goto, table, bull
<1>30. CASE CancelJob
  BY <1>30 DEF CancelJob, Moves, table, bull
<1>31. CASE Stall
  BY <1>31 DEF Stall, table, bull
<1>32. CASE DelayEnds
  BY <1>32 DEF DelayEnds, table, bull
<1>33. CASE ForgetFailed
  BY <1>33 DEF ForgetFailed, table, bull
<1>34. CASE PassTTL
  BY <1>34 DEF PassTTL, table, bull
<1>35. CASE ExpireCompleted
  BY <1>35 DEF ExpireCompleted, Moves, table, bull
<1>36. CASE ListExpired
  BY <1>36 DEF ListExpired, table, bull
<1>37. CASE DeleteExpired
  BY <1>37 DEF DeleteExpired, table, bull
<1>38. CASE ClearKey
  BY <1>38 DEF ClearKey, table, bull
<1>39. CASE CleanupFails
  BY <1>39 DEF CleanupFails, Failure, table, bull
<1>40. CASE UNCHANGED vars
  BY <1>40 DEF vars, table, bull
<1> QED
  BY <1>1, <1>2, <1>3, <1>4, <1>5, <1>6, <1>7, <1>8, <1>9, <1>10, <1>11, <1>12, <1>13,
     <1>14, <1>15, <1>16, <1>17, <1>18, <1>19, <1>20, <1>21, <1>22, <1>23, <1>24, <1>25,
     <1>26, <1>27, <1>28, <1>29, <1>30, <1>31, <1>32, <1>33, <1>34, <1>35, <1>36, <1>37,
     <1>38, <1>39, <1>40 DEF Next, RequestStep, WorkerStep, WorkerFails, Cleanup

LEMMA ObjectStep ==
  ASSUME TypeOK, CleaningExpired, ObjectIsKept, [Next]_vars
  PROVE  ObjectIsKept'
<1> USE ExportAssumption DEF TypeOK, Processes, CleaningExpired, ObjectIsKept
<1>1. ASSUME NEW r \in Requests, CreateJob(r) PROVE ObjectIsKept'
  BY <1>1 DEF CreateJob, Moves, Goto, table, bull
<1>2. ASSUME NEW r \in Requests, RecordRequest(r) PROVE ObjectIsKept'
  BY <1>2 DEF RecordRequest, Goto, table, bull
<1>3. ASSUME NEW r \in Requests, AddJob(r) PROVE ObjectIsKept'
  BY <1>3 DEF AddJob, Enqueue, Goto, table, bull
<1>4. ASSUME NEW r \in Requests, RetryJob(r) PROVE ObjectIsKept'
  BY <1>4 DEF RetryJob, Goto, table, bull
<1>5. ASSUME NEW r \in Requests, DispatchFails(r) PROVE ObjectIsKept'
  BY <1>5 DEF DispatchFails, Enqueue, Failure, Goto, table, bull
<1>6. ASSUME NEW r \in Requests, UndoDispatch(r) PROVE ObjectIsKept'
  BY <1>6 DEF UndoDispatch, FailRow, Goto, table, bull
<1>7. ASSUME NEW r \in Requests, RequestStops(r) PROVE ObjectIsKept'
  BY <1>7 DEF RequestStops, Dispatching, Failure, Goto, table, bull
<1>8. ASSUME NEW r \in Requests, BeginRetry(r) PROVE ObjectIsKept'
  BY <1>8 DEF BeginRetry, Goto, table, bull
<1>9. ASSUME NEW r \in Requests, LookAtQueue(r) PROVE ObjectIsKept'
  BY <1>9 DEF LookAtQueue, Goto, table, bull
<1>10. ASSUME NEW r \in Requests, PrepareRetry(r) PROVE ObjectIsKept'
  BY <1>10 DEF PrepareRetry, Goto, table, bull
<1>11. ASSUME NEW w \in Workers, TakeJob(w) PROVE ObjectIsKept'
  BY <1>11 DEF TakeJob, Goto, table, bull
<1>12. ASSUME NEW w \in Workers, ClaimJob(w) PROVE ObjectIsKept'
  BY <1>12 DEF ClaimJob, Claimable, Goto, table, bull
<1>13. ASSUME NEW w \in Workers, RecordStart(w) PROVE ObjectIsKept'
  BY <1>13 DEF RecordStart, Goto, table, bull
<1>14. ASSUME NEW w \in Workers, CheckAccess(w) PROVE ObjectIsKept'
  BY <1>14 DEF CheckAccess, Goto, table, bull
<1>15. ASSUME NEW w \in Workers, TakeSnapshot(w) PROVE ObjectIsKept'
  BY <1>15 DEF TakeSnapshot, Discard, Goto, table, bull
<1>16. ASSUME NEW w \in Workers, Upload(w) PROVE ObjectIsKept'
  BY <1>16 DEF Upload, Discard, Goto, table, bull
<1>17. ASSUME NEW w \in Workers, CompleteJob(w) PROVE ObjectIsKept'
  BY <1>17 DEF CompleteJob, Discard, CompleteRow, Goto, table, bull
<1>18. ASSUME NEW w \in Workers, RecordCompletion(w) PROVE ObjectIsKept'
  BY <1>18 DEF RecordCompletion, Goto, table, bull
<1>19. ASSUME NEW w \in Workers, DeleteArtifact(w) PROVE ObjectIsKept'
  BY <1>19 DEF DeleteArtifact, Goto, table, bull
<1>20. ASSUME NEW w \in Workers, FailJob(w) PROVE ObjectIsKept'
  BY <1>20 DEF FailJob, FailRow, Goto, table, bull
<1>21. ASSUME NEW w \in Workers, RecordFailure(w) PROVE ObjectIsKept'
  BY <1>21 DEF RecordFailure, Goto, table, bull
<1>22. ASSUME NEW w \in Workers, ReturnJob(w) PROVE ObjectIsKept'
  BY <1>22 DEF ReturnJob, Forget, Goto, table, bull
<1>23. ASSUME NEW w \in Workers, ThrowJob(w) PROVE ObjectIsKept'
  BY <1>23 DEF ThrowJob, Forget, Goto, table, bull
<1>24. ASSUME NEW w \in Workers, StartFails(w) PROVE ObjectIsKept'
  BY <1>24 DEF StartFails, Failure, Claimable, Moves, Goto, table, bull
<1>25. ASSUME NEW w \in Workers, AccessFails(w) PROVE ObjectIsKept'
  BY <1>25 DEF AccessFails, Failure, Goto, table, bull
<1>26. ASSUME NEW w \in Workers, ExportFails(w) PROVE ObjectIsKept'
  BY <1>26 DEF ExportFails, Failure, Discard, CompleteRow, Goto, table, bull
<1>27. ASSUME NEW w \in Workers, DeleteFails(w) PROVE ObjectIsKept'
  BY <1>27 DEF DeleteFails, Failure, Goto, table, bull
<1>28. ASSUME NEW w \in Workers, ReportFails(w) PROVE ObjectIsKept'
  BY <1>28 DEF ReportFails, Failure, Goto, table, bull
<1>29. ASSUME NEW w \in Workers, WorkerStops(w) PROVE ObjectIsKept'
  <2>1. \A v \in Workers \ {w} : step'[v] = step[v]
    BY <1>29 DEF WorkerStops, Forget, Goto
  <2>2. UNCHANGED <<row, key, file, queue, cleaning>>
    BY <1>29 DEF WorkerStops, table, bull
  <2> SUFFICES ASSUME file', "object" \notin harm', ~key' \/ cleaning' = "clear"
               PROVE  \E v \in Workers : step'[v] \in {"complete", "discard"}
    OBVIOUS
  <2>3. "object" \notin harm /\ step[w] \notin {"complete", "discard"}
    BY <1>29, LostEffect
  <2>4. PICK v \in Workers : step[v] \in {"complete", "discard"}
    BY <2>2, <2>3
  <2> QED
    BY <2>1, <2>3, <2>4
<1>30. CASE CancelJob
  BY <1>30 DEF CancelJob, Moves, table, bull
<1>31. CASE Stall
  BY <1>31 DEF Stall, table, bull
<1>32. CASE DelayEnds
  BY <1>32 DEF DelayEnds, table, bull
<1>33. CASE ForgetFailed
  BY <1>33 DEF ForgetFailed, table, bull
<1>34. CASE PassTTL
  BY <1>34 DEF PassTTL, table, bull
<1>35. CASE ExpireCompleted
  BY <1>35 DEF ExpireCompleted, Moves, table, bull
<1>36. CASE ListExpired
  BY <1>36 DEF ListExpired, table, bull
<1>37. CASE DeleteExpired
  BY <1>37 DEF DeleteExpired, table, bull
<1>38. CASE ClearKey
  BY <1>38 DEF ClearKey, table, bull
<1>39. CASE CleanupFails
  BY <1>39 DEF CleanupFails, Failure, table, bull
<1>40. CASE UNCHANGED vars
  BY <1>40 DEF vars, table, bull
<1> QED
  BY <1>1, <1>2, <1>3, <1>4, <1>5, <1>6, <1>7, <1>8, <1>9, <1>10, <1>11, <1>12, <1>13,
     <1>14, <1>15, <1>16, <1>17, <1>18, <1>19, <1>20, <1>21, <1>22, <1>23, <1>24, <1>25,
     <1>26, <1>27, <1>28, <1>29, <1>30, <1>31, <1>32, <1>33, <1>34, <1>35, <1>36, <1>37,
     <1>38, <1>39, <1>40 DEF Next, RequestStep, WorkerStep, WorkerFails, Cleanup

-----------------------------------------------------------------------------
IInv ==
  /\ TypeOK /\ Fresh /\ OwnedIsActive /\ PendingIsQueued /\ RunningIsWorkedOn
  /\ OneHolder /\ ClosedAlone /\ StoredBeforeCompletion /\ CompletedIsDownloadable
  /\ CleaningExpired /\ ObjectIsKept

LEMMA TypeInit == Init => TypeOK
<1> SUFFICES ASSUME Init PROVE TypeOK
  OBVIOUS
<1>1. /\ step \in [Processes -> RequestSteps \cup WorkerSteps]
      /\ \A r \in Requests : step[r] \in RequestSteps
      /\ \A w \in Workers : step[w] \in WorkerSteps
  BY DEF Init, Processes, RequestSteps, WorkerSteps
<1>2. reason \in [Workers -> Reasons]
  BY DEF Init, Reasons
<1>3. /\ tries \in 0 .. Attempts /\ stalls \in 0 .. MaxStalls
      /\ failures \in 0 .. MaxFailures
  BY ExportAssumption DEF Init
<1> QED
  BY <1>1, <1>2, <1>3 DEF Init, TypeOK, Rows, QueueStates

LEMMA InvInit == Init => IInv
<1> SUFFICES ASSUME Init PROVE IInv
  OBVIOUS
<1>1. TypeOK
  BY TypeInit
<1>2. Fresh /\ OwnedIsActive /\ PendingIsQueued /\ RunningIsWorkedOn /\ CleaningExpired
  BY DEF Init, Fresh, OwnedIsActive, PendingIsQueued, RunningIsWorkedOn, CleaningExpired
<1>3. \A w \in Workers : step[w] = "idle"
  BY DEF Init, Processes
<1>4. OneHolder /\ ClosedAlone /\ StoredBeforeCompletion
  BY <1>3 DEF OneHolder, ClosedAlone, StoredBeforeCompletion, Holding
<1>5. CompletedIsDownloadable /\ ObjectIsKept
  BY DEF Init, CompletedIsDownloadable, ObjectIsKept
<1> QED
  BY <1>1, <1>2, <1>4, <1>5 DEF IInv

LEMMA InvStep == IInv /\ [Next]_vars => IInv'
BY TypeStep, FreshStep, OwnedStep, PendingStep, RunningStep, OneHolderStep, ClosedStep,
   StoredStep, DownloadableStep, CleaningStep, ObjectStep
DEF IInv

LEMMA Invariance == Spec => []IInv
BY InvInit, InvStep, PTL DEF Spec

(* Every variable keeps its type, whoever works on the export.               *)
THEOREM ExportTypes == Spec => []TypeOK
BY TypeInit, TypeStep, PTL DEF Spec

(* A RUNNING export has a worker that will move it, unless the one that had  *)
(* to stopped or failed outside its try ("run").                             *)
THEOREM RunningExportsAreWorkedOn == Spec => []RunningIsWorkedOn
<1>1. IInv => RunningIsWorkedOn
  BY DEF IInv
<1> QED
  BY <1>1, Invariance, PTL

(* A PENDING export is in the queue or about to be, unless a process was     *)
(* lost, or the claim failed, between the row and the queue ("dispatch"), or *)
(* it was retried on a stale look at the queue ("stale").                    *)
THEOREM PendingExportsAreDispatched == Spec => []PendingIsDispatched
<1>1. IInv => PendingIsDispatched
  BY DEF IInv, PendingIsQueued, PendingIsDispatched, Dispatching
<1> QED
  BY <1>1, Invariance, PTL

(* The file of a COMPLETED export is there, unless two workers had the row   *)
(* at once ("overlap"), or its worker did not learn of the completion or     *)
(* could not write its event ("report").                                     *)
THEOREM CompletedExportsAreDownloadable == Spec => []CompletedIsDownloadable
<1>1. IInv => CompletedIsDownloadable
  BY DEF IInv
<1> QED
  BY <1>1, Invariance, PTL

(* An object in the storage is named by its row, or a worker still gives it  *)
(* one or deletes it, unless a deletion failed or such a worker stopped      *)
(* ("object").                                                               *)
THEOREM NoObjectIsLeftBehind == Spec => []NoObjectLeftBehind
<1>1. IInv => NoObjectLeftBehind
  <2> SUFFICES ASSUME IInv, file, ~key, "object" \notin harm
               PROVE  \E w \in Workers : step[w] # "idle"
    BY DEF NoObjectLeftBehind
  <2> QED
    BY DEF IInv, ObjectIsKept
<1> QED
  BY <1>1, Invariance, PTL

=============================================================================
