# A verification project for the STS backend

The STS backend follows students who stop coming to school. A *case* is opened
for a student, by staff, by a teacher or by the absence monitor; *rounds* are
assigned on it (a home visit or an assistance task, each with a public link, or
a referral to an outside agency with a report link); reports come back through
the links; a reviewer decides after each report whether to close the case, to
start an assistance phase, or to refer it. The rest of the backend feeds this
workflow (attendance, imports, rosters) or reads it (dashboards, statistics,
exports).

The TLA+ modules here model that workflow, and the protocols around it that
several actors share, as the code runs them: transactions of PostgreSQL with the row locks they really
take, checks made outside a transaction, scripts and single commands of Redis,
jobs of BullMQ, processes that stop between two statements, cron jobs and the
clock. TLC checks them on small instances; TLAPS proves their safety properties
for every number of rounds, submissions, presses, students, pages, workers and
challenges.

Eight components are modelled, one module each: the life of a case
(`CaseFollowUp`), the agency's way to its report (`ReferralAccess`), the LINE
message of one round (`RoundLineDelivery`), the race to open a person's case
(`CaseOpening`), the register of a lesson (`AttendanceRegister`), the links a
teacher fills it in by (`ClassroomLinks`), the recalculation of risk profiles
(`RiskProfileQueue`) and data exports (`DataExportJob`). They make a chain of
refinements around the case: `CaseLifecycle` is an abstract specification, which
`CaseFollowUp` implements; `ReferralFollowUp` maps `ReferralAccess` to the
referral part of `CaseFollowUp`, which it implements in turn. `M.tla` is a model, `MCM.tla` gives it the
constants of an instance, `M_*.cfg` are TLC's runs, `MProofs.tla` are the
theorems. `PROJECT.json` maps every definition to its lines of source.

## 1. Inventory

| Component | State it keeps | Operations | Interacts with |
|---|---|---|---|
| Case follow-up (`task-lifecycle`, `task-access`, `task-submission`, `task.repository`) | `cases`, `tasks`, `task_links`, `task_submissions` | assign a round, gate of a link, report, withdraw, administrator lock, lapsed-assignment sweep | absence monitor, review, referral, LINE delivery |
| Review and closing (`case.service`) | `cases.status`, `workflow_phase_code`, `case_reviews` | CLOSE, ASSIST, REFER_AGENCY, referral result | follow-up, referral, notifications |
| Referral (`referral-link.service`) | `case_referrals`, `case_referral_links`, `case_referral_results` | send, replace, cancel, code check and lock, agency report, code refresh | review, AraID challenges, link sessions |
| Absence monitor (`automation`) | opens and tombstones `cases` | a pass over the roster of a check-in, after it has committed | attendance, opening of cases |
| Opening of cases (`case.service`, `task-lifecycle`) | one active case per person (unique index) | openCase, openCaseFromLink, createTask without a case | absence monitor |
| LINE delivery (`case-round-line.service`, `common/messaging`) | `task_links.line_delivery_*` | claim, re-read, push, finish, release | LINE, follow-up |
| AraID and link sessions (`araid`, `auth`, `google-login`) | challenges and sessions in Redis or memory | create, claim or renew, approve, consume, issue, expire | every public link |
| Risk profiles (`risk-profile`) | `student_risk_profile`, the dirty and draining keys in Redis, one BullMQ job | request a recalculation, drain, daily pass | attendance, cases, comments, dashboards |
| Data exports (`data-exports`) | `data_export_job`, one BullMQ job and one object in the storage each | create, cancel, retry, process, expire | read models, storage |
| Attendance (`attendance`) | `attendance_sessions`, its roster, its exceptions, `attendance_submission_history` | start, look up, submit, correct | absence monitor and risk profiles, after each commit |
| Classroom links (`classroom-attendance-links`) | `classroom_attendance_links`, sessions | issue, hand on, rotate, close, sign in, authorize | attendance, AraID, LINE |
| Teacher LINE, imports, school structure, students, users, notifications, read models, audit log, infrastructure | their own tables | see `PROJECT.json` | the workflow above, through cases and rosters |

What makes each part hard, and what makes it correct:

* **Follow-up.** Five kinds of actors write one case: coordinators (assign,
  withdraw), link holders (report), administrators (lock), the clock (a link
  lapses by itself) and the sweep. Some lock the case row, some the link row,
  some neither. Correct: one live assignment at a time; an `IN_PROGRESS` case
  really has an open link; reports are never lost; an assignment always ends.
* **Review.** A decision must rest on a report of its own, and closing on the
  success of the *newest* round, read after the wait for the case row.
* **Referral.** Agencies answer late. A referral is decided once, and a case
  that waits for an agency waits for one that can still be heard.
* **Absence monitor.** It deletes what it created, but only false positives.
* **Opening.** One active case per person, whichever of four paths opens it; the
  monitor loses no absent student.
* **LINE delivery.** At most one send at a time, a crash does not block the
  link for ever, a late result does not overwrite a newer claim.
* **AraID and sessions.** A challenge is claimed and approved once; a refreshed
  access code disables what the old one started; a limited number of guesses.
* **Attendance.** Several pages correct one register, their requests are lost or
  repeated, and what follows a commit may fail. Correct: no correction overwrites
  one its author has not seen; the history explains what the register shows; a
  page that is told it has saved was followed up.
* **Classroom links.** A link is a key to personal data, handed on, rotated and
  closed while somebody signs in with it. Correct: the old token lets nobody in,
  closing a link closes what was issued from it, a lesson has one usable link.
* **Risk profiles.** A change that was marked is never lost between the key it
  was marked in, the key a drain renamed it to and the statement that computes
  the profile, whatever attempt fails; nothing waits for a drain that never
  comes.
* **Data exports.** Three stores (row, queue, object) that no transaction spans.
  An export ends, a completed one can be downloaded, nothing is left in the
  storage, although the queue may hand one job to two workers.

The hazards, each at the line where it bites, are in `PROJECT.json`.

## 2. Plan

| Module | Models | State |
|---|---|---|
| `CaseFollowUp` | one case from opening to close | done: modelled, checked, eleven theorems |
| `RoundLineDelivery` | the message of one link: claims, crashes, slow sends, retries | done: modelled, checked, three theorems |
| `CaseOpening` | several openers and one person: row locks, unique index, the monitor's passes | done: modelled, checked, three theorems |
| `CaseLifecycle` | what a case promises (with the school, waiting for a decision, with an agency, closed, dropped), without rounds or links; `CaseFollowUp` implements it | done: checked and proved as a refinement |
| `ReferralAccess` | access code, attempts, revisions, AraID challenge, session and report of the referral links of one case | done: modelled, checked, eight theorems |
| `ReferralFollowUp` | the refinement mapping from `ReferralAccess` to `CaseFollowUp` | done: checked and proved as a refinement |
| `RiskProfileQueue` | requests, Redis keys, drains and the daily pass | done: modelled, checked, three theorems |
| `DataExportJob` | one export: row, queue job, object, retries, stalls, expiry | done: modelled, checked, five theorems |
| `AttendanceRegister` | one register, several pages: start, submission, correction, history, follow-up | done: modelled, checked, four theorems |
| `ClassroomLinks` | standing links, assignments of a lesson, sign-in and session | done: modelled, checked, three theorems |
| the reminder's flag in `CaseFollowUp`; teacher LINE binding; import quarantine | a part of `CaseFollowUp`, and a module each | left |

Every safety property a run checks is a theorem. Worth proving next: abstract
specifications for the other components, as `CaseLifecycle` is for the case (a
register as one row that takes or refuses a submission; an export as queued,
running, downloadable, gone), and that `CaseOpening`, seen per person, opens at
most one `CaseFollowUp` at a time.

The modules do not share variables. `CaseOpening` sees of a case only what the
openers' look-ups tell apart (`OPEN`, or any other active status), so the whole
of `CaseFollowUp` appears in it as `Follow` and `Close`; `CaseFollowUp` sees of
the openers only that one of them opened its case; `RoundLineDelivery` reads
the state of its link, which `CaseFollowUp` changes. `ReferralAccess` opens up
three actions of `CaseFollowUp`: `LockReferralLink` there is the last of its
wrong codes, `AgencyReport` the end of its path through code, challenge and
session, and the window of a referral is the one its links have here; what a
reviewer does in between is `ReviewRefers`. This is not only said but proved
(`ReferralsImplementFollowUp`), and so is what two neighbours take for granted
of `CaseFollowUp`: that a link `RoundLineDelivery` finds `CLOSED` is closed for
good (`ClosedLinksStayClosed`), and that a case `CaseOpening` sees closed or
dropped is gone (`ClosedCasesStayClosed`). `Submit` of `CaseOpening` is one
accepted submission of `AttendanceRegister`, whose `Monitor` is all the passes
of that module; `Recalculate` is one request of `RiskProfileQueue`. A request
that `ClassroomLinks` lets in is one page of `AttendanceRegister`.

## 3. `CaseFollowUp`

### State

| Variable | In the code |
|---|---|
| `status`, `phase` | `cases.status` and `workflow_phase_code`; `NONE` before the row exists, `TOMBSTONED` once `deleted_at` is set |
| `autoOpened` | `created_by IS NULL` and an automatic reason, what the monitor looks for |
| `referReviewed` | a `REFER_AGENCY` row in `case_reviews` |
| `created`, `round` | the rounds in the order of `created_at` / `referred_at`; a round is its `tasks` row with its `task_links` row, or its `case_referrals` row with its `case_referral_links` row |
| `round[r].window` | where the clock stands: before `opens_at` / `starts_at`, usable, or at or past `expires_at` |
| `request` | per submission in flight, the round whose gate it passed |
| `withdrawing` | the links locked by a withdrawal between its SELECT and its COMMIT |
| `reports`, `reviews` | history: how many of each were recorded on the case |

### What is one step

A transaction that locks the case row before it reads what its guards need, or
that is one statement, is one step: assignment, review, everything about
referrals, the sweep, the tombstone. Two operations are not like that and take
two steps:

* `saveTaskSubmission` passes the link's gate (`SubmitGate`), awaits many
  look-ups, and then opens its transaction (`SubmitCommit`, or `SubmitConflict`
  when the case has moved on). The transaction locks the link's row, so it
  waits for a withdrawal, but reads only `deleted_at` of it.
* `cancelCaseAssignment` selects the case and locks the link only
  (`CancelSelect`); its three UPDATEs come later (`CancelCommit`), or never
  (`CancelRollback`). On a case that was closed in between they cannot commit:
  the last one leaves `completion_outcome_code` as it is, and the table's CHECK
  `chk_cases_completion_outcome` (migration `20260802120000`, lines 63-69)
  allows an outcome only with `RESOLVED`.

The actions, in the order of the module: `OpenCase`, `AutoOpen`, `AutoCancel`;
`AssignNew` and `AssignRound` (the two branches of `createTask`); `AdminLock`;
`Opens`, `Lapses` (the clock); `CancelSelect`, `CancelCommit`,
`CancelRollback`; `Sweep`; `SubmitGate`, `SubmitCommit`, `SubmitConflict`;
`ReviewClose`, `ReviewAssist`, `ReviewRefer`; `SendReferral`,
`ReplaceReferral`, `CancelReferral`, `LockReferralLink`, `AgencyReport`.
`PROJECT.json` gives the lines each one translates.

### Abstractions

* One case. What depends on other cases of the person is in `CaseOpening`.
* A request that fails its validation before it writes anything is a request
  that was not made.
* Rounds are ordered by commit, the code orders them by `created_at`; the two
  differ only for transactions that overlap, which the case row serialises.
* A second withdrawal that waits for the first one's lock finds the link
  closed and gives up; in the model it simply is not selected.
* `adminLockLink` reads the status before it writes; a lock that lands on a
  link closed in between changes nothing anyone reads, and is left out.
* A link's window is followed only while the link is `ACTIVE`; nothing reads it
  later.
* `SCHEDULED` as a link status is in the queries but no code writes it;
  `opens_at` alone schedules a link.
* An assistance report may carry the exception `STUDENT_NOT_FOUND`, which the
  code does not reject, so `found` and the chosen outcome are independent.
* Referrals from before report links existed (no link row) are left out.
* A review action may name the one phase it is available in
  (`case.service.ts:722`). Only `ASSIST` ever did, and the migration
  `20260827307000` set it to NULL (line 55), as the bootstrap SQL does, so no
  review is turned away for its phase and `ReviewAssist` does not look at it.

### What it implements

`CaseLifecycle` has four variables: who has the case (`stage`), how many reports
were filed and how many of them were answered by a decision, and what the
newest assignment came to. The refinement mapping is at the end of
`CaseFollowUp`: `StageOf` maps the case's status, the two counters are its
history variables, `NewestOutcome` is the outcome of the newest round.

| `CaseLifecycle` | actions of `CaseFollowUp` |
|---|---|
| `Open` | `OpenCase`, `AutoOpen`, `AssignNew` |
| `Assign` | `AssignRound` |
| `Refer` | `SendReferral`, `ReplaceReferral` |
| `Report` | `SubmitCommit` |
| `AgencyReport` | `AgencyReport` |
| `Decide` | `ReviewClose`, `ReviewAssist`, `ReviewRefer` |
| `HandBack` | `CancelCommit` when the case has moved on |
| `Drop` | `AutoCancel` |

Every other action, and these where nothing a reviewer sees changes, is a
stutter. What the mapping shows is that a decision always answers a report
nobody has answered, that a case is closed only on the success of the newest
assignment at that moment, and that nothing in flight revives a closed or a
dropped case. `HandBack` is in the abstract specification because the code has
it: a withdrawal sets the case `OPEN` without looking at its status, out of
review or out of an agency's hands. Only a closed case is kept from it, not by
the statement but by the CHECK on the table.

## 4. `RoundLineDelivery`

One link, and the presses of the button that sends it to its teacher over LINE.
`CaseRoundLineService.send` runs no transaction of its own: each of its
statements commits by itself, and presses interleave between any two of them.

| Variable | In the code |
|---|---|
| `link` | `USABLE` (an `ACTIVE` link within its window, not locked, on an active case), `LOCKED` (`admin_locked`), `CLOSED` (reported, withdrawn, expired, case gone) |
| `reachable` | the teacher of the task has a verified LINE account that is a friend |
| `delivery` | `task_links.line_delivery_status`, `line_delivery_request_id`, and whether `line_delivery_last_attempted_at` is more than five minutes old |
| `step[p]` | the statement press `p` has come to |
| `answer[p]` | whether LINE's answer said the message was accepted |
| `overdue` | presses whose claim is more than five minutes old, whether it still is the link's claim or not |
| `accepted` | LINE, external: the request ids whose message it took |

Steps of a press: `ReadLink` (`findRoundLinkForLine` and the decisions on it),
`RecordNotReady`, `Claim` or `ClaimNothing` (`claimRoundLine`), `ReadAgain`,
`Release` (`releaseRoundLineClaim`), `Post`, `Finish` (`finishRoundLine`), and
`Crash` between any two. `FiveMinutes` makes the claim stale and every send under
way overdue. A press, once begun, reads its link twice and the columns change
only through `UPDATE ... WHERE`; the `WHERE` clauses are the operators
`MayRecordNotReady`, `MayClaim`, `OwnsClaim` and `OwnResult`.

Abstractions: the message text, the delivery log of other messages, and the
webhook that updates `reachable` are left out; a round that is reassigned to
another teacher has a new link, so `reachable` belongs to one teacher; a LINE
answer is "accepted" or not (a conflict on the retry key, an error and a lost
answer are all recorded `FAILED`). That LINE takes one message per retry key is
its documented promise, and the only thing assumed of it.

## 5. `CaseOpening`

Who opens the one active case of a person. Openings by hand and the monitor's
passes lock the rows of the enrollments (`student_term ... FOR UPDATE`);
`createTask` locks nothing; the unique index on the person is the last word.

| Variable | In the code |
|---|---|
| `current` | per person, the enrollment that `student_current_enrollment_resolution` selects |
| `absent` | persons `listConsecutiveAbsentStudents` would return |
| `active` | per person, the committed active case: its enrollment, its origin, `OPEN` or worked on |
| `answered` | history: persons whose case was closed after their last check-in |
| `pass` | per check-in, its monitor pass: waiting for its locks, what it read, what it decided to create |
| `opener` | per request, the opening by hand or by assignment it is working on |

A pass is one transaction at READ COMMITTED, in three steps: `PassRead` (locks
and the two reads), `PassLookUp` (one `findActiveCaseByStudent` per absent
student), `PassWrite` (tombstones, inserts, commit), or `PassFail` at any point.
The tombstones come before the look-ups in the code; nothing of this model
reads a row between the two but the pass itself, whose look-ups concern the
students it does not tombstone. An opening is `ManualLookUp` and
`ManualCreate`, or `TaskLookUp`, `TaskInsert` and `TaskCommit`: its insert is in
the unique index before the foreign key makes it wait for the enrollment row.
`Submit` commits a check-in, a correction or an identical retry; `Follow`,
`Close` and `MoveOn` stand for the life of the case and the next term.

Abstractions:

* How days of absence make a run is a choice of `Submit`: the students checked
  are absent for too long or not, all combinations.
* The current enrollment is resolved and `ACTIVE`, and the check-in that
  triggers the pass makes its students evaluable, so the monitor's guard on
  missing attendance does not bite.
* A pass takes all its locks in one step. Passes take them in one order, and
  the advisory locks of the same call are held by passes only.
* A check-in has one pass at a time; a correction that commits while the pass
  runs is another check-in with the same roster, or a part of it.
* A look-up that finds a case ends the opening, which changes nothing. The
  scope of an actor holds the school of the enrollment, and may hold others.
* `MoveOn` stands for the change of terms as a whole, which no pass over the
  old class spans.
* Legacy cases without a student, the pass over all students (nothing calls it
  at this commit) and actors restricted to their own cases are left out.

## 6. `ReferralAccess`

| Variable | Code |
|---|---|
| `case`, `sent` | `cases.status`, as far as referrals go; how many referrals the case has |
| `link[r]` | `case_referral_links`: status, revision of the access code, wrong codes, and where the clock is in its window |
| `report[r]` | `case_referral_results`, as the session that filed it |
| `chal[c]`, `auths[c]` | the AraID challenge and its authorizations, in Redis |
| `sessions` | the sessions issued for links |
| `req[a]` | a request in flight: its next call and what it has read |
| `approvers`, `issued` | history: who was told that they approved, how often a challenge was exchanged |

The agency's way is six requests, each of which reads first and writes later:
`EnterCode` then `CountFailure` or `CreateChallenge`; `BeginChallenge` then
`ClaimOrRenew`; `ReadAuthorization` then `ApproveAuthorization`; `PollChallenge`
then `ConsumeApproved` and `IssueSession`; `ReadSession` then `SubmitReport`.
Between the two halves the school may change the code, withdraw the referral or
send the case again, other requests may get there first, the window may close
and the challenge or session may run out. Any request may die.

The claim, the approval and the exchange are one script of Redis each, so one
step; wrong codes are counted and the link locked by one statement; a report
looks at everything again inside its transaction. The reading of a challenge
and the check that its link still opens by its revision are one step, although
the code makes two calls: the later script checks the challenge once more, and
nothing between them is decided by the link alone. Time spent on the PIN is part
of the gap between reading and approving. Without Redis the store is a map of
the process, whose operations run without yielding to another request, so it
has the same steps. The page that resumes a challenge only reads.

Only the agency's link records a result today: a comment about the school having
recorded it first (`task.repository.ts:3696`) describes a path that is gone.
Referrals made before links existed are left out.

One consequence the model shows and no property forbids: a wrong code is
compared with the hash that was read, and counted after it. When the school
refreshes the code in between, the guess at the old code counts against the
new one.

### What it implements

`ReferralFollowUp` maps these variables to those of `CaseFollowUp`. The case has
one visit, reported on and then answered by a referral; its referrals are the
rounds after it.

| `CaseFollowUp` | from `ReferralAccess` |
|---|---|
| `status` | `case`; what `ANSWERED` reads depends on the agency's result: `PENDING_REVIEW` or `REFERRAL_NOT_SUCCEEDED` |
| `round[r + 1]` | row and outcome of referral `r` from `report[r]` and from whether the case waits for it; status and window of its link from `link[r]` |
| `created` | `sent + 1` |
| `reports`, `reviews` | the visit's report and one per answered referral; all of them answered but the one an `ANSWERED` case waits to be reviewed for |
| the rest | constant: no submission or withdrawal is in flight, the phase is the first one, the case was not opened by the monitor |

The constant `Helping` says which agencies report success, so that both results
occur. A step is one of `CaseFollowUp`'s for referrals, a `ReviewRefer`, a tick of
the clock, or leaves the tables alone (`FollowUpStep`): entering and counting
codes, challenges, sessions and dying requests are stutters of the follow-up. A
request that died, or lost a race for its link, has done nothing there. The
other actions of `CaseFollowUp` (rounds of visits, closing, dropping) are not
among the steps, since this module does not have them; the mapping says what
referrals do to a case, not all that can become of it.

## 7. `RiskProfileQueue`

| Variable | Code |
|---|---|
| `source[s]`, `commits` | what a profile is computed from (attendance, cases, comments), as a version |
| `profile[s]` | the version the row of `student_risk_profile` shows |
| `keys` | the Redis keys: dirty set, draining set, dirty and draining marks of a full pass, and the marker that a drain is scheduled |
| `attempt[j]`, `job[w]` | BullMQ jobs and the worker that runs one |
| `step[x]`, `work[x]` | the next call of a request or worker, and its local variables |
| `recorded`, `reflected` | history: the newest version that was marked; the newest ever written |

A request commits a change (`Change`) and recalculates inline, or marks the keys
and schedules a drain behind the marker (`MarkDirty`, `ScheduleDrain`,
`AddDrainJob`). The drain renames the dirty keys (`GetFull` to `ReadMembers`),
reads and writes the profiles batch by batch, deletes the draining keys
(`Acknowledge`), and gives the marker back or follows itself up. `QueueFails`,
`RequestStops` and `JobFails` fail or stop anything between two commands; the
marker's lease runs out at any time; `RecalculateAllDaily` is the safety net.

The projection itself, a statement of several hundred lines, is what it means to
the queue: it reads sources in one snapshot and overwrites the rows. The path
that marks single students is modelled although today's callers are all few
enough, or immediate enough, to be inline, so that only full passes meet the
queue. Thresholds are read once before the batches. The repair of missing rows
at start-up and the reading of the schedule setting are left out.

## 8. `DataExportJob`

| Variable | Code |
|---|---|
| `row`, `key`, `due` | `data_export_job`: status, whether a storage key is set, whether `expires_at` has passed |
| `file` | the object in the storage |
| `queue`, `tries`, `stalls`, `owner` | the BullMQ job: its state, failed attempts, stalls, and whose lock is valid |
| `step`, `reason` | the next call of a request or worker, and why a worker discards its file |
| `cleaning` | the next call of the expiry pass |
| `harm` | history: what a failure or a race may have left behind |

No transaction spans row, queue and storage, so each call is a step, and each
may fail with or without its effect. The row is guarded by the status its
updates look for. `Stall` is the queue taking a job back from a worker whose
lock ran out, while that worker may still run. The events of the audit trail
are steps only because they can fail, and what happens then depends on whether
they are inside the handler's `try`.

The properties except, by name, the failures and races the code does not repair.
`harm` collects them, and a process that stops adds only what is lost at the
call it stopped at (`Dispatching`, `LostWith`):

| `harm` | when | excepted by |
|---|---|---|
| `dispatch` | a request stopped between the row and the queue, or a worker before its claim, or the claim failed | `PendingIsDispatched`, `ExportEnds` |
| `stale` | a retry acted on a queue that had changed since its look | `PendingIsDispatched`, `ExportEnds` |
| `run` | the worker that had to move a RUNNING row stopped, or a statement outside its `try` failed | `RunningIsWorkedOn`, `ExportEnds` |
| `report` | the worker did not learn that it had completed the row, or could not write the COMPLETED event | `CompletedIsDownloadable` |
| `overlap` | a row was claimed while another worker still had it | `CompletedIsDownloadable` |
| `object` | a deletion failed, or a worker stopped between its upload and the row, or before it deleted | `NoObjectLeftBehind`, `ExpiredIsCleared` |

In each of these the code does break the unexcepted sentence: see the
consequences in section 11. Every other failure, and every other interleaving,
is covered.

The storage is the Supabase adapter, where an object is there whole or not at
all; the adapter for development writes a file. A queue that is not ready fails
like one that does not answer. Listing and downloading change nothing and are
left out. The look at the status after each chunk of rows (`TakeSnapshot`) is
made inside the export's own `REPEATABLE READ` transaction: it sees the status
of its first query, and cannot see that the export was given up meanwhile.

## 9. `AttendanceRegister`

| Variable | Code |
|---|---|
| `enrolled` | the students who are in the classroom now |
| `register` | the `attendance_sessions` row, its roster snapshot and its stored exceptions; `version` is `submission_number`, which `lock_version` exceeds by one |
| `history` | `attendance_submission_history` with its changes; `basis` is added by the model: the version its author had read |
| `monitored`, `recalculated` | history: the version the monitor last saw, and the one a recalculation was last requested for |
| `page[p]` | what a page shows, what it sends, how far that request is, and what it was last told (`told`) |

A register stores only who was not present. `Start` inserts it and copies the
roster, `Read` shows it to a page, `Send` and `SendAgain` are a page's request and
its repetition. The transaction of `submit` ends in `Accept`, `AcceptUnchanged`
(what is stored already is not written again) or `Refuse`; it locks the row
first, so it is one step. `Monitor` and `Recalculate` come after the commit, in
the same request; `Fail` loses the request or its answer, or stops the process,
before any of them. Students join and leave meanwhile (`Transfer`).

The first submission asks for no version: it is the only one that finds the
register `OPEN`. No code writes `VOIDED` or `REOPENED`, so both are left out, and so
are registers of the older kind with a record per student, which are read-only.
A correction without a proper reason is refused (`reason`). Who may write a
register, and whether a cut-off time has passed, decides which requests are made.

## 10. `ClassroomLinks`

| Variable | Code |
|---|---|
| `row`, `token`, `source` | `link_status`, which token `token_hash` belongs to, `source_teacher_link_id` |
| `window` | where the clock is between `opens_at` and `expires_at`; a standing link has neither |
| `signIn`, `session`, `request` | the holder's sign-in, session and request, each with the link and token it belongs to |
| `reopened` | history: the closed links a rotation has opened again |

The school issues standing links (`IssueTeacherLink`, which replaces the token of
one that is there) and assignments of a lesson (`CreateAssignment`, look-up and
insert under the lesson's advisory lock); it rotates and closes both. The holder
starts a sign-in by a link's token, returns from the provider (`ConsumeSignIn`
looks the link up by that token), gets a session (`IssueSession`, which does not
look again) and makes requests (`Authorize` compares the session's token with the
link's). One of them hands the link on (`CreateFromLink`), after it has locked the
standing link and looked at its status once more.

One teacher, one lesson, one holder: links of other lessons share no lock and no
index with these. The school, the term and the teacher's membership stay active,
and the identity that signs in is one the link accepts. The delivery of a link
by LINE works as in `RoundLineDelivery` and is left out.

## 11. Runs

| Run | Instance | Checks | Shows |
|---|---|---|---|
| `case_safety` | 3 rounds, 1 submission, fair | `TypeOK`, `AtMostOneLiveAssignment`, `ResolvedOnSuccess`, `InProgressHasOpenLink`, `AwaitsNewestReferral`, `ReportedRoundStaysReported`, `DecidedReferralIsFinal`, `FollowsLifecycle`, `AssignmentEnds` | holds, 321 376 states |
| `withdrawn_report` | 2 rounds, 1 submission | `WithdrawnRoundTakesNoReport` | violated |
| `sweep_handback` | 2 rounds, 1 submission | `OpenCaseHasNoLiveAssignment` | violated |
| `line_safety` | 3 presses, 3 requests, fair | `TypeOK`, `SentWasAccepted`, `OneSendInFlight`, `SendingEnds` | holds, 254 826 states |
| `opening_safety` | 2 persons, 3 enrollments, 3 check-ins, 1 opener | `TypeOK`, `AbsentStudentIsCovered`, `SharedLockPreventsRace` | holds, 1 245 508 states |
| `transferred_case` | the same | `CoveredStudentIsSkipped` | violated |
| `referral_access` | 2 agents, 1 challenge with 2 authorizations, 2 referrals of which the first helps, 1 refresh, locked at 2 wrong codes | `TypeOK`, `ReportUnderCurrentCode`, `ChallengeServesOnce`, `LockedAtTheLimit`, `OpenLinkIsAwaited`, `ReferralsFollowTheCase` | holds, 837 133 states |
| `attendance_register` | 2 pages, 2 students, 1 mark, 2 accepted submissions | `TypeOK`, `SubmissionsRestOnLatest`, `HistoryExplainsRegister`, `SavedIsFollowedUp` | holds, 813 569 states |
| `classroom_links` | 2 standing links, 2 assignments, 1 rotation of each | `TypeOK`, `LessonHasOneUsableLink`, `OnlyTheEntitledAreLetIn` | holds, 1 182 323 states |
| `risk_queue` | 2 students, 1 request, 1 worker, 1 job of 2 attempts, 2 failures, fair | `TypeOK`, `RecordedChangeIsKept`, `WorkHasDrain`, `RecordedChangeIsReflected` | holds, 685 435 states |
| `export_safety` | 1 request, 2 workers, 2 attempts, 1 stall, 1 failure | `TypeOK`, `RunningIsWorkedOn`, `PendingIsDispatched`, `CompletedIsDownloadable`, `NoObjectLeftBehind` | holds, 1 211 251 states |
| `export_liveness` | 2 requests, 1 worker, 1 failure, fair | `ExpiredIsCleared`, `ExportEnds` | holds, 472 643 states |

`DeadLinkStaysDead` of `ReferralAccess` is a theorem that no run lists: what the
case would see of its violation, `ReferralsFollowTheCase` sees.
`ClosedLinkStaysClosed` and `ClosedCaseStaysClosed` of `CaseFollowUp` are
theorems too, and hold on the instance of `case_safety`.

*Bounds.* Three rounds hold a visit, a referral and its replacement, or a
lapsed round, its replacement and a late report on either; one submission is
enough to be in flight across a withdrawal, a lapse and a reassignment, and the
theorems have no bound on them. Three presses hold a send that is taken over by
a second one while a third records that nobody is reachable, or an original, a
press that replaces it, and the original's late retry. The check-ins share a
student, so two passes overlap on one and not on the other; one student changes
schools, so the old school's passes meet a student who has left. A change of
terms within one school is another instance of the same constants, and the
theorems cover it. Two agents are two people at one challenge, or one who
reports while another guesses; a second referral meets what the first left in
flight. Two pages and two submissions are a correction on top of one its author
has not seen, and the repetition of a submission that another has overtaken; two
students are one who is marked and one who joins or leaves. Two links of a kind
are a closed one and the one that took its place, one rotation the difference
between an old token and the present one. Two students are what a claim of a
recalculation may contain in part; its two failures exhaust the two attempts of
a drain, and one worker runs a second job only after the first. Two workers are one that stalled and the
one that took its job over; two requests are two retries at once. Symmetry is
used over interchangeable agents, students, pages, links and
workers, and only where no liveness is checked.

`CHECK_DEADLOCK FALSE` stands where a system really stops: a closed case whose
links are spent, a link whose presses are all done, a report filed, an export
that is over. The other models never stop.

*Fairness.* `case_safety`: the clock reaches `opens_at` and `expires_at` (weak
fairness of `Opens` and `Lapses`); a transaction that locked a link commits or
rolls back (weak fairness of their disjunction, since a lost connection rolls
back); the cron job of every ten minutes runs, and when it meets a locked link
it queues for the row lock, which PostgreSQL grants in order, so it is strongly
fair. Nobody is assumed to report, withdraw or review. `line_safety`: a press
whose process is not stopped goes on (weak fairness of `Proceed` per press),
since each of its statements returns and its POST is cut off by a timeout;
crashes, closing and the clock are not fair, and `SendingEnds` excepts a press
that crashed, whose claim only a later press takes over. `risk_queue`: the
CronJob of every day, the marker's lease, BullMQ handing out a waiting job and
processes that are not stopped go on; failures are bounded and not fair, for a
Redis that never answers keeps its promise to nobody. `export_liveness`:
requests and workers go on, the queue hands out what waits and ends a delay, the
clock reaches `expires_at`, and the expiry pass of every fifteen minutes runs.
A stall is not fair: `harm` names the export of a worker that died with the row
or before its claim.

### What the violated runs say

Each one states a sentence of the code's own comments that an interleaving, or
a branch, contradicts; the findings in `PROJECT.json` quote them.

1. *A withdrawn assignment still takes a report* (`withdrawn_report`). The gate
   is checked before the transaction; inside it the link's status is not read
   again, and the case is `OPEN`, which a report accepts.
2. *The sweep reopens a case somebody works on* (`sweep_handback`). A lapsed
   link frees the case for a new assignment at once, but is closed up to ten
   minutes later, by a statement that reopens any `IN_PROGRESS` case it belongs
   to. The case then reads `OPEN` with a live link: it cannot be withdrawn or
   reassigned.
3. *A transferred student's case is missed* (`transferred_case`). The monitor
   narrows its look-up to the school of the current enrollment, while the case
   and the unique index follow the person. Its insert is turned away, and the
   pass of the whole class rolls back, now and on every retry.

More consequences of the same gaps are visible in the models and are not stated
as runs:

* `CaseFollowUp`: a withdrawal's unconditional `OPEN` can take a case out of
  review, or back from an agency: the withdrawal locks its link and waits, the
  link runs out, another round is assigned and reported on, then the withdrawal
  commits. A case that was closed by then is saved by the table's CHECK alone:
  the withdrawal fails with a constraint violation and rolls back. Two
  submissions past one gate can report twice on one link once an `ASSIST` review
  has reopened the case. An assistance round opens in the
  follow-up phase when the case is new with it (`task-lifecycle.service.ts:467`).
  A case that the monitor opened, and a reviewer has sent to assistance, reads
  `OPEN` and can be tombstoned as a false alarm (`automation.repository.ts:272`).
* `RoundLineDelivery`: two sends may post at once when one is slower than five
  minutes (hence `overdue`), or when they carry the same request (hence
  `DistinctRequests`). The link remembers the last request only
  (`task.repository.ts:4228`), so a retry that arrives after another press is a
  new request to it and is posted again; LINE's retry key keeps the teacher from
  a second message, but its conflict answer turns a delivered link into `FAILED`.
* `CaseOpening`: a case closed between a pass's reading and its look-up is
  followed by a new one; `createTask`, which takes no lock, can deadlock with a
  pass or be turned away by the index. The monitor joins the baseline of a
  closed case by enrollment, the risk profile by person
  (`automation.repository.ts:121`): closing a case carried over from an earlier
  term does not restart the monitor's count.
* `RiskProfileQueue`: the statement that computes profiles takes its snapshot, and
  later overwrites the row without looking at what is there
  (`risk-profile.repository.ts:434`). A drain or a request that read before a
  change can write after its recalculation, and the inline path leaves no mark
  for another one; the daily pass repairs it. `RecordedChangeIsReflected` says
  that a change is shown in the end, not that it stays. With two drains at once, which a second worker process or
  an API process that runs one would give, the slower one's `DEL`
  (`risk-profile.service.ts:423`) deletes what the other has renamed. The
  theorem about recorded changes therefore has one worker as its hypothesis.
  The repository documents a single process (`pnpm start:prod`), and its worker
  runs one job at a time (`risk-profile.service.ts:324`), but nothing in the code keeps a second
  process from starting a worker: the theorem says nothing of such a deployment.
* `ClassroomLinks`: `rotate` and `rotateMyAssignment` make a closed link active
  without asking for the lesson (`classroom-attendance-links.repository.ts:1270`),
  so two links of a lesson may work, although `createAssignment` keeps to one;
  and an assignment that was closed with its standing link comes back alone.
  `reopened` names these links, and the properties except them.
* `AttendanceRegister`: a repeated first submission that another page's has
  overtaken is refused and has to be loaded again, while one that repeats what
  is stored is accepted whatever version its page had read.
* `DataExportJob`: when the COMPLETED event cannot be written, or the worker does
  not learn that its last statement succeeded, the catch deletes the file of a
  completed export (`data-exports.service.ts:424`), and so does the slower of two
  workers after a stall. Two retries at once, or a retry after the queue has
  moved on, leave a row `PENDING` with no job (`harm` "stale"), and so does an
  API process that stops between the row and the queue
  (`data-exports.service.ts:188`, "dispatch"). A worker that stops, or whose
  STARTED event fails, once it has claimed the row leaves it `RUNNING`
  (`data-exports.service.ts:383`, "run"): the next attempt's claim is refused,
  and nothing else looks for such rows. A `PENDING` one can be cancelled; a
  `RUNNING` one stays.

The invariants of the passing runs hold in spite of all this, which is why they
are worth proving.

## 12. Proofs

Every theorem is for all values of the constants, under the named assumptions
of the module.

| Module | Theorem | Property |
|---|---|---|
| `CaseFollowUpProofs` | `TypeCorrect` | `TypeOK` |
| | `OneLiveAssignment` | `AtMostOneLiveAssignment` |
| | `ResolutionIsEarned` | `ResolvedOnSuccess` |
| | `ReviewsRestOnReports` | `ReviewHasReport`, a part of the invariant that no run lists by itself |
| | `InProgressIsWorkedOn` | `InProgressHasOpenLink` |
| | `AwaitedReferralIsNewest` | `AwaitsNewestReferral` |
| | `ReportsAreKept` | `ReportedRoundStaysReported` |
| | `ReferralsAreDecidedOnce` | `DecidedReferralIsFinal` |
| | `ClosedLinksStayClosed` | `ClosedLinkStaysClosed` |
| | `ClosedCasesStayClosed` | `ClosedCaseStaysClosed` |
| | `FollowUpImplementsLifecycle` | `FollowsLifecycle` |
| `RoundLineDeliveryProofs` | `DeliveryTypes` | `TypeOK` |
| | `SentIsTrue` | `SentWasAccepted` |
| | `SendsAreExclusive` | `OneSendInFlight` |
| `CaseOpeningProofs` | `OpeningTypes` | `TypeOK` |
| | `LockPreventsRace` | `SharedLockPreventsRace` |
| | `NobodyIsLost` | `AbsentStudentIsCovered` |
| `AttendanceRegisterProofs` | `TypeCorrect` | `TypeOK` |
| | `NoLostSubmission` | `SubmissionsRestOnLatest` |
| | `HistoryIsFaithful` | `HistoryExplainsRegister` |
| | `AnswersAreFollowedUp` | `SavedIsFollowedUp` |
| `RiskProfileQueueProofs` | `RiskQueueTypes` | `TypeOK` |
| | `NothingRecordedIsLost` | `RecordedChangeIsKept`, for at most one worker |
| | `DirtyKeysHaveDrain` | `WorkHasDrain` |
| `DataExportJobProofs` | `ExportTypes` | `TypeOK` |
| | `RunningExportsAreWorkedOn` | `RunningIsWorkedOn` |
| | `PendingExportsAreDispatched` | `PendingIsDispatched` |
| | `CompletedExportsAreDownloadable` | `CompletedIsDownloadable` |
| | `NoObjectIsLeftBehind` | `NoObjectLeftBehind` |
| `ReferralAccessProofs` | `AccessTypes` | `TypeOK` |
| | `ReportsAreCurrent` | `ReportUnderCurrentCode` |
| | `ChallengesAreUsedOnce` | `ChallengeServesOnce` |
| | `LinksLockAtTheLimit` | `LockedAtTheLimit` |
| | `OpenLinksAreAwaited` | `OpenLinkIsAwaited` |
| | `DeadLinksStayDead` | `DeadLinkStaysDead` |
| | `ReferralsImplementFollowUp` | `ReferralsFollowTheCase` |
| | `ReferralsKeepFollowUp` | three invariants of `CaseFollowUp`, through the mapping |
| `ClassroomLinksProofs` | `ClassroomLinkTypes` | `TypeOK` |
| | `OneUsableLinkPerLesson` | `LessonHasOneUsableLink` |
| | `OnlyPresentTokensLetIn` | `OnlyTheEntitledAreLetIn` |

**`CaseFollowUp`** assumes `MaxRounds \in Nat \ {0}`. Its inductive invariant is
the conjunction of the six state invariants and `TypeOK` with three
strengthenings:

* `RoundsInOrder`: no round exists beyond `created`, and none before the case.
  Without it an appended round could overwrite an existing one.
* `InFlightOnTasks`: a submission in flight is on a task round, and a round
  being withdrawn is an unreported one whose link is still `ACTIVE`. This is
  the lock on the link's row: with it a withdrawal cannot overwrite a report.
* `ReferralFollowsReview`: a case waits for an agency only after a review, which
  is what makes the agency's result one more report than reviews answered.

What the neighbours take for granted needs no more: `DeadStayClosed` says that no
step opens a link that was reported on, withdrawn, expired or ran out, one case
per way a step can touch a round, and `ClosedLinksStayClosed` adds that a dropped
case is revived by nothing. `ClosedCaseStep` says the same of a closed one: a
withdrawal alone does not look at the status first, but it leaves a tombstone as
it is and cannot commit on a closed case.

**`RoundLineDelivery`** assumes that every press carries a request id, and that
NULL is none (`RequestAssumption`). `AnswersAreTrue` says that a press that saw
an acceptance has its request accepted, which with `OwnResult` makes `SENT`
true; `FreshSendOwnsClaim` says that a send that is not overdue holds the
link's claim, from which two of them carry one request and so are one press.

**`CaseOpening`** assumes that enrollments have a person, a school and a term,
that there is one at all, and that `NoCase` is not a case
(`EnrollmentAssumption`, `CaseAssumption`). The invariant follows the locks:

* `OneHolder`: one pass or one opening by hand holds an enrollment's row.
* `PassSeesCurrent`: what a pass has read is on its roster and still current.
* `OutdatedPassIsFollowed`: a pass that does not know of an absence is followed
  by another pass over the same student, which still has to read. This is the
  heart of `NobodyIsLost`: a check-in may commit while an older pass is about
  to tombstone, but its own pass waits for the same row.
* `AbsenceIsAttendedTo`: an absent student without a case is on the list of a
  pass that has still to read or to insert; a case that vanishes otherwise was
  a false alarm, or was closed.

**`CaseLifecycle`** is proved implemented from the invariant of `CaseFollowUp`: one lemma per
abstract action, one that everything else leaves the view alone, and one that
the newest outcome changes only with a report or a new assignment.

**`ReferralAccess`** assumes that `Nobody` is no agent and no challenge, and that
the limits are positive (`AccessAssumption`). Its invariant `Access` says what
each store owes the others:

* `ChallengesInOrder`: a challenge that is not approved yet has no approver, an
  approved one has its reporter, and only a consumed one was exchanged.
* `HoldersInOrder`: a request about to issue a session holds a challenge that
  was not exchanged yet, and no other request holds the same.
* `SessionsInOrder`: every session, of the store, of a request or of a report, is
  of the person who approved its challenge; a report is under its link's code.
* `ReferralsInOrder`: nothing beyond `sent`; a link has a report exactly when it
  is used; the one that is active is the newest, of a case that waits.
* `RequestsInOrder`: what a request has read is there.

That it implements the referrals of `CaseFollowUp` (`HelpingAssumption`: the
helping agencies are among those asked) is proved with one lemma per action the
tables show, each of which finds the witness of the follow-up's action: row,
link and window of the one referral that changes (`RowWithReport`,
`RowWithLink`, `RowWithWindow`), the others unchanged (`RowStays`), and the
newest being the one that is awaited (`NewestIsAwaited`). A lock is a step of
the follow-up only once the link has opened, which the code checks when it
compares the code and not when it counts: `FailuresInWindow` says that a wrong
code about to be counted was entered on a link that had opened, and windows only
move on. The case as it is
mapped also has three invariants of `CaseFollowUp` (`ReferralsKeepFollowUp`),
which do not follow from the steps alone, since a step is not bound to the states
`CaseFollowUp` can reach; they follow from `Access`.

**`AttendanceRegister`** assumes that `Present` is no mark and the bound positive
(`RegisterAssumption`). `PagesInOrder` is what the four need beyond themselves: a
page has read no version that does not exist, was told of none that was not
followed up, and one whose request waits for the recalculation has its version
monitored. The history is proved faithful by `SaysAppended` and `SaysKept`: an
entry that names a student gives the new status, one that does not leaves what
the entries before it said.

**`RiskProfileQueue`** assumes that requests and workers are different and that
bounds are bounds (`RiskAssumption`). `NothingRecordedIsLost` adds the
hypothesis `OneWorker`. A marked change is in the dirty keys; or in the draining
keys, with either a drain that still has its student to do (`ClaimIsWorkedOff`)
or none at all, so that the next attempt finds them; `ClaimInOrder` says that a
drain never asks for more than it has claimed, and `SnapshotIsRecent` that what
it has read is at least what was marked when it claimed. `DirtyKeysHaveDrain`
needs no such hypothesis: a worker that is busy has a job (`BusyWorkerHasJob`), and
as long as nothing has failed, a marker has a job or a request about to add one
(`MarkerHasDrain`), so whoever finds the marker set may leave the keys to it.

**`ClassroomLinks`** assumes that the two kinds of links are different and that
`NoLink` is neither (`LinkAssumption`). What closes a standing link closes the
assignments handed on from it, so an active one with a closed source was opened
again by a rotation (`ClosedWithItsSource`), and only assignments are handed on
(`StandingLinkHasNoSource`). `LessonHasOneUsableLink` is inductive with these.
`OnlyTheEntitledAreLetIn` says of a step what the rows said before it, and
follows from the same invariant.

**`DataExportJob`** assumes as much (`ExportAssumption`). The invariant has a
part per property: `PendingIsQueued` says that whoever will add the job finds
the queue empty, since adding a known job changes nothing; `OneHolder` and
`ClosedAlone` that without an overlap one worker has the row and none a closed
one, from which `StoredBeforeCompletion` gives the download; `ObjectIsKept` and
`CleaningExpired` that an object without a key has a worker to delete it, also
while the expiry pass is about to clear the key. What a stopped worker takes
with it is `LostEffect`. The theorems are as conditional as the properties: they
say that nothing but what the table of `harm` in section 8 names leaves an export
waiting without a job (`PendingExportsAreDispatched`) or a completed one without
its file (`CompletedExportsAreDownloadable`).

In each module the preservation of the invariant is one lemma per action, or
per part of the invariant with one step per action; the temporal theorems follow
with PTL. The invariants were checked with TLC on the instances above before
they were proved.

Model-checked only: `AssignmentEnds`, `SendingEnds`, `RecordedChangeIsReflected`,
`ExpiredIsCleared` and `ExportEnds` (liveness and `ENABLED` are outside the
prover), and the violated properties, which are not theorems. Every other
property of every run is a theorem.

## 13. Not modelled

*Within the modelled components:* what a report contains; the home address it
writes back; the overdue reminder and its flag; notifications and audit records,
which are written after the commits and read by no transition; permissions and
data scopes, which decide who may make a request and not what it does (except
for the look-up of an active case, where the scope is modelled); what an export
contains, and the limit on how many exports one expiry pass takes; the repair of
missing risk profiles at start-up and their schedule; the other scopes of AraID
challenges (classroom and teacher links), which share the store and add checks
of their own; everything the plan still names.

*Other components:* `PROJECT.json` lists them as `not_modelled`, with the reason
for each.

*Size.* The repository has some 163 000 lines, and the models stand for a small
share of them. Most of the rest has no protocol to model: read queries of
dashboards, lists and statistics, each a statement of SQL; validation and
mapping of requests; catalogues (one file of administrative areas alone is more
than eight thousand lines); bootstrap SQL, migrations and seed data, which are
history; smoke and browser scripts, which drive the program from outside;
permission tables. A formula for them would repeat the statement it is taken
from. The lines that change shared state in several steps are the ones above
and the ones the plan names.
