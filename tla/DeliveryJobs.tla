---------------------------- MODULE DeliveryJobs ----------------------------
(***************************************************************************)
(* The life of a delivery job (table delivery_jobs): the request that      *)
(* creates it, the run that sends the book (services/delivery.py), the     *)
(* cancel and retry requests (api/deliveries.py), the reader's download of *)
(* a browser link (api/tierc.py) and the periodic sweeper                  *)
(* (services/delivery_sweeper.py), interleaved at the points where the     *)
(* code awaits, with a crash of the process between any two steps.         *)
(*                                                                         *)
(* Every write is an UPDATE by primary key of the columns the session      *)
(* changed (SQLAlchemy, READ COMMITTED, expire_on_commit=False): no write  *)
(* looks again at the status it was decided upon.  Only the per-job        *)
(* advisory lock keeps writers apart, and the sweeper does not take it.    *)
(*                                                                         *)
(* A job's route stands for the pair (device tier, method): "email" is     *)
(* tier A, "cloud" tier B, "code" tier C by browser code, "catalog" an     *)
(* OPDS delivery of tier C or D.                                           *)
(***************************************************************************)
EXTENDS Naturals

CONSTANTS
  Jobs,         \* delivery jobs
  Tasks,        \* runs of a delivery that may be in memory at one time
  Requests,     \* cancel or retry requests that may be served at one time
  Sweepers,     \* sweeper loops (one per process)
  NoJob,        \* "no job": the field of an idle task or request
  NoOne,        \* "no owner": a free advisory lock
  MaxAttempts,  \* settings.smtp_retry_max_attempts
  MaxRuns,      \* bound: how often one job is put in the queue
  MaxCrashes    \* bound: crashes of the process

ASSUME JobsAssumption == NoJob \notin Jobs
ASSUME ActorsAssumption ==
  /\ NoOne \notin Tasks \union Requests
  /\ Tasks \intersect Requests = {}
ASSUME BoundsAssumption ==
  MaxAttempts \in Nat \ {0} /\ MaxRuns \in Nat \ {0} /\ MaxCrashes \in Nat

VARIABLES
  \* the row of each job
  status, error, attempts, route,
  stale,      \* created_at is older than delivery_stuck_after_minutes
  links,      \* short codes of the job a reader can still use
  \* who holds the job's advisory lock
  lock,
  \* runs: program counter, job, loop variable n of the SMTP loop
  tpc, tjob, tn,
  \* cancel and retry requests; the download under way of a link of the job,
  \* which writes the status when it ends unless it read it as delivered
  hpc, hjob, download,
  \* rows a sweeper has selected and not yet written
  picked,
  \* history: enqueues of the job; since the last one, copies the relay or the
  \* cloud took, cancelled, a run ended that wrote nothing; crashes
  runs, copies, cancelled, unsettled, crashes

rowVars == <<status, error, attempts, route, stale, links>>
taskVars == <<tpc, tjob, tn>>
requestVars == <<hpc, hjob, download>>
historyVars == <<runs, copies, cancelled, unsettled, crashes>>
vars == <<rowVars, lock, taskVars, requestVars, picked, historyVars>>

Statuses == {"absent", "queued", "sent", "delivered", "failed"}
Errors == {"none", "delivery", "cancelled", "interrupted"}
Routes == {"email", "cloud", "code", "catalog"}

\* Between reading the row as queued and the write that ends the delivery.
Working == {"prepare", "sending", "backoff", "accepted",
            "uploading", "uploaded", "coded"}

Executing(j) == \E t \in Tasks : tjob[t] = j /\ tpc[t] \in Working

-----------------------------------------------------------------------------
Init ==
  /\ status = [j \in Jobs |-> "absent"]
  /\ error = [j \in Jobs |-> "none"]
  /\ attempts = [j \in Jobs |-> 0]
  /\ route = [j \in Jobs |-> "email"]
  /\ stale = [j \in Jobs |-> FALSE]
  /\ links = [j \in Jobs |-> 0]
  /\ lock = [j \in Jobs |-> NoOne]
  /\ tpc = [t \in Tasks |-> "idle"]
  /\ tjob = [t \in Tasks |-> NoJob]
  /\ tn = [t \in Tasks |-> 0]
  /\ hpc = [h \in Requests |-> "idle"]
  /\ hjob = [h \in Requests |-> NoJob]
  /\ download = [j \in Jobs |-> "none"]
  /\ picked = [s \in Sweepers |-> {}]
  /\ runs = [j \in Jobs |-> 0]
  /\ copies = [j \in Jobs |-> 0]
  /\ cancelled = [j \in Jobs |-> FALSE]
  /\ unsettled = [j \in Jobs |-> FALSE]
  /\ crashes = 0

(***************************************************************************)
(* Pieces of the actions.                                                  *)
(***************************************************************************)
GoTo(t, label) == tpc' = [tpc EXCEPT ![t] = label] /\ UNCHANGED <<tjob, tn>>

\* Hand a run of job j to an idle task: a BackgroundTask (tiers A and B) or
\* the request's own coroutine (tiers C and D).
Dispatch(t, j) ==
  /\ tpc[t] = "idle"
  /\ tpc' = [tpc EXCEPT ![t] = "dispatched"]
  /\ tjob' = [tjob EXCEPT ![t] = j]
  /\ tn' = [tn EXCEPT ![t] = 0]

WriteStatus(j, s) ==
  status' = [status EXCEPT ![j] = s] /\ UNCHANGED <<error, attempts, route, stale, links>>

\* _fail: the error is written with the status, in one commit.
Fail(j, why) ==
  /\ status' = [status EXCEPT ![j] = "failed"]
  /\ error' = [error EXCEPT ![j] = why]
  /\ UNCHANGED <<attempts, route, stale, links>>

CopyTaken(j) ==
  copies' = [copies EXCEPT ![j] = @ + 1] /\ UNCHANGED <<runs, cancelled, unsettled, crashes>>

-----------------------------------------------------------------------------
(***************************************************************************)
(* Requests.  A create inserts the row and dispatches it.                  *)
(***************************************************************************)
Create(j, r, t) ==
  /\ status[j] = "absent"
  /\ status' = [status EXCEPT ![j] = "queued"]
  /\ route' = [route EXCEPT ![j] = r]
  /\ runs' = [runs EXCEPT ![j] = 1]
  /\ Dispatch(t, j)
  /\ UNCHANGED <<error, attempts, stale, links, lock, requestVars, picked,
                 copies, cancelled, unsettled, crashes>>

\* Faulty variant: the answer of pg_try_advisory_xact_lock is not looked at.
TakeLockForced(h, j, kind) ==
  /\ hpc[h] = "idle"
  /\ status[j] # "absent"
  /\ lock' = [lock EXCEPT ![j] = h]
  /\ hpc' = [hpc EXCEPT ![h] = kind]
  /\ hjob' = [hjob EXCEPT ![h] = j]
  /\ UNCHANGED <<rowVars, taskVars, download, picked, historyVars>>

\* _owned_job: the transaction takes the advisory lock (409 at once when it is
\* taken: nothing changes), then the row lock, and reads the row afresh.
TakeLock(h, j, kind) ==
  /\ hpc[h] = "idle"
  /\ status[j] # "absent"
  /\ lock[j] = NoOne
  /\ lock' = [lock EXCEPT ![j] = h]
  /\ hpc' = [hpc EXCEPT ![h] = kind]
  /\ hjob' = [hjob EXCEPT ![h] = j]
  /\ UNCHANGED <<rowVars, taskVars, download, picked, historyVars>>

\* The commit, or the end of the session, frees both locks.
EndRequest(h) ==
  /\ lock' = [lock EXCEPT ![hjob[h]] = NoOne]
  /\ hpc' = [hpc EXCEPT ![h] = "idle"]
  /\ hjob' = [hjob EXCEPT ![h] = NoJob]
  /\ UNCHANGED download

CancelCommits(h) ==
  /\ hpc[h] = "cancel"
  /\ status[hjob[h]] = "queued"
  /\ Fail(hjob[h], "cancelled")
  /\ cancelled' = [cancelled EXCEPT ![hjob[h]] = TRUE]
  /\ EndRequest(h)
  /\ UNCHANGED <<taskVars, picked, runs, copies, unsettled, crashes>>

\* Faulty variant: a retry is refused only while the job is queued.
RetryCommitsAny(h, t) ==
  LET j == hjob[h] IN
  /\ hpc[h] = "retry"
  /\ status[j] # "queued"
  /\ runs[j] < MaxRuns
  /\ status' = [status EXCEPT ![j] = "queued"]
  /\ error' = [error EXCEPT ![j] = "none"]
  /\ attempts' = [attempts EXCEPT ![j] = 0]
  /\ runs' = [runs EXCEPT ![j] = @ + 1]
  /\ copies' = [copies EXCEPT ![j] = 0]
  /\ cancelled' = [cancelled EXCEPT ![j] = FALSE]
  /\ unsettled' = [unsettled EXCEPT ![j] = FALSE]
  /\ EndRequest(h)
  /\ Dispatch(t, j)
  /\ UNCHANGED <<route, stale, links, picked, crashes>>

\* created_at is not touched: an old job that is retried is still old.
RetryCommits(h, t) ==
  LET j == hjob[h] IN
  /\ hpc[h] = "retry"
  /\ status[j] = "failed"
  /\ runs[j] < MaxRuns
  /\ status' = [status EXCEPT ![j] = "queued"]
  /\ error' = [error EXCEPT ![j] = "none"]
  /\ attempts' = [attempts EXCEPT ![j] = 0]
  /\ runs' = [runs EXCEPT ![j] = @ + 1]
  /\ copies' = [copies EXCEPT ![j] = 0]
  /\ cancelled' = [cancelled EXCEPT ![j] = FALSE]
  /\ unsettled' = [unsettled EXCEPT ![j] = FALSE]
  /\ EndRequest(h)
  /\ Dispatch(t, j)
  /\ UNCHANGED <<route, stale, links, picked, crashes>>

\* 409, 400 or 429 once the locks are held.  A retry may be refused whatever the
\* status: book deleted, method unavailable, quota reached.
Refuse(h) ==
  /\ \/ hpc[h] = "retry"
     \/ hpc[h] = "cancel" /\ status[hjob[h]] # "queued"
  /\ EndRequest(h)
  /\ UNCHANGED <<rowVars, taskVars, picked, historyVars>>

\* The reader follows a short code: its row and the job's are read, then the
\* book may be converted.  Bound: one download of a job at a time.
ReadLink(j) ==
  /\ links[j] > 0 /\ download[j] = "none"
  /\ download' = [download EXCEPT ![j] = IF status[j] = "delivered" THEN "leaves" ELSE "settles"]
  /\ UNCHANGED <<rowVars, lock, taskVars, hpc, hjob, picked, historyVars>>

EndDownload(j) ==
  /\ download' = [download EXCEPT ![j] = "none"]
  /\ UNCHANGED <<error, attempts, route, stale, lock, taskVars, hpc, hjob, picked, historyVars>>

\* The one commit of both rows, whatever the job's status is by now.  The
\* UPDATE waits for a request that holds the row lock.
Download(j) ==
  /\ download[j] # "none"
  /\ lock[j] \notin Requests
  /\ links' = [links EXCEPT ![j] = @ - 1]
  /\ status' = IF download[j] = "settles" THEN [status EXCEPT ![j] = "delivered"] ELSE status
  /\ EndDownload(j)

\* The conversion fails, or gives another format.
DownloadFails(j) == download[j] # "none" /\ EndDownload(j) /\ UNCHANGED <<status, links>>

-----------------------------------------------------------------------------
(***************************************************************************)
(* A run: run_delivery or deliver_synchronously, then deliver.             *)
(***************************************************************************)
\* Faulty variants: the lock is not looked at; the status is not read again
\* under the lock; a run that finds the job settled returns without unlocking.
StartUnlocked(t) ==
  /\ tpc[t] = "dispatched"
  /\ lock' = [lock EXCEPT ![tjob[t]] = t]
  /\ GoTo(t, IF status[tjob[t]] = "queued" THEN "prepare" ELSE "unlock")
  /\ UNCHANGED <<rowVars, requestVars, picked, historyVars>>

StartBlind(t) ==
  /\ tpc[t] = "dispatched"
  /\ lock[tjob[t]] = NoOne
  /\ lock' = [lock EXCEPT ![tjob[t]] = t]
  /\ GoTo(t, "prepare")
  /\ UNCHANGED <<rowVars, requestVars, picked, historyVars>>

StartLeaky(t) ==
  /\ tpc[t] = "dispatched"
  /\ lock[tjob[t]] = NoOne
  /\ lock' = [lock EXCEPT ![tjob[t]] = t]
  /\ GoTo(t, IF status[tjob[t]] = "queued" THEN "prepare" ELSE "idle")
  /\ UNCHANGED <<rowVars, requestVars, picked, historyVars>>

\* The session-level advisory lock, then the fresh read of the row.
Start(t) ==
  /\ tpc[t] = "dispatched"
  /\ lock[tjob[t]] = NoOne
  /\ lock' = [lock EXCEPT ![tjob[t]] = t]
  /\ GoTo(t, IF status[tjob[t]] = "queued" THEN "prepare" ELSE "unlock")
  /\ UNCHANGED <<rowVars, requestVars, picked, historyVars>>

\* The lock is taken: the run ends there, and nothing runs the job again.
StartRefused(t) ==
  /\ tpc[t] = "dispatched"
  /\ lock[tjob[t]] # NoOne
  /\ tpc' = [tpc EXCEPT ![t] = "idle"]
  /\ tjob' = [tjob EXCEPT ![t] = NoJob]
  /\ tn' = [tn EXCEPT ![t] = 0]
  /\ UNCHANGED <<rowVars, lock, requestVars, picked, historyVars>>

\* Book or device gone, no recipient, quota, no SMTP, no cloud link, conversion.
PrepareFails(t) ==
  /\ tpc[t] = "prepare"
  /\ Fail(tjob[t], "delivery")
  /\ GoTo(t, "unlock")
  /\ UNCHANGED <<lock, requestVars, picked, historyVars>>

\* Faulty variant: the counter starts at zero.
AttemptUncounted(t) ==
  /\ \/ tpc[t] = "prepare" /\ route[tjob[t]] = "email"
     \/ tpc[t] = "backoff"
  /\ tpc' = [tpc EXCEPT ![t] = "sending"]
  /\ tn' = [tn EXCEPT ![t] = @ + 1]
  /\ attempts' = [attempts EXCEPT ![tjob[t]] = tn[t]]
  /\ UNCHANGED <<tjob, status, error, route, stale, links, lock, requestVars,
                 picked, historyVars>>

\* job.attempts = n is committed before the n-th call of the relay.
Attempt(t) ==
  /\ \/ tpc[t] = "prepare" /\ route[tjob[t]] = "email"
     \/ tpc[t] = "backoff"
  /\ tpc' = [tpc EXCEPT ![t] = "sending"]
  /\ tn' = [tn EXCEPT ![t] = @ + 1]
  /\ attempts' = [attempts EXCEPT ![tjob[t]] = tn[t] + 1]
  /\ UNCHANGED <<tjob, status, error, route, stale, links, lock, requestVars,
                 picked, historyVars>>

RelayAccepts(t) ==
  /\ tpc[t] = "sending"
  /\ CopyTaken(tjob[t])
  /\ GoTo(t, "accepted")
  /\ UNCHANGED <<rowVars, lock, requestVars, picked>>

\* Faulty variant: one attempt too many.
RelayErrsLate(t, taken) ==
  /\ tpc[t] = "sending"
  /\ IF taken THEN CopyTaken(tjob[t]) ELSE UNCHANGED historyVars
  /\ IF tn[t] > MaxAttempts
     THEN Fail(tjob[t], "delivery") /\ GoTo(t, "unlock")
     ELSE UNCHANGED rowVars /\ GoTo(t, "backoff")
  /\ UNCHANGED <<lock, requestVars, picked>>

\* A transient error: back off, or fail when the attempts are spent.  The relay
\* may have taken the message all the same (timeout, disconnection, QUIT).
RelayErrs(t, taken) ==
  /\ tpc[t] = "sending"
  /\ IF taken THEN CopyTaken(tjob[t]) ELSE UNCHANGED historyVars
  /\ IF tn[t] >= MaxAttempts
     THEN Fail(tjob[t], "delivery") /\ GoTo(t, "unlock")
     ELSE UNCHANGED rowVars /\ GoTo(t, "backoff")
  /\ UNCHANGED <<lock, requestVars, picked>>

\* A permanent refusal, or a message too large for the relay.
RelayRejects(t) ==
  /\ tpc[t] = "sending"
  /\ Fail(tjob[t], "delivery")
  /\ GoTo(t, "unlock")
  /\ UNCHANGED <<lock, requestVars, picked, historyVars>>

ConfirmSent(t) ==
  /\ tpc[t] = "accepted"
  /\ WriteStatus(tjob[t], "sent")
  /\ GoTo(t, "unlock")
  /\ UNCHANGED <<lock, requestVars, picked, historyVars>>

\* Tier B says "sent" before the upload begins.
MarkUploading(t) ==
  /\ tpc[t] = "prepare" /\ route[tjob[t]] = "cloud"
  /\ WriteStatus(tjob[t], "sent")
  /\ GoTo(t, "uploading")
  /\ UNCHANGED <<lock, requestVars, picked, historyVars>>

UploadSucceeds(t) ==
  /\ tpc[t] = "uploading"
  /\ CopyTaken(tjob[t])
  /\ GoTo(t, "uploaded")
  /\ UNCHANGED <<rowVars, lock, requestVars, picked>>

UploadFails(t, taken) ==
  /\ tpc[t] = "uploading"
  /\ IF taken THEN CopyTaken(tjob[t]) ELSE UNCHANGED historyVars
  /\ Fail(tjob[t], "delivery")
  /\ GoTo(t, "unlock")
  /\ UNCHANGED <<lock, requestVars, picked>>

ConfirmDelivered(t) ==
  /\ tpc[t] = "uploaded"
  /\ WriteStatus(tjob[t], "delivered")
  /\ GoTo(t, "unlock")
  /\ UNCHANGED <<lock, requestVars, picked, historyVars>>

\* Tier C: the short code has its own commit; nobody knows it before the
\* request answers with the URL.
IssueCode(t) ==
  /\ tpc[t] = "prepare" /\ route[tjob[t]] = "code"
  /\ GoTo(t, "coded")
  /\ UNCHANGED <<rowVars, lock, requestVars, picked, historyVars>>

PublishCode(t) ==
  /\ tpc[t] = "coded"
  /\ status' = [status EXCEPT ![tjob[t]] = "sent"]
  /\ links' = [links EXCEPT ![tjob[t]] = @ + 1]
  /\ GoTo(t, "unlock")
  /\ UNCHANGED <<error, attempts, route, stale, lock, requestVars, picked, historyVars>>

PublishCatalog(t) ==
  /\ tpc[t] = "prepare" /\ route[tjob[t]] = "catalog"
  /\ WriteStatus(tjob[t], "sent")
  /\ GoTo(t, "unlock")
  /\ UNCHANGED <<lock, requestVars, picked, historyVars>>

\* The safety net of deliver: a database error at one of its own commits.
Unexpected(t) ==
  /\ tpc[t] \in {"backoff", "accepted", "uploaded", "coded"}
  /\ Fail(tjob[t], "delivery")
  /\ GoTo(t, "unlock")
  /\ UNCHANGED <<lock, requestVars, picked, historyVars>>

\* The safety net's own commit fails in turn: the row stays as it was.
LeaveUnsettled(t) ==
  /\ tpc[t] \in Working
  /\ unsettled' = [unsettled EXCEPT ![tjob[t]] = TRUE]
  /\ GoTo(t, "unlock")
  /\ UNCHANGED <<rowVars, lock, requestVars, picked, runs, copies, cancelled, crashes>>

Unlock(t) ==
  /\ tpc[t] = "unlock"
  /\ lock' = [lock EXCEPT ![tjob[t]] = NoOne]
  /\ tpc' = [tpc EXCEPT ![t] = "idle"]
  /\ tjob' = [tjob EXCEPT ![t] = NoJob]
  /\ tn' = [tn EXCEPT ![t] = 0]
  /\ UNCHANGED <<rowVars, requestVars, picked, historyVars>>

RunStep(t) ==
  \/ Start(t) \/ StartRefused(t) \/ PrepareFails(t) \/ Attempt(t)
  \/ RelayAccepts(t) \/ (\E taken \in BOOLEAN : RelayErrs(t, taken))
  \/ RelayRejects(t) \/ ConfirmSent(t)
  \/ MarkUploading(t) \/ UploadSucceeds(t)
  \/ (\E taken \in BOOLEAN : UploadFails(t, taken)) \/ ConfirmDelivered(t)
  \/ IssueCode(t) \/ PublishCode(t) \/ PublishCatalog(t)
  \/ Unexpected(t) \/ LeaveUnsettled(t) \/ Unlock(t)

-----------------------------------------------------------------------------
(***************************************************************************)
(* The sweeper: one SELECT, then one UPDATE per selected row, no lock.     *)
(***************************************************************************)
\* Faulty variant: the age test is the wrong way round.
SweepSelectRecent(s) ==
  LET stuck == {j \in Jobs : status[j] = "queued" /\ ~stale[j]} IN
  /\ picked[s] = {}
  /\ stuck # {}
  /\ picked' = [picked EXCEPT ![s] = stuck]
  /\ UNCHANGED <<rowVars, lock, taskVars, requestVars, historyVars>>

SweepSelect(s) ==
  LET stuck == {j \in Jobs : status[j] = "queued" /\ stale[j]} IN
  /\ picked[s] = {}
  /\ stuck # {}
  /\ picked' = [picked EXCEPT ![s] = stuck]
  /\ UNCHANGED <<rowVars, lock, taskVars, requestVars, historyVars>>

\* The UPDATE waits for a request that holds the row lock of a selected job.
SweepWrite(s) ==
  /\ picked[s] # {}
  /\ \A j \in picked[s] : lock[j] \notin Requests
  /\ status' = [j \in Jobs |-> IF j \in picked[s] THEN "failed" ELSE status[j]]
  /\ error' = [j \in Jobs |-> IF j \in picked[s] THEN "interrupted" ELSE error[j]]
  /\ picked' = [picked EXCEPT ![s] = {}]
  /\ UNCHANGED <<attempts, route, stale, links, lock, taskVars, requestVars, historyVars>>

\* Time passes: the job becomes older than the sweeper's threshold.
Age(j) ==
  /\ status[j] # "absent" /\ ~stale[j]
  /\ stale' = [stale EXCEPT ![j] = TRUE]
  /\ UNCHANGED <<status, error, attempts, route, links, lock, taskVars,
                 requestVars, picked, historyVars>>

\* The process dies: runs, requests and sweeps are lost; Postgres frees every
\* lock of the dropped connections and keeps the committed rows.
Crash ==
  /\ crashes < MaxCrashes
  /\ crashes' = crashes + 1
  /\ lock' = [j \in Jobs |-> NoOne]
  /\ tpc' = [t \in Tasks |-> "idle"]
  /\ tjob' = [t \in Tasks |-> NoJob]
  /\ tn' = [t \in Tasks |-> 0]
  /\ hpc' = [h \in Requests |-> "idle"]
  /\ hjob' = [h \in Requests |-> NoJob]
  /\ download' = [j \in Jobs |-> "none"]
  /\ picked' = [s \in Sweepers |-> {}]
  /\ UNCHANGED <<rowVars, runs, copies, cancelled, unsettled>>

RequestStep(h) ==
  \/ \E j \in Jobs, kind \in {"cancel", "retry"} : TakeLock(h, j, kind)
  \/ CancelCommits(h)
  \/ \E t \in Tasks : RetryCommits(h, t)
  \/ Refuse(h)

Next ==
  \/ \E j \in Jobs, r \in Routes, t \in Tasks : Create(j, r, t)
  \/ \E h \in Requests : RequestStep(h)
  \/ \E j \in Jobs : ReadLink(j) \/ Download(j) \/ DownloadFails(j) \/ Age(j)
  \/ \E t \in Tasks : RunStep(t)
  \/ \E s \in Sweepers : SweepSelect(s) \/ SweepWrite(s)
  \/ Crash

Spec == Init /\ [][Next]_vars

(***************************************************************************)
(* A run makes progress (the relay, the converter and the cloud calls have *)
(* timeouts), an admitted request ends, time passes, and the sweeper loop  *)
(* runs.  A sweeper waiting for a row lock is served by Postgres in turn,  *)
(* however many requests come after it: strong fairness.                   *)
(***************************************************************************)
Fairness ==
  /\ \A t \in Tasks : WF_vars(RunStep(t))
  /\ \A h \in Requests :
       WF_vars(CancelCommits(h) \/ (\E t \in Tasks : RetryCommits(h, t)) \/ Refuse(h))
  /\ \A j \in Jobs : WF_vars(Age(j))
  /\ \A s \in Sweepers : WF_vars(SweepSelect(s)) /\ SF_vars(SweepWrite(s))

FairSpec == Spec /\ Fairness
-----------------------------------------------------------------------------
(***************************************************************************)
(* Properties.                                                             *)
(***************************************************************************)
TypeOK ==
  /\ status \in [Jobs -> Statuses]
  /\ error \in [Jobs -> Errors]
  /\ attempts \in [Jobs -> 0..MaxAttempts]
  /\ route \in [Jobs -> Routes]
  /\ stale \in [Jobs -> BOOLEAN]
  /\ links \in [Jobs -> Nat]
  /\ lock \in [Jobs -> Tasks \union Requests \union {NoOne}]
  /\ tpc \in [Tasks -> Working \union {"idle", "dispatched", "unlock"}]
  /\ tjob \in [Tasks -> Jobs \union {NoJob}]
  /\ tn \in [Tasks -> 0..MaxAttempts]
  /\ hpc \in [Requests -> {"idle", "cancel", "retry"}]
  /\ hjob \in [Requests -> Jobs \union {NoJob}]
  /\ download \in [Jobs -> {"none", "settles", "leaves"}]
  /\ picked \in [Sweepers -> SUBSET Jobs]
  /\ runs \in [Jobs -> 0..MaxRuns]
  /\ copies \in [Jobs -> Nat]
  /\ cancelled \in [Jobs -> BOOLEAN]
  /\ unsettled \in [Jobs -> BOOLEAN]
  /\ crashes \in 0..MaxCrashes

(***************************************************************************)
(* ADR 0018: the advisory lock serialises execution, cancellation and      *)
(* retry.  At most one run or admitted request is between taking a job's   *)
(* lock and releasing it.                                                  *)
(***************************************************************************)
Engaged(j) ==
  {t \in Tasks : tjob[t] = j /\ tpc[t] \in Working \union {"unlock"}}
    \union {h \in Requests : hjob[h] = j /\ hpc[h] # "idle"}

MutualExclusion == \A j \in Jobs : \A a, b \in Engaged(j) : a = b

(***************************************************************************)
(* ADR 0018: "a cancelled job never runs".  From a successful cancel until *)
(* a retry no run is working on the job, even one that was dispatched      *)
(* before, and nothing reaches the relay or the cloud.                     *)
(***************************************************************************)
CancelledNeverExecutes == \A j \in Jobs : cancelled[j] => ~Executing(j)

(***************************************************************************)
(* What the status says has happened in the current run: "sent" by email   *)
(* means the relay took a copy since the job was last queued, "delivered"  *)
(* by cloud that an upload ended.  It is at risk when a retry re-queues a  *)
(* job whose previous run is still at work.                                *)
(***************************************************************************)
TruthfulStatus ==
  \A j \in Jobs :
    /\ route[j] = "email" /\ status[j] = "sent" => copies[j] > 0
    /\ route[j] = "cloud" /\ status[j] = "delivered" => copies[j] > 0

(***************************************************************************)
(* The column attempts, committed before each call of the relay, bounds    *)
(* the copies the relay may have taken since the job was last queued:      *)
(* across crashes, sweeps, late runs and retries it never understates,     *)
(* unless a run could not write how it ended (unsettled): the job is still *)
(* queued, and a run dispatched before it counts from one again.           *)
(***************************************************************************)
AttemptsBoundCopies ==
  \A j \in Jobs : route[j] = "email" /\ ~unsettled[j] => copies[j] <= attempts[j]

(***************************************************************************)
(* A job goes back to the queue only from "failed" and only when no run is *)
(* working on it, although the sweeper fails jobs under a working run.     *)
(***************************************************************************)
RequeuedAtRest ==
  [][\A j \in Jobs :
       status[j] \notin {"absent", "queued"} /\ status'[j] = "queued"
         => status[j] = "failed" /\ ~Executing(j)]_vars

(***************************************************************************)
(* A job announced as sent or delivered goes back only through a sweeper   *)
(* that selected it earlier, through a cloud upload that fails after       *)
(* "sent", or through a run that ends after the reader's download of a     *)
(* link of an earlier run.                                                 *)
(***************************************************************************)
Regresses(j) ==
  \/ status[j] \in {"sent", "delivered"} /\ status'[j] \in {"queued", "failed"}
  \/ status[j] = "delivered" /\ status'[j] = "sent"

RegressionHasCause ==
  [][\A j \in Jobs : Regresses(j) =>
       \/ \E s \in Sweepers : j \in picked[s]
       \/ route[j] = "cloud" /\ status[j] = "sent" /\ Executing(j)
       \/ route[j] = "code" /\ runs[j] > 1 /\ Executing(j)]_vars

(***************************************************************************)
(* delivery_sweeper.py, reap_stuck_jobs: "Ne touche jamais un job sent,    *)
(* delivered ou failed".  No job the sweeper writes has meanwhile been     *)
(* announced as sent or delivered.                                         *)
(***************************************************************************)
SweeperSparesAnnouncedJobs ==
  [][\A s \in Sweepers : SweepWrite(s) =>
       \A j \in picked[s] : status[j] \notin {"sent", "delivered"}]_vars

(***************************************************************************)
(* Every queued job leaves the queue, even when its dispatch was lost to a *)
(* crash or to a request that held the lock: a run settles it, its owner   *)
(* cancels it, or the sweeper fails it.                                    *)
(***************************************************************************)
QueuedIsResolved == \A j \in Jobs : status[j] = "queued" ~> status[j] # "queued"

(***************************************************************************)
(* A job's lock is never kept for good: a run or a request that holds it   *)
(* releases it, on every path.                                             *)
(***************************************************************************)
LockIsReleased == \A j \in Jobs : lock[j] # NoOne ~> lock[j] = NoOne

(***************************************************************************)
(* To its owner a job is a DeliveryLifecycle: one execution at a time, no  *)
(* locks, no tasks, no requests.                                           *)
(***************************************************************************)
Lifecycle == INSTANCE DeliveryLifecycle
  WITH executing <- [j \in Jobs |-> Executing(j)]

ImplementsLifecycle == Lifecycle!Spec

-----------------------------------------------------------------------------
(***************************************************************************)
(* The inductive invariant behind the safety properties.                   *)
(***************************************************************************)
\* Whoever is engaged on a job holds its lock.
OwnerInv ==
  /\ \A t \in Tasks : tpc[t] \in Working \union {"unlock"} => lock[tjob[t]] = t
  /\ \A h \in Requests : hpc[h] # "idle" => lock[hjob[h]] = h

\* Only a created job is named by anyone; what a fresh job's row looks like.
ExistsInv ==
  /\ \A t \in Tasks : tpc[t] # "idle" => tjob[t] \in Jobs /\ status[tjob[t]] # "absent"
  /\ \A h \in Requests : hpc[h] # "idle" => hjob[h] \in Jobs /\ status[hjob[h]] # "absent"
  /\ \A s \in Sweepers, j \in Jobs : j \in picked[s] => status[j] # "absent"
  /\ \A j \in Jobs : status[j] = "absent" => copies[j] = 0 /\ ~cancelled[j]
  /\ \A j \in Jobs : links[j] > 0 => status[j] # "absent" /\ route[j] = "code"
  /\ \A j \in Jobs : download[j] # "none" => links[j] > 0

\* A cancelled job is out of the queue; a run that is about to unlock has
\* left the job out of the queue, if it could write how it ended.
QueueInv ==
  /\ \A j \in Jobs : cancelled[j] => status[j] # "queued"
  /\ \A t \in Tasks : tpc[t] = "unlock" => status[tjob[t]] # "queued" \/ unsettled[tjob[t]]

\* Where a run stands on its route.
RouteInv ==
  \A t \in Tasks :
    /\ tpc[t] \in {"sending", "backoff", "accepted"} => route[tjob[t]] = "email"
    /\ tpc[t] \in {"uploading", "uploaded"} => route[tjob[t]] = "cloud"
    /\ tpc[t] = "coded" => route[tjob[t]] = "code"

\* What a run knows of the attempts and of the copies taken.
CountInv ==
  \A t \in Tasks :
    /\ tpc[t] \in {"dispatched", "prepare"} => tn[t] = 0
    /\ tpc[t] = "dispatched" /\ status[tjob[t]] = "queued" /\ lock[tjob[t]] \notin Tasks
         => copies[tjob[t]] = 0 \/ unsettled[tjob[t]]
    /\ tpc[t] = "prepare" => copies[tjob[t]] = 0 \/ unsettled[tjob[t]]
    /\ tpc[t] \in {"sending", "backoff", "accepted"} => attempts[tjob[t]] = tn[t]
    /\ tpc[t] = "sending" => copies[tjob[t]] < tn[t] \/ unsettled[tjob[t]]
    /\ tpc[t] = "backoff" => tn[t] < MaxAttempts
    /\ tpc[t] \in {"accepted", "uploaded"} => copies[tjob[t]] > 0

IInv ==
  /\ TypeOK /\ OwnerInv /\ ExistsInv /\ QueueInv /\ RouteInv /\ CountInv
  /\ CancelledNeverExecutes /\ TruthfulStatus /\ AttemptsBoundCopies
=============================================================================
