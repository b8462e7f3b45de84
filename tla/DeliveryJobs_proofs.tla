------------------------ MODULE DeliveryJobs_proofs ------------------------
(***************************************************************************)
(* The safety properties of DeliveryJobs, for every set of jobs, runs,     *)
(* requests and sweepers and for every bound.  IInv is inductive; its      *)
(* preservation is proved action by action.                                *)
(***************************************************************************)
EXTENDS DeliveryJobs, TLAPS

USE DEF Statuses, Errors, Routes, Working

\* The invariant holds of a platform that starts on an empty database.
LEMMA InitIInv == Init => IInv
  BY ActorsAssumption, BoundsAssumption
  DEF Init, IInv, TypeOK, OwnerInv, ExistsInv, QueueInv, RouteInv, CountInv,
      CancelledNeverExecutes, Executing, TruthfulStatus, AttemptsBoundCopies

-----------------------------------------------------------------------------
\* The requests and the reader.
LEMMA CreateKeeps ==
  ASSUME IInv, NEW j \in Jobs, NEW r \in Routes, NEW t \in Tasks, Create(j, r,
      t)
  PROVE  IInv'
<1> USE ActorsAssumption, JobsAssumption, BoundsAssumption
    DEF Create, Dispatch, rowVars, taskVars, requestVars, historyVars, IInv
<1>1. TypeOK'
  BY DEF TypeOK
<1>2. OwnerInv'
  BY DEF OwnerInv
<1>3. ExistsInv'
  BY DEF TypeOK, ExistsInv
<1>4. QueueInv'
  BY DEF ExistsInv, QueueInv
<1>5. RouteInv'
  BY DEF ExistsInv, RouteInv
<1>6. CountInv'
  BY DEF TypeOK, ExistsInv, CountInv
<1>7. CancelledNeverExecutes'
  BY DEF CancelledNeverExecutes, Executing
<1>8. TruthfulStatus'
  BY DEF TruthfulStatus
<1>9. AttemptsBoundCopies'
  BY DEF TypeOK, ExistsInv, AttemptsBoundCopies
<1> QED BY <1>1, <1>2, <1>3, <1>4, <1>5, <1>6, <1>7, <1>8, <1>9

LEMMA TakeLockKeeps ==
  ASSUME IInv, NEW h \in Requests, NEW j \in Jobs, NEW kind \in {"cancel",
      "retry"}, TakeLock(h, j, kind)
  PROVE  IInv'
<1> USE ActorsAssumption, JobsAssumption, BoundsAssumption
    DEF TakeLock, rowVars, taskVars, requestVars, historyVars, IInv
<1>1. TypeOK'
  BY DEF TypeOK
<1>2. OwnerInv'
  BY DEF TypeOK, OwnerInv
<1>3. ExistsInv'
  BY DEF TypeOK, ExistsInv
<1>4. QueueInv'
  BY DEF QueueInv
<1>5. RouteInv'
  BY DEF RouteInv
<1>6. CountInv'
  BY DEF CountInv
<1>7. CancelledNeverExecutes'
  BY DEF CancelledNeverExecutes, Executing
<1>8. TruthfulStatus'
  BY DEF TruthfulStatus
<1>9. AttemptsBoundCopies'
  BY DEF AttemptsBoundCopies
<1> QED BY <1>1, <1>2, <1>3, <1>4, <1>5, <1>6, <1>7, <1>8, <1>9

LEMMA CancelCommitsKeeps ==
  ASSUME IInv, NEW h \in Requests, CancelCommits(h)
  PROVE  IInv'
<1> USE ActorsAssumption, JobsAssumption, BoundsAssumption
    DEF CancelCommits, Fail, EndRequest, rowVars, taskVars, requestVars,
        historyVars, IInv
<1>1. TypeOK'
  BY DEF TypeOK
<1>2. OwnerInv'
  BY DEF TypeOK, OwnerInv
<1>3. ExistsInv'
  BY DEF TypeOK, ExistsInv
<1>4. QueueInv'
  BY DEF TypeOK, QueueInv
<1>5. RouteInv'
  BY DEF RouteInv
<1>6. CountInv'
  BY DEF TypeOK, CountInv
<1>7. CancelledNeverExecutes'
  BY DEF OwnerInv, CancelledNeverExecutes, Executing
<1>8. TruthfulStatus'
  BY DEF TruthfulStatus
<1>9. AttemptsBoundCopies'
  BY DEF AttemptsBoundCopies
<1> QED BY <1>1, <1>2, <1>3, <1>4, <1>5, <1>6, <1>7, <1>8, <1>9

LEMMA RetryCommitsKeeps ==
  ASSUME IInv, NEW h \in Requests, NEW t \in Tasks, RetryCommits(h, t)
  PROVE  IInv'
<1> USE ActorsAssumption, JobsAssumption, BoundsAssumption
    DEF RetryCommits, EndRequest, Dispatch, rowVars, taskVars, requestVars,
        historyVars, IInv
<1>1. TypeOK'
  BY DEF TypeOK, ExistsInv
<1>2. OwnerInv'
  BY DEF TypeOK, OwnerInv
<1>3. ExistsInv'
  BY DEF TypeOK, ExistsInv
<1>4. QueueInv'
  BY DEF TypeOK, OwnerInv, QueueInv
<1>5. RouteInv'
  BY DEF RouteInv
<1>6. CountInv'
  BY DEF TypeOK, OwnerInv, CountInv
<1>7. CancelledNeverExecutes'
  BY DEF CancelledNeverExecutes, Executing
<1>8. TruthfulStatus'
  BY DEF TruthfulStatus
<1>9. AttemptsBoundCopies'
  BY DEF TypeOK, AttemptsBoundCopies
<1> QED BY <1>1, <1>2, <1>3, <1>4, <1>5, <1>6, <1>7, <1>8, <1>9

LEMMA RefuseKeeps ==
  ASSUME IInv, NEW h \in Requests, Refuse(h)
  PROVE  IInv'
<1> USE ActorsAssumption, JobsAssumption, BoundsAssumption
    DEF Refuse, EndRequest, rowVars, taskVars, requestVars, historyVars, IInv
<1>1. TypeOK'
  BY DEF TypeOK
<1>2. OwnerInv'
  BY DEF TypeOK, OwnerInv
<1>3. ExistsInv'
  BY DEF TypeOK, ExistsInv
<1>4. QueueInv'
  BY DEF QueueInv
<1>5. RouteInv'
  BY DEF RouteInv
<1>6. CountInv'
  BY DEF OwnerInv, CountInv
<1>7. CancelledNeverExecutes'
  BY DEF CancelledNeverExecutes, Executing
<1>8. TruthfulStatus'
  BY DEF TruthfulStatus
<1>9. AttemptsBoundCopies'
  BY DEF AttemptsBoundCopies
<1> QED BY <1>1, <1>2, <1>3, <1>4, <1>5, <1>6, <1>7, <1>8, <1>9

LEMMA ReadLinkKeeps ==
  ASSUME IInv, NEW j \in Jobs, ReadLink(j)
  PROVE  IInv'
<1> USE ActorsAssumption, JobsAssumption, BoundsAssumption
    DEF ReadLink, rowVars, taskVars, requestVars, historyVars, IInv
<1>1. TypeOK'
  BY DEF TypeOK, ExistsInv
<1>2. OwnerInv'
  BY DEF OwnerInv
<1>3. ExistsInv'
  BY DEF TypeOK, ExistsInv
<1>4. QueueInv'
  BY DEF QueueInv
<1>5. RouteInv'
  BY DEF RouteInv
<1>6. CountInv'
  BY DEF CountInv
<1>7. CancelledNeverExecutes'
  BY DEF CancelledNeverExecutes, Executing
<1>8. TruthfulStatus'
  BY DEF ExistsInv, TruthfulStatus
<1>9. AttemptsBoundCopies'
  BY DEF AttemptsBoundCopies
<1> QED BY <1>1, <1>2, <1>3, <1>4, <1>5, <1>6, <1>7, <1>8, <1>9

-----------------------------------------------------------------------------
\* The steps of a run.
LEMMA DownloadKeeps ==
  ASSUME IInv, NEW j \in Jobs, Download(j)
  PROVE  IInv'
<1> USE ActorsAssumption, JobsAssumption, BoundsAssumption
    DEF Download, EndDownload, rowVars, taskVars, requestVars, historyVars, IInv
<1>1. TypeOK'
  BY DEF TypeOK, ExistsInv
<1>2. OwnerInv'
  BY DEF OwnerInv
<1>3. ExistsInv'
  BY DEF TypeOK, ExistsInv
<1>4. QueueInv'
  BY DEF QueueInv
<1>5. RouteInv'
  BY DEF RouteInv
<1>6. CountInv'
  BY DEF CountInv
<1>7. CancelledNeverExecutes'
  BY DEF CancelledNeverExecutes, Executing
<1>8. TruthfulStatus'
  BY DEF ExistsInv, TruthfulStatus
<1>9. AttemptsBoundCopies'
  BY DEF AttemptsBoundCopies
<1> QED BY <1>1, <1>2, <1>3, <1>4, <1>5, <1>6, <1>7, <1>8, <1>9

-----------------------------------------------------------------------------
\* The steps of a run.
LEMMA DownloadFailsKeeps ==
  ASSUME IInv, NEW j \in Jobs, DownloadFails(j)
  PROVE  IInv'
<1> USE ActorsAssumption, JobsAssumption, BoundsAssumption
    DEF DownloadFails, EndDownload, rowVars, taskVars, requestVars, historyVars, IInv
<1>1. TypeOK'
  BY DEF TypeOK, ExistsInv
<1>2. OwnerInv'
  BY DEF OwnerInv
<1>3. ExistsInv'
  BY DEF TypeOK, ExistsInv
<1>4. QueueInv'
  BY DEF QueueInv
<1>5. RouteInv'
  BY DEF RouteInv
<1>6. CountInv'
  BY DEF CountInv
<1>7. CancelledNeverExecutes'
  BY DEF CancelledNeverExecutes, Executing
<1>8. TruthfulStatus'
  BY DEF ExistsInv, TruthfulStatus
<1>9. AttemptsBoundCopies'
  BY DEF AttemptsBoundCopies
<1> QED BY <1>1, <1>2, <1>3, <1>4, <1>5, <1>6, <1>7, <1>8, <1>9

-----------------------------------------------------------------------------
\* The steps of a run.
LEMMA StartKeeps ==
  ASSUME IInv, NEW t \in Tasks, Start(t)
  PROVE  IInv'
<1> USE ActorsAssumption, JobsAssumption, BoundsAssumption
    DEF Start, GoTo, rowVars, taskVars, requestVars, historyVars, IInv
<1>1. TypeOK'
  BY DEF TypeOK
<1>2. OwnerInv'
  BY DEF TypeOK, OwnerInv, ExistsInv
<1>3. ExistsInv'
  BY DEF ExistsInv
<1>4. QueueInv'
  BY DEF QueueInv
<1>5. RouteInv'
  BY DEF RouteInv
<1>6. CountInv'
  BY DEF CountInv
<1>7. CancelledNeverExecutes'
  BY DEF QueueInv, CancelledNeverExecutes, Executing
<1>8. TruthfulStatus'
  BY DEF TruthfulStatus
<1>9. AttemptsBoundCopies'
  BY DEF AttemptsBoundCopies
<1> QED BY <1>1, <1>2, <1>3, <1>4, <1>5, <1>6, <1>7, <1>8, <1>9

LEMMA StartRefusedKeeps ==
  ASSUME IInv, NEW t \in Tasks, StartRefused(t)
  PROVE  IInv'
<1> USE ActorsAssumption, JobsAssumption, BoundsAssumption
    DEF StartRefused, rowVars, taskVars, requestVars, historyVars, IInv
<1>1. TypeOK'
  BY DEF TypeOK
<1>2. OwnerInv'
  BY DEF OwnerInv
<1>3. ExistsInv'
  BY DEF TypeOK, ExistsInv
<1>4. QueueInv'
  BY DEF QueueInv
<1>5. RouteInv'
  BY DEF RouteInv
<1>6. CountInv'
  BY DEF TypeOK, CountInv
<1>7. CancelledNeverExecutes'
  BY DEF CancelledNeverExecutes, Executing
<1>8. TruthfulStatus'
  BY DEF TruthfulStatus
<1>9. AttemptsBoundCopies'
  BY DEF AttemptsBoundCopies
<1> QED BY <1>1, <1>2, <1>3, <1>4, <1>5, <1>6, <1>7, <1>8, <1>9

LEMMA PrepareFailsKeeps ==
  ASSUME IInv, NEW t \in Tasks, PrepareFails(t)
  PROVE  IInv'
<1> USE ActorsAssumption, JobsAssumption, BoundsAssumption
    DEF PrepareFails, Fail, GoTo, rowVars, taskVars, requestVars, historyVars,
        IInv
<1>1. TypeOK'
  BY DEF TypeOK
<1>2. OwnerInv'
  BY DEF OwnerInv
<1>3. ExistsInv'
  BY DEF ExistsInv
<1>4. QueueInv'
  BY DEF TypeOK, ExistsInv, QueueInv
<1>5. RouteInv'
  BY DEF RouteInv
<1>6. CountInv'
  BY DEF CountInv
<1>7. CancelledNeverExecutes'
  BY DEF CancelledNeverExecutes, Executing
<1>8. TruthfulStatus'
  BY DEF TruthfulStatus
<1>9. AttemptsBoundCopies'
  BY DEF AttemptsBoundCopies
<1> QED BY <1>1, <1>2, <1>3, <1>4, <1>5, <1>6, <1>7, <1>8, <1>9

LEMMA AttemptKeeps ==
  ASSUME IInv, NEW t \in Tasks, Attempt(t)
  PROVE  IInv'
<1> USE ActorsAssumption, JobsAssumption, BoundsAssumption
    DEF Attempt, rowVars, taskVars, requestVars, historyVars, IInv
<1>1. TypeOK'
  BY DEF TypeOK, ExistsInv, CountInv
<1>2. OwnerInv'
  BY DEF OwnerInv
<1>3. ExistsInv'
  BY DEF ExistsInv
<1>4. QueueInv'
  BY DEF QueueInv
<1>5. RouteInv'
  BY DEF RouteInv
<1>6. CountInv'
  BY DEF TypeOK, OwnerInv, ExistsInv, RouteInv, CountInv, AttemptsBoundCopies
<1>7. CancelledNeverExecutes'
  BY DEF CancelledNeverExecutes, Executing
<1>8. TruthfulStatus'
  BY DEF TruthfulStatus
<1>9. AttemptsBoundCopies'
  BY DEF TypeOK, CountInv, AttemptsBoundCopies
<1> QED BY <1>1, <1>2, <1>3, <1>4, <1>5, <1>6, <1>7, <1>8, <1>9

LEMMA RelayAcceptsKeeps ==
  ASSUME IInv, NEW t \in Tasks, RelayAccepts(t)
  PROVE  IInv'
<1> USE ActorsAssumption, JobsAssumption, BoundsAssumption
    DEF RelayAccepts, CopyTaken, GoTo, rowVars, taskVars, requestVars,
        historyVars, IInv
<1>1. TypeOK'
  BY DEF TypeOK, ExistsInv
<1>2. OwnerInv'
  BY DEF OwnerInv
<1>3. ExistsInv'
  BY DEF ExistsInv
<1>4. QueueInv'
  BY DEF QueueInv
<1>5. RouteInv'
  BY DEF RouteInv
<1>6. CountInv'
  BY DEF TypeOK, OwnerInv, ExistsInv, CountInv
<1>7. CancelledNeverExecutes'
  BY DEF CancelledNeverExecutes, Executing
<1>8. TruthfulStatus'
  BY DEF TypeOK, TruthfulStatus
<1>9. AttemptsBoundCopies'
  BY DEF TypeOK, CountInv, AttemptsBoundCopies
<1> QED BY <1>1, <1>2, <1>3, <1>4, <1>5, <1>6, <1>7, <1>8, <1>9

LEMMA RelayErrsKeeps ==
  ASSUME IInv, NEW t \in Tasks, NEW taken \in BOOLEAN, RelayErrs(t, taken)
  PROVE  IInv'
<1> USE ActorsAssumption, JobsAssumption, BoundsAssumption
    DEF RelayErrs, CopyTaken, Fail, GoTo, rowVars, taskVars, requestVars,
        historyVars, IInv
<1>1. TypeOK'
  <2>1. status' \in [Jobs -> Statuses] /\ error' \in [Jobs -> Errors]
    <3>1. CASE tn[t] >= MaxAttempts
      BY <3>1 DEF TypeOK, Statuses, Errors
    <3>2. CASE ~(tn[t] >= MaxAttempts)
      BY <3>2 DEF TypeOK
    <3> QED BY <3>1, <3>2
  <2>2. tpc' \in [Tasks -> Working \union {"idle", "dispatched", "unlock"}]
    BY DEF TypeOK, Working
  <2>3. copies' \in [Jobs -> Nat]
    <3>1. CASE taken
      BY <3>1 DEF TypeOK
    <3>2. CASE ~taken
      BY <3>2 DEF TypeOK
    <3> QED BY <3>1, <3>2
  <2>4. UNCHANGED <<attempts, route, stale, links, lock, tjob, tn, hpc, hjob, picked, runs, cancelled>>
    OBVIOUS
  <2> QED BY <2>1, <2>2, <2>3, <2>4 DEF TypeOK
<1>2. OwnerInv'
  BY DEF TypeOK, OwnerInv
<1>3. ExistsInv'
  BY DEF TypeOK, ExistsInv
<1>4. QueueInv'
  BY DEF TypeOK, ExistsInv, QueueInv
<1>5. RouteInv'
  BY DEF TypeOK, RouteInv
<1>6. CountInv'
  BY DEF TypeOK, OwnerInv, ExistsInv, CountInv
<1>7. CancelledNeverExecutes'
  BY DEF TypeOK, CancelledNeverExecutes, Executing
<1>8. TruthfulStatus'
  BY DEF TypeOK, TruthfulStatus, AttemptsBoundCopies
<1>9. AttemptsBoundCopies'
  BY DEF TypeOK, CountInv, AttemptsBoundCopies
<1> QED BY <1>1, <1>2, <1>3, <1>4, <1>5, <1>6, <1>7, <1>8, <1>9

LEMMA RelayRejectsKeeps ==
  ASSUME IInv, NEW t \in Tasks, RelayRejects(t)
  PROVE  IInv'
<1> USE ActorsAssumption, JobsAssumption, BoundsAssumption
    DEF RelayRejects, Fail, GoTo, rowVars, taskVars, requestVars, historyVars,
        IInv
<1>1. TypeOK'
  BY DEF TypeOK
<1>2. OwnerInv'
  BY DEF OwnerInv
<1>3. ExistsInv'
  BY DEF ExistsInv
<1>4. QueueInv'
  BY DEF TypeOK, ExistsInv, QueueInv
<1>5. RouteInv'
  BY DEF RouteInv
<1>6. CountInv'
  BY DEF CountInv
<1>7. CancelledNeverExecutes'
  BY DEF CancelledNeverExecutes, Executing
<1>8. TruthfulStatus'
  BY DEF TruthfulStatus
<1>9. AttemptsBoundCopies'
  BY DEF AttemptsBoundCopies
<1> QED BY <1>1, <1>2, <1>3, <1>4, <1>5, <1>6, <1>7, <1>8, <1>9

LEMMA ConfirmSentKeeps ==
  ASSUME IInv, NEW t \in Tasks, ConfirmSent(t)
  PROVE  IInv'
<1> USE ActorsAssumption, JobsAssumption, BoundsAssumption
    DEF ConfirmSent, WriteStatus, GoTo, rowVars, taskVars, requestVars,
        historyVars, IInv
<1>1. TypeOK'
  BY DEF TypeOK
<1>2. OwnerInv'
  BY DEF OwnerInv
<1>3. ExistsInv'
  BY DEF ExistsInv
<1>4. QueueInv'
  BY DEF TypeOK, ExistsInv, QueueInv
<1>5. RouteInv'
  BY DEF RouteInv
<1>6. CountInv'
  BY DEF CountInv
<1>7. CancelledNeverExecutes'
  BY DEF CancelledNeverExecutes, Executing
<1>8. TruthfulStatus'
  BY DEF CountInv, TruthfulStatus
<1>9. AttemptsBoundCopies'
  BY DEF AttemptsBoundCopies
<1> QED BY <1>1, <1>2, <1>3, <1>4, <1>5, <1>6, <1>7, <1>8, <1>9

LEMMA MarkUploadingKeeps ==
  ASSUME IInv, NEW t \in Tasks, MarkUploading(t)
  PROVE  IInv'
<1> USE ActorsAssumption, JobsAssumption, BoundsAssumption
    DEF MarkUploading, WriteStatus, GoTo, rowVars, taskVars, requestVars,
        historyVars, IInv
<1>1. TypeOK'
  BY DEF TypeOK
<1>2. OwnerInv'
  BY DEF OwnerInv
<1>3. ExistsInv'
  BY DEF ExistsInv
<1>4. QueueInv'
  BY DEF QueueInv
<1>5. RouteInv'
  BY DEF RouteInv
<1>6. CountInv'
  BY DEF CountInv
<1>7. CancelledNeverExecutes'
  BY DEF CancelledNeverExecutes, Executing
<1>8. TruthfulStatus'
  BY DEF TruthfulStatus
<1>9. AttemptsBoundCopies'
  BY DEF AttemptsBoundCopies
<1> QED BY <1>1, <1>2, <1>3, <1>4, <1>5, <1>6, <1>7, <1>8, <1>9

LEMMA UploadSucceedsKeeps ==
  ASSUME IInv, NEW t \in Tasks, UploadSucceeds(t)
  PROVE  IInv'
<1> USE ActorsAssumption, JobsAssumption, BoundsAssumption
    DEF UploadSucceeds, CopyTaken, GoTo, rowVars, taskVars, requestVars,
        historyVars, IInv
<1>1. TypeOK'
  BY DEF TypeOK, ExistsInv
<1>2. OwnerInv'
  BY DEF OwnerInv
<1>3. ExistsInv'
  BY DEF ExistsInv
<1>4. QueueInv'
  BY DEF QueueInv
<1>5. RouteInv'
  BY DEF RouteInv
<1>6. CountInv'
  BY DEF TypeOK, OwnerInv, ExistsInv, CountInv
<1>7. CancelledNeverExecutes'
  BY DEF CancelledNeverExecutes, Executing
<1>8. TruthfulStatus'
  BY DEF TypeOK, TruthfulStatus
<1>9. AttemptsBoundCopies'
  BY DEF RouteInv, AttemptsBoundCopies
<1> QED BY <1>1, <1>2, <1>3, <1>4, <1>5, <1>6, <1>7, <1>8, <1>9

LEMMA UploadFailsKeeps ==
  ASSUME IInv, NEW t \in Tasks, NEW taken \in BOOLEAN, UploadFails(t, taken)
  PROVE  IInv'
<1> USE ActorsAssumption, JobsAssumption, BoundsAssumption
    DEF UploadFails, CopyTaken, Fail, GoTo, rowVars, taskVars, requestVars,
        historyVars, IInv
<1>1. TypeOK'
  BY DEF TypeOK, ExistsInv
<1>2. OwnerInv'
  BY DEF OwnerInv
<1>3. ExistsInv'
  BY DEF TypeOK, ExistsInv
<1>4. QueueInv'
  BY DEF TypeOK, ExistsInv, QueueInv
<1>5. RouteInv'
  BY DEF RouteInv
<1>6. CountInv'
  BY DEF TypeOK, OwnerInv, ExistsInv, CountInv
<1>7. CancelledNeverExecutes'
  BY DEF CancelledNeverExecutes, Executing
<1>8. TruthfulStatus'
  BY DEF TypeOK, TruthfulStatus
<1>9. AttemptsBoundCopies'
  BY DEF TypeOK, RouteInv, AttemptsBoundCopies
<1> QED BY <1>1, <1>2, <1>3, <1>4, <1>5, <1>6, <1>7, <1>8, <1>9

LEMMA ConfirmDeliveredKeeps ==
  ASSUME IInv, NEW t \in Tasks, ConfirmDelivered(t)
  PROVE  IInv'
<1> USE ActorsAssumption, JobsAssumption, BoundsAssumption
    DEF ConfirmDelivered, WriteStatus, GoTo, rowVars, taskVars, requestVars,
        historyVars, IInv
<1>1. TypeOK'
  BY DEF TypeOK
<1>2. OwnerInv'
  BY DEF OwnerInv
<1>3. ExistsInv'
  BY DEF ExistsInv
<1>4. QueueInv'
  BY DEF TypeOK, ExistsInv, QueueInv
<1>5. RouteInv'
  BY DEF RouteInv
<1>6. CountInv'
  BY DEF CountInv
<1>7. CancelledNeverExecutes'
  BY DEF CancelledNeverExecutes, Executing
<1>8. TruthfulStatus'
  BY DEF CountInv, TruthfulStatus
<1>9. AttemptsBoundCopies'
  BY DEF AttemptsBoundCopies
<1> QED BY <1>1, <1>2, <1>3, <1>4, <1>5, <1>6, <1>7, <1>8, <1>9

LEMMA IssueCodeKeeps ==
  ASSUME IInv, NEW t \in Tasks, IssueCode(t)
  PROVE  IInv'
<1> USE ActorsAssumption, JobsAssumption, BoundsAssumption
    DEF IssueCode, GoTo, rowVars, taskVars, requestVars, historyVars, IInv
<1>1. TypeOK'
  BY DEF TypeOK
<1>2. OwnerInv'
  BY DEF OwnerInv
<1>3. ExistsInv'
  BY DEF ExistsInv
<1>4. QueueInv'
  BY DEF QueueInv
<1>5. RouteInv'
  BY DEF RouteInv
<1>6. CountInv'
  BY DEF CountInv
<1>7. CancelledNeverExecutes'
  BY DEF CancelledNeverExecutes, Executing
<1>8. TruthfulStatus'
  BY DEF TruthfulStatus
<1>9. AttemptsBoundCopies'
  BY DEF AttemptsBoundCopies
<1> QED BY <1>1, <1>2, <1>3, <1>4, <1>5, <1>6, <1>7, <1>8, <1>9

LEMMA PublishCodeKeeps ==
  ASSUME IInv, NEW t \in Tasks, PublishCode(t)
  PROVE  IInv'
<1> USE ActorsAssumption, JobsAssumption, BoundsAssumption
    DEF PublishCode, GoTo, rowVars, taskVars, requestVars, historyVars, IInv
<1>1. TypeOK'
  BY DEF TypeOK, ExistsInv
<1>2. OwnerInv'
  BY DEF OwnerInv
<1>3. ExistsInv'
  BY DEF TypeOK, ExistsInv, RouteInv
<1>4. QueueInv'
  BY DEF TypeOK, ExistsInv, QueueInv
<1>5. RouteInv'
  BY DEF RouteInv
<1>6. CountInv'
  BY DEF CountInv
<1>7. CancelledNeverExecutes'
  BY DEF CancelledNeverExecutes, Executing
<1>8. TruthfulStatus'
  BY DEF RouteInv, TruthfulStatus
<1>9. AttemptsBoundCopies'
  BY DEF AttemptsBoundCopies
<1> QED BY <1>1, <1>2, <1>3, <1>4, <1>5, <1>6, <1>7, <1>8, <1>9

LEMMA PublishCatalogKeeps ==
  ASSUME IInv, NEW t \in Tasks, PublishCatalog(t)
  PROVE  IInv'
<1> USE ActorsAssumption, JobsAssumption, BoundsAssumption
    DEF PublishCatalog, WriteStatus, GoTo, rowVars, taskVars, requestVars,
        historyVars, IInv
<1>1. TypeOK'
  BY DEF TypeOK
<1>2. OwnerInv'
  BY DEF OwnerInv
<1>3. ExistsInv'
  BY DEF ExistsInv
<1>4. QueueInv'
  BY DEF TypeOK, ExistsInv, QueueInv
<1>5. RouteInv'
  BY DEF RouteInv
<1>6. CountInv'
  BY DEF CountInv
<1>7. CancelledNeverExecutes'
  BY DEF CancelledNeverExecutes, Executing
<1>8. TruthfulStatus'
  BY DEF TruthfulStatus
<1>9. AttemptsBoundCopies'
  BY DEF AttemptsBoundCopies
<1> QED BY <1>1, <1>2, <1>3, <1>4, <1>5, <1>6, <1>7, <1>8, <1>9

LEMMA UnexpectedKeeps ==
  ASSUME IInv, NEW t \in Tasks, Unexpected(t)
  PROVE  IInv'
<1> USE ActorsAssumption, JobsAssumption, BoundsAssumption
    DEF Unexpected, Fail, GoTo, rowVars, taskVars, requestVars, historyVars,
        IInv
<1>1. TypeOK'
  BY DEF TypeOK
<1>2. OwnerInv'
  BY DEF OwnerInv
<1>3. ExistsInv'
  BY DEF ExistsInv
<1>4. QueueInv'
  BY DEF TypeOK, ExistsInv, QueueInv
<1>5. RouteInv'
  BY DEF RouteInv
<1>6. CountInv'
  BY DEF CountInv
<1>7. CancelledNeverExecutes'
  BY DEF CancelledNeverExecutes, Executing
<1>8. TruthfulStatus'
  BY DEF TruthfulStatus
<1>9. AttemptsBoundCopies'
  BY DEF AttemptsBoundCopies
<1> QED BY <1>1, <1>2, <1>3, <1>4, <1>5, <1>6, <1>7, <1>8, <1>9

\* What the run leaves in the queue it has noted.
LEMMA LeaveUnsettledKeeps ==
  ASSUME IInv, NEW t \in Tasks, LeaveUnsettled(t)
  PROVE  IInv'
<1> USE ActorsAssumption, JobsAssumption, BoundsAssumption
    DEF LeaveUnsettled, GoTo, rowVars, taskVars, requestVars, historyVars, IInv
<1>1. TypeOK'
  BY DEF TypeOK
<1>2. OwnerInv'
  BY DEF OwnerInv
<1>3. ExistsInv'
  BY DEF ExistsInv
<1>4. QueueInv'
  BY DEF TypeOK, ExistsInv, QueueInv
<1>5. RouteInv'
  BY DEF RouteInv
<1>6. CountInv'
  BY DEF TypeOK, ExistsInv, CountInv
<1>7. CancelledNeverExecutes'
  BY DEF CancelledNeverExecutes, Executing
<1>8. TruthfulStatus'
  BY DEF TruthfulStatus
<1>9. AttemptsBoundCopies'
  BY DEF TypeOK, AttemptsBoundCopies
<1> QED BY <1>1, <1>2, <1>3, <1>4, <1>5, <1>6, <1>7, <1>8, <1>9

LEMMA UnlockKeeps ==
  ASSUME IInv, NEW t \in Tasks, Unlock(t)
  PROVE  IInv'
<1> USE ActorsAssumption, JobsAssumption, BoundsAssumption
    DEF Unlock, rowVars, taskVars, requestVars, historyVars, IInv
<1>1. TypeOK'
  BY DEF TypeOK, ExistsInv
<1>2. OwnerInv'
  BY DEF TypeOK, OwnerInv
<1>3. ExistsInv'
  BY DEF TypeOK, ExistsInv
<1>4. QueueInv'
  BY DEF TypeOK, QueueInv
<1>5. RouteInv'
  BY DEF RouteInv
<1>6. CountInv'
  BY DEF QueueInv, CountInv
<1>7. CancelledNeverExecutes'
  BY DEF CancelledNeverExecutes, Executing
<1>8. TruthfulStatus'
  BY DEF TruthfulStatus
<1>9. AttemptsBoundCopies'
  BY DEF AttemptsBoundCopies
<1> QED BY <1>1, <1>2, <1>3, <1>4, <1>5, <1>6, <1>7, <1>8, <1>9

-----------------------------------------------------------------------------
\* The sweeper, time and the crash.
LEMMA SweepSelectKeeps ==
  ASSUME IInv, NEW s \in Sweepers, SweepSelect(s)
  PROVE  IInv'
<1> USE ActorsAssumption, JobsAssumption, BoundsAssumption
    DEF SweepSelect, rowVars, taskVars, requestVars, historyVars, IInv
<1>1. TypeOK'
  BY DEF TypeOK
<1>2. OwnerInv'
  BY DEF OwnerInv
<1>3. ExistsInv'
  BY DEF ExistsInv
<1>4. QueueInv'
  BY DEF QueueInv
<1>5. RouteInv'
  BY DEF RouteInv
<1>6. CountInv'
  BY DEF CountInv
<1>7. CancelledNeverExecutes'
  BY DEF CancelledNeverExecutes, Executing
<1>8. TruthfulStatus'
  BY DEF TruthfulStatus
<1>9. AttemptsBoundCopies'
  BY DEF AttemptsBoundCopies
<1> QED BY <1>1, <1>2, <1>3, <1>4, <1>5, <1>6, <1>7, <1>8, <1>9

LEMMA SweepWriteKeeps ==
  ASSUME IInv, NEW s \in Sweepers, SweepWrite(s)
  PROVE  IInv'
<1> USE ActorsAssumption, JobsAssumption, BoundsAssumption
    DEF SweepWrite, rowVars, taskVars, requestVars, historyVars, IInv
<1>1. TypeOK'
  BY DEF TypeOK
<1>2. OwnerInv'
  BY DEF OwnerInv
<1>3. ExistsInv'
  BY DEF ExistsInv
<1>4. QueueInv'
  BY DEF ExistsInv, QueueInv
<1>5. RouteInv'
  BY DEF RouteInv
<1>6. CountInv'
  BY DEF ExistsInv, CountInv
<1>7. CancelledNeverExecutes'
  BY DEF CancelledNeverExecutes, Executing
<1>8. TruthfulStatus'
  BY DEF TruthfulStatus
<1>9. AttemptsBoundCopies'
  BY DEF AttemptsBoundCopies
<1> QED BY <1>1, <1>2, <1>3, <1>4, <1>5, <1>6, <1>7, <1>8, <1>9

LEMMA AgeKeeps ==
  ASSUME IInv, NEW j \in Jobs, Age(j)
  PROVE  IInv'
<1> USE ActorsAssumption, JobsAssumption, BoundsAssumption
    DEF Age, rowVars, taskVars, requestVars, historyVars, IInv
<1>1. TypeOK'
  BY DEF TypeOK
<1>2. OwnerInv'
  BY DEF OwnerInv
<1>3. ExistsInv'
  BY DEF ExistsInv
<1>4. QueueInv'
  BY DEF QueueInv
<1>5. RouteInv'
  BY DEF RouteInv
<1>6. CountInv'
  BY DEF CountInv
<1>7. CancelledNeverExecutes'
  BY DEF CancelledNeverExecutes, Executing
<1>8. TruthfulStatus'
  BY DEF TruthfulStatus
<1>9. AttemptsBoundCopies'
  BY DEF AttemptsBoundCopies
<1> QED BY <1>1, <1>2, <1>3, <1>4, <1>5, <1>6, <1>7, <1>8, <1>9

LEMMA CrashKeeps ==
  ASSUME IInv, Crash
  PROVE  IInv'
<1> USE ActorsAssumption, JobsAssumption, BoundsAssumption
    DEF Crash, rowVars, taskVars, requestVars, historyVars, IInv
<1>1. TypeOK'
  BY DEF TypeOK
<1>2. OwnerInv'
  BY DEF OwnerInv
<1>3. ExistsInv'
  BY DEF ExistsInv
<1>4. QueueInv'
  BY DEF QueueInv
<1>5. RouteInv'
  BY DEF RouteInv
<1>6. CountInv'
  BY DEF CountInv
<1>7. CancelledNeverExecutes'
  BY DEF CancelledNeverExecutes, Executing
<1>8. TruthfulStatus'
  BY DEF TruthfulStatus
<1>9. AttemptsBoundCopies'
  BY DEF AttemptsBoundCopies
<1> QED BY <1>1, <1>2, <1>3, <1>4, <1>5, <1>6, <1>7, <1>8, <1>9

-----------------------------------------------------------------------------
\* A step that changes nothing keeps the invariant.
LEMMA StutterKeeps == IInv /\ UNCHANGED vars => IInv'
  BY DEF vars, rowVars, taskVars, requestVars, historyVars, IInv, TypeOK, OwnerInv,
      ExistsInv, QueueInv, RouteInv, CountInv, CancelledNeverExecutes, Executing,
      TruthfulStatus, AttemptsBoundCopies

LEMMA RunStepKeeps ==
  ASSUME IInv, NEW t \in Tasks, RunStep(t)
  PROVE  IInv'
  BY StartKeeps, StartRefusedKeeps, PrepareFailsKeeps, AttemptKeeps,
     RelayAcceptsKeeps, RelayErrsKeeps, RelayRejectsKeeps, ConfirmSentKeeps,
     MarkUploadingKeeps, UploadSucceedsKeeps, UploadFailsKeeps,
     ConfirmDeliveredKeeps, IssueCodeKeeps, PublishCodeKeeps,
     PublishCatalogKeeps, UnexpectedKeeps, LeaveUnsettledKeeps, UnlockKeeps
  DEF RunStep

LEMMA RequestStepKeeps ==
  ASSUME IInv, NEW h \in Requests, RequestStep(h)
  PROVE  IInv'
  BY TakeLockKeeps, CancelCommitsKeeps, RetryCommitsKeeps, RefuseKeeps
  DEF RequestStep

\* Every step keeps the invariant.
LEMMA NextKeeps == IInv /\ [Next]_vars => IInv'
<1> SUFFICES ASSUME IInv, [Next]_vars PROVE IInv'
  OBVIOUS
<1>1. CASE \E j \in Jobs, r \in Routes, t \in Tasks : Create(j, r, t)
  BY <1>1, CreateKeeps
<1>2. CASE \E h \in Requests : RequestStep(h)
  BY <1>2, RequestStepKeeps
<1>3. CASE \E j \in Jobs : ReadLink(j) \/ Download(j) \/ DownloadFails(j) \/ Age(j)
  BY <1>3, ReadLinkKeeps, DownloadKeeps, DownloadFailsKeeps, AgeKeeps
<1>4. CASE \E t \in Tasks : RunStep(t)
  BY <1>4, RunStepKeeps
<1>5. CASE \E s \in Sweepers : SweepSelect(s) \/ SweepWrite(s)
  BY <1>5, SweepSelectKeeps, SweepWriteKeeps
<1>6. CASE Crash
  BY <1>6, CrashKeeps
<1>7. CASE UNCHANGED vars
  BY <1>7, StutterKeeps
<1> QED BY <1>1, <1>2, <1>3, <1>4, <1>5, <1>6, <1>7 DEF Next

(***************************************************************************)
(* The inductive invariant holds in every reachable state.                 *)
(***************************************************************************)
THEOREM Invariance == Spec => []IInv
<1>1. Init => IInv
  BY InitIInv
<1>2. IInv /\ [Next]_vars => IInv'
  BY NextKeeps
<1> QED BY <1>1, <1>2, PTL DEF Spec

(***************************************************************************)
(* The variables keep their types; in particular no attempt beyond the     *)
(* configured maximum is ever counted.                                     *)
(***************************************************************************)
THEOREM TypeCorrect == Spec => []TypeOK
<1>1. IInv => TypeOK
  BY DEF IInv
<1> QED BY <1>1, Invariance, PTL

(***************************************************************************)
(* ADR 0018: the advisory lock serialises runs, cancels and retries.       *)
(***************************************************************************)
THEOREM LockExcludes == Spec => []MutualExclusion
<1>1. IInv => MutualExclusion
  BY ActorsAssumption DEF IInv, OwnerInv, MutualExclusion, Engaged
<1> QED BY <1>1, Invariance, PTL

(***************************************************************************)
(* ADR 0018: a cancelled job is not run.                                   *)
(***************************************************************************)
THEOREM CancelHolds == Spec => []CancelledNeverExecutes
<1>1. IInv => CancelledNeverExecutes
  BY DEF IInv
<1> QED BY <1>1, Invariance, PTL

(***************************************************************************)
(* The status "sent" by email and "delivered" by cloud are true of the     *)
(* current run, whatever sweeps, retries and crashes came before.          *)
(***************************************************************************)
THEOREM StatusIsTruthful == Spec => []TruthfulStatus
<1>1. IInv => TruthfulStatus
  BY DEF IInv
<1> QED BY <1>1, Invariance, PTL

(***************************************************************************)
(* The committed attempts bound the copies the relay may have taken.       *)
(***************************************************************************)
THEOREM CopiesAreCounted == Spec => []AttemptsBoundCopies
<1>1. IInv => AttemptsBoundCopies
  BY DEF IInv
<1> QED BY <1>1, Invariance, PTL

\* Only a create or a retry queues a job, and a retry holds its lock.
LEMMA OnlyRetryRequeues ==
  ASSUME IInv, [Next]_vars, NEW j \in Jobs,
         status[j] \notin {"absent", "queued"}, status'[j] = "queued"
  PROVE  status[j] = "failed" /\ ~Executing(j)
<1>1. PICK h \in Requests, t \in Tasks : RetryCommits(h, t)
  <2>1. ASSUME NEW i \in Jobs, NEW r \in Routes, NEW t \in Tasks, Create(i, r, t)
        PROVE  FALSE
    BY <2>1 DEF Create, IInv, TypeOK
  <2>2. ASSUME NEW h \in Requests, RequestStep(h)
        PROVE  \E t \in Tasks : RetryCommits(h, t)
    BY <2>2 DEF RequestStep, TakeLock, CancelCommits, Refuse, Fail, rowVars, IInv, TypeOK
  <2>3. ASSUME NEW i \in Jobs, ReadLink(i) \/ Download(i) \/ DownloadFails(i) \/ Age(i) PROVE FALSE
    BY <2>3 DEF ReadLink, Download, DownloadFails, Age, rowVars, IInv, TypeOK
  <2>4. ASSUME NEW t \in Tasks, RunStep(t) PROVE FALSE
    BY <2>4 DEF RunStep, Start, StartRefused, PrepareFails, Attempt, RelayAccepts,
         RelayErrs, RelayRejects, ConfirmSent, MarkUploading, UploadSucceeds,
         UploadFails, ConfirmDelivered, IssueCode, PublishCode, PublishCatalog,
         Unexpected, LeaveUnsettled, Unlock, Fail, WriteStatus, rowVars, IInv, TypeOK
  <2>5. ASSUME NEW s \in Sweepers, SweepSelect(s) \/ SweepWrite(s) PROVE FALSE
    BY <2>5 DEF SweepSelect, SweepWrite, rowVars, IInv, TypeOK
  <2>6. ~Crash /\ ~UNCHANGED vars
    BY DEF Crash, vars, rowVars
  <2> QED BY <2>1, <2>2, <2>3, <2>4, <2>5, <2>6 DEF Next
<1>2. hjob[h] = j
  BY <1>1 DEF RetryCommits, IInv, TypeOK
<1>3. status[j] = "failed"
  BY <1>1, <1>2 DEF RetryCommits
<1>4. lock[j] = h
  BY <1>1, <1>2 DEF RetryCommits, IInv, OwnerInv
<1>5. ~Executing(j)
  BY <1>4, ActorsAssumption DEF Executing, IInv, OwnerInv
<1> QED BY <1>3, <1>5

(***************************************************************************)
(* A job is queued again only from "failed" and only while no run is       *)
(* working on it.                                                          *)
(***************************************************************************)
THEOREM RequeueIsSafe == Spec => RequeuedAtRest
<1>1. IInv /\ [Next]_vars =>
        [\A j \in Jobs :
           status[j] \notin {"absent", "queued"} /\ status'[j] = "queued"
             => status[j] = "failed" /\ ~Executing(j)]_vars
  BY OnlyRetryRequeues
<1> QED BY <1>1, Invariance, PTL DEF Spec, RequeuedAtRest

-----------------------------------------------------------------------------
(* A job goes back from an announced status only for a reason.             *)

\* A link is usable while its job is queued or executed only since an
\* earlier run; what an execution finds announced, it announced itself (the
\* cloud route) or a reader did by such a link.
LinkInv ==
  \A j \in Jobs :
    /\ status[j] # "absent" => runs[j] > 0
    /\ links[j] > 0 /\ (status[j] = "queued" \/ Executing(j)) => runs[j] > 1

AnnouncedInv ==
  \A t \in Tasks :
    tpc[t] \in Working /\ status[tjob[t]] \in {"sent", "delivered"} =>
      \/ route[tjob[t]] = "cloud" /\ status[tjob[t]] = "sent" /\ tpc[t] \in {"uploading", "uploaded"}
      \/ route[tjob[t]] = "code" /\ status[tjob[t]] = "delivered" /\ runs[tjob[t]] > 1

CauseInv == LinkInv /\ AnnouncedInv

\* Nothing is announced at first, and each step keeps what CauseInv says: the
\* lock makes the run that ends the only one at work on its job.
LEMMA CauseInitInv == Init => CauseInv
  BY DEF Init, CauseInv, LinkInv, AnnouncedInv, Executing

LEMMA RunKeepsCause ==
  ASSUME IInv, CauseInv, NEW t \in Tasks, RunStep(t)
  PROVE  CauseInv'
<1> USE DEF IInv, CauseInv
<1>1. ASSUME Start(t) PROVE CauseInv'
  <2>1. LinkInv'
    BY <1>1 DEF Start, GoTo, rowVars, historyVars, LinkInv, Executing, TypeOK, OwnerInv, ExistsInv
  <2>2. AnnouncedInv'
    BY <1>1 DEF Start, GoTo, rowVars, historyVars, LinkInv, AnnouncedInv, Executing, TypeOK, OwnerInv, ExistsInv, RouteInv
  <2> QED
    BY <2>1, <2>2
<1>2. ASSUME StartRefused(t) PROVE CauseInv'
  <2>1. LinkInv'
    BY <1>2 DEF StartRefused, rowVars, historyVars, LinkInv, Executing, TypeOK, OwnerInv, ExistsInv
  <2>2. AnnouncedInv'
    BY <1>2 DEF StartRefused, rowVars, historyVars, LinkInv, AnnouncedInv, Executing, TypeOK, OwnerInv, ExistsInv, RouteInv
  <2> QED
    BY <2>1, <2>2
<1>3. ASSUME PrepareFails(t) PROVE CauseInv'
  <2>1. LinkInv'
    BY <1>3 DEF PrepareFails, GoTo, Fail, rowVars, historyVars, LinkInv, Executing, TypeOK, OwnerInv, ExistsInv
  <2>2. AnnouncedInv'
    BY <1>3 DEF PrepareFails, GoTo, Fail, rowVars, historyVars, LinkInv, AnnouncedInv, Executing, TypeOK, OwnerInv, ExistsInv, RouteInv
  <2> QED
    BY <2>1, <2>2
<1>4. ASSUME Attempt(t) PROVE CauseInv'
  <2>1. LinkInv'
    BY <1>4 DEF Attempt, rowVars, historyVars, LinkInv, Executing, TypeOK, OwnerInv, ExistsInv
  <2>2. AnnouncedInv'
    BY <1>4 DEF Attempt, rowVars, historyVars, LinkInv, AnnouncedInv, Executing, TypeOK, OwnerInv, ExistsInv, RouteInv
  <2> QED
    BY <2>1, <2>2
<1>5. ASSUME RelayAccepts(t) PROVE CauseInv'
  <2>1. LinkInv'
    BY <1>5 DEF RelayAccepts, GoTo, CopyTaken, rowVars, historyVars, LinkInv, Executing, TypeOK, OwnerInv, ExistsInv
  <2>2. AnnouncedInv'
    BY <1>5 DEF RelayAccepts, GoTo, CopyTaken, rowVars, historyVars, LinkInv, AnnouncedInv, Executing, TypeOK, OwnerInv, ExistsInv, RouteInv
  <2> QED
    BY <2>1, <2>2
<1>6. ASSUME NEW taken \in BOOLEAN, RelayErrs(t, taken) PROVE CauseInv'
  <2>1. LinkInv'
    BY <1>6 DEF RelayErrs, GoTo, Fail, CopyTaken, rowVars, historyVars, LinkInv, Executing, TypeOK, OwnerInv, ExistsInv
  <2>2. AnnouncedInv'
    BY <1>6 DEF RelayErrs, GoTo, Fail, CopyTaken, rowVars, historyVars, LinkInv, AnnouncedInv, Executing, TypeOK, OwnerInv, ExistsInv, RouteInv
  <2> QED
    BY <2>1, <2>2
<1>7. ASSUME RelayRejects(t) PROVE CauseInv'
  <2>1. LinkInv'
    BY <1>7 DEF RelayRejects, GoTo, Fail, rowVars, historyVars, LinkInv, Executing, TypeOK, OwnerInv, ExistsInv
  <2>2. AnnouncedInv'
    BY <1>7 DEF RelayRejects, GoTo, Fail, rowVars, historyVars, LinkInv, AnnouncedInv, Executing, TypeOK, OwnerInv, ExistsInv, RouteInv
  <2> QED
    BY <2>1, <2>2
<1>8. ASSUME ConfirmSent(t) PROVE CauseInv'
  <2>1. LinkInv'
    BY <1>8 DEF ConfirmSent, GoTo, WriteStatus, rowVars, historyVars, LinkInv, Executing, TypeOK, OwnerInv, ExistsInv
  <2>2. AnnouncedInv'
    BY <1>8 DEF ConfirmSent, GoTo, WriteStatus, rowVars, historyVars, LinkInv, AnnouncedInv, Executing, TypeOK, OwnerInv, ExistsInv, RouteInv
  <2> QED
    BY <2>1, <2>2
<1>9. ASSUME MarkUploading(t) PROVE CauseInv'
  <2>1. LinkInv'
    BY <1>9 DEF MarkUploading, GoTo, WriteStatus, rowVars, historyVars, LinkInv, Executing, TypeOK, OwnerInv, ExistsInv
  <2>2. AnnouncedInv'
    BY <1>9 DEF MarkUploading, GoTo, WriteStatus, rowVars, historyVars, LinkInv, AnnouncedInv, Executing, TypeOK, OwnerInv, ExistsInv, RouteInv
  <2> QED
    BY <2>1, <2>2
<1>10. ASSUME UploadSucceeds(t) PROVE CauseInv'
  <2>1. LinkInv'
    BY <1>10 DEF UploadSucceeds, GoTo, CopyTaken, rowVars, historyVars, LinkInv, Executing, TypeOK, OwnerInv, ExistsInv
  <2>2. AnnouncedInv'
    BY <1>10 DEF UploadSucceeds, GoTo, CopyTaken, rowVars, historyVars, LinkInv, AnnouncedInv, Executing, TypeOK, OwnerInv, ExistsInv, RouteInv
  <2> QED
    BY <2>1, <2>2
<1>11. ASSUME NEW taken \in BOOLEAN, UploadFails(t, taken) PROVE CauseInv'
  <2>1. LinkInv'
    BY <1>11 DEF UploadFails, GoTo, Fail, CopyTaken, rowVars, historyVars, LinkInv, Executing, TypeOK, OwnerInv, ExistsInv
  <2>2. AnnouncedInv'
    BY <1>11 DEF UploadFails, GoTo, Fail, CopyTaken, rowVars, historyVars, LinkInv, AnnouncedInv, Executing, TypeOK, OwnerInv, ExistsInv, RouteInv
  <2> QED
    BY <2>1, <2>2
<1>12. ASSUME ConfirmDelivered(t) PROVE CauseInv'
  <2>1. LinkInv'
    BY <1>12 DEF ConfirmDelivered, GoTo, WriteStatus, rowVars, historyVars, LinkInv, Executing, TypeOK, OwnerInv, ExistsInv
  <2>2. AnnouncedInv'
    BY <1>12 DEF ConfirmDelivered, GoTo, WriteStatus, rowVars, historyVars, LinkInv, AnnouncedInv, Executing, TypeOK, OwnerInv, ExistsInv, RouteInv
  <2> QED
    BY <2>1, <2>2
<1>13. ASSUME IssueCode(t) PROVE CauseInv'
  <2>1. LinkInv'
    BY <1>13 DEF IssueCode, GoTo, rowVars, historyVars, LinkInv, Executing, TypeOK, OwnerInv, ExistsInv
  <2>2. AnnouncedInv'
    BY <1>13 DEF IssueCode, GoTo, rowVars, historyVars, LinkInv, AnnouncedInv, Executing, TypeOK, OwnerInv, ExistsInv, RouteInv
  <2> QED
    BY <2>1, <2>2
<1>14. ASSUME PublishCode(t) PROVE CauseInv'
  <2>1. LinkInv'
    BY <1>14 DEF PublishCode, GoTo, rowVars, historyVars, LinkInv, Executing, TypeOK, OwnerInv, ExistsInv
  <2>2. AnnouncedInv'
    BY <1>14 DEF PublishCode, GoTo, rowVars, historyVars, LinkInv, AnnouncedInv, Executing, TypeOK, OwnerInv, ExistsInv, RouteInv
  <2> QED
    BY <2>1, <2>2
<1>15. ASSUME PublishCatalog(t) PROVE CauseInv'
  <2>1. LinkInv'
    BY <1>15 DEF PublishCatalog, GoTo, WriteStatus, rowVars, historyVars, LinkInv, Executing, TypeOK, OwnerInv, ExistsInv
  <2>2. AnnouncedInv'
    BY <1>15 DEF PublishCatalog, GoTo, WriteStatus, rowVars, historyVars, LinkInv, AnnouncedInv, Executing, TypeOK, OwnerInv, ExistsInv, RouteInv
  <2> QED
    BY <2>1, <2>2
<1>16. ASSUME Unexpected(t) PROVE CauseInv'
  <2>1. LinkInv'
    BY <1>16 DEF Unexpected, GoTo, Fail, rowVars, historyVars, LinkInv, Executing, TypeOK, OwnerInv, ExistsInv
  <2>2. AnnouncedInv'
    BY <1>16 DEF Unexpected, GoTo, Fail, rowVars, historyVars, LinkInv, AnnouncedInv, Executing, TypeOK, OwnerInv, ExistsInv, RouteInv
  <2> QED
    BY <2>1, <2>2
<1>17. ASSUME Unlock(t) PROVE CauseInv'
  <2>1. LinkInv'
    BY <1>17 DEF Unlock, rowVars, historyVars, LinkInv, Executing, TypeOK, OwnerInv, ExistsInv
  <2>2. AnnouncedInv'
    BY <1>17 DEF Unlock, rowVars, historyVars, LinkInv, AnnouncedInv, Executing, TypeOK, OwnerInv, ExistsInv, RouteInv
  <2> QED
    BY <2>1, <2>2
<1>18. ASSUME LeaveUnsettled(t) PROVE CauseInv'
  <2>1. LinkInv'
    BY <1>18 DEF LeaveUnsettled, GoTo, rowVars, historyVars, LinkInv, Executing, TypeOK, OwnerInv, ExistsInv
  <2>2. AnnouncedInv'
    BY <1>18 DEF LeaveUnsettled, GoTo, rowVars, historyVars, LinkInv, AnnouncedInv, Executing, TypeOK, OwnerInv, ExistsInv, RouteInv
  <2> QED
    BY <2>1, <2>2
<1> QED
  BY <1>1, <1>2, <1>3, <1>4, <1>5, <1>6, <1>7, <1>8, <1>9, <1>10, <1>11, <1>12, <1>13, <1>14, <1>15, <1>16, <1>17,
     <1>18 DEF RunStep

LEMMA StepKeepsCause == IInv /\ CauseInv /\ [Next]_vars => CauseInv'
<1> SUFFICES ASSUME IInv, CauseInv, [Next]_vars PROVE CauseInv'
  OBVIOUS
<1> USE DEF IInv, CauseInv
<1>1. ASSUME NEW j \in Jobs, NEW r \in Routes, NEW u \in Tasks, Create(j, r, u) PROVE CauseInv'
  <2>1. LinkInv'
    BY <1>1 DEF Create, Dispatch, rowVars, taskVars, historyVars, LinkInv, Executing, TypeOK, OwnerInv, ExistsInv
  <2>2. AnnouncedInv'
    BY <1>1 DEF Create, Dispatch, rowVars, taskVars, historyVars, LinkInv, AnnouncedInv, Executing, TypeOK, OwnerInv, ExistsInv, RouteInv
  <2> QED
    BY <2>1, <2>2
<1>2. ASSUME NEW h \in Requests, NEW j \in Jobs, NEW kind \in {"cancel", "retry"}, TakeLock(h, j, kind) PROVE CauseInv'
  <2>1. LinkInv'
    BY <1>2 DEF TakeLock, rowVars, taskVars, historyVars, LinkInv, Executing, TypeOK, OwnerInv, ExistsInv
  <2>2. AnnouncedInv'
    BY <1>2 DEF TakeLock, rowVars, taskVars, historyVars, LinkInv, AnnouncedInv, Executing, TypeOK, OwnerInv, ExistsInv, RouteInv
  <2> QED
    BY <2>1, <2>2
<1>3. ASSUME NEW h \in Requests, CancelCommits(h) PROVE CauseInv'
  <2>1. LinkInv'
    BY <1>3 DEF CancelCommits, Fail, rowVars, taskVars, historyVars, LinkInv, Executing, TypeOK, OwnerInv, ExistsInv
  <2>2. AnnouncedInv'
    BY <1>3 DEF CancelCommits, Fail, rowVars, taskVars, historyVars, LinkInv, AnnouncedInv, Executing, TypeOK, OwnerInv, ExistsInv, RouteInv
  <2> QED
    BY <2>1, <2>2
<1>4. ASSUME NEW h \in Requests, NEW u \in Tasks, RetryCommits(h, u) PROVE CauseInv'
  <2>1. LinkInv'
    BY <1>4 DEF RetryCommits, Dispatch, rowVars, taskVars, historyVars, LinkInv, Executing, TypeOK, OwnerInv, ExistsInv
  <2>2. AnnouncedInv'
    BY <1>4 DEF RetryCommits, Dispatch, rowVars, taskVars, historyVars, LinkInv, AnnouncedInv, Executing, TypeOK, OwnerInv, ExistsInv, RouteInv
  <2> QED
    BY <2>1, <2>2
<1>5. ASSUME NEW h \in Requests, Refuse(h) PROVE CauseInv'
  <2>1. LinkInv'
    BY <1>5 DEF Refuse, rowVars, taskVars, historyVars, LinkInv, Executing, TypeOK, OwnerInv, ExistsInv
  <2>2. AnnouncedInv'
    BY <1>5 DEF Refuse, rowVars, taskVars, historyVars, LinkInv, AnnouncedInv, Executing, TypeOK, OwnerInv, ExistsInv, RouteInv
  <2> QED
    BY <2>1, <2>2
<1>6. ASSUME NEW j \in Jobs, ReadLink(j) \/ Download(j) \/ DownloadFails(j) PROVE CauseInv'
  <2>1. LinkInv'
    BY <1>6 DEF ReadLink, Download, DownloadFails, EndDownload, rowVars, taskVars, historyVars, LinkInv, Executing, TypeOK, OwnerInv, ExistsInv
  <2>2. AnnouncedInv'
    BY <1>6 DEF ReadLink, Download, DownloadFails, EndDownload, rowVars, taskVars, historyVars, LinkInv, AnnouncedInv, Executing, TypeOK, OwnerInv, ExistsInv, RouteInv
  <2> QED
    BY <2>1, <2>2
<1>7. ASSUME NEW j \in Jobs, Age(j) PROVE CauseInv'
  <2>1. LinkInv'
    BY <1>7 DEF Age, rowVars, taskVars, historyVars, LinkInv, Executing, TypeOK, OwnerInv, ExistsInv
  <2>2. AnnouncedInv'
    BY <1>7 DEF Age, rowVars, taskVars, historyVars, LinkInv, AnnouncedInv, Executing, TypeOK, OwnerInv, ExistsInv, RouteInv
  <2> QED
    BY <2>1, <2>2
<1>8. ASSUME NEW s \in Sweepers, SweepSelect(s) PROVE CauseInv'
  <2>1. LinkInv'
    BY <1>8 DEF SweepSelect, rowVars, taskVars, historyVars, LinkInv, Executing, TypeOK, OwnerInv, ExistsInv
  <2>2. AnnouncedInv'
    BY <1>8 DEF SweepSelect, rowVars, taskVars, historyVars, LinkInv, AnnouncedInv, Executing, TypeOK, OwnerInv, ExistsInv, RouteInv
  <2> QED
    BY <2>1, <2>2
<1>9. ASSUME NEW s \in Sweepers, SweepWrite(s) PROVE CauseInv'
  <2>1. LinkInv'
    BY <1>9 DEF SweepWrite, rowVars, taskVars, historyVars, LinkInv, Executing, TypeOK, OwnerInv, ExistsInv
  <2>2. AnnouncedInv'
    BY <1>9 DEF SweepWrite, rowVars, taskVars, historyVars, LinkInv, AnnouncedInv, Executing, TypeOK, OwnerInv, ExistsInv, RouteInv
  <2> QED
    BY <2>1, <2>2
<1>10. ASSUME Crash PROVE CauseInv'
  <2>1. LinkInv'
    BY <1>10 DEF Crash, rowVars, taskVars, historyVars, LinkInv, Executing, TypeOK, OwnerInv, ExistsInv
  <2>2. AnnouncedInv'
    BY <1>10 DEF Crash, rowVars, taskVars, historyVars, LinkInv, AnnouncedInv, Executing, TypeOK, OwnerInv, ExistsInv, RouteInv
  <2> QED
    BY <2>1, <2>2
<1>11. ASSUME UNCHANGED vars PROVE CauseInv'
  <2>1. LinkInv'
    BY <1>11 DEF vars, rowVars, taskVars, historyVars, LinkInv, Executing, TypeOK, OwnerInv, ExistsInv
  <2>2. AnnouncedInv'
    BY <1>11 DEF vars, rowVars, taskVars, historyVars, LinkInv, AnnouncedInv, Executing, TypeOK, OwnerInv, ExistsInv, RouteInv
  <2> QED
    BY <2>1, <2>2
<1> QED
  BY <1>1, <1>2, <1>3, <1>4, <1>5, <1>6, <1>7, <1>8, <1>9, <1>10, <1>11, RunKeepsCause DEF Next, RequestStep

\* Only an executing run and a sweep take an announced status back.
LEMMA RegressesForCause ==
  ASSUME IInv, CauseInv, [Next]_vars, NEW j \in Jobs, Regresses(j)
  PROVE  \/ \E s \in Sweepers : j \in picked[s]
         \/ route[j] = "cloud" /\ status[j] = "sent" /\ Executing(j)
         \/ route[j] = "code" /\ runs[j] > 1 /\ Executing(j)
<1> USE DEF IInv, Regresses
<1>1. ASSUME NEW i \in Jobs, NEW r \in Routes, NEW t \in Tasks, Create(i, r, t)
      PROVE  FALSE
  BY <1>1 DEF Create, TypeOK
<1>2. ASSUME NEW h \in Requests, RequestStep(h)
      PROVE  FALSE
  BY <1>2 DEF RequestStep, TakeLock, CancelCommits, RetryCommits, Refuse, Fail, rowVars, TypeOK
<1>3. ASSUME NEW i \in Jobs, ReadLink(i) \/ Download(i) \/ DownloadFails(i) \/ Age(i)
      PROVE  FALSE
  BY <1>3 DEF ReadLink, Download, DownloadFails, Age, rowVars, TypeOK
<1>4. ASSUME NEW t \in Tasks, RunStep(t)
      PROVE  \/ route[j] = "cloud" /\ status[j] = "sent" /\ Executing(j)
             \/ route[j] = "code" /\ runs[j] > 1 /\ Executing(j)
  <2>1. j = tjob[t] /\ tpc[t] \in Working
    BY <1>4 DEF RunStep, Start, StartRefused, PrepareFails, Attempt, RelayAccepts,
         RelayErrs, RelayRejects, ConfirmSent, MarkUploading, UploadSucceeds,
         UploadFails, ConfirmDelivered, IssueCode, PublishCode, PublishCatalog,
         Unexpected, LeaveUnsettled, Unlock, Fail, WriteStatus, rowVars, TypeOK
  <2>2. Executing(j)
    BY <2>1 DEF Executing
  <2>3. status[j] \in {"sent", "delivered"}
    OBVIOUS
  <2> QED
    BY <2>1, <2>2, <2>3 DEF CauseInv, AnnouncedInv
<1>5. ASSUME NEW s \in Sweepers, SweepSelect(s) \/ SweepWrite(s)
      PROVE  j \in picked[s]
  BY <1>5 DEF SweepSelect, SweepWrite, rowVars, TypeOK
<1>6. ~Crash /\ ~UNCHANGED vars
  BY DEF Crash, vars, rowVars
<1> QED
  BY <1>1, <1>2, <1>3, <1>4, <1>5, <1>6 DEF Next

-----------------------------------------------------------------------------
(* A job is a DeliveryLifecycle to its owner.                              *)

\* Who executes a job is told by the program counters of its runs.
LEMMA ExecutionsStay ==
  ASSUME NEW t \in Tasks,
         \A u \in Tasks \ {t} : tpc'[u] = tpc[u] /\ tjob'[u] = tjob[u],
         \/ tpc[t] \notin Working /\ tpc'[t] \notin Working
         \/ tpc[t] \in Working /\ tpc'[t] \in Working /\ tjob'[t] = tjob[t]
  PROVE  [i \in Jobs |-> Executing(i)]' = [i \in Jobs |-> Executing(i)]
<1>1. \A i \in Jobs : Executing(i)' <=> Executing(i)
  BY DEF Executing
<1> QED
  BY <1>1, Zenon DEF Executing

\* What a step does to one job's execution it does to no other's.
LEMMA OneIsTurnedOn ==
  ASSUME NEW j \in Jobs, \A i \in Jobs \ {j} : Executing(i)' <=> Executing(i), Executing(j)'
  PROVE  [i \in Jobs |-> Executing(i)]' = [[i \in Jobs |-> Executing(i)] EXCEPT ![j] = TRUE]
  BY Zenon DEF Executing

LEMMA OneIsTurnedOff ==
  ASSUME NEW j \in Jobs, \A i \in Jobs \ {j} : Executing(i)' <=> Executing(i), ~Executing(j)'
  PROVE  [i \in Jobs |-> Executing(i)]' = [[i \in Jobs |-> Executing(i)] EXCEPT ![j] = FALSE]
<1>1. ASSUME NEW i \in Jobs PROVE Executing(i)' = (IF i = j THEN FALSE ELSE Executing(i))
  <2>1. CASE i = j
    <3>1. Executing(i)' = FALSE
      BY <2>1 DEF Executing
    <3> QED
      BY <2>1, <3>1
  <2>2. CASE i # j
    <3>1. Executing(i)' = Executing(i)
      BY <2>2 DEF Executing
    <3> QED
      BY <2>2, <3>1
  <2> QED
    BY <2>1, <2>2
<1> QED
  BY <1>1

\* A run that takes the lock of a job is the only one at work on it, ...
LEMMA ExecutionBegins ==
  ASSUME IInv, NEW t \in Tasks, NEW j \in Jobs, j = tjob[t],
         tpc[t] = "dispatched", lock[j] = NoOne, GoTo(t, "prepare")
  PROVE  /\ ~[i \in Jobs |-> Executing(i)][j]
         /\ [i \in Jobs |-> Executing(i)]' = [[i \in Jobs |-> Executing(i)] EXCEPT ![j] = TRUE]
<1>1. /\ ~Executing(j) /\ Executing(j)'
      /\ \A i \in Jobs \ {j} : Executing(i)' <=> Executing(i)
  BY ActorsAssumption DEF Executing, GoTo, IInv, TypeOK, OwnerInv
<1>2. ~[i \in Jobs |-> Executing(i)][j]
  BY <1>1, Zenon
<1>3. [i \in Jobs |-> Executing(i)]' = [[i \in Jobs |-> Executing(i)] EXCEPT ![j] = TRUE]
  BY <1>1, OneIsTurnedOn
<1> QED
  BY <1>2, <1>3

\* ... so that the execution is over when that run is.
LEMMA ExecutionEnds ==
  ASSUME IInv, NEW t \in Tasks, NEW j \in Jobs, j = tjob[t],
         tpc[t] \in Working, GoTo(t, "unlock")
  PROVE  /\ [i \in Jobs |-> Executing(i)][j]
         /\ [i \in Jobs |-> Executing(i)]' = [[i \in Jobs |-> Executing(i)] EXCEPT ![j] = FALSE]
<1>1. /\ Executing(j) /\ ~Executing(j)'
      /\ \A i \in Jobs \ {j} : Executing(i)' <=> Executing(i)
  BY DEF Executing, GoTo, IInv, TypeOK, OwnerInv
<1>2. [i \in Jobs |-> Executing(i)][j]
  BY <1>1, Zenon
<1>3. [i \in Jobs |-> Executing(i)]' = [[i \in Jobs |-> Executing(i)] EXCEPT ![j] = FALSE]
  BY <1>1, OneIsTurnedOff
<1> QED
  BY <1>2, <1>3

\* Nobody executes a job whose lock an admitted request holds.
LEMMA NoneUnderRequest ==
  ASSUME IInv, NEW h \in Requests, NEW j \in Jobs, j = hjob[h], hpc[h] # "idle"
  PROVE  ~[i \in Jobs |-> Executing(i)][j]
<1>1. ~Executing(j)
  BY ActorsAssumption DEF Executing, IInv, OwnerInv
<1> QED
  BY <1>1, Zenon

\* Nothing exists at first, and nothing is executed.
LEMMA InitIsLifecycle == Init => Lifecycle!Init
<1> SUFFICES ASSUME Init PROVE Lifecycle!Init
  OBVIOUS
<1>1. \A i \in Jobs : ~Executing(i)
  BY DEF Init, Executing
<1>2. [i \in Jobs |-> Executing(i)] = [i \in Jobs |-> FALSE]
  BY <1>1, Zenon DEF Executing
<1> QED
  BY <1>2 DEF Init, Lifecycle!Init

\* A run that ends is the end of an execution, with the status it writes.
LEMMA EndIsLifecycle ==
  ASSUME IInv, NEW t \in Tasks, NEW j \in Jobs, j = tjob[t],
         tpc[t] \in Working, GoTo(t, "unlock"), route' = route,
         NEW s \in Lifecycle!Outcomes(j), status' = [status EXCEPT ![j] = s],
         s = "sent" /\ route[j] = "email" => copies[j] > 0,
         s = "delivered" => copies[j] > 0,
         \/ copies' = copies
         \/ /\ s = "failed" /\ route[j] \in {"email", "cloud"}
            /\ copies' = [copies EXCEPT ![j] = @ + 1]
  PROVE  Lifecycle!Next
<1>1. /\ [i \in Jobs |-> Executing(i)][j]
      /\ [i \in Jobs |-> Executing(i)]' = [[i \in Jobs |-> Executing(i)] EXCEPT ![j] = FALSE]
  BY ExecutionEnds
<1>2. Lifecycle!End(j)
  BY <1>1 DEF Lifecycle!End
<1> QED
  BY <1>2 DEF Lifecycle!Next

\* A run that fails, whatever its last call did.
LEMMA FailureIsLifecycle ==
  ASSUME IInv, NEW t \in Tasks, NEW j \in Jobs, j = tjob[t],
         tpc[t] \in Working, GoTo(t, "unlock"),
         route' = route, status' = [status EXCEPT ![j] = "failed"],
         \/ copies' = copies
         \/ route[j] \in {"email", "cloud"} /\ copies' = [copies EXCEPT ![j] = @ + 1]
  PROVE  Lifecycle!Next
<1>1. "failed" \in Lifecycle!Outcomes(j)
  BY DEF Lifecycle!Outcomes
<1> QED
  BY <1>1, EndIsLifecycle

\* The relay or the cloud takes a copy and the run goes on.
LEMMA CopyIsLifecycle ==
  ASSUME IInv, NEW t \in Tasks, NEW j \in Jobs, j = tjob[t], NEW l \in Working,
         tpc[t] \in {"sending", "uploading"}, GoTo(t, l), CopyTaken(j), UNCHANGED rowVars
  PROVE  Lifecycle!Next
<1>1. [i \in Jobs |-> Executing(i)]' = [i \in Jobs |-> Executing(i)]
  BY ExecutionsStay DEF GoTo, IInv, TypeOK
<1>2. Executing(j)
  BY DEF Executing
<1>3. route[j] \in {"email", "cloud"} /\ copies' = [copies EXCEPT ![j] = @ + 1]
      /\ status' = status /\ route' = route
  BY DEF CopyTaken, rowVars, IInv, RouteInv
<1>4. Lifecycle!HandOver(j)
  BY <1>1, <1>2, <1>3 DEF Lifecycle!HandOver
<1> QED
  BY <1>4 DEF Lifecycle!Next

\* What changes neither rows nor copies nor who is at work is not seen.
LEMMA UnseenIsLifecycle ==
  ASSUME UNCHANGED <<status, route, copies>>,
         [i \in Jobs |-> Executing(i)]' = [i \in Jobs |-> Executing(i)]
  PROVE  UNCHANGED Lifecycle!vars
  BY DEF Lifecycle!vars

\* The steps of a run, one case per kind of abstract step.
LEMMA RunIsLifecycle ==
  ASSUME IInv, NEW t \in Tasks, RunStep(t)
  PROVE  Lifecycle!Next \/ UNCHANGED Lifecycle!vars
<1>1. tpc[t] # "idle"
  BY DEF RunStep, Start, StartRefused, PrepareFails, Attempt, RelayAccepts, RelayErrs,
     RelayRejects, ConfirmSent, MarkUploading, UploadSucceeds, UploadFails,
     ConfirmDelivered, IssueCode, PublishCode, PublishCatalog, Unexpected, LeaveUnsettled,
     Unlock
<1> PICK j \in Jobs : j = tjob[t]
  BY <1>1 DEF IInv, ExistsInv
<1>2. CASE Start(t)
  <2>1. CASE status[j] = "queued"
    <3>1. tpc[t] = "dispatched" /\ lock[j] = NoOne /\ GoTo(t, "prepare")
          /\ status' = status /\ route' = route /\ copies' = copies
      BY <1>2, <2>1 DEF Start, rowVars, historyVars
    <3>2. Lifecycle!Begin(j)
      BY <2>1, <3>1, ExecutionBegins DEF Lifecycle!Begin
    <3> QED
      BY <3>2 DEF Lifecycle!Next
  <2>2. CASE status[j] # "queued"
    <3>1. [i \in Jobs |-> Executing(i)]' = [i \in Jobs |-> Executing(i)]
      BY <1>2, <2>2, ExecutionsStay DEF Start, GoTo, IInv, TypeOK
    <3> QED
      BY <1>2, <3>1, UnseenIsLifecycle DEF Start, rowVars, historyVars
  <2> QED
    BY <2>1, <2>2
<1>3. CASE StartRefused(t) \/ Attempt(t) \/ IssueCode(t) \/ Unlock(t)
  <2>1. [i \in Jobs |-> Executing(i)]' = [i \in Jobs |-> Executing(i)]
    BY <1>3, ExecutionsStay DEF StartRefused, Attempt, IssueCode, Unlock, GoTo, IInv, TypeOK
  <2>2. UNCHANGED <<status, route, copies>>
    BY <1>3 DEF StartRefused, Attempt, IssueCode, Unlock, rowVars, historyVars
  <2> QED
    BY <2>1, <2>2, UnseenIsLifecycle
<1>4. CASE PrepareFails(t) \/ RelayRejects(t) \/ Unexpected(t)
  BY <1>4, FailureIsLifecycle DEF PrepareFails, RelayRejects, Unexpected, Fail, historyVars
<1>5. CASE RelayAccepts(t) \/ UploadSucceeds(t)
  BY <1>5, CopyIsLifecycle DEF RelayAccepts, UploadSucceeds
<1>6. ASSUME NEW taken \in BOOLEAN, RelayErrs(t, taken)
      PROVE  Lifecycle!Next \/ UNCHANGED Lifecycle!vars
  <2>1. route[j] = "email" /\ tpc[t] = "sending"
    BY <1>6 DEF RelayErrs, IInv, RouteInv
  <2>2. CASE tn[t] >= MaxAttempts
    BY <1>6, <2>1, <2>2, FailureIsLifecycle DEF RelayErrs, Fail, CopyTaken, historyVars
  <2>3. CASE ~(tn[t] >= MaxAttempts) /\ taken
    BY <1>6, <2>1, <2>3, CopyIsLifecycle DEF RelayErrs
  <2>4. CASE ~(tn[t] >= MaxAttempts) /\ ~taken
    <3>1. [i \in Jobs |-> Executing(i)]' = [i \in Jobs |-> Executing(i)]
      BY <1>6, <2>1, <2>4, ExecutionsStay DEF RelayErrs, GoTo, IInv, TypeOK
    <3> QED
      BY <1>6, <2>4, <3>1, UnseenIsLifecycle DEF RelayErrs, rowVars, historyVars
  <2> QED
    BY <2>2, <2>3, <2>4
<1>7. ASSUME NEW taken \in BOOLEAN, UploadFails(t, taken) PROVE Lifecycle!Next
  <2>1. route[j] = "cloud"
    BY <1>7 DEF UploadFails, IInv, RouteInv
  <2> QED
    BY <1>7, <2>1, FailureIsLifecycle DEF UploadFails, Fail, CopyTaken, historyVars
<1>8. CASE ConfirmSent(t)
  <2>1. route[j] = "email" /\ copies[j] > 0
    BY <1>8 DEF ConfirmSent, IInv, RouteInv, CountInv
  <2>2. "sent" \in Lifecycle!Outcomes(j)
    BY <2>1 DEF Lifecycle!Outcomes
  <2> QED
    BY <1>8, <2>1, <2>2, EndIsLifecycle DEF ConfirmSent, WriteStatus, historyVars
<1>9. CASE ConfirmDelivered(t)
  <2>1. route[j] = "cloud" /\ copies[j] > 0
    BY <1>9 DEF ConfirmDelivered, IInv, RouteInv, CountInv
  <2>2. "delivered" \in Lifecycle!Outcomes(j)
    BY <2>1 DEF Lifecycle!Outcomes
  <2> QED
    BY <1>9, <2>1, <2>2, EndIsLifecycle DEF ConfirmDelivered, WriteStatus, historyVars
<1>10. CASE PublishCode(t) \/ PublishCatalog(t)
  <2>1. route[j] \in {"code", "catalog"}
    BY <1>10 DEF PublishCode, PublishCatalog, IInv, RouteInv
  <2>2. "sent" \in Lifecycle!Outcomes(j)
    BY <2>1 DEF Lifecycle!Outcomes
  <2> QED
    BY <1>10, <2>1, <2>2, EndIsLifecycle DEF PublishCode, PublishCatalog, WriteStatus, historyVars
<1>11. CASE MarkUploading(t)
  <2>1. [i \in Jobs |-> Executing(i)]' = [i \in Jobs |-> Executing(i)]
    BY <1>11, ExecutionsStay DEF MarkUploading, GoTo, IInv, TypeOK
  <2>2. Executing(j)
    BY <1>11 DEF MarkUploading, Executing
  <2>3. Lifecycle!Announce(j)
    BY <1>11, <2>1, <2>2 DEF MarkUploading, WriteStatus, historyVars, Lifecycle!Announce
  <2> QED
    BY <2>3 DEF Lifecycle!Next
<1>12. CASE LeaveUnsettled(t)
  <2>1. tpc[t] \in Working /\ GoTo(t, "unlock") /\ UNCHANGED <<status, route, copies>>
    BY <1>12 DEF LeaveUnsettled, rowVars
  <2>2. Lifecycle!GiveUp(j)
    BY <2>1, ExecutionEnds DEF Lifecycle!GiveUp
  <2> QED
    BY <2>2 DEF Lifecycle!Next
<1> QED
  BY <1>2, <1>3, <1>4, <1>5, <1>6, <1>7, <1>8, <1>9, <1>10, <1>11, <1>12 DEF RunStep

\* The requests: a cancel and a retry are admitted between two executions.
LEMMA RequestIsLifecycle ==
  ASSUME IInv, NEW h \in Requests, RequestStep(h)
  PROVE  Lifecycle!Next \/ UNCHANGED Lifecycle!vars
<1>1. CASE (\E j \in Jobs, kind \in {"cancel", "retry"} : TakeLock(h, j, kind)) \/ Refuse(h)
  <2>1. UNCHANGED <<status, route, copies, tpc, tjob>>
    BY <1>1 DEF TakeLock, Refuse, rowVars, taskVars, historyVars
  <2>2. [i \in Jobs |-> Executing(i)]' = [i \in Jobs |-> Executing(i)]
    BY <2>1, Zenon DEF Executing
  <2> QED
    BY <2>1, <2>2, UnseenIsLifecycle
<1>2. CASE CancelCommits(h)
  <2> PICK j \in Jobs : j = hjob[h]
    BY <1>2 DEF CancelCommits, IInv, ExistsInv
  <2>1. ~[i \in Jobs |-> Executing(i)][j]
    BY <1>2, NoneUnderRequest DEF CancelCommits
  <2>2. /\ status[j] = "queued" /\ status' = [status EXCEPT ![j] = "failed"]
        /\ UNCHANGED <<route, copies, tpc, tjob>>
    BY <1>2 DEF CancelCommits, Fail, taskVars
  <2>3. [i \in Jobs |-> Executing(i)]' = [i \in Jobs |-> Executing(i)]
    BY <2>2, Zenon DEF Executing
  <2>4. Lifecycle!Cancel(j)
    BY <2>1, <2>2, <2>3 DEF Lifecycle!Cancel
  <2> QED
    BY <2>4 DEF Lifecycle!Next
<1>3. ASSUME NEW t \in Tasks, RetryCommits(h, t) PROVE Lifecycle!Next
  <2> PICK j \in Jobs : j = hjob[h]
    BY <1>3 DEF RetryCommits, IInv, ExistsInv
  <2>1. ~[i \in Jobs |-> Executing(i)][j]
    BY <1>3, NoneUnderRequest DEF RetryCommits
  <2>2. /\ status[j] = "failed" /\ status' = [status EXCEPT ![j] = "queued"]
        /\ copies' = [copies EXCEPT ![j] = 0] /\ route' = route
    BY <1>3 DEF RetryCommits
  <2>3. [i \in Jobs |-> Executing(i)]' = [i \in Jobs |-> Executing(i)]
    BY <1>3, ExecutionsStay DEF RetryCommits, Dispatch, IInv, TypeOK
  <2>4. Lifecycle!Retry(j)
    BY <2>1, <2>2, <2>3 DEF Lifecycle!Retry
  <2> QED
    BY <2>4 DEF Lifecycle!Next
<1> QED
  BY <1>1, <1>2, <1>3 DEF RequestStep

\* A sweep, which takes no lock, may overrule whatever was announced.
LEMMA SweepIsLifecycle ==
  ASSUME IInv, NEW s \in Sweepers, SweepSelect(s) \/ SweepWrite(s)
  PROVE  Lifecycle!Next \/ UNCHANGED Lifecycle!vars
<1>1. UNCHANGED <<route, copies, tpc, tjob>>
  BY DEF SweepSelect, SweepWrite, rowVars, taskVars, historyVars
<1>2. [i \in Jobs |-> Executing(i)]' = [i \in Jobs |-> Executing(i)]
  BY <1>1, Zenon DEF Executing
<1>3. CASE SweepSelect(s)
  BY <1>1, <1>2, <1>3, UnseenIsLifecycle DEF SweepSelect, rowVars
<1>4. CASE SweepWrite(s)
  <2> PICK S \in SUBSET Jobs : S = picked[s]
    BY DEF IInv, TypeOK
  <2>1. /\ \A j \in S : status[j] # "absent"
        /\ status' = [j \in Jobs |-> IF j \in S THEN "failed" ELSE status[j]]
    BY <1>4 DEF SweepWrite, IInv, ExistsInv
  <2>2. Lifecycle!Reap(S)
    BY <1>1, <1>2, <2>1 DEF Lifecycle!Reap
  <2> QED
    BY <2>2 DEF Lifecycle!Next
<1> QED
  BY <1>3, <1>4

\* Every step of the platform is a step of the lifecycle, or is not seen.
LEMMA StepIsLifecycle == IInv /\ [Next]_vars => [Lifecycle!Next]_(Lifecycle!vars)
<1> SUFFICES ASSUME IInv, [Next]_vars PROVE Lifecycle!Next \/ UNCHANGED Lifecycle!vars
  OBVIOUS
<1>1. ASSUME NEW j \in Jobs, NEW r \in Routes, NEW t \in Tasks, Create(j, r, t) PROVE Lifecycle!Next
  <2>1. [i \in Jobs |-> Executing(i)]' = [i \in Jobs |-> Executing(i)]
    BY <1>1, ExecutionsStay DEF Create, Dispatch, IInv, TypeOK
  <2>2. Lifecycle!Create(j, r)
    BY <1>1, <2>1 DEF Create, Lifecycle!Create
  <2> QED
    BY <2>2 DEF Lifecycle!Next
<1>2. ASSUME NEW j \in Jobs, ReadLink(j) \/ Download(j) \/ DownloadFails(j) \/ Age(j)
      PROVE  Lifecycle!Next \/ UNCHANGED Lifecycle!vars
  <2>1. UNCHANGED <<route, copies, tpc, tjob>>
    BY <1>2 DEF ReadLink, Download, DownloadFails, EndDownload, Age, rowVars, taskVars, historyVars
  <2>2. [i \in Jobs |-> Executing(i)]' = [i \in Jobs |-> Executing(i)]
    BY <2>1, Zenon DEF Executing
  <2>3. CASE Download(j) /\ download[j] = "settles"
    <3>1. /\ route[j] = "code" /\ status[j] # "absent"
          /\ status' = [status EXCEPT ![j] = "delivered"]
      BY <2>3 DEF Download, IInv, ExistsInv
    <3>2. Lifecycle!Download(j)
      BY <2>1, <2>2, <3>1 DEF Lifecycle!Download
    <3> QED
      BY <3>2 DEF Lifecycle!Next
  <2>4. CASE ReadLink(j) \/ DownloadFails(j) \/ Age(j) \/ (Download(j) /\ download[j] # "settles")
    <3>1. status' = status
      BY <2>4 DEF ReadLink, DownloadFails, Age, Download, rowVars
    <3> QED
      BY <2>1, <2>2, <3>1, UnseenIsLifecycle
  <2> QED
    BY <1>2, <2>3, <2>4
<1>3. ASSUME Crash PROVE Lifecycle!Next
  <2>1. UNCHANGED <<status, route, copies>> /\ tpc' = [t \in Tasks |-> "idle"]
    BY <1>3 DEF Crash, rowVars
  <2>2. \A i \in Jobs : ~Executing(i)'
    BY <2>1 DEF Executing
  <2>3. [i \in Jobs |-> Executing(i)]' = [i \in Jobs |-> FALSE]
    BY <2>2, Zenon DEF Executing
  <2>4. Lifecycle!Vanish
    BY <2>1, <2>3 DEF Lifecycle!Vanish
  <2> QED
    BY <2>4 DEF Lifecycle!Next
<1>4. ASSUME UNCHANGED vars PROVE UNCHANGED Lifecycle!vars
  <2>1. UNCHANGED <<status, route, copies, tpc, tjob>>
    BY <1>4 DEF vars, rowVars, taskVars, historyVars
  <2>2. [i \in Jobs |-> Executing(i)]' = [i \in Jobs |-> Executing(i)]
    BY <2>1, Zenon DEF Executing
  <2> QED
    BY <2>1, <2>2, UnseenIsLifecycle
<1> QED
  BY <1>1, <1>2, <1>3, <1>4, RunIsLifecycle, RequestIsLifecycle, SweepIsLifecycle DEF Next

-----------------------------------------------------------------------------
(***************************************************************************)
(* A job announced as sent or delivered goes back only through a sweeper   *)
(* that selected it earlier, a cloud upload that fails after "sent", or a  *)
(* run that ends after the download of an earlier run's link.              *)
(***************************************************************************)
THEOREM RegressionsHaveCause == Spec => RegressionHasCause
<1>1. Spec => [](IInv /\ CauseInv)
  <2>1. Init => CauseInv
    BY CauseInitInv
  <2>2. IInv /\ CauseInv /\ [Next]_vars => CauseInv'
    BY StepKeepsCause
  <2> QED
    BY <2>1, <2>2, Invariance, PTL DEF Spec
<1>2. IInv /\ CauseInv /\ [Next]_vars =>
        [\A j \in Jobs : Regresses(j) =>
           \/ \E s \in Sweepers : j \in picked[s]
           \/ route[j] = "cloud" /\ status[j] = "sent" /\ Executing(j)
           \/ route[j] = "code" /\ runs[j] > 1 /\ Executing(j)]_vars
  BY RegressesForCause
<1> QED
  BY <1>1, <1>2, PTL DEF Spec, RegressionHasCause

(***************************************************************************)
(* To its owner a job is a DeliveryLifecycle: one execution at a time, no  *)
(* locks, no tasks, no requests.                                           *)
(***************************************************************************)
THEOREM JobsAreLifecycles == Spec => ImplementsLifecycle
<1>1. Init => Lifecycle!Init
  BY InitIsLifecycle
<1>2. IInv /\ [Next]_vars => [Lifecycle!Next]_(Lifecycle!vars)
  BY StepIsLifecycle
<1> QED
  BY <1>1, <1>2, Invariance, PTL DEF Spec, ImplementsLifecycle, Lifecycle!Spec
=============================================================================
