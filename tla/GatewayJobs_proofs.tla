------------------------- MODULE GatewayJobs_proofs -------------------------
(***************************************************************************)
(* The safety properties of GatewayJobs, for any number of jobs, handlers  *)
(* and attempts.  The inductive invariant says whom each handler and the   *)
(* agent work for, and what their looks at the library still tell; its     *)
(* preservation is proved action by action.                                *)
(***************************************************************************)
EXTENDS GatewayJobs, TLAPS

USE DEF Jobs, NoJob, Statuses, Kinds, Answers, Active, Terminal, Rows, Admitted

\* A handler, and the agent when it is not idle, work on a job whose row was
\* inserted; the agent awaits a handler that works on the agent's job.
HandlersInv ==
  \A u \in Handlers :
    /\ upc[u] = "idle" => ujob[u] = NoJob
    /\ upc[u] # "idle" => ujob[u] \in Jobs /\ status[ujob[u]] \notin {"absent", "chosen"}

AgentInv ==
  /\ apc = "idle" => ajob = NoJob
  /\ apc # "idle" => ajob \in Jobs /\ status[ajob] \notin {"absent", "chosen"}
  /\ awaits # NoHandler => apc = "waiting" /\ upc[awaits] # "idle" /\ ujob[awaits] = ajob
  /\ \A j \in torrents : kind[j] = "fetch" /\ status[j] \notin {"absent", "chosen"}

\* Only the dead letter counts one attempt more, and it ends the job.
AttemptsInv == \A j \in Jobs : status[j] \notin Terminal => attempts[j] <= MaxAttempts

\* Only a handler that found or stored the book of a fetch is about to finish.
ItemInv ==
  \A u \in Handlers :
    /\ upc[u] \in {"checked", "missing"} => kind[ujob[u]] = "fetch"
    /\ upc[u] = "finish" /\ kind[ujob[u]] = "fetch" => items[ujob[u]] > 0

\* Two handlers at work on one job have been seen to overlap; without an
\* overlap, what a handler has looked up is still so.
OverlapInv ==
  \A u \in Handlers : upc[u] \in Admitted =>
    /\ \A v \in Handlers \ {u} : upc[v] \in Admitted /\ ujob[v] = ujob[u] => ujob[u] \in overlapped
    /\ upc[u] = "missing" => items[ujob[u]] = 0 \/ ujob[u] \in overlapped

\* Nobody is at work on a done job, but for an overlap.
DoneInv ==
  \A j \in Jobs : status[j] = "done" /\ j \notin overlapped =>
    \A u \in Handlers : ~(ujob[u] = j /\ upc[u] \in Admitted)

\* What the agent was answered of a fetch is still so.
AnswerInv ==
  apc = "answered" /\ answer \in {"ok", "refused"} /\ kind[ajob] = "fetch" =>
    items[ajob] > 0 \/ status[ajob] = "failed" \/ gateway # "paired"

IInv ==
  /\ TypeOK /\ HandlersInv /\ AgentInv /\ AttemptsInv /\ ItemInv /\ OverlapInv
  /\ DoneInv /\ AnswerInv /\ DoneHasItem /\ DuplicateNeedsOverlap

\* Nothing exists at first.
LEMMA InitIInv == Init => IInv
  BY LastJobAssumption, HandlersAssumption, MaxAttemptsAssumption
  DEF Init, IInv, TypeOK, HandlersInv, AgentInv, AttemptsInv, ItemInv, OverlapInv,
      DoneInv, AnswerInv, DoneHasItem, DuplicateNeedsOverlap

-----------------------------------------------------------------------------
(* The owner's requests, retention and time.                               *)

LEMMA ChooseKeeps ==
  ASSUME IInv, NEW j \in Jobs, NEW k \in Kinds, Choose(j, k)
  PROVE  IInv'
<1> USE LastJobAssumption, HandlersAssumption, MaxAttemptsAssumption
    DEF IInv, Choose, rowVars, agentVars, handlerVars
<1>1. TypeOK'
  <2>1. status' \in [Jobs -> Statuses]
    BY DEF TypeOK, HandlersInv
  <2>2. kind' \in [Jobs -> Kinds]
    BY DEF TypeOK, HandlersInv
  <2> QED
    BY <2>1, <2>2 DEF TypeOK
<1>2. HandlersInv'
  BY DEF HandlersInv, AgentInv, TypeOK
<1>3. AgentInv'
  BY DEF AgentInv, TypeOK, HandlersInv
<1>4. AttemptsInv'
  BY DEF AttemptsInv, TypeOK, HandlersInv, AgentInv
<1>5. ItemInv'
  BY DEF ItemInv, TypeOK, HandlersInv, OverlapInv, AgentInv
<1>6. DoneInv'
  BY DEF DoneInv, TypeOK, HandlersInv, OverlapInv, AgentInv
<1>7. AnswerInv'
  BY DEF AnswerInv, TypeOK, AgentInv, HandlersInv, ItemInv, DoneHasItem
<1>8. DoneHasItem'
  BY DEF DoneHasItem, TypeOK, HandlersInv, ItemInv, AgentInv
<1>9. OverlapInv' /\ DuplicateNeedsOverlap'
  BY DEF OverlapInv, DuplicateNeedsOverlap
<1> QED
  BY <1>1, <1>2, <1>3, <1>4, <1>5, <1>6, <1>7, <1>8, <1>9

LEMMA create_jobKeeps ==
  ASSUME IInv, NEW j \in Jobs, create_job(j)
  PROVE  IInv'
<1> USE LastJobAssumption, HandlersAssumption, MaxAttemptsAssumption
    DEF IInv, create_job, rowVars, agentVars, handlerVars
<1>1. TypeOK'
  <2>1. status' \in [Jobs -> Statuses]
    BY DEF TypeOK, HandlersInv
  <2> QED
    BY <2>1 DEF TypeOK
<1>2. HandlersInv'
  BY DEF HandlersInv, AgentInv, TypeOK
<1>3. AgentInv'
  BY DEF AgentInv, TypeOK, HandlersInv
<1>4. AttemptsInv'
  BY DEF AttemptsInv, TypeOK
<1>5. DoneInv'
  BY DEF DoneInv, TypeOK, HandlersInv, OverlapInv
<1>6. AnswerInv'
  BY DEF AnswerInv, TypeOK, AgentInv, HandlersInv, ItemInv, DoneHasItem
<1>7. DoneHasItem'
  BY DEF DoneHasItem, TypeOK, HandlersInv, ItemInv
<1>8. ItemInv' /\ OverlapInv' /\ DuplicateNeedsOverlap'
  BY DEF ItemInv, OverlapInv, DuplicateNeedsOverlap
<1> QED
  BY <1>1, <1>2, <1>3, <1>4, <1>5, <1>6, <1>7, <1>8

LEMMA pair_gatewayKeeps ==
  ASSUME IInv, pair_gateway
  PROVE  IInv'
<1> USE LastJobAssumption, HandlersAssumption, MaxAttemptsAssumption
    DEF IInv, pair_gateway, AgentRests, rowVars, agentVars, handlerVars
<1>1. TypeOK'
  <2>1. gateway' \in {"unpaired", "paired", "deleted"}
    BY DEF TypeOK, HandlersInv
  <2>2. apc' \in {"idle", "working", "downloading", "waiting", "answered"}
    BY DEF TypeOK, HandlersInv
  <2>3. ajob' \in Jobs \union {NoJob}
    BY DEF TypeOK, HandlersInv
  <2>4. awaits' \in Handlers \union {NoHandler}
    BY DEF TypeOK, HandlersInv
  <2>5. answer' \in Answers
    BY DEF TypeOK, HandlersInv
  <2>6. upc' \in [Handlers -> Admitted \union {"idle", "arrived"}]
    BY DEF TypeOK, HandlersInv
  <2>7. ujob' \in [Handlers -> Jobs \union {NoJob}]
    BY DEF TypeOK, HandlersInv
  <2> QED
    BY <2>1, <2>2, <2>3, <2>4, <2>5, <2>6, <2>7 DEF TypeOK
<1>2. HandlersInv'
  BY DEF HandlersInv, AgentInv, TypeOK
<1>3. AgentInv'
  BY DEF AgentInv, TypeOK, HandlersInv
<1>4. ItemInv'
  BY DEF ItemInv, TypeOK, HandlersInv, OverlapInv
<1>5. OverlapInv'
  BY DEF OverlapInv, TypeOK, HandlersInv
<1>6. DoneInv'
  BY DEF DoneInv, TypeOK, HandlersInv, OverlapInv
<1>7. AnswerInv'
  BY DEF AnswerInv, TypeOK, AgentInv, HandlersInv, ItemInv, DoneHasItem
<1>8. AttemptsInv' /\ DoneHasItem' /\ DuplicateNeedsOverlap'
  BY DEF AttemptsInv, DoneHasItem, DuplicateNeedsOverlap
<1> QED
  BY <1>1, <1>2, <1>3, <1>4, <1>5, <1>6, <1>7, <1>8

LEMMA revoke_gatewayKeeps ==
  ASSUME IInv, revoke_gateway
  PROVE  IInv'
<1> USE LastJobAssumption, HandlersAssumption, MaxAttemptsAssumption
    DEF IInv, revoke_gateway, rowVars, agentVars, handlerVars
<1>1. TypeOK'
  <2>1. status' \in [Jobs -> Statuses]
    BY DEF TypeOK, HandlersInv
  <2>2. gateway' \in {"unpaired", "paired", "deleted"}
    BY DEF TypeOK, HandlersInv
  <2> QED
    BY <2>1, <2>2 DEF TypeOK
<1>2. HandlersInv'
  BY DEF HandlersInv, AgentInv, TypeOK
<1>3. AgentInv'
  BY DEF AgentInv, TypeOK, HandlersInv
<1>4. AttemptsInv'
  BY DEF AttemptsInv, TypeOK
<1>5. DoneInv'
  BY DEF DoneInv, TypeOK, HandlersInv, OverlapInv
<1>6. AnswerInv'
  BY DEF AnswerInv, TypeOK, AgentInv, HandlersInv, ItemInv, DoneHasItem
<1>7. DoneHasItem'
  BY DEF DoneHasItem, TypeOK, HandlersInv, ItemInv
<1>8. ItemInv' /\ OverlapInv' /\ DuplicateNeedsOverlap'
  BY DEF ItemInv, OverlapInv, DuplicateNeedsOverlap
<1> QED
  BY <1>1, <1>2, <1>3, <1>4, <1>5, <1>6, <1>7, <1>8

LEMMA delete_gatewayKeeps ==
  ASSUME IInv, delete_gateway
  PROVE  IInv'
<1> USE LastJobAssumption, HandlersAssumption, MaxAttemptsAssumption
    DEF IInv, delete_gateway, DeleteRows, rowVars, agentVars, handlerVars
<1>1. TypeOK'
  <2>1. status' \in [Jobs -> Statuses]
    BY DEF TypeOK, HandlersInv
  <2>2. attempts' \in [Jobs -> 0..MaxAttempts + 1]
    BY DEF TypeOK, AttemptsInv, HandlersInv, AgentInv
  <2>3. due' \in [Jobs -> BOOLEAN]
    BY DEF TypeOK, HandlersInv
  <2>4. gateway' \in {"unpaired", "paired", "deleted"}
    BY DEF TypeOK, HandlersInv
  <2> QED
    BY <2>1, <2>2, <2>3, <2>4 DEF TypeOK
<1>2. HandlersInv'
  BY DEF HandlersInv, AgentInv, TypeOK
<1>3. AgentInv'
  BY DEF AgentInv, TypeOK, HandlersInv
<1>4. AttemptsInv'
  BY DEF AttemptsInv, TypeOK
<1>5. DoneInv'
  BY DEF DoneInv, TypeOK, HandlersInv, OverlapInv
<1>6. AnswerInv'
  BY DEF AnswerInv, TypeOK, AgentInv, HandlersInv, ItemInv, DoneHasItem
<1>7. DoneHasItem'
  BY DEF DoneHasItem, TypeOK, HandlersInv, ItemInv
<1>8. ItemInv' /\ OverlapInv' /\ DuplicateNeedsOverlap'
  BY DEF ItemInv, OverlapInv, DuplicateNeedsOverlap
<1> QED
  BY <1>1, <1>2, <1>3, <1>4, <1>5, <1>6, <1>7, <1>8

LEMMA purge_finished_jobsKeeps ==
  ASSUME IInv, NEW j \in Jobs, purge_finished_jobs(j)
  PROVE  IInv'
<1> USE LastJobAssumption, HandlersAssumption, MaxAttemptsAssumption
    DEF IInv, purge_finished_jobs, DeleteRows, rowVars, agentVars, handlerVars
<1>1. TypeOK'
  <2>1. status' \in [Jobs -> Statuses]
    BY DEF TypeOK, HandlersInv
  <2>2. attempts' \in [Jobs -> 0..MaxAttempts + 1]
    BY DEF TypeOK, AttemptsInv, HandlersInv, AgentInv
  <2>3. due' \in [Jobs -> BOOLEAN]
    BY DEF TypeOK, HandlersInv
  <2> QED
    BY <2>1, <2>2, <2>3 DEF TypeOK
<1>2. HandlersInv'
  BY DEF HandlersInv, AgentInv, TypeOK
<1>3. AgentInv'
  BY DEF AgentInv, TypeOK, HandlersInv
<1>4. AttemptsInv'
  BY DEF AttemptsInv, TypeOK
<1>5. DoneInv'
  BY DEF DoneInv, TypeOK, HandlersInv, OverlapInv
<1>6. AnswerInv'
  BY DEF AnswerInv, TypeOK, AgentInv, HandlersInv, ItemInv, DoneHasItem
<1>7. DoneHasItem'
  BY DEF DoneHasItem, TypeOK, HandlersInv, ItemInv
<1>8. ItemInv' /\ OverlapInv' /\ DuplicateNeedsOverlap'
  BY DEF ItemInv, OverlapInv, DuplicateNeedsOverlap
<1> QED
  BY <1>1, <1>2, <1>3, <1>4, <1>5, <1>6, <1>7, <1>8

-----------------------------------------------------------------------------
(* The polls.                                                              *)

LEMMA HandOutKeeps ==
  ASSUME IInv, NEW j \in Jobs, NEW lost \in BOOLEAN, HandOut(j, lost)
  PROVE  IInv'
<1> USE LastJobAssumption, HandlersAssumption, MaxAttemptsAssumption
    DEF IInv, HandOut, Selected, Candidates, rowVars, agentVars, handlerVars
<1>1. TypeOK'
  <2>1. status' \in [Jobs -> Statuses]
    BY DEF TypeOK, HandlersInv
  <2>2. attempts' \in [Jobs -> 0..MaxAttempts + 1]
    BY DEF TypeOK, AttemptsInv, HandlersInv, AgentInv
  <2>3. due' \in [Jobs -> BOOLEAN]
    BY DEF TypeOK, HandlersInv
  <2>4. apc' \in {"idle", "working", "downloading", "waiting", "answered"}
    BY DEF TypeOK, HandlersInv
  <2>5. ajob' \in Jobs \union {NoJob}
    BY DEF TypeOK, HandlersInv
  <2> QED
    BY <2>1, <2>2, <2>3, <2>4, <2>5 DEF TypeOK
<1>2. HandlersInv'
  BY DEF HandlersInv, AgentInv, TypeOK
<1>3. AgentInv'
  BY DEF AgentInv, TypeOK, HandlersInv
<1>4. AttemptsInv'
  BY DEF AttemptsInv, TypeOK
<1>5. DoneInv'
  BY DEF DoneInv, TypeOK, HandlersInv, OverlapInv
<1>6. AnswerInv'
  BY DEF AnswerInv, TypeOK, AgentInv, HandlersInv, ItemInv, DoneHasItem
<1>7. DoneHasItem'
  BY DEF DoneHasItem, TypeOK, HandlersInv, ItemInv
<1>8. ItemInv' /\ OverlapInv' /\ DuplicateNeedsOverlap'
  BY DEF ItemInv, OverlapInv, DuplicateNeedsOverlap
<1> QED
  BY <1>1, <1>2, <1>3, <1>4, <1>5, <1>6, <1>7, <1>8

LEMMA AbandonKeeps ==
  ASSUME IInv, NEW j \in Jobs, Abandon(j)
  PROVE  IInv'
<1> USE LastJobAssumption, HandlersAssumption, MaxAttemptsAssumption
    DEF IInv, Abandon, Selected, Candidates, rowVars, agentVars, handlerVars
<1>1. TypeOK'
  <2>1. status' \in [Jobs -> Statuses]
    BY DEF TypeOK, HandlersInv
  <2>2. attempts' \in [Jobs -> 0..MaxAttempts + 1]
    <3>1. status[j] \in Active
      OBVIOUS
    <3>2. attempts[j] \in 0..MaxAttempts + 1 /\ attempts[j] <= MaxAttempts
      BY <3>1 DEF TypeOK, AttemptsInv
    <3>3. attempts[j] + 1 \in 0..MaxAttempts + 1
      BY <3>2
    <3> QED
      BY <3>3 DEF TypeOK
  <2> QED
    BY <2>1, <2>2 DEF TypeOK
<1>2. HandlersInv'
  BY DEF HandlersInv, AgentInv, TypeOK
<1>3. AgentInv'
  BY DEF AgentInv, TypeOK, HandlersInv
<1>4. AttemptsInv'
  BY DEF AttemptsInv, TypeOK
<1>5. DoneInv'
  BY DEF DoneInv, TypeOK, HandlersInv, OverlapInv
<1>6. AnswerInv'
  BY DEF AnswerInv, TypeOK, AgentInv, HandlersInv, ItemInv, DoneHasItem
<1>7. DoneHasItem'
  BY DEF DoneHasItem, TypeOK, HandlersInv, ItemInv
<1>8. ItemInv' /\ OverlapInv' /\ DuplicateNeedsOverlap'
  BY DEF ItemInv, OverlapInv, DuplicateNeedsOverlap
<1> QED
  BY <1>1, <1>2, <1>3, <1>4, <1>5, <1>6, <1>7, <1>8

LEMMA BackoffElapsesKeeps ==
  ASSUME IInv, NEW j \in Jobs, BackoffElapses(j)
  PROVE  IInv'
<1> USE LastJobAssumption, HandlersAssumption, MaxAttemptsAssumption
    DEF IInv, BackoffElapses, rowVars, agentVars, handlerVars
<1>1. TypeOK'
  <2>1. due' \in [Jobs -> BOOLEAN]
    BY DEF TypeOK, HandlersInv
  <2> QED
    BY <2>1 DEF TypeOK
<1>2. HandlersInv' /\ AgentInv' /\ AttemptsInv' /\ ItemInv' /\ OverlapInv' /\
   DoneInv' /\ AnswerInv' /\ DoneHasItem' /\ DuplicateNeedsOverlap'
  BY DEF HandlersInv, AgentInv, AttemptsInv, ItemInv, OverlapInv, DoneInv,
     AnswerInv, DoneHasItem, DuplicateNeedsOverlap
<1> QED
  BY <1>1, <1>2

-----------------------------------------------------------------------------
(* The agent.                                                              *)

LEMMA AgentFailsKeeps ==
  ASSUME IInv, AgentFails
  PROVE  IInv'
<1> USE LastJobAssumption, HandlersAssumption, MaxAttemptsAssumption
    DEF IInv, AgentFails, AgentRests, rowVars, agentVars, handlerVars
<1>1. TypeOK'
  <2>1. apc' \in {"idle", "working", "downloading", "waiting", "answered"}
    BY DEF TypeOK, HandlersInv
  <2>2. ajob' \in Jobs \union {NoJob}
    BY DEF TypeOK, HandlersInv
  <2>3. awaits' \in Handlers \union {NoHandler}
    BY DEF TypeOK, HandlersInv
  <2>4. answer' \in Answers
    BY DEF TypeOK, HandlersInv
  <2> QED
    BY <2>1, <2>2, <2>3, <2>4 DEF TypeOK
<1>2. AgentInv'
  BY DEF AgentInv, TypeOK, HandlersInv
<1>3. AnswerInv'
  BY DEF AnswerInv, TypeOK, AgentInv, HandlersInv, ItemInv, DoneHasItem
<1>4. HandlersInv' /\ AttemptsInv' /\ ItemInv' /\ OverlapInv' /\ DoneInv' /\
   DoneHasItem' /\ DuplicateNeedsOverlap'
  BY DEF HandlersInv, AttemptsInv, ItemInv, OverlapInv, DoneInv, DoneHasItem,
     DuplicateNeedsOverlap
<1> QED
  BY <1>1, <1>2, <1>3, <1>4

LEMMA AddTorrentKeeps ==
  ASSUME IInv, AddTorrent
  PROVE  IInv'
<1> USE LastJobAssumption, HandlersAssumption, MaxAttemptsAssumption
    DEF IInv, AddTorrent, rowVars, agentVars, handlerVars
<1>1. TypeOK'
  <2>1. apc' \in {"idle", "working", "downloading", "waiting", "answered"}
    BY DEF TypeOK, HandlersInv
  <2>2. torrents' \in SUBSET Jobs
    BY DEF TypeOK, AgentInv
  <2> QED
    BY <2>1, <2>2 DEF TypeOK
<1>2. AgentInv'
  BY DEF AgentInv, TypeOK, HandlersInv
<1>3. AnswerInv'
  BY DEF AnswerInv, TypeOK, AgentInv, HandlersInv, ItemInv, DoneHasItem
<1>4. HandlersInv' /\ AttemptsInv' /\ ItemInv' /\ OverlapInv' /\ DoneInv' /\
   DoneHasItem' /\ DuplicateNeedsOverlap'
  BY DEF HandlersInv, AttemptsInv, ItemInv, OverlapInv, DoneInv, DoneHasItem,
     DuplicateNeedsOverlap
<1> QED
  BY <1>1, <1>2, <1>3, <1>4

LEMMA UnusableKeeps ==
  ASSUME IInv, NEW removed \in BOOLEAN, Unusable(removed)
  PROVE  IInv'
<1> USE LastJobAssumption, HandlersAssumption, MaxAttemptsAssumption
    DEF IInv, Unusable, Removal, AgentRests, rowVars, agentVars, handlerVars
<1>1. TypeOK'
  <2>1. apc' \in {"idle", "working", "downloading", "waiting", "answered"}
    BY DEF TypeOK, HandlersInv
  <2>2. ajob' \in Jobs \union {NoJob}
    BY DEF TypeOK, HandlersInv
  <2>3. awaits' \in Handlers \union {NoHandler}
    BY DEF TypeOK, HandlersInv
  <2>4. answer' \in Answers
    BY DEF TypeOK, HandlersInv
  <2>5. torrents' \in SUBSET Jobs
    BY DEF TypeOK, HandlersInv
  <2> QED
    BY <2>1, <2>2, <2>3, <2>4, <2>5 DEF TypeOK
<1>2. AgentInv'
  BY DEF AgentInv, TypeOK, HandlersInv
<1>3. AnswerInv'
  BY DEF AnswerInv, TypeOK, AgentInv, HandlersInv, ItemInv, DoneHasItem
<1>4. HandlersInv' /\ AttemptsInv' /\ ItemInv' /\ OverlapInv' /\ DoneInv' /\
   DoneHasItem' /\ DuplicateNeedsOverlap'
  BY DEF HandlersInv, AttemptsInv, ItemInv, OverlapInv, DoneInv, DoneHasItem,
     DuplicateNeedsOverlap
<1> QED
  BY <1>1, <1>2, <1>3, <1>4

LEMMA SubmitKeeps ==
  ASSUME IInv, NEW u \in Handlers, Submit(u)
  PROVE  IInv'
<1> USE LastJobAssumption, HandlersAssumption, MaxAttemptsAssumption
    DEF IInv, Submit, rowVars, agentVars, handlerVars
<1>1. TypeOK'
  <2>1. apc' \in {"idle", "working", "downloading", "waiting", "answered"}
    BY DEF TypeOK, AttemptsInv, HandlersInv, AgentInv
  <2>2. awaits' \in Handlers \union {NoHandler}
    BY DEF TypeOK, AttemptsInv, HandlersInv, AgentInv
  <2>3. upc' \in [Handlers -> Admitted \union {"idle", "arrived"}]
    BY DEF TypeOK, AttemptsInv, HandlersInv, AgentInv
  <2>4. ujob' \in [Handlers -> Jobs \union {NoJob}]
    BY DEF TypeOK, AttemptsInv, HandlersInv, AgentInv
  <2> QED
    BY <2>1, <2>2, <2>3, <2>4 DEF TypeOK
<1>2. HandlersInv'
  BY DEF HandlersInv, AgentInv, TypeOK
<1>3. AgentInv'
  BY DEF AgentInv, TypeOK, HandlersInv
<1>4. ItemInv'
  BY DEF ItemInv, TypeOK, HandlersInv, OverlapInv
<1>5. OverlapInv'
  BY DEF OverlapInv, TypeOK, HandlersInv
<1>6. DoneInv'
  BY DEF DoneInv, TypeOK, HandlersInv, OverlapInv
<1>7. AnswerInv'
  BY DEF AnswerInv, TypeOK, AgentInv, HandlersInv, ItemInv, DoneHasItem
<1>8. AttemptsInv' /\ DoneHasItem' /\ DuplicateNeedsOverlap'
  BY DEF AttemptsInv, DoneHasItem, DuplicateNeedsOverlap
<1> QED
  BY <1>1, <1>2, <1>3, <1>4, <1>5, <1>6, <1>7, <1>8

LEMMA FinishUploadKeeps ==
  ASSUME IInv, NEW removed \in BOOLEAN, FinishUpload(removed)
  PROVE  IInv'
<1> USE LastJobAssumption, HandlersAssumption, MaxAttemptsAssumption
    DEF IInv, FinishUpload, Removal, AgentRests, rowVars, agentVars, handlerVars
<1>1. TypeOK'
  <2>1. apc' \in {"idle", "working", "downloading", "waiting", "answered"}
    BY DEF TypeOK, HandlersInv
  <2>2. ajob' \in Jobs \union {NoJob}
    BY DEF TypeOK, HandlersInv
  <2>3. awaits' \in Handlers \union {NoHandler}
    BY DEF TypeOK, HandlersInv
  <2>4. answer' \in Answers
    BY DEF TypeOK, HandlersInv
  <2>5. torrents' \in SUBSET Jobs
    BY DEF TypeOK, HandlersInv
  <2> QED
    BY <2>1, <2>2, <2>3, <2>4, <2>5 DEF TypeOK
<1>2. AgentInv'
  BY DEF AgentInv, TypeOK, HandlersInv
<1>3. AnswerInv'
  BY DEF AnswerInv, TypeOK, AgentInv, HandlersInv, ItemInv, DoneHasItem
<1>4. HandlersInv' /\ AttemptsInv' /\ ItemInv' /\ OverlapInv' /\ DoneInv' /\
   DoneHasItem' /\ DuplicateNeedsOverlap'
  BY DEF HandlersInv, AttemptsInv, ItemInv, OverlapInv, DoneInv, DoneHasItem,
     DuplicateNeedsOverlap
<1> QED
  BY <1>1, <1>2, <1>3, <1>4

LEMMA RetainForRetryKeeps ==
  ASSUME IInv, RetainForRetry
  PROVE  IInv'
<1> USE LastJobAssumption, HandlersAssumption, MaxAttemptsAssumption
    DEF IInv, RetainForRetry, AgentRests, rowVars, agentVars, handlerVars
<1>1. TypeOK'
  <2>1. apc' \in {"idle", "working", "downloading", "waiting", "answered"}
    BY DEF TypeOK, HandlersInv
  <2>2. ajob' \in Jobs \union {NoJob}
    BY DEF TypeOK, HandlersInv
  <2>3. awaits' \in Handlers \union {NoHandler}
    BY DEF TypeOK, HandlersInv
  <2>4. answer' \in Answers
    BY DEF TypeOK, HandlersInv
  <2> QED
    BY <2>1, <2>2, <2>3, <2>4 DEF TypeOK
<1>2. AgentInv'
  BY DEF AgentInv, TypeOK, HandlersInv
<1>3. AnswerInv'
  BY DEF AnswerInv, TypeOK, AgentInv, HandlersInv, ItemInv, DoneHasItem
<1>4. HandlersInv' /\ AttemptsInv' /\ ItemInv' /\ OverlapInv' /\ DoneInv' /\
   DoneHasItem' /\ DuplicateNeedsOverlap'
  BY DEF HandlersInv, AttemptsInv, ItemInv, OverlapInv, DoneInv, DoneHasItem,
     DuplicateNeedsOverlap
<1> QED
  BY <1>1, <1>2, <1>3, <1>4

-----------------------------------------------------------------------------
(* A result handler.                                                       *)

LEMMA AdmitKeeps ==
  ASSUME IInv, NEW u \in Handlers, Admit(u)
  PROVE  IInv'
<1> USE LastJobAssumption, HandlersAssumption, MaxAttemptsAssumption
    DEF IInv, Admit, Reply, Advance, rowVars, agentVars, handlerVars
<1>1. TypeOK'
  <2>1. apc' \in {"idle", "working", "downloading", "waiting", "answered"}
    BY DEF TypeOK, AttemptsInv, HandlersInv, AgentInv
  <2>2. awaits' \in Handlers \union {NoHandler}
    BY DEF TypeOK, AttemptsInv, HandlersInv, AgentInv
  <2>3. answer' \in Answers
    BY DEF TypeOK, AttemptsInv, HandlersInv, AgentInv
  <2>4. upc' \in [Handlers -> Admitted \union {"idle", "arrived"}]
    BY DEF TypeOK, AttemptsInv, HandlersInv, AgentInv
  <2>5. ujob' \in [Handlers -> Jobs \union {NoJob}]
    BY DEF TypeOK, AttemptsInv, HandlersInv, AgentInv
  <2>6. overlapped' \in SUBSET Jobs
    <3>1. ujob[u] \in Jobs /\ overlapped' \in {overlapped, overlapped \union {ujob[u]}}
      BY DEF HandlersInv
    <3> QED
      BY <3>1 DEF TypeOK
  <2> QED
    BY <2>1, <2>2, <2>3, <2>4, <2>5, <2>6 DEF TypeOK
<1>2. HandlersInv'
  BY DEF HandlersInv, AgentInv, TypeOK
<1>3. AgentInv'
  BY DEF AgentInv, TypeOK, HandlersInv
<1>4. ItemInv'
  BY DEF ItemInv, TypeOK, HandlersInv, OverlapInv
<1>5. OverlapInv'
  <2>1. /\ upc'[u] \in {"checked", "finish", "idle"} /\ overlapped \subseteq overlapped'
        /\ \A v \in Handlers \ {u} : upc'[v] = upc[v] /\ ujob'[v] = ujob[v]
        /\ UNCHANGED items
    BY DEF TypeOK
  <2>2. upc'[u] # "idle" =>
          /\ ujob' = ujob
          /\ \A v \in Handlers : upc[v] \in Admitted /\ ujob[v] = ujob[u] => ujob[u] \in overlapped'
    BY DEF TypeOK
  <2> QED
    BY <2>1, <2>2 DEF OverlapInv
<1>6. DoneInv'
  BY DEF DoneInv, TypeOK, HandlersInv, OverlapInv
<1>7. AnswerInv'
  BY DEF AnswerInv, TypeOK, AgentInv, HandlersInv, ItemInv, DoneHasItem
<1>8. DuplicateNeedsOverlap'
  BY DEF DuplicateNeedsOverlap, TypeOK, OverlapInv, HandlersInv
<1>9. AttemptsInv' /\ DoneHasItem'
  BY DEF AttemptsInv, DoneHasItem
<1> QED
  BY <1>1, <1>2, <1>3, <1>4, <1>5, <1>6, <1>7, <1>8, <1>9

LEMMA RejectContentKeeps ==
  ASSUME IInv, NEW u \in Handlers, RejectContent(u)
  PROVE  IInv'
<1> USE LastJobAssumption, HandlersAssumption, MaxAttemptsAssumption
    DEF IInv, RejectContent, Settle, Reply, rowVars, agentVars, handlerVars
<1>1. TypeOK'
  <2>1. status' \in [Jobs -> Statuses]
    BY DEF TypeOK, HandlersInv
  <2>2. apc' \in {"idle", "working", "downloading", "waiting", "answered"}
    BY DEF TypeOK, HandlersInv
  <2>3. awaits' \in Handlers \union {NoHandler}
    BY DEF TypeOK, HandlersInv
  <2>4. answer' \in Answers
    BY DEF TypeOK, HandlersInv
  <2>5. upc' \in [Handlers -> Admitted \union {"idle", "arrived"}]
    BY DEF TypeOK, HandlersInv
  <2>6. ujob' \in [Handlers -> Jobs \union {NoJob}]
    BY DEF TypeOK, HandlersInv
  <2> QED
    BY <2>1, <2>2, <2>3, <2>4, <2>5, <2>6 DEF TypeOK
<1>2. HandlersInv'
  BY DEF HandlersInv, AgentInv, TypeOK
<1>3. AgentInv'
  BY DEF AgentInv, TypeOK, HandlersInv
<1>4. AttemptsInv'
  BY DEF AttemptsInv, TypeOK
<1>5. ItemInv'
  BY DEF ItemInv, TypeOK, HandlersInv, OverlapInv
<1>6. OverlapInv'
  BY DEF OverlapInv, TypeOK, HandlersInv
<1>7. DoneInv'
  BY DEF DoneInv, TypeOK, HandlersInv, OverlapInv
<1>8. AnswerInv'
  BY DEF AnswerInv, TypeOK, AgentInv, HandlersInv, ItemInv, DoneHasItem
<1>9. DoneHasItem'
  BY DEF DoneHasItem, TypeOK, HandlersInv, ItemInv
<1>10. DuplicateNeedsOverlap'
  BY DEF DuplicateNeedsOverlap
<1> QED
  BY <1>1, <1>2, <1>3, <1>4, <1>5, <1>6, <1>7, <1>8, <1>9, <1>10

LEMMA LookupKeeps ==
  ASSUME IInv, NEW u \in Handlers, Lookup(u)
  PROVE  IInv'
<1> USE LastJobAssumption, HandlersAssumption, MaxAttemptsAssumption
    DEF IInv, Lookup, Reply, Advance, rowVars, agentVars, handlerVars
<1>1. TypeOK'
  <2>1. apc' \in {"idle", "working", "downloading", "waiting", "answered"}
    BY DEF TypeOK, HandlersInv
  <2>2. awaits' \in Handlers \union {NoHandler}
    BY DEF TypeOK, HandlersInv
  <2>3. answer' \in Answers
    BY DEF TypeOK, HandlersInv
  <2>4. upc' \in [Handlers -> Admitted \union {"idle", "arrived"}]
    <3>1. \E l \in {"missing", "finish", "idle"} : upc' = [upc EXCEPT ![u] = l]
      OBVIOUS
    <3> QED
      BY <3>1 DEF TypeOK
  <2>5. ujob' \in [Handlers -> Jobs \union {NoJob}]
    BY DEF TypeOK, HandlersInv
  <2> QED
    BY <2>1, <2>2, <2>3, <2>4, <2>5 DEF TypeOK
<1>2. HandlersInv'
  BY DEF HandlersInv, AgentInv, TypeOK
<1>3. AgentInv'
  BY DEF AgentInv, TypeOK, HandlersInv
<1>4. ItemInv'
  BY DEF ItemInv, TypeOK, HandlersInv, OverlapInv
<1>5. OverlapInv'
  <2>1. /\ upc[u] = "checked" /\ upc'[u] \in {"missing", "finish", "idle"}
        /\ \A v \in Handlers \ {u} : upc'[v] = upc[v] /\ ujob'[v] = ujob[v]
        /\ UNCHANGED <<items, overlapped>>
    BY DEF TypeOK
  <2>2. upc'[u] # "idle" => ujob' = ujob
    BY DEF TypeOK
  <2>3. upc'[u] = "missing" => items[ujob[u]] = 0
    BY DEF TypeOK
  <2> QED
    BY <2>1, <2>2, <2>3 DEF OverlapInv
<1>6. DoneInv'
  BY DEF DoneInv, TypeOK, HandlersInv, OverlapInv
<1>7. AnswerInv'
  BY DEF AnswerInv, TypeOK, AgentInv, HandlersInv, ItemInv, DoneHasItem
<1>8. AttemptsInv' /\ DoneHasItem' /\ DuplicateNeedsOverlap'
  BY DEF AttemptsInv, DoneHasItem, DuplicateNeedsOverlap
<1> QED
  BY <1>1, <1>2, <1>3, <1>4, <1>5, <1>6, <1>7, <1>8

LEMMA QuotaExceededKeeps ==
  ASSUME IInv, NEW u \in Handlers, QuotaExceeded(u)
  PROVE  IInv'
<1> USE LastJobAssumption, HandlersAssumption, MaxAttemptsAssumption
    DEF IInv, QuotaExceeded, Settle, Reply, rowVars, agentVars, handlerVars
<1>1. TypeOK'
  <2>1. status' \in [Jobs -> Statuses]
    BY DEF TypeOK, HandlersInv
  <2>2. apc' \in {"idle", "working", "downloading", "waiting", "answered"}
    BY DEF TypeOK, HandlersInv
  <2>3. awaits' \in Handlers \union {NoHandler}
    BY DEF TypeOK, HandlersInv
  <2>4. answer' \in Answers
    BY DEF TypeOK, HandlersInv
  <2>5. upc' \in [Handlers -> Admitted \union {"idle", "arrived"}]
    BY DEF TypeOK, HandlersInv
  <2>6. ujob' \in [Handlers -> Jobs \union {NoJob}]
    BY DEF TypeOK, HandlersInv
  <2> QED
    BY <2>1, <2>2, <2>3, <2>4, <2>5, <2>6 DEF TypeOK
<1>2. HandlersInv'
  BY DEF HandlersInv, AgentInv, TypeOK
<1>3. AgentInv'
  BY DEF AgentInv, TypeOK, HandlersInv
<1>4. AttemptsInv'
  BY DEF AttemptsInv, TypeOK
<1>5. ItemInv'
  BY DEF ItemInv, TypeOK, HandlersInv, OverlapInv
<1>6. OverlapInv'
  BY DEF OverlapInv, TypeOK, HandlersInv
<1>7. DoneInv'
  BY DEF DoneInv, TypeOK, HandlersInv, OverlapInv
<1>8. AnswerInv'
  BY DEF AnswerInv, TypeOK, AgentInv, HandlersInv, ItemInv, DoneHasItem
<1>9. DoneHasItem'
  BY DEF DoneHasItem, TypeOK, HandlersInv, ItemInv
<1>10. DuplicateNeedsOverlap'
  BY DEF DuplicateNeedsOverlap
<1> QED
  BY <1>1, <1>2, <1>3, <1>4, <1>5, <1>6, <1>7, <1>8, <1>9, <1>10

LEMMA StoreKeeps ==
  ASSUME IInv, NEW u \in Handlers, Store(u)
  PROVE  IInv'
<1> USE LastJobAssumption, HandlersAssumption, MaxAttemptsAssumption
    DEF IInv, Store, Advance, rowVars, agentVars, handlerVars
<1>1. TypeOK'
  <2>1. items' \in [Jobs -> Nat]
    BY DEF TypeOK, HandlersInv
  <2>2. upc' \in [Handlers -> Admitted \union {"idle", "arrived"}]
    BY DEF TypeOK, HandlersInv
  <2> QED
    BY <2>1, <2>2 DEF TypeOK
<1>2. HandlersInv'
  BY DEF HandlersInv, AgentInv, TypeOK
<1>3. AgentInv'
  BY DEF AgentInv, TypeOK, HandlersInv
<1>4. ItemInv'
  BY DEF ItemInv, TypeOK, HandlersInv, OverlapInv
<1>5. OverlapInv'
  BY DEF OverlapInv, TypeOK, HandlersInv
<1>6. DoneInv'
  BY DEF DoneInv, TypeOK, HandlersInv, OverlapInv
<1>7. AnswerInv'
  BY DEF AnswerInv, TypeOK, AgentInv, HandlersInv, ItemInv, DoneHasItem
<1>8. DoneHasItem'
  BY DEF DoneHasItem, TypeOK, HandlersInv, ItemInv
<1>9. DuplicateNeedsOverlap'
  BY DEF DuplicateNeedsOverlap, TypeOK, OverlapInv, HandlersInv
<1>10. AttemptsInv'
  BY DEF AttemptsInv
<1> QED
  BY <1>1, <1>2, <1>3, <1>4, <1>5, <1>6, <1>7, <1>8, <1>9, <1>10

LEMMA FinishKeeps ==
  ASSUME IInv, NEW u \in Handlers, Finish(u)
  PROVE  IInv'
<1> USE LastJobAssumption, HandlersAssumption, MaxAttemptsAssumption
    DEF IInv, Finish, Settle, Reply, rowVars, agentVars, handlerVars
<1>1. TypeOK'
  <2>1. status' \in [Jobs -> Statuses]
    BY DEF TypeOK, HandlersInv
  <2>2. apc' \in {"idle", "working", "downloading", "waiting", "answered"}
    BY DEF TypeOK, HandlersInv
  <2>3. awaits' \in Handlers \union {NoHandler}
    BY DEF TypeOK, HandlersInv
  <2>4. answer' \in Answers
    BY DEF TypeOK, HandlersInv
  <2>5. upc' \in [Handlers -> Admitted \union {"idle", "arrived"}]
    BY DEF TypeOK, HandlersInv
  <2>6. ujob' \in [Handlers -> Jobs \union {NoJob}]
    BY DEF TypeOK, HandlersInv
  <2> QED
    BY <2>1, <2>2, <2>3, <2>4, <2>5, <2>6 DEF TypeOK
<1>2. HandlersInv'
  BY DEF HandlersInv, AgentInv, TypeOK
<1>3. AgentInv'
  BY DEF AgentInv, TypeOK, HandlersInv
<1>4. AttemptsInv'
  BY DEF AttemptsInv, TypeOK
<1>5. ItemInv'
  BY DEF ItemInv, TypeOK, HandlersInv, OverlapInv
<1>6. OverlapInv'
  BY DEF OverlapInv, TypeOK, HandlersInv
<1>7. DoneInv'
  BY DEF DoneInv, TypeOK, HandlersInv, OverlapInv
<1>8. AnswerInv'
  BY DEF AnswerInv, TypeOK, AgentInv, HandlersInv, ItemInv, DoneHasItem
<1>9. DoneHasItem'
  BY DEF DoneHasItem, TypeOK, HandlersInv, ItemInv
<1>10. DuplicateNeedsOverlap'
  BY DEF DuplicateNeedsOverlap
<1> QED
  BY <1>1, <1>2, <1>3, <1>4, <1>5, <1>6, <1>7, <1>8, <1>9, <1>10

LEMMA BreakKeeps ==
  ASSUME IInv, NEW u \in Handlers, Break(u)
  PROVE  IInv'
<1> USE LastJobAssumption, HandlersAssumption, MaxAttemptsAssumption
    DEF IInv, Break, Reply, rowVars, agentVars, handlerVars
<1>1. TypeOK'
  <2>1. apc' \in {"idle", "working", "downloading", "waiting", "answered"}
    BY DEF TypeOK, HandlersInv
  <2>2. awaits' \in Handlers \union {NoHandler}
    BY DEF TypeOK, HandlersInv
  <2>3. answer' \in Answers
    BY DEF TypeOK, HandlersInv
  <2>4. upc' \in [Handlers -> Admitted \union {"idle", "arrived"}]
    BY DEF TypeOK, HandlersInv
  <2>5. ujob' \in [Handlers -> Jobs \union {NoJob}]
    BY DEF TypeOK, HandlersInv
  <2> QED
    BY <2>1, <2>2, <2>3, <2>4, <2>5 DEF TypeOK
<1>2. HandlersInv'
  BY DEF HandlersInv, AgentInv, TypeOK
<1>3. AgentInv'
  BY DEF AgentInv, TypeOK, HandlersInv
<1>4. ItemInv'
  BY DEF ItemInv, TypeOK, HandlersInv, OverlapInv
<1>5. OverlapInv'
  BY DEF OverlapInv, TypeOK, HandlersInv
<1>6. DoneInv'
  BY DEF DoneInv, TypeOK, HandlersInv, OverlapInv
<1>7. AnswerInv'
  BY DEF AnswerInv, TypeOK, AgentInv, HandlersInv, ItemInv, DoneHasItem
<1>8. AttemptsInv' /\ DoneHasItem' /\ DuplicateNeedsOverlap'
  BY DEF AttemptsInv, DoneHasItem, DuplicateNeedsOverlap
<1> QED
  BY <1>1, <1>2, <1>3, <1>4, <1>5, <1>6, <1>7, <1>8

-----------------------------------------------------------------------------
LEMMA CrashKeeps ==
  ASSUME IInv, Crash
  PROVE  IInv'
<1> USE LastJobAssumption, HandlersAssumption, MaxAttemptsAssumption
    DEF IInv, Crash, AgentRests, rowVars, agentVars, handlerVars
<1>1. TypeOK'
  <2>1. apc' \in {"idle", "working", "downloading", "waiting", "answered"}
    BY DEF TypeOK, HandlersInv
  <2>2. ajob' \in Jobs \union {NoJob}
    BY DEF TypeOK, HandlersInv
  <2>3. awaits' \in Handlers \union {NoHandler}
    BY DEF TypeOK, HandlersInv
  <2>4. answer' \in Answers
    BY DEF TypeOK, HandlersInv
  <2>5. upc' \in [Handlers -> Admitted \union {"idle", "arrived"}]
    BY DEF TypeOK, HandlersInv
  <2>6. ujob' \in [Handlers -> Jobs \union {NoJob}]
    BY DEF TypeOK, HandlersInv
  <2> QED
    BY <2>1, <2>2, <2>3, <2>4, <2>5, <2>6 DEF TypeOK
<1>2. HandlersInv'
  BY DEF HandlersInv, AgentInv, TypeOK
<1>3. AgentInv'
  BY DEF AgentInv, TypeOK, HandlersInv
<1>4. ItemInv'
  BY DEF ItemInv, TypeOK, HandlersInv, OverlapInv
<1>5. OverlapInv'
  BY DEF OverlapInv, TypeOK, HandlersInv
<1>6. DoneInv'
  BY DEF DoneInv, TypeOK, HandlersInv, OverlapInv
<1>7. AnswerInv'
  BY DEF AnswerInv, TypeOK, AgentInv, HandlersInv, ItemInv, DoneHasItem
<1>8. AttemptsInv' /\ DoneHasItem' /\ DuplicateNeedsOverlap'
  BY DEF AttemptsInv, DoneHasItem, DuplicateNeedsOverlap
<1> QED
  BY <1>1, <1>2, <1>3, <1>4, <1>5, <1>6, <1>7, <1>8

\* A step that changes nothing keeps the invariant.
LEMMA StutterKeeps == IInv /\ UNCHANGED vars => IInv'
  BY DEF vars, rowVars, agentVars, handlerVars, IInv, TypeOK, HandlersInv, AgentInv,
     AttemptsInv, ItemInv, OverlapInv, DoneInv, AnswerInv, DoneHasItem, DuplicateNeedsOverlap

\* Every step keeps the invariant.
LEMMA NextKeeps == IInv /\ [Next]_vars => IInv'
<1> SUFFICES ASSUME IInv, [Next]_vars PROVE IInv'
  OBVIOUS
<1>1. CASE OwnerStep
  BY <1>1, ChooseKeeps, create_jobKeeps, pair_gatewayKeeps, revoke_gatewayKeeps,
     delete_gatewayKeeps DEF OwnerStep
<1>2. CASE Poll
  BY <1>2, AbandonKeeps, HandOutKeeps DEF Poll
<1>3. CASE AgentStep
  BY <1>3, AgentFailsKeeps, AddTorrentKeeps, SubmitKeeps, UnusableKeeps,
     FinishUploadKeeps, RetainForRetryKeeps DEF AgentStep
<1>4. ASSUME NEW j \in Jobs, BackoffElapses(j) \/ purge_finished_jobs(j) PROVE IInv'
  BY <1>4, BackoffElapsesKeeps, purge_finished_jobsKeeps
<1>5. ASSUME NEW u \in Handlers, HandlerStep(u) PROVE IInv'
  BY <1>5, AdmitKeeps, RejectContentKeeps, LookupKeeps, QuotaExceededKeeps, StoreKeeps,
     FinishKeeps, BreakKeeps DEF HandlerStep
<1> QED
  BY <1>1, <1>2, <1>3, <1>4, <1>5, CrashKeeps, StutterKeeps DEF Next

-----------------------------------------------------------------------------
\* Only a handler at work on a job, a purge or the deletion of the gateway takes
\* "done" away.
LEMMA StepKeepsDone ==
  ASSUME IInv, [Next]_vars, NEW j \in Jobs, status[j] = "done", j \notin overlapped
  PROVE  status'[j] \in {"done", "gone"}
<1> USE DEF IInv
<1>1. CASE OwnerStep
  BY <1>1 DEF OwnerStep, Choose, create_job, pair_gateway, revoke_gateway, delete_gateway,
     DeleteRows, rowVars, TypeOK
<1>2. CASE Poll
  BY <1>2 DEF Poll, Abandon, HandOut, Selected, Candidates, TypeOK
<1>3. CASE AgentStep \/ Crash
  BY <1>3 DEF AgentStep, AgentFails, AddTorrent, Submit, Unusable, FinishUpload, RetainForRetry,
     Crash, rowVars
<1>4. ASSUME NEW i \in Jobs, BackoffElapses(i) \/ purge_finished_jobs(i)
      PROVE  status'[j] \in {"done", "gone"}
  BY <1>4 DEF BackoffElapses, purge_finished_jobs, DeleteRows
<1>5. ASSUME NEW u \in Handlers, HandlerStep(u)
      PROVE  status'[j] \in {"done", "gone"}
  <2>1. upc[u] \in Admitted => ujob[u] # j
    BY DEF DoneInv
  <2>2. status' = status \/ (upc[u] \in Admitted /\ \A i \in Jobs : i # ujob[u] => status'[i] = status[i])
    BY <1>5 DEF HandlerStep, Admit, RejectContent, Lookup, QuotaExceeded, Store, Finish, Break,
       Settle, rowVars, TypeOK
  <2> QED
    BY <2>1, <2>2
<1>6. CASE UNCHANGED vars
  BY <1>6 DEF vars, rowVars
<1> QED
  BY <1>1, <1>2, <1>3, <1>4, <1>5, <1>6 DEF Next

\* Once answered the agent deletes data only in FinishUpload.
LEMMA StepKeepsData ==
  ASSUME IInv, [Next]_vars, NEW j \in Jobs, apc = "answered", j \in torrents \ torrents'
  PROVE  items[j] > 0 \/ status[j] = "failed" \/ gateway # "paired"
<1> USE DEF IInv
<1>1. PICK removed \in BOOLEAN : FinishUpload(removed)
  <2>1. ~OwnerStep
    BY DEF OwnerStep, Choose, create_job, pair_gateway, revoke_gateway, delete_gateway
  <2>2. ~Poll
    BY DEF Poll, Abandon, HandOut
  <2>3. AgentStep => \E removed \in BOOLEAN : FinishUpload(removed)
    BY DEF AgentStep, AgentFails, AddTorrent, Submit, Unusable, RetainForRetry
  <2>4. ~Crash /\ ~UNCHANGED vars
    BY DEF Crash, vars
  <2>5. \A i \in Jobs : ~BackoffElapses(i) /\ ~purge_finished_jobs(i)
    BY DEF BackoffElapses, purge_finished_jobs
  <2>6. \A u \in Handlers : ~HandlerStep(u)
    BY DEF HandlerStep, Admit, RejectContent, Lookup, QuotaExceeded, Store, Finish, Break
  <2> QED
    BY <2>1, <2>2, <2>3, <2>4, <2>5, <2>6 DEF Next
<1>2. j = ajob /\ answer \in {"ok", "refused"}
  BY <1>1 DEF FinishUpload, Removal
<1>3. kind[j] = "fetch"
  BY DEF AgentInv
<1> QED
  BY <1>2, <1>3 DEF AnswerInv

-----------------------------------------------------------------------------
(***************************************************************************)
(* The inductive invariant holds in every reachable state.                 *)
(***************************************************************************)
THEOREM QueueInvariance == Spec => []IInv
BY InitIInv, NextKeeps, PTL DEF Spec

(***************************************************************************)
(* A fetch job that says "done" has its book in the library.               *)
(***************************************************************************)
THEOREM DoneJobsHaveItems == Spec => []DoneHasItem
<1>1. IInv => DoneHasItem
  BY DEF IInv
<1> QED
  BY <1>1, QueueInvariance, PTL

(***************************************************************************)
(* Only two handlers at work on one job at once import its book twice.     *)
(***************************************************************************)
THEOREM DuplicatesNeedOverlap == Spec => []DuplicateNeedsOverlap
<1>1. IInv => DuplicateNeedsOverlap
  BY DEF IInv
<1> QED
  BY <1>1, QueueInvariance, PTL

(***************************************************************************)
(* What a job brought is kept: but for an overlap a done job stays done,   *)
(* and the agent deletes what it downloaded only when that is settled.     *)
(***************************************************************************)
THEOREM WhatWasBroughtIsKept == Spec => ResultsAreKept
<1>1. IInv => TypeOK
  BY DEF IInv
<1>2. IInv /\ [Next]_vars =>
        [\A j \in Jobs :
           status[j] = "done" /\ j \notin overlapped => status'[j] \in {"done", "gone"}]_vars
  BY StepKeepsDone
<1>3. IInv /\ [Next]_vars =>
        [\A j \in Jobs :
           apc = "answered" /\ j \in torrents \ torrents'
             => items[j] > 0 \/ status[j] = "failed" \/ gateway # "paired"]_vars
  BY StepKeepsData
<1> QED
  BY <1>1, <1>2, <1>3, QueueInvariance, PTL
  DEF Spec, ResultsAreKept, DoneIsFinal, DataKeptUntilSettled
=============================================================================
