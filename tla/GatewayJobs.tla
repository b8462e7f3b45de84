----------------------------- MODULE GatewayJobs -----------------------------
(***************************************************************************)
(* The work queue between the platform and one detached gateway: search    *)
(* and fetch jobs (table gateway_jobs, services/gateways.py), the agent    *)
(* that polls them and works on them one at a time (gateway/agent/.../     *)
(* worker.py), and the handlers that receive its results                   *)
(* (api/gateways.py, library.import_from_gateway).                         *)
(*                                                                         *)
(* The agent gives up waiting after 60 seconds; the handler that serves it *)
(* goes on.  Two handlers may therefore work on one job, each on the       *)
(* status it read when it was admitted.                                    *)
(***************************************************************************)
EXTENDS Naturals, FiniteSets

CONSTANTS
  LastJob,     \* bound: jobs are 1..LastJob, numbered in the order of created_at
  Handlers,    \* result handlers that may run at one time
  NoHandler,   \* the agent awaits nobody
  MaxAttempts  \* settings.gateway_job_max_attempts

ASSUME LastJobAssumption == LastJob \in Nat \ {0}
ASSUME HandlersAssumption == NoHandler \notin Handlers
ASSUME MaxAttemptsAssumption == MaxAttempts \in Nat \ {0}

Jobs == 1..LastJob
NoJob == 0

VARIABLES
  \* the row of each job; "chosen": a request has found the gateway paired and
  \* is about to insert the row; "gone": purged, or deleted with the gateway
  status, kind, attempts,
  due,        \* next_attempt_at is null or past
  items,      \* library items imported with the job's source_ref
  gateway,    \* "unpaired", "paired" or "deleted"
  \* the agent: program counter, job, awaited handler, answer received
  apc, ajob, awaits, answer,
  torrents,   \* jobs whose torrent and data the agent's Transmission holds
  \* result handlers: program counter and job
  upc, ujob,
  overlapped  \* history: jobs that two admitted handlers worked on at once

rowVars == <<status, kind, attempts, due>>
agentVars == <<apc, ajob, awaits, answer>>
handlerVars == <<upc, ujob>>
vars == <<rowVars, items, gateway, agentVars, torrents, handlerVars, overlapped>>

Statuses == {"absent", "chosen", "pending", "running", "done", "failed", "gone"}
Kinds == {"search", "fetch"}
Answers == {"none", "ok", "refused", "conflict", "error"}
Active == {"pending", "running"}
Terminal == {"done", "failed"}
Rows == {"pending", "running", "done", "failed"}
Admitted == {"checked", "missing", "finish"}

Init ==
  /\ status = [j \in Jobs |-> "absent"]
  /\ kind = [j \in Jobs |-> "search"]
  /\ attempts = [j \in Jobs |-> 0]
  /\ due = [j \in Jobs |-> TRUE]
  /\ items = [j \in Jobs |-> 0]
  /\ gateway = "unpaired"
  /\ apc = "idle" /\ ajob = NoJob /\ awaits = NoHandler /\ answer = "none"
  /\ torrents = {}
  /\ upc = [u \in Handlers |-> "idle"]
  /\ ujob = [u \in Handlers |-> NoJob]
  /\ overlapped = {}

\* The agent is back in its polling loop.
AgentRests == apc' = "idle" /\ ajob' = NoJob /\ awaits' = NoHandler /\ answer' = "none"

-----------------------------------------------------------------------------
(***************************************************************************)
(* The owner's requests.                                                   *)
(***************************************************************************)
\* search_books and add_book read the gateway as paired...
Choose(j, k) ==
  /\ status[j] = "absent"
  /\ \A i \in Jobs : i < j => status[i] # "absent"
  /\ gateway = "paired"
  /\ status' = [status EXCEPT ![j] = "chosen"]
  /\ kind' = [kind EXCEPT ![j] = k]
  /\ UNCHANGED <<attempts, due, items, gateway, agentVars, torrents, handlerVars, overlapped>>

\* ... and insert the job, whatever the gateway has become, unless its row is
\* gone (foreign key).
create_job(j) ==
  /\ status[j] = "chosen"
  /\ \A i \in Jobs : i < j => status[i] # "chosen"
  /\ status' = [status EXCEPT ![j] = IF gateway = "deleted" THEN "gone" ELSE "pending"]
  /\ UNCHANGED <<kind, attempts, due, items, gateway, agentVars, torrents, handlerVars, overlapped>>

\* The credentials of an unpaired gateway are recreated and given to the agent,
\* which starts anew and pairs; requests under the old key are refused.
pair_gateway ==
  /\ gateway = "unpaired"
  /\ gateway' = "paired"
  /\ AgentRests
  /\ upc' = [u \in Handlers |-> IF upc[u] = "arrived" THEN "idle" ELSE upc[u]]
  /\ ujob' = [u \in Handlers |-> IF upc[u] = "arrived" THEN NoJob ELSE ujob[u]]
  /\ UNCHANGED <<rowVars, items, torrents, overlapped>>

\* Faulty variant: every job of the gateway is failed.
RevokeAll ==
  /\ gateway = "paired"
  /\ gateway' = "unpaired"
  /\ status' = [j \in Jobs |-> IF status[j] \in Rows THEN "failed" ELSE status[j]]
  /\ UNCHANGED <<kind, attempts, due, items, agentVars, torrents, handlerVars, overlapped>>

\* Pending jobs fail; a running job stays running.
revoke_gateway ==
  /\ gateway = "paired"
  /\ gateway' = "unpaired"
  /\ status' = [j \in Jobs |-> IF status[j] = "pending" THEN "failed" ELSE status[j]]
  /\ UNCHANGED <<kind, attempts, due, items, agentVars, torrents, handlerVars, overlapped>>

\* DELETE of rows: nothing they counted is left.
DeleteRows(gone) ==
  /\ status' = [j \in Jobs |-> IF j \in gone THEN "gone" ELSE status[j]]
  /\ attempts' = [j \in Jobs |-> IF j \in gone THEN 0 ELSE attempts[j]]
  /\ due' = [j \in Jobs |-> j \in gone \/ due[j]]
  /\ UNCHANGED kind

\* ON DELETE CASCADE takes the jobs.
delete_gateway ==
  /\ gateway # "deleted"
  /\ gateway' = "deleted"
  /\ DeleteRows({j \in Jobs : status[j] \in Rows})
  /\ UNCHANGED <<items, agentVars, torrents, handlerVars, overlapped>>

\* Retention is counted in days: no request for the job is still in flight.
purge_finished_jobs(j) ==
  /\ status[j] \in Terminal
  /\ ajob # j /\ \A u \in Handlers : ujob[u] # j
  /\ DeleteRows({j})
  /\ UNCHANGED <<items, gateway, agentVars, torrents, handlerVars, overlapped>>

-----------------------------------------------------------------------------
(***************************************************************************)
(* poll_job: one transaction per selected row.                             *)
(***************************************************************************)
Candidates == {j \in Jobs : status[j] \in Active /\ due[j]}

\* Running jobs first, then the oldest; SKIP LOCKED passes over some rows that
\* a handler is about to commit.
Before(i, j) ==
  \/ status[i] = "running" /\ status[j] = "pending"
  \/ status[i] = status[j] /\ i < j

Selected(j) ==
  \E skipped \in SUBSET {ujob[u] : u \in {v \in Handlers : upc[v] = "finish"}} :
    /\ j \in Candidates \ skipped
    /\ \A i \in Candidates \ (skipped \union {j}) : Before(j, i)

\* Faulty variant: a job that is handed out again does not count as an attempt.
HandOutUncounted(j, lost) ==
  /\ apc = "idle" /\ gateway = "paired" /\ Selected(j)
  /\ attempts[j] < MaxAttempts
  /\ attempts' = [attempts EXCEPT ![j] = 1]
  /\ due' = [due EXCEPT ![j] = FALSE]
  /\ status' = [status EXCEPT ![j] = "running"]
  /\ IF lost THEN UNCHANGED agentVars
     ELSE apc' = "working" /\ ajob' = j /\ UNCHANGED <<awaits, answer>>
  /\ UNCHANGED <<kind, items, gateway, torrents, handlerVars, overlapped>>

\* The row is committed before the response leaves; the response may be lost.
HandOut(j, lost) ==
  /\ apc = "idle" /\ gateway = "paired" /\ Selected(j)
  /\ attempts[j] < MaxAttempts
  /\ attempts' = [attempts EXCEPT ![j] = @ + 1]
  /\ due' = [due EXCEPT ![j] = FALSE]
  /\ status' = [status EXCEPT ![j] = "running"]
  /\ IF lost THEN UNCHANGED agentVars
     ELSE apc' = "working" /\ ajob' = j /\ UNCHANGED <<awaits, answer>>
  /\ UNCHANGED <<kind, items, gateway, torrents, handlerVars, overlapped>>

\* The dead letter: the same poll then looks for another job.
Abandon(j) ==
  /\ apc = "idle" /\ gateway = "paired" /\ Selected(j)
  /\ attempts[j] >= MaxAttempts
  /\ attempts' = [attempts EXCEPT ![j] = @ + 1]
  /\ status' = [status EXCEPT ![j] = "failed"]
  /\ UNCHANGED <<kind, due, items, gateway, agentVars, torrents, handlerVars, overlapped>>

BackoffElapses(j) ==
  /\ status[j] \in Active /\ ~due[j]
  /\ due' = [due EXCEPT ![j] = TRUE]
  /\ UNCHANGED <<status, kind, attempts, items, gateway, agentVars, torrents, handlerVars, overlapped>>

-----------------------------------------------------------------------------
(***************************************************************************)
(* The agent.                                                              *)
(***************************************************************************)
\* A failure with nothing to keep or with a torrent kept for a retry, a response
\* that does not come in time, a restart of the agent.  Transmission runs on.
AgentFails ==
  /\ apc # "idle"
  /\ AgentRests
  /\ UNCHANGED <<rowVars, items, gateway, torrents, handlerVars, overlapped>>

\* Transmission answers torrent-duplicate for a torrent it already has.
AddTorrent ==
  /\ apc = "working" /\ kind[ajob] = "fetch"
  /\ apc' = "downloading"
  /\ torrents' = torrents \union {ajob}
  /\ UNCHANGED <<rowVars, items, gateway, ajob, awaits, answer, handlerVars, overlapped>>

\* remove() may fail: the failure is logged and the torrent stays.
Removal(j, removed) == torrents' = IF removed THEN torrents \ {j} ELSE torrents

\* A threat, an unreadable archive, or no ebook in the download: deleted.
Unusable(removed) ==
  /\ apc = "downloading"
  /\ Removal(ajob, removed)
  /\ AgentRests
  /\ UNCHANGED <<rowVars, items, gateway, handlerVars, overlapped>>

\* Handlers differ in nothing: a request is served by the first idle one.
Serves(u) == u = CHOOSE v \in Handlers : upc[v] = "idle"

\* The results, or the book, reach the platform entirely.
Submit(u) ==
  /\ apc = "downloading" \/ (apc = "working" /\ kind[ajob] = "search")
  /\ upc[u] = "idle" /\ Serves(u)
  /\ upc' = [upc EXCEPT ![u] = "arrived"]
  /\ ujob' = [ujob EXCEPT ![u] = ajob]
  /\ apc' = "waiting" /\ awaits' = u
  /\ UNCHANGED <<rowVars, items, gateway, ajob, answer, torrents, overlapped>>

\* Faulty variant: every answer is taken for the end of the job.
FinishUploadAny(removed) ==
  /\ apc = "answered"
  /\ Removal(ajob, removed)
  /\ AgentRests
  /\ UNCHANGED <<rowVars, items, gateway, handlerVars, overlapped>>

\* Success, or a refusal below 500 other than 404 and 409: the torrent and its
\* data are deleted.
FinishUpload(removed) ==
  /\ apc = "answered" /\ answer \in {"ok", "refused"}
  /\ Removal(ajob, removed)
  /\ AgentRests
  /\ UNCHANGED <<rowVars, items, gateway, handlerVars, overlapped>>

\* "Torrent and local data retained for retry".
RetainForRetry ==
  /\ apc = "answered" /\ answer \in {"conflict", "error"}
  /\ AgentRests
  /\ UNCHANGED <<rowVars, items, gateway, torrents, handlerVars, overlapped>>

-----------------------------------------------------------------------------
(***************************************************************************)
(* A result handler.                                                       *)
(***************************************************************************)
\* The handler ends; its answer reaches the agent if it still waits for it.
Reply(u, a) ==
  /\ upc' = [upc EXCEPT ![u] = "idle"]
  /\ ujob' = [ujob EXCEPT ![u] = NoJob]
  /\ IF awaits = u
     THEN apc' = "answered" /\ answer' = a /\ awaits' = NoHandler /\ UNCHANGED ajob
     ELSE UNCHANGED agentVars

Advance(u, label) ==
  /\ upc' = [upc EXCEPT ![u] = label]
  /\ UNCHANGED <<ujob, agentVars>>

\* get_gateway (401), get_gateway_job (404), then the status of the row just
\* read: done answers at once, any other inactive one is a conflict (409).
Admit(u) ==
  LET j == ujob[u] IN
  /\ upc[u] = "arrived"
  /\ IF gateway = "paired" /\ status[j] \in Active
     THEN /\ Advance(u, IF kind[j] = "fetch" THEN "checked" ELSE "finish")
          /\ overlapped' = IF \E v \in Handlers : ujob[v] = j /\ upc[v] \in Admitted
                           THEN overlapped \union {j} ELSE overlapped
     ELSE /\ Reply(u, IF gateway # "paired" THEN "refused"
                      ELSE IF status[j] = "done" THEN "ok" ELSE "conflict")
          /\ UNCHANGED overlapped
  /\ UNCHANGED <<rowVars, items, gateway, torrents>>

\* UPDATE by primary key, whatever the row has become; StaleDataError when it
\* is gone.
Settle(u, s, a) ==
  LET j == ujob[u] IN
  /\ status' = IF status[j] \in Rows THEN [status EXCEPT ![j] = s] ELSE status
  /\ Reply(u, IF status[j] \in Rows THEN a ELSE "error")
  /\ UNCHANGED <<kind, attempts, due>>

\* Too large (413), not an ebook or known as malicious (422).
RejectContent(u) ==
  /\ upc[u] = "checked"
  /\ Settle(u, "failed", "refused")
  /\ UNCHANGED <<items, gateway, torrents, overlapped>>

\* Faulty variant: the import does not look for an earlier item.
LookupNever(u) ==
  /\ upc[u] = "checked"
  /\ Advance(u, "missing")
  /\ UNCHANGED <<rowVars, items, gateway, torrents, overlapped>>

\* import_from_gateway looks the source_ref up; more than one row is an error.
Lookup(u) ==
  LET found == items[ujob[u]] IN
  /\ upc[u] = "checked"
  /\ CASE found = 0 -> Advance(u, "missing")
       [] found = 1 -> Advance(u, "finish")
       [] OTHER     -> Reply(u, "error")
  /\ UNCHANGED <<rowVars, items, gateway, torrents, overlapped>>

QuotaExceeded(u) ==
  /\ upc[u] = "missing"
  /\ Settle(u, "failed", "error")
  /\ UNCHANGED <<items, gateway, torrents, overlapped>>

\* Faulty variant: the job is marked before the item is committed.
StoreLate(u) ==
  /\ upc[u] = "missing"
  /\ Advance(u, "finish")
  /\ UNCHANGED <<rowVars, items, gateway, torrents, overlapped>>

\* The item's commit, before and apart from the job's.
Store(u) ==
  /\ upc[u] = "missing"
  /\ items' = [items EXCEPT ![ujob[u]] = @ + 1]
  /\ Advance(u, "finish")
  /\ UNCHANGED <<rowVars, gateway, torrents, overlapped>>

Finish(u) ==
  /\ upc[u] = "finish"
  /\ Settle(u, "done", "ok")
  /\ UNCHANGED <<items, gateway, torrents, overlapped>>

\* An exception: HTTP 500, what was committed stays.
Break(u) ==
  /\ upc[u] # "idle"
  /\ Reply(u, "error")
  /\ UNCHANGED <<rowVars, items, gateway, torrents, overlapped>>

\* The platform's process dies and restarts.
Crash ==
  /\ \E u \in Handlers : upc[u] # "idle"
  /\ upc' = [u \in Handlers |-> "idle"]
  /\ ujob' = [u \in Handlers |-> NoJob]
  /\ IF apc = "waiting" THEN AgentRests ELSE UNCHANGED agentVars
  /\ UNCHANGED <<rowVars, items, gateway, torrents, overlapped>>

-----------------------------------------------------------------------------
HandlerStep(u) ==
  \/ Admit(u) \/ RejectContent(u) \/ Lookup(u) \/ QuotaExceeded(u) \/ Store(u)
  \/ Finish(u) \/ Break(u)

AgentStep ==
  \/ AgentFails \/ AddTorrent \/ (\E u \in Handlers : Submit(u))
  \/ (\E removed \in BOOLEAN : Unusable(removed) \/ FinishUpload(removed))
  \/ RetainForRetry

Poll == \E j \in Jobs : Abandon(j) \/ (\E lost \in BOOLEAN : HandOut(j, lost))

OwnerStep ==
  \/ \E j \in Jobs, k \in Kinds : Choose(j, k)
  \/ \E j \in Jobs : create_job(j)
  \/ pair_gateway \/ revoke_gateway \/ delete_gateway

Next ==
  \/ OwnerStep \/ Poll \/ AgentStep \/ Crash
  \/ \E j \in Jobs : BackoffElapses(j) \/ purge_finished_jobs(j)
  \/ \E u \in Handlers : HandlerStep(u)

Spec == Init /\ [][Next]_vars

(***************************************************************************)
(* The agent's loop never stops polling and every wait of it has a time    *)
(* limit; time passes.  Nothing is asked of the owner, of the handlers or  *)
(* of the crashes.                                                         *)
(***************************************************************************)
Fairness ==
  /\ WF_vars(Poll)
  /\ WF_vars(AgentFails)
  /\ \A j \in Jobs : WF_vars(BackoffElapses(j))

FairSpec == Spec /\ Fairness

-----------------------------------------------------------------------------
(***************************************************************************)
(* Properties.                                                             *)
(***************************************************************************)
TypeOK ==
  /\ status \in [Jobs -> Statuses]
  /\ kind \in [Jobs -> Kinds]
  /\ attempts \in [Jobs -> 0..MaxAttempts + 1]
  /\ due \in [Jobs -> BOOLEAN]
  /\ items \in [Jobs -> Nat]
  /\ gateway \in {"unpaired", "paired", "deleted"}
  /\ apc \in {"idle", "working", "downloading", "waiting", "answered"}
  /\ ajob \in Jobs \union {NoJob}
  /\ awaits \in Handlers \union {NoHandler}
  /\ answer \in Answers
  /\ torrents \subseteq Jobs
  /\ upc \in [Handlers -> Admitted \union {"idle", "arrived"}]
  /\ ujob \in [Handlers -> Jobs \union {NoJob}]
  /\ overlapped \subseteq Jobs

(***************************************************************************)
(* A fetch job that says "done" has its book in the library, although the  *)
(* two are committed apart and other handlers, polls, revocations and      *)
(* crashes come in between (submit_fetch_result, import_from_gateway).     *)
(***************************************************************************)
DoneHasItem == \A j \in Jobs : kind[j] = "fetch" /\ status[j] = "done" => items[j] > 0

(***************************************************************************)
(* Retries, lost answers and crashes never import a book twice: only two   *)
(* handlers at work on the same job at once can (the look-up by source_ref *)
(* and the insert are apart).                                              *)
(***************************************************************************)
DuplicateNeedsOverlap == \A j \in Jobs : items[j] > 1 => j \in overlapped

(***************************************************************************)
(* Apart from such an overlap a done job stays done until it is purged:    *)
(* no late handler, dead letter or revocation takes the result back.       *)
(***************************************************************************)
DoneIsFinal ==
  [][\A j \in Jobs :
       status[j] = "done" /\ j \notin overlapped => status'[j] \in {"done", "gone"}]_vars

(***************************************************************************)
(* The agent deletes a downloaded book on the platform's answer only when  *)
(* the book is in the library, the job has failed, or the gateway is no    *)
(* longer paired: never while the platform would offer the job again.      *)
(***************************************************************************)
DataKeptUntilSettled ==
  [][\A j \in Jobs :
       apc = "answered" /\ j \in torrents \ torrents'
         => items[j] > 0 \/ status[j] = "failed" \/ gateway # "paired"]_vars

\* What a job brought is kept: a done job stays done, and the agent deletes what
\* it downloaded only when that is settled.
ResultsAreKept == []TypeOK /\ DoneIsFinal /\ DataKeptUntilSettled

(***************************************************************************)
(* The queue of a paired gateway drains, even when the work fails every    *)
(* time: each job is handed out, backed off and handed out again until it  *)
(* is done or abandoned.                                                   *)
(***************************************************************************)
JobsSettle == []<>(gateway # "paired" \/ \A j \in Jobs : status[j] \notin Active)
=============================================================================
