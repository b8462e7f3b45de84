----------------------------- MODULE JobPolling -----------------------------
(***************************************************************************)
(* A book asked from a gateway, as the library page follows it             *)
(* (lib/use-gateway-job.ts, PendingFetchTracker of library-view.tsx): the  *)
(* page asks for the job's status every three seconds, for twenty minutes, *)
(* without waiting for the previous answer, and tells the outcome once.    *)
(*                                                                         *)
(* Answers may be lost, and may arrive in another order than they were     *)
(* given.  An answer is applied to the hook's state at once and seen by    *)
(* the tracker when React runs its effect: between the two another answer  *)
(* may be applied.                                                         *)
(***************************************************************************)
EXTENDS Naturals, Sequences

CONSTANT MaxPolls  \* bound: requests sent during the twenty minutes

ASSUME MaxPollsAssumption == MaxPolls \in Nat

Polls      == 1..MaxPolls
JobSettled == {"done", "failed"}
JobStatus  == {"pending", "running"} \cup JobSettled
Outcomes   == JobSettled \cup {"timeout"}

VARIABLES
  fetchJob,     \* the server's row: its status, "gone" once it is purged
  fetchBeen,    \* observed, read by no action: the statuses the row has had
  fetchLate,    \* twenty minutes have passed
  fetchTimer,   \* the interval is set
  fetchReq,     \* per request: unsent, sent, the answer it carries, or ended
  fetchView,    \* the hook's snapshot, "none" before the first
  fetchTold,    \* outcomes the page was told, in order
  fetchTracked, \* the page renders the tracker: an entry of pendingJobs
  fetchCrossed  \* observed: an older answer replaced a final one not yet told

fetchServer == <<fetchJob, fetchBeen>>
fetchHook   == <<fetchTimer, fetchReq, fetchView>>
fetchVars   == <<fetchServer, fetchLate, fetchHook, fetchTold, fetchTracked, fetchCrossed>>

\* A book is asked for and followed, or none is.
FetchInit ==
  /\ fetchJob = "pending" /\ fetchBeen = {"pending"}
  /\ fetchLate = FALSE
  /\ fetchTracked \in BOOLEAN /\ fetchTimer = fetchTracked
  /\ fetchReq = [i \in Polls |-> "unsent"] /\ fetchView = "none"
  /\ fetchTold = <<>> /\ fetchCrossed = FALSE

-----------------------------------------------------------------------------
(* The server and the clock.                                               *)

\* The gateway's queue: a running job may return to the queue, and a settled
\* one be settled again by an overlapping handler, or purged.
FetchJobMoves(s) ==
  /\ fetchJob # "gone" /\ s # fetchJob
  /\ fetchJob \in JobSettled => s \in JobSettled \cup {"gone"}
  /\ s = "gone" => fetchJob \in JobSettled
  /\ fetchJob' = s
  /\ fetchBeen' = fetchBeen \cup ({s} \ {"gone"})
  /\ UNCHANGED <<fetchLate, fetchHook, fetchTold, fetchTracked, fetchCrossed>>

TwentyMinutesPass ==
  /\ ~fetchLate
  /\ fetchLate' = TRUE
  /\ UNCHANGED <<fetchServer, fetchHook, fetchTold, fetchTracked, fetchCrossed>>

EndRequest(i, s) ==
  /\ fetchReq' = [fetchReq EXCEPT ![i] = s]
  /\ UNCHANGED <<fetchServer, fetchLate, fetchTimer, fetchView, fetchTold, fetchTracked, fetchCrossed>>

\* The server reads the row for a request; there is none once it is purged.
FetchAnswered(i) ==
  /\ fetchReq[i] = "sent"
  /\ EndRequest(i, IF fetchJob = "gone" THEN "ended" ELSE fetchJob)

\* A request or its answer is lost: the error is caught and dropped.
FetchLost(i) ==
  /\ fetchReq[i] \notin {"unsent", "ended"}
  /\ EndRequest(i, "ended")

-----------------------------------------------------------------------------
(* The hook.                                                               *)

NextPoll(i) == fetchReq[i] = "unsent" /\ \A j \in 1..(i - 1) : fetchReq[j] # "unsent"

ShowSnapshot(s) ==
  /\ fetchView' = s
  /\ fetchCrossed' = (fetchCrossed \/ (fetchView \in Outcomes /\ fetchTold = <<>> /\ s # fetchView))

\* tick: another request leaves, whether or not the last one was answered.
Tick(i) ==
  /\ fetchTracked /\ fetchTimer /\ ~fetchLate /\ NextPoll(i)
  /\ EndRequest(i, "sent")

\* Faulty variant: the clock is read once an answer has arrived.
TickLateAnswered ==
  /\ fetchTracked /\ fetchTimer /\ fetchLate /\ fetchView # "none"
  /\ ShowSnapshot("timeout")
  /\ fetchTimer' = FALSE
  /\ UNCHANGED <<fetchServer, fetchLate, fetchReq, fetchTold, fetchTracked>>

TickLate ==
  /\ fetchTracked /\ fetchTimer /\ fetchLate
  /\ ShowSnapshot("timeout")
  /\ fetchTimer' = FALSE
  /\ UNCHANGED <<fetchServer, fetchLate, fetchReq, fetchTold, fetchTracked>>

\* apply: whichever request it answers, also one overtaken by a later one.
ApplyAnswer(i) ==
  /\ fetchTracked /\ fetchReq[i] \in JobStatus
  /\ ShowSnapshot(fetchReq[i])
  /\ fetchTimer' = (fetchTimer /\ fetchReq[i] \notin JobSettled)
  /\ fetchReq' = [fetchReq EXCEPT ![i] = "ended"]
  /\ UNCHANGED <<fetchServer, fetchLate, fetchTold, fetchTracked>>

\* cancelled is set: what arrives later is dropped.
DropAnswer(i) ==
  /\ ~fetchTracked /\ fetchReq[i] \in JobStatus
  /\ EndRequest(i, "ended")

-----------------------------------------------------------------------------
(* The tracker and the page.                                               *)

\* Faulty variant: the effect runs at every render, and has no settled ref.
TellAtEveryRender ==
  /\ fetchTracked /\ fetchView \in Outcomes /\ Len(fetchTold) < 2
  /\ fetchTold' = Append(fetchTold, fetchView)
  /\ UNCHANGED <<fetchServer, fetchLate, fetchHook, fetchTracked, fetchCrossed>>

\* The effect, which runs again whenever the page renders: settled is a ref.
Tell ==
  /\ fetchTracked /\ fetchView \in Outcomes /\ fetchTold = <<>>
  /\ fetchTold' = <<fetchView>>
  /\ UNCHANGED <<fetchServer, fetchLate, fetchHook, fetchTracked, fetchCrossed>>

\* clearPending took the entry, or the owner leaves the page: the clean-up
\* cancels and clears the interval.
Untrack ==
  /\ fetchTracked
  /\ fetchTracked' = FALSE /\ fetchTimer' = FALSE
  /\ UNCHANGED <<fetchServer, fetchLate, fetchReq, fetchView, fetchTold, fetchCrossed>>

-----------------------------------------------------------------------------
FetchNext ==
  \/ \E s \in JobStatus \cup {"gone"} : FetchJobMoves(s)
  \/ TwentyMinutesPass
  \/ \E i \in Polls : FetchAnswered(i) \/ FetchLost(i) \/ Tick(i) \/ ApplyAnswer(i) \/ DropAnswer(i)
  \/ TickLate \/ Tell \/ Untrack

FetchSpec == FetchInit /\ [][FetchNext]_fetchVars

\* The clock runs, the interval fires and React runs effects; nothing is
\* assumed of the network or the server.
FetchGoesOn == TwentyMinutesPass \/ TickLate \/ Tell
FetchFair == WF_fetchVars(FetchGoesOn)

-----------------------------------------------------------------------------
FetchTypeOK ==
  /\ fetchJob \in JobStatus \cup {"gone"} /\ fetchBeen \subseteq JobStatus
  /\ fetchLate \in BOOLEAN /\ fetchTimer \in BOOLEAN
  /\ fetchReq \in [Polls -> JobStatus \cup {"unsent", "sent", "ended"}]
  /\ fetchView \in JobStatus \cup {"none", "timeout"}
  /\ fetchTold \in Seq(Outcomes)
  /\ fetchTracked \in BOOLEAN /\ fetchCrossed \in BOOLEAN

(***************************************************************************)
(* The page tells an outcome once, however often its effect runs, however  *)
(* the answers cross and whatever arrives after the time is up; a success  *)
(* or failure it tells is one the server's row has had, and a timeout is   *)
(* told only when the time is up.                                          *)
(***************************************************************************)
OutcomeToldOnce ==
  /\ Len(fetchTold) <= 1
  /\ \A k \in 1..Len(fetchTold) :
       IF fetchTold[k] = "timeout" THEN fetchLate ELSE fetchTold[k] \in fetchBeen

(***************************************************************************)
(* Every fetch the page follows is told an outcome, if each of its requests *)
(* is lost even, unless the owner leaves or an older answer replaces a     *)
(* final one before it is told: the interval is then cleared already, and  *)
(* the book is shown as being fetched for ever.                            *)
(***************************************************************************)
FetchIsTold == <>(fetchTold # <<>> \/ ~fetchTracked \/ fetchCrossed)
=============================================================================
