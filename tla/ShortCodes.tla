----------------------------- MODULE ShortCodes -----------------------------
(***************************************************************************)
(* The short codes of tier C (services/tierc.py, api/tierc.py): a delivery *)
(* issues a code for one download, a reader's browser asks for the file,   *)
(* which is converted if need be, and the purge of main.py removes the     *)
(* codes that have expired.                                                *)
(*                                                                         *)
(* A code stands for its row; the download handler reads the row when it   *)
(* starts and writes downloads_left, computed from what it read, at its    *)
(* commit.  Several codes may belong to one job: each run issues one.      *)
(***************************************************************************)
EXTENDS Naturals

CONSTANTS Codes,     \* the codes that are issued
          Jobs,      \* delivery jobs
          CodeRequests,  \* concurrent requests for a download
          Uncounted  \* no downloads_left: not used by any caller

DEFAULT_DOWNLOADS_LEFT == 1

VARIABLES
  state,     \* per code: unissued, live, deleted
  job,       \* per code: the job it delivers
  left,      \* per code: downloads_left
  expired,   \* codes past expires_at
  status,    \* per job: queued, sent, delivered, or deleted with its device
  pc, code,  \* per request: progress, code asked
  snap, was, \* per request: downloads_left and the job's status as read
  \* observed, read by no action:
  served,    \* per code: files sent
  late       \* requests that read their code after one of its files was sent

codes    == <<state, job, left, expired>>
requests == <<pc, code, snap, was>>
observed == <<served, late>>
CodeVars     == <<codes, status, requests, observed>>

NoCode == "no code"
NoJob  == "no job"

CodeInit ==
  /\ state = [c \in Codes |-> "unissued"] /\ job = [c \in Codes |-> NoJob]
  /\ left = [c \in Codes |-> 0] /\ expired = {}
  /\ status = [j \in Jobs |-> "queued"]
  /\ pc = [r \in CodeRequests |-> "idle"] /\ code = [r \in CodeRequests |-> NoCode]
  /\ snap = [r \in CodeRequests |-> 0] /\ was = [r \in CodeRequests |-> "queued"]
  /\ served = [c \in Codes |-> 0] /\ late = {}

-----------------------------------------------------------------------------
\* A run issues a code, in a commit of its own, and then commits the job: a
\* crash in between leaves a code, and the next run issues another.
create_download_session(c, j) ==
  /\ state[c] = "unissued" /\ status[j] = "queued"
  /\ state' = [state EXCEPT ![c] = "live"]
  /\ job' = [job EXCEPT ![c] = j]
  /\ left' = [left EXCEPT ![c] = DEFAULT_DOWNLOADS_LEFT]
  /\ UNCHANGED <<expired, status, requests, observed>>

MarkSent(j) ==
  /\ status[j] = "queued" /\ \E c \in Codes : job[c] = j
  /\ status' = [status EXCEPT ![j] = "sent"]
  /\ UNCHANGED <<codes, requests, observed>>

\* A stale sweep fails the job and its owner retries it (DeliveryJobs).
Requeue(j) ==
  /\ status[j] \in {"sent", "delivered"}
  /\ status' = [status EXCEPT ![j] = "queued"]
  /\ UNCHANGED <<codes, requests, observed>>

CodeExpire(c) ==
  /\ state[c] = "live" /\ c \notin expired
  /\ expired' = expired \cup {c}
  /\ UNCHANGED <<state, job, left, status, requests, observed>>

\* One DELETE of the purge loop takes every expired code.
PurgeExpired ==
  /\ \E c \in expired : state[c] = "live"
  /\ state' = [c \in Codes |-> IF c \in expired THEN "deleted" ELSE state[c]]
  /\ UNCHANGED <<job, left, expired, status, requests, observed>>

\* The device of the job is deleted: its jobs and their codes go with it.
DeleteJob(j) ==
  /\ status[j] # "deleted"
  /\ status' = [status EXCEPT ![j] = "deleted"]
  /\ state' = [c \in Codes |-> IF job[c] = j THEN "deleted" ELSE state[c]]
  /\ UNCHANGED <<job, left, expired, requests, observed>>

-----------------------------------------------------------------------------
\* get_valid_short_code
Valid(c) == state[c] = "live" /\ c \notin expired /\ left[c] > 0

\* Faulty variant: the number of downloads left is not looked at.
AskAnyLeft(r, c) ==
  /\ pc[r] = "idle" /\ state[c] = "live" /\ c \notin expired
  /\ pc' = [pc EXCEPT ![r] = "converting"]
  /\ code' = [code EXCEPT ![r] = c] /\ snap' = [snap EXCEPT ![r] = left[c]]
  /\ was' = [was EXCEPT ![r] = status[job[c]]]
  /\ late' = IF served[c] > 0 THEN late \cup {r} ELSE late
  /\ UNCHANGED <<codes, status, served>>

\* The rows are read and the file is produced in the requested format.
Ask(r, c) ==
  /\ pc[r] = "idle" /\ Valid(c)
  /\ pc' = [pc EXCEPT ![r] = "converting"]
  /\ code' = [code EXCEPT ![r] = c] /\ snap' = [snap EXCEPT ![r] = left[c]]
  /\ was' = [was EXCEPT ![r] = status[job[c]]]
  /\ late' = IF served[c] > 0 THEN late \cup {r} ELSE late
  /\ UNCHANGED <<codes, status, served>>

EndRequest(r) ==
  /\ pc' = [pc EXCEPT ![r] = "idle"]
  /\ code' = [code EXCEPT ![r] = NoCode] /\ snap' = [snap EXCEPT ![r] = 0]
  /\ was' = [was EXCEPT ![r] = "queued"]
  /\ late' = late \ {r}

\* The book or the device is missing, or the conversion fails (404); or the
\* client goes away.
NotServed(r) ==
  /\ pc[r] = "converting"
  /\ EndRequest(r)
  /\ UNCHANGED <<codes, status, served>>

\* The status is not written when the job was delivered already as read.
WriteDelivered(r) ==
  status' = IF was[r] = "delivered" THEN status
            ELSE [status EXCEPT ![job[code[r]]] = "delivered"]

\* The rows are written as the session computed them, and the file is sent.
Serve(r) ==
  /\ pc[r] = "converting" /\ state[code[r]] = "live"
  /\ left' = [left EXCEPT ![code[r]] = snap[r] - 1]
  /\ WriteDelivered(r)
  /\ served' = [served EXCEPT ![code[r]] = @ + 1]
  /\ EndRequest(r)
  /\ UNCHANGED <<state, job, expired>>

\* The code was deleted meanwhile: the UPDATE matches nothing, error 500.
RowGone(r) ==
  /\ pc[r] = "converting" /\ state[code[r]] = "deleted"
  /\ EndRequest(r)
  /\ UNCHANGED <<codes, status, served>>

-----------------------------------------------------------------------------
CodeNext ==
  \/ \E c \in Codes, j \in Jobs : create_download_session(c, j)
  \/ \E j \in Jobs : MarkSent(j) \/ Requeue(j) \/ DeleteJob(j)
  \/ \E c \in Codes : CodeExpire(c)
  \/ PurgeExpired
  \/ \E r \in CodeRequests :
       \/ \E c \in Codes : Ask(r, c)
       \/ NotServed(r)
       \/ Serve(r)
       \/ RowGone(r)

CodeSpec == CodeInit /\ [][CodeNext]_CodeVars

-----------------------------------------------------------------------------
CodeTypeOK ==
  /\ state \in [Codes -> {"unissued", "live", "deleted"}]
  /\ job \in [Codes -> Jobs \cup {NoJob}]
  /\ left \in [Codes -> 0..DEFAULT_DOWNLOADS_LEFT]
  /\ expired \subseteq Codes
  /\ status \in [Jobs -> {"queued", "sent", "delivered", "deleted"}]
  /\ pc \in [CodeRequests -> {"idle", "converting"}]
  /\ code \in [CodeRequests -> Codes \cup {NoCode}]
  /\ snap \in [CodeRequests -> 0..DEFAULT_DOWNLOADS_LEFT]
  /\ was \in [CodeRequests -> {"queued", "sent", "delivered"}]
  /\ served \in [Codes -> Nat] /\ late \subseteq CodeRequests

\* A code that has sent its file sends no other to a request that comes
\* after: more files than one are sent only to requests that overlap.
LaterRequestsRefused == late = {}
=============================================================================
