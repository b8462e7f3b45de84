-------------------------- MODULE DeliveryLifecycle --------------------------
(***************************************************************************)
(* What a delivery job promises its owner, without locks, tasks, requests  *)
(* or crashes: a job is executed by one run at a time; a copy leaves only  *)
(* during an execution; a cancel or a retry happens only between two       *)
(* executions; the status is announced by the execution, by the reader's   *)
(* download, or overruled by the sweeper.                                  *)
(***************************************************************************)
EXTENDS Naturals

CONSTANT Jobs

VARIABLES
  status,     \* as the owner sees it
  route,      \* how the book travels
  executing,  \* a run is at work on the job
  copies      \* copies taken by the relay or the cloud since the last enqueue

vars == <<status, route, executing, copies>>

Init ==
  /\ status = [j \in Jobs |-> "absent"]
  /\ route = [j \in Jobs |-> "email"]
  /\ executing = [j \in Jobs |-> FALSE]
  /\ copies = [j \in Jobs |-> 0]

Create(j, r) ==
  /\ status[j] = "absent"
  /\ status' = [status EXCEPT ![j] = "queued"]
  /\ route' = [route EXCEPT ![j] = r]
  /\ UNCHANGED <<executing, copies>>

Begin(j) ==
  /\ status[j] = "queued" /\ ~executing[j]
  /\ executing' = [executing EXCEPT ![j] = TRUE]
  /\ UNCHANGED <<status, route, copies>>

\* The relay or the cloud takes a copy.
HandOver(j) ==
  /\ executing[j] /\ route[j] \in {"email", "cloud"}
  /\ copies' = [copies EXCEPT ![j] = @ + 1]
  /\ UNCHANGED <<status, route, executing>>

\* The cloud route announces "sent" while it is still at work.
Announce(j) ==
  /\ executing[j] /\ route[j] = "cloud"
  /\ status' = [status EXCEPT ![j] = "sent"]
  /\ UNCHANGED <<route, executing, copies>>

\* The status an execution may end with.
Outcomes(j) ==
  {"failed"}
    \union (IF route[j] = "cloud" THEN {} ELSE {"sent"})
    \union (IF route[j] = "cloud" THEN {"delivered"} ELSE {})

\* The execution ends; one that ends badly may not know that its last call
\* was taken.
End(j) ==
  /\ executing[j]
  /\ \E s \in Outcomes(j) :
       /\ s = "sent" /\ route[j] = "email" => copies[j] > 0
       /\ s = "delivered" => copies[j] > 0
       /\ status' = [status EXCEPT ![j] = s]
       /\ \/ UNCHANGED copies
          \/ /\ s = "failed" /\ route[j] \in {"email", "cloud"}
             /\ copies' = [copies EXCEPT ![j] = @ + 1]
  /\ executing' = [executing EXCEPT ![j] = FALSE]
  /\ UNCHANGED route

\* The execution ends without a word.
GiveUp(j) ==
  /\ executing[j]
  /\ executing' = [executing EXCEPT ![j] = FALSE]
  /\ UNCHANGED <<status, route, copies>>

\* The executions under way vanish with the process.
Vanish ==
  /\ executing' = [j \in Jobs |-> FALSE]
  /\ UNCHANGED <<status, route, copies>>

Cancel(j) ==
  /\ status[j] = "queued" /\ ~executing[j]
  /\ status' = [status EXCEPT ![j] = "failed"]
  /\ UNCHANGED <<route, executing, copies>>

Retry(j) ==
  /\ status[j] = "failed" /\ ~executing[j]
  /\ status' = [status EXCEPT ![j] = "queued"]
  /\ copies' = [copies EXCEPT ![j] = 0]
  /\ UNCHANGED <<route, executing>>

Download(j) ==
  /\ route[j] = "code" /\ status[j] # "absent"
  /\ status' = [status EXCEPT ![j] = "delivered"]
  /\ UNCHANGED <<route, executing, copies>>

\* The sweeper fails a set of existing jobs, whatever they are by then.
Reap(S) ==
  /\ \A j \in S : status[j] # "absent"
  /\ status' = [j \in Jobs |-> IF j \in S THEN "failed" ELSE status[j]]
  /\ UNCHANGED <<route, executing, copies>>

Next ==
  \/ \E j \in Jobs, r \in {"email", "cloud", "code", "catalog"} : Create(j, r)
  \/ \E j \in Jobs :
       \/ Begin(j) \/ HandOver(j) \/ Announce(j) \/ End(j) \/ GiveUp(j)
       \/ Cancel(j) \/ Retry(j) \/ Download(j)
  \/ \E S \in SUBSET Jobs : Reap(S)
  \/ Vanish

Spec == Init /\ [][Next]_vars
=============================================================================
