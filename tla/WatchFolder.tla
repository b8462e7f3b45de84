----------------------------- MODULE WatchFolder -----------------------------
(***************************************************************************)
(* The gateway's shared folder (ferry_gateway_agent/watcher.py), for one   *)
(* file name: the owner copies books there, the agent polls, uploads what  *)
(* has not changed for watch_stable_seconds, and removes it once imported. *)
(*                                                                         *)
(* Each copy under the name is a version.  An upload sends what the name   *)
(* holds when it is opened.                                                *)
(***************************************************************************)
EXTENDS Naturals

CONSTANTS LastVersion,      \* bound: copies made under this name
          MaxInterruptions  \* bound: lost answers, failed removals, restarts

ASSUME WatchBoundsAreNat == LastVersion \in Nat /\ MaxInterruptions \in Nat

Versions == 1..LastVersion
Nothing  == [v |-> 0, whole |-> FALSE]
Files    == [v : 0..LastVersion, whole : BOOLEAN]

VARIABLES
  disk,      \* what the name holds; not whole while the owner copies
  copied,    \* versions begun
  accepts,   \* versions the platform accepts (format, size, quota)
  seen,      \* _snapshots: the file as of the last poll that saw it change
  stable,    \* watch_stable_seconds have passed since
  inflight,  \* the name is in _inflight
  pc,        \* the agent: idle, listed, sending, answered
  sending,   \* the file the upload opened
  imports,   \* per version: imports into the library of that version, whole
  \* observed, read by no action:
  interrupted, \* lost answers, failed removals and restarts
  overwritten  \* versions replaced or removed by the owner, or changed
               \* while an upload was under way

watcher   == <<seen, stable, inflight, pc, sending>>
watchSeen == <<interrupted, overwritten>>
WatchVars == <<disk, copied, accepts, watcher, imports, watchSeen>>

WatchInit ==
  /\ disk = Nothing /\ copied = 0
  /\ accepts \in SUBSET Versions
  /\ seen = Nothing /\ stable = FALSE /\ inflight = FALSE
  /\ pc = "idle" /\ sending = Nothing
  /\ imports = [v \in Versions |-> 0]
  /\ interrupted = 0 /\ overwritten = {}

-----------------------------------------------------------------------------
(* The owner of the folder.                                                *)

\* A copy replaces what is there; the upload in progress does not stop it.
BeginCopy ==
  /\ copied < LastVersion
  /\ copied' = copied + 1
  /\ disk' = [v |-> copied', whole |-> FALSE]
  /\ overwritten' = overwritten \cup {disk.v} \cup (IF pc = "idle" THEN {} ELSE {copied'})
  /\ UNCHANGED <<accepts, watcher, imports, interrupted>>

EndCopy ==
  /\ disk.v # 0 /\ ~disk.whole
  /\ disk' = [disk EXCEPT !.whole = TRUE]
  /\ overwritten' = IF pc = "idle" THEN overwritten ELSE overwritten \cup {disk.v}
  /\ UNCHANGED <<copied, accepts, watcher, imports, interrupted>>

Remove ==
  /\ disk.v # 0
  /\ disk' = Nothing
  /\ overwritten' = overwritten \cup {disk.v}
  /\ UNCHANGED <<copied, accepts, watcher, imports, interrupted>>

-----------------------------------------------------------------------------
(* The agent: one loop, one upload at a time.                              *)

\* Time passes between two polls.
Wait ==
  /\ pc = "idle" /\ seen # Nothing /\ ~stable
  /\ stable' = TRUE
  /\ UNCHANGED <<disk, copied, accepts, seen, inflight, pc, sending, imports, watchSeen>>

\* _stable_files: a name that changed, appeared or went is noted.
Note ==
  /\ pc = "idle" /\ seen # disk
  /\ seen' = disk /\ stable' = FALSE
  /\ UNCHANGED <<disk, copied, accepts, inflight, pc, sending, imports, watchSeen>>

\* _stable_files and poll_once: the name is ready, after others perhaps.
List ==
  /\ pc = "idle" /\ disk # Nothing /\ seen = disk /\ stable /\ ~inflight
  /\ inflight' = TRUE /\ pc' = "listed"
  /\ UNCHANGED <<disk, copied, accepts, seen, stable, sending, imports, watchSeen>>

\* The end of upload_file, whatever its outcome.
Leave == pc' = "idle" /\ inflight' = FALSE /\ sending' = Nothing

OpenFile ==
  /\ pc = "listed" /\ disk # Nothing
  /\ sending' = disk /\ pc' = "sending"
  /\ UNCHANGED <<disk, copied, accepts, seen, stable, inflight, imports, watchSeen>>

\* OSError: the owner removed the file meanwhile.
OpenFails ==
  /\ pc = "listed" /\ disk = Nothing
  /\ Leave
  /\ UNCHANGED <<disk, copied, accepts, seen, stable, imports, watchSeen>>

\* A truncated book may be accepted: its first bytes tell its format.
Imported(f) ==
  IF f.whole THEN imports' = [imports EXCEPT ![f.v] = @ + 1] ELSE UNCHANGED imports

Import ==
  /\ pc = "sending" /\ sending.v \in accepts
  /\ Imported(sending)
  /\ pc' = "answered"
  /\ UNCHANGED <<disk, copied, accepts, seen, stable, inflight, sending, watchSeen>>

\* Faulty variants: a refusal that is taken for an import, and one that
\* leaves the name in flight.
RefusedRemoves ==
  /\ pc = "sending" /\ sending.v \notin accepts
  /\ disk' = Nothing
  /\ Leave
  /\ UNCHANGED <<copied, accepts, seen, stable, imports, watchSeen>>

RefusedInFlight ==
  /\ pc = "sending" /\ sending.v \notin accepts
  /\ pc' = "idle" /\ sending' = Nothing
  /\ UNCHANGED <<disk, copied, accepts, seen, stable, inflight, imports, watchSeen>>

\* Status 400 or more: the file stays and is sent again at the next poll.
Refused ==
  /\ pc = "sending" /\ sending.v \notin accepts
  /\ Leave
  /\ UNCHANGED <<disk, copied, accepts, seen, stable, imports, watchSeen>>

\* httpx.HTTPError, before or after the import.
ConnectionLost ==
  /\ pc \in {"sending", "answered"} /\ interrupted < MaxInterruptions
  /\ interrupted' = interrupted + 1
  /\ Leave
  /\ UNCHANGED <<disk, copied, accepts, seen, stable, imports, overwritten>>

\* unlink takes whatever the name holds by now.
Unlink ==
  /\ pc = "answered"
  /\ disk' = Nothing
  /\ seen' = Nothing /\ stable' = FALSE
  /\ Leave
  /\ UNCHANGED <<copied, accepts, imports, watchSeen>>

\* OSError: the file stays, and is noted as a new one at the next poll.
UnlinkFails ==
  /\ pc = "answered" /\ interrupted < MaxInterruptions
  /\ interrupted' = interrupted + 1
  /\ seen' = Nothing /\ stable' = FALSE
  /\ Leave
  /\ UNCHANGED <<disk, copied, accepts, imports, overwritten>>

\* The agent restarts without its snapshots.
Restart ==
  /\ interrupted < MaxInterruptions
  /\ interrupted' = interrupted + 1
  /\ seen' = Nothing /\ stable' = FALSE
  /\ Leave
  /\ UNCHANGED <<disk, copied, accepts, imports, overwritten>>

-----------------------------------------------------------------------------
WatchNext ==
  \/ BeginCopy \/ EndCopy \/ Remove
  \/ Wait \/ Note \/ List
  \/ OpenFile \/ OpenFails
  \/ Import \/ Refused \/ ConnectionLost
  \/ Unlink \/ UnlinkFails \/ Restart

WatchSpec == WatchInit /\ [][WatchNext]_WatchVars

\* The loop survives every error, and the platform answers in the end.
WatchGoesOn ==
  Wait \/ Note \/ List \/ OpenFile \/ OpenFails \/ Import \/ Refused \/ Unlink
WatchFair == WF_WatchVars(WatchGoesOn)

-----------------------------------------------------------------------------
WatchTypeOK ==
  /\ disk \in Files /\ copied \in 0..LastVersion /\ accepts \subseteq Versions
  /\ seen \in Files /\ stable \in BOOLEAN /\ inflight \in BOOLEAN
  /\ pc \in {"idle", "listed", "sending", "answered"}
  /\ inflight <=> pc # "idle"
  /\ sending \in Files /\ (sending # Nothing <=> pc \in {"sending", "answered"})
  /\ imports \in [Versions -> Nat]
  /\ interrupted \in 0..MaxInterruptions
  /\ overwritten \subseteq 0..LastVersion

\* A version is imported once, and once more for each answer, removal or
\* snapshot that was lost.
CopiesNeedInterruptions ==
  \A v \in Versions : imports[v] <= 1 + interrupted

\* The agent removes a whole book only when it is in the library, unless it
\* changed while an upload was under way.
RemovedIsImported ==
  [][(disk.whole /\ disk' = Nothing /\ disk.v \notin overwritten')
       => imports[disk.v] > 0]_WatchVars

\* A book left alone in the folder gets into the library, if the platform
\* accepts it, whatever was refused or interrupted before.
LeftAloneArrives ==
  \A v \in Versions :
    (disk = [v |-> v, whole |-> TRUE] /\ v \in accepts) ~>
      (imports[v] > 0 \/ v \in overwritten)
=============================================================================
