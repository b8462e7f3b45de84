----------------------------- MODULE SourcesView -----------------------------
(***************************************************************************)
(* The sources page (sources-view.tsx, sources-state.ts, source-row.tsx).  *)
(*                                                                         *)
(* Each catalog has a switch; several changes may be under way, one per    *)
(* catalog, and their answers come in any order, or not at all.  One notice *)
(* tells the failure that came last, and offers to try it again.           *)
(***************************************************************************)
EXTENDS Naturals, FiniteSets

CONSTANTS OpenAccess,   \* the catalogs that can be switched
          NoSource      \* not a catalog

ASSUME SourcesAssumption == {"upload", "torrent_gateway"} \cap OpenAccess = {}

VARIABLES
  srcServer,   \* per catalog: enabled, at the server
  srcRows,     \* sources: the rows the page was given, a function
  srcAway,     \* sourcesUnavailable: a prop, unlike the rows
  srcReq,      \* per catalog: the change under way ("none" if it is not pending)
  srcFailed,   \* failedToggle, and updateError: the row as it was when asked
  srcIgnored,  \* partialDismissed
  srcRefresh,  \* router.refresh is under way
  srcHint,     \* what the gateways' summary says
  srcLost      \* observed: catalogs of which a change was served, its answer lost

srcVars == <<srcServer, srcRows, srcAway, srcReq, srcFailed, srcIgnored, srcRefresh, srcHint, srcLost>>

Unsent == [st |-> "none", want |-> FALSE]
NotFailed == [of |-> NoSource, was |-> FALSE]
Pending == {s \in OpenAccess : srcReq[s].st # "none"}

\* The page is given every row, all but one, none, or no answer.
SrcInit ==
  /\ srcServer = [s \in OpenAccess |-> TRUE]
  /\ \E given \in SUBSET OpenAccess :
       /\ Cardinality(OpenAccess \ given) <= 1 \/ given = {}
       /\ srcRows = [s \in given |-> srcServer[s]]
       /\ srcAway \in (IF given = {} THEN BOOLEAN ELSE {FALSE})
  /\ srcReq = [s \in OpenAccess |-> Unsent]
  /\ srcFailed = NotFailed /\ srcIgnored = FALSE /\ srcRefresh = FALSE
  /\ srcHint = "asked" /\ srcLost = {}

-----------------------------------------------------------------------------
(* What the page shows.                                                    *)

hasPartialSources ==
  ~srcAway /\ DOMAIN srcRows # {} /\ DOMAIN srcRows # OpenAccess

sourcesSurfaceState ==
  IF srcAway THEN "unavailable"
  ELSE IF srcFailed # NotFailed THEN "error"
  ELSE IF DOMAIN srcRows = {} THEN "empty"
  ELSE IF hasPartialSources THEN "partial" ELSE "success"

\* The page has a row for every type, whatever it was given; two of the
\* types are no catalog.
LocalTypes == {"upload", "torrent_gateway"}
DisplayTypes == OpenAccess \cup LocalTypes

sourceAvailability(type) ==
  CASE type = "upload"          -> "always_on"
    [] type = "torrent_gateway" -> "gateway"
    [] srcAway \/ type \notin DOMAIN srcRows -> "unknown"
    [] OTHER -> IF srcRows[type] THEN "enabled" ELSE "disabled"

canToggleSource(type) ==
  type \in OpenAccess /\ ~srcAway /\ type \in DOMAIN srcRows

\* A row: its group and availability, and its switch if it has one, which
\* is inert while its change is pending.
rowMeta(type) ==
  [group |-> IF type \in OpenAccess THEN "openAccess" ELSE "local",
   is    |-> sourceAvailability(type)]
SourceToggle(type) ==
  [there |-> canToggleSource(type), checked |-> sourceAvailability(type) = "enabled", inert |-> type \in Pending]
SourceRow(type) == [says |-> rowMeta(type), switch |-> SourceToggle(type)]

\* The hint above the rows: no answer is never taken for a connection.
gatewayHintKind(presentation) ==
  IF presentation \in {"connected", "offline", "pending", "expired", "revoked", "unknown"}
  THEN presentation ELSE "none"

-----------------------------------------------------------------------------
(* Switching.                                                              *)

Ask(s, was) ==
  srcReq' = [srcReq EXCEPT ![s] = [st |-> "sent", want |-> ~was]]

\* Faulty variant: a change leaves the notice of another one.
toggleBesideNotice(s, was) ==
  /\ Ask(s, was)
  /\ UNCHANGED <<srcServer, srcRows, srcAway, srcFailed, srcIgnored, srcRefresh, srcHint, srcLost>>

\* toggle: any change takes the notice of the last failure away.
toggle(s, was) ==
  /\ Ask(s, was)
  /\ srcFailed' = NotFailed
  /\ UNCHANGED <<srcServer, srcRows, srcAway, srcIgnored, srcRefresh, srcHint, srcLost>>

\* The switch is not offered while its change is pending; the notice's
\* button asks again for what failed.
Switch(s) ==
  LET switch == SourceRow(s).switch IN
  switch.there /\ ~switch.inert /\ toggle(s, srcRows[s])
RetryFailed == srcFailed # NotFailed /\ toggle(srcFailed.of, srcFailed.was)

DismissFailed ==
  /\ srcFailed # NotFailed
  /\ srcFailed' = NotFailed
  /\ UNCHANGED <<srcServer, srcRows, srcAway, srcReq, srcIgnored, srcRefresh, srcHint, srcLost>>

\* The server sets the value it is given, or refuses.
ServerSets(s) ==
  /\ srcReq[s].st = "sent"
  /\ \/ /\ srcServer' = [srcServer EXCEPT ![s] = srcReq[s].want]
        /\ srcReq' = [srcReq EXCEPT ![s].st = "done"]
     \/ /\ srcReq' = [srcReq EXCEPT ![s].st = "refused"]
        /\ UNCHANGED srcServer
  /\ UNCHANGED <<srcRows, srcAway, srcFailed, srcIgnored, srcRefresh, srcHint, srcLost>>

Ends(s) == srcReq' = [srcReq EXCEPT ![s] = Unsent]

applySourceToggleSuccess(s) ==
  /\ srcReq[s].st = "done"
  /\ srcRows' = [srcRows EXCEPT ![s] = srcReq[s].want]
  /\ srcLost' = srcLost \ {s}
  /\ Ends(s)
  /\ UNCHANGED <<srcServer, srcAway, srcFailed, srcIgnored, srcRefresh, srcHint>>

\* applySourceToggleFailure: the rows stay; the notice is of this change.
ToggleFails(s) ==
  /\ srcReq[s].st \in {"done", "refused"}
  /\ srcFailed' = [of |-> s, was |-> ~srcReq[s].want]
  /\ srcLost' = IF srcReq[s].st = "done" THEN srcLost \cup {s} ELSE srcLost
  /\ Ends(s)
  /\ UNCHANGED <<srcServer, srcRows, srcAway, srcIgnored, srcRefresh, srcHint>>

-----------------------------------------------------------------------------
(* The other notices.                                                      *)

PartialShown == hasPartialSources /\ ~srcIgnored

IgnorePartial ==
  /\ PartialShown
  /\ srcIgnored' = TRUE
  /\ UNCHANGED <<srcServer, srcRows, srcAway, srcReq, srcFailed, srcRefresh, srcHint, srcLost>>

\* The notice asks the page again; the rows are state, set once, and stay.
RefreshPage ==
  /\ PartialShown
  /\ srcRefresh' = TRUE
  /\ UNCHANGED <<srcServer, srcRows, srcAway, srcReq, srcFailed, srcIgnored, srcHint, srcLost>>
PageComes ==
  /\ srcRefresh
  /\ srcRefresh' = FALSE
  /\ srcAway' \in BOOLEAN
  /\ UNCHANGED <<srcServer, srcRows, srcReq, srcFailed, srcIgnored, srcHint, srcLost>>

\* The gateways are asked once; a failure is a presentation of none.
GatewaysAnswer ==
  /\ srcHint = "asked"
  /\ \E presentation \in {"connected", "offline", "failed"} : srcHint' = gatewayHintKind(presentation)
  /\ UNCHANGED <<srcServer, srcRows, srcAway, srcReq, srcFailed, srcIgnored, srcRefresh, srcLost>>

-----------------------------------------------------------------------------
SrcNext ==
  \/ \E s \in OpenAccess : Switch(s) \/ ServerSets(s) \/ applySourceToggleSuccess(s) \/ ToggleFails(s)
  \/ RetryFailed \/ DismissFailed \/ IgnorePartial \/ RefreshPage \/ PageComes \/ GatewaysAnswer

SrcSpec == SrcInit /\ [][SrcNext]_srcVars

-----------------------------------------------------------------------------
SrcTypeOK ==
  /\ srcServer \in [OpenAccess -> BOOLEAN]
  /\ DOMAIN srcRows \subseteq OpenAccess /\ \A s \in DOMAIN srcRows : srcRows[s] \in BOOLEAN
  /\ srcReq \in [OpenAccess -> [st : {"none", "sent", "done", "refused"}, want : BOOLEAN]]
  /\ srcFailed \in [of : OpenAccess \cup {NoSource}, was : BOOLEAN]
  /\ {srcAway, srcIgnored, srcRefresh} \subseteq BOOLEAN
  /\ srcHint \in {"asked", "connected", "offline", "none"} /\ srcLost \subseteq OpenAccess

(***************************************************************************)
(* However the changes of the switches cross, a row that has none under    *)
(* way says what the server has, and its switch shows it, but where an     *)
(* answer was lost; and what the notice offers to try again is a change    *)
(* that is not under way, from the value the switch shows: trying again    *)
(* never asks for what is so, and never sends a change that another one of *)
(* the same catalog overtakes.                                             *)
(***************************************************************************)
SwitchesAreServers ==
  /\ \A s \in DOMAIN srcRows \ (Pending \cup srcLost) : srcRows[s] = srcServer[s]
  /\ \A type \in DisplayTypes \ (Pending \cup srcLost) :
       SourceRow(type).switch.there =>
         SourceRow(type).switch.checked = srcServer[type]
  /\ srcFailed # NotFailed =>
       /\ srcFailed.of \in DOMAIN srcRows \ Pending
       /\ srcFailed.was = srcRows[srcFailed.of]
=============================================================================
