---------------------------- MODULE GatewaysView ----------------------------
(***************************************************************************)
(* The gateways page (gateways-view.tsx, gateways-state.ts, its rows) and  *)
(* its form (create-gateway-dialog.tsx).                                   *)
(*                                                                         *)
(* A gateway is created or recreated with codes the server tells once; an  *)
(* agent pairs with them.  The page asks for the list as long as it shows  *)
(* a gateway that is pending or paired.  The address opens two of its      *)
(* dialogs, and the browser's Back closes them without a word to them.     *)
(***************************************************************************)
EXTENDS Naturals, FiniteSets

CONSTANTS Gateways, NoGateway,
          MaxCodes   \* bound: codes issued for a gateway while the page is open

ASSUME GatewaysAssumption == MaxCodes \in Nat \ {0} /\ NoGateway \notin Gateways

VARIABLES
  gwServer,    \* per gateway: its status at the server, and the codes issued
  gwRows,      \* gateways: per gateway, the status the page has of it
  gwReading,   \* the list asked for, by a poll or by hand, and what it has read
  gwFailed,    \* listRefreshFailed
  gwAsks,      \* the recreations in flight
  gwRecreating,\* recreatingId: one for all of them
  gwCodes,     \* credentials: what the dialog of a recreation shows
  gwForm,      \* the creation: createOpen, its request, the codes it shows
  gwAction,    \* the address's action
  gwConfirm,   \* the revocation or deletion that is asked to confirm, or runs
  gwBehind,    \* observed: gateways with two recreations under way at once,
               \* or of which codes were issued and the answer lost
  gwUndone,    \* observed: gateways revoked or deleted by the page, at the time
               \* others of their codes were asked for, or shown
  gwLeft       \* observed: Back closed the creation, or codes were asked for over it

gwLists == <<gwRows, gwReading, gwFailed>>
gwIssue == <<gwAsks, gwRecreating, gwCodes>>
gwOpen  == <<gwForm, gwAction, gwConfirm>>
gwSeen  == <<gwBehind, gwUndone, gwLeft>>
gwVars  == <<gwServer, gwLists, gwIssue, gwOpen, gwSeen>>

RowStatuses == {"absent", "pending", "paired", "revoked"}
NoCodes == [of |-> NoGateway, gen |-> 0]
NotReading == [by |-> "none", has |-> FALSE, rows |-> [g \in Gateways |-> "absent"]]
NoConfirm == [kind |-> "none", of |-> NoGateway, req |-> "none"]
NewForm == [open |-> FALSE, req |-> "none", codes |-> NoCodes]

\* The list names the gateways that are not deleted.
ServerRows == [g \in Gateways |-> IF gwServer[g].st = "deleted" THEN "absent" ELSE gwServer[g].st]
GwListed == {g \in Gateways : gwRows[g] # "absent"}
hasPending == \E g \in Gateways : gwRows[g] = "pending"
hasPaired  == \E g \in Gateways : gwRows[g] = "paired"

GwInit ==
  /\ \E known \in SUBSET Gateways, st \in {"pending", "paired", "revoked"} :
       gwServer = [g \in Gateways |-> IF g \in known THEN [st |-> st, gen |-> 0]
                                      ELSE [st |-> "absent", gen |-> 0]]
  /\ gwRows \in {ServerRows, [g \in Gateways |-> "absent"]}
  /\ gwReading = NotReading /\ gwFailed = FALSE
  /\ gwAsks = {} /\ gwRecreating = NoGateway /\ gwCodes = NoCodes
  /\ gwForm = NewForm /\ gwAction = "none" /\ gwConfirm = NoConfirm
  /\ gwBehind = {} /\ gwUndone = {} /\ gwLeft = FALSE

-----------------------------------------------------------------------------
(* What the page shows.                                                    *)

CreateOpen == gwForm.open \/ gwAction = "new"
GwUncovered ==
  ~CreateOpen /\ gwAction = "none" /\ gwCodes = NoCodes /\ gwConfirm.kind = "none"

\* What a row offers: by its status, whatever is under way; while it waits
\* for its agent, new codes as well.
GatewayActions(st) ==
  CASE st = "paired"  -> {"revoke", "delete"}
    [] st = "revoked" -> {"recreate", "delete"}
    [] st = "pending" -> {"delete"}
    [] OTHER          -> {}
GatewayRow(g) ==
  GatewayActions(gwRows[g]) \cup (IF gwRows[g] = "pending" THEN {"recreate"} ELSE {})

\* The panel of the codes: each of the two secrets it shows, and the block
\* of both that one copies, is of the issue it was given.
GatewayCredentialsPanel(codes) == [of |-> codes.of, token |-> codes.gen, key |-> codes.gen]

-----------------------------------------------------------------------------
(* The list.                                                               *)

\* Faulty variant: the polls stop with the last gateway paired.
needsListPollPaired == hasPaired

needsListPoll == hasPending \/ hasPaired

\* setGateways: the polls' effect runs again when what it depends on
\* changes, and drops the answer of a poll in flight.
SetGateways(rows) ==
  /\ gwRows' = rows
  /\ gwReading' = IF gwReading.by = "poll" /\ <<needsListPoll, hasPending>>' # <<needsListPoll, hasPending>>
                  THEN NotReading ELSE gwReading

\* By the interval, or by hand from the notice of a failure.  Bound: one
\* reading of the list at a time.
AskList(by) ==
  /\ gwReading = NotReading
  /\ gwReading' = [NotReading EXCEPT !.by = by]
  /\ UNCHANGED <<gwServer, gwRows, gwFailed, gwIssue, gwOpen, gwSeen>>
PollTicks == needsListPoll /\ AskList("poll")
refreshGatewayList == GwUncovered /\ gwFailed /\ GwListed # {} /\ AskList("hand")

ListAnswers ==
  /\ gwReading.has
  /\ gwRows' = gwReading.rows /\ gwReading' = NotReading /\ gwFailed' = FALSE
  /\ UNCHANGED <<gwServer, gwIssue, gwOpen, gwSeen>>

ListFails ==
  /\ gwReading # NotReading
  /\ gwReading' = NotReading /\ gwFailed' = TRUE
  /\ UNCHANGED <<gwServer, gwRows, gwIssue, gwOpen, gwSeen>>

IgnoreFailed ==
  /\ GwUncovered /\ gwFailed /\ gwFailed' = FALSE
  /\ UNCHANGED <<gwServer, gwRows, gwReading, gwIssue, gwOpen, gwSeen>>

GwServerReads ==
  /\ gwReading # NotReading /\ ~gwReading.has
  /\ gwReading' = [gwReading EXCEPT !.has = TRUE, !.rows = ServerRows]
  /\ UNCHANGED <<gwServer, gwRows, gwFailed, gwIssue, gwOpen, gwSeen>>

\* An agent pairs with the codes issued last.
AgentPairs(g) ==
  /\ gwServer[g].st = "pending"
  /\ gwServer' = [gwServer EXCEPT ![g].st = "paired"]
  /\ UNCHANGED <<gwLists, gwIssue, gwOpen, gwSeen>>

-----------------------------------------------------------------------------
(* Recreating.                                                             *)

\* The rows offer it for a pending or revoked gateway, unless it is the one
\* asked for last; the address's dialog offers every gateway, always.
RecreateOffered(g) ==
  \/ GwUncovered /\ "recreate" \in GatewayRow(g) /\ gwRecreating # g
  \/ gwAction = "regenerate" /\ g \in GwListed

\* Bounds: two at once, MaxCodes codes for a gateway.
recreate(g) ==
  /\ RecreateOffered(g)
  /\ Cardinality(gwAsks) < 2
  /\ LET n == CHOOSE n \in 1..2 : \A a \in gwAsks : a.n # n
     IN gwAsks' = gwAsks \cup {[n |-> n, of |-> g, st |-> "sent", gen |-> 0]}
  /\ gwBehind' = IF \E a \in gwAsks : a.of = g THEN gwBehind \cup {g} ELSE gwBehind
  /\ gwRecreating' = g
  /\ gwAction' = IF gwAction = "regenerate" THEN "none" ELSE gwAction
  /\ gwLeft' = (gwLeft \/ (CreateOpen /\ gwForm.codes # NoCodes))
  /\ UNCHANGED <<gwServer, gwLists, gwCodes, gwForm, gwConfirm, gwUndone>>

\* The server issues other codes and forgets the pairing.
RecreateServed(a) ==
  LET g == a.of  s == gwServer[g] IN
  /\ a.st = "sent"
  /\ s.st \in {"pending", "paired", "revoked"} /\ s.gen < MaxCodes
  /\ gwServer' = [gwServer EXCEPT ![g] = [st |-> "pending", gen |-> s.gen + 1]]
  /\ gwAsks' = (gwAsks \ {a}) \cup {[a EXCEPT !.st = "done", !.gen = s.gen + 1]}
  /\ UNCHANGED <<gwLists, gwRecreating, gwCodes, gwOpen, gwSeen>>

RecreateEnds(a) == gwAsks' = gwAsks \ {a} /\ gwRecreating' = NoGateway

\* Faulty variant: codes that are shown are not replaced.
RecreateAnswersOnce(a) ==
  /\ a.st = "done"
  /\ gwCodes' = IF gwCodes = NoCodes THEN [of |-> a.of, gen |-> a.gen] ELSE gwCodes
  /\ SetGateways([gwRows EXCEPT ![a.of] = IF @ = "absent" THEN @ ELSE "pending"])
  /\ RecreateEnds(a)
  /\ UNCHANGED <<gwServer, gwFailed, gwOpen, gwSeen>>

RecreateAnswers(a) ==
  /\ a.st = "done"
  /\ gwCodes' = [of |-> a.of, gen |-> a.gen]
  /\ SetGateways([gwRows EXCEPT ![a.of] = IF @ = "absent" THEN @ ELSE "pending"])
  /\ RecreateEnds(a)
  /\ UNCHANGED <<gwServer, gwFailed, gwOpen, gwSeen>>

\* Refused, lost, or its answer lost.
RecreateFails(a) ==
  /\ a.st \in {"sent", "done"}
  /\ RecreateEnds(a)
  /\ gwBehind' = IF a.st = "done" THEN gwBehind \cup {a.of} ELSE gwBehind
  /\ UNCHANGED <<gwServer, gwLists, gwCodes, gwOpen, gwUndone, gwLeft>>

CloseCodes ==
  /\ gwCodes # NoCodes
  /\ gwCodes' = NoCodes
  /\ UNCHANGED <<gwServer, gwLists, gwAsks, gwRecreating, gwOpen, gwSeen>>

-----------------------------------------------------------------------------
(* Creating.                                                               *)

\* By the page's button, or by the address, over what is shown.  Bound: not
\* over a confirmation.
OpenForm ==
  /\ gwConfirm.kind = "none"
  /\ \/ GwUncovered /\ gwForm' = [gwForm EXCEPT !.open = TRUE] /\ UNCHANGED <<gwAction, gwLeft>>
     \/ /\ gwAction' \in {"new", "regenerate"} \ {gwAction}
        /\ gwLeft' = (gwLeft \/ gwAction = "new")
        /\ UNCHANGED gwForm
  /\ UNCHANGED <<gwServer, gwLists, gwIssue, gwConfirm, gwBehind, gwUndone>>

SubmitCreation ==
  /\ CreateOpen /\ gwForm.req = "none" /\ gwForm.codes = NoCodes
  /\ gwForm' = [gwForm EXCEPT !.req = "sent"]
  /\ UNCHANGED <<gwServer, gwLists, gwIssue, gwAction, gwConfirm, gwSeen>>

CreationServed ==
  /\ gwForm.req = "sent"
  /\ \E g \in Gateways :
       /\ gwServer[g].st = "absent"
       /\ gwServer' = [gwServer EXCEPT ![g] = [st |-> "pending", gen |-> 1]]
       /\ gwForm' = [gwForm EXCEPT !.req = "done", !.codes = [of |-> g, gen |-> 1]]
  /\ UNCHANGED <<gwLists, gwIssue, gwAction, gwConfirm, gwSeen>>

\* onCreated puts the gateway before the others; the codes are shown then.
\* One that a poll listed first is there twice, until the list is read again:
\* the page changes both rows of a gateway alike, by its name.
CreationAnswers ==
  /\ gwForm.req = "done"
  /\ SetGateways([gwRows EXCEPT ![gwForm.codes.of] = "pending"])
  /\ gwForm' = [gwForm EXCEPT !.req = "none"]
  /\ UNCHANGED <<gwServer, gwFailed, gwIssue, gwAction, gwConfirm, gwSeen>>

CreationFails ==
  /\ gwForm.req \in {"sent", "done"}
  /\ gwForm' = [gwForm EXCEPT !.req = "none", !.codes = NoCodes]
  /\ UNCHANGED <<gwServer, gwLists, gwIssue, gwAction, gwConfirm, gwSeen>>

\* handleOpenChange: not while submitting; the form starts anew.
handleOpenChange ==
  /\ CreateOpen /\ gwForm.req = "none"
  /\ gwForm' = NewForm /\ gwAction' = "none"
  /\ UNCHANGED <<gwServer, gwLists, gwIssue, gwConfirm, gwSeen>>

\* The address loses its action: by the browser's Back, or by the dialog.
Back ==
  /\ gwAction # "none"
  /\ gwAction' = "none"
  /\ gwLeft' = (gwLeft \/ gwAction = "new")
  /\ UNCHANGED <<gwServer, gwLists, gwIssue, gwForm, gwConfirm, gwBehind, gwUndone>>

-----------------------------------------------------------------------------
(* Revoking and deleting.                                                  *)

OpenConfirm(g, kind) ==
  /\ GwUncovered /\ kind \in GatewayRow(g)
  /\ gwConfirm' = [kind |-> kind, of |-> g, req |-> "none"]
  /\ UNCHANGED <<gwServer, gwLists, gwIssue, gwForm, gwAction, gwSeen>>

CancelConfirm ==
  /\ gwConfirm.kind # "none" /\ gwConfirm.req = "none"
  /\ gwConfirm' = NoConfirm
  /\ UNCHANGED <<gwServer, gwLists, gwIssue, gwForm, gwAction, gwSeen>>

Confirm ==
  /\ gwConfirm.kind # "none" /\ gwConfirm.req = "none"
  /\ gwConfirm' = [gwConfirm EXCEPT !.req = "sent"]
  /\ gwUndone' = IF gwConfirm.of \in {a.of : a \in gwAsks} \cup {gwCodes.of}
                 THEN gwUndone \cup {gwConfirm.of} ELSE gwUndone
  /\ UNCHANGED <<gwServer, gwLists, gwIssue, gwForm, gwAction, gwBehind, gwLeft>>

GwConfirmServed ==
  LET g == gwConfirm.of IN
  /\ gwConfirm.req = "sent"
  /\ gwServer[g].st \notin {"absent", "deleted"}
  /\ gwServer' = [gwServer EXCEPT ![g].st = IF gwConfirm.kind = "revoke" THEN "revoked" ELSE "deleted"]
  /\ gwConfirm' = [gwConfirm EXCEPT !.req = "done"]
  /\ UNCHANGED <<gwLists, gwIssue, gwForm, gwAction, gwSeen>>

GwConfirmAnswers ==
  /\ gwConfirm.req = "done"
  /\ SetGateways([gwRows EXCEPT ![gwConfirm.of] =
                    IF gwConfirm.kind = "revoke" /\ @ # "absent" THEN "revoked" ELSE "absent"])
  /\ gwConfirm' = NoConfirm
  /\ UNCHANGED <<gwServer, gwFailed, gwIssue, gwForm, gwAction, gwSeen>>

GwConfirmFails ==
  /\ gwConfirm.req \in {"sent", "done"}
  /\ gwConfirm' = [gwConfirm EXCEPT !.req = "none"]
  /\ UNCHANGED <<gwServer, gwLists, gwIssue, gwForm, gwAction, gwSeen>>

-----------------------------------------------------------------------------
GwNext ==
  \/ PollTicks \/ refreshGatewayList \/ ListAnswers \/ ListFails
  \/ IgnoreFailed \/ GwServerReads
  \/ \E g \in Gateways : AgentPairs(g) \/ recreate(g)
                         \/ \E kind \in {"revoke", "delete"} : OpenConfirm(g, kind)
  \/ \E a \in gwAsks : RecreateServed(a) \/ RecreateAnswers(a) \/ RecreateFails(a)
  \/ CloseCodes \/ OpenForm \/ SubmitCreation \/ CreationServed \/ CreationAnswers \/ CreationFails
  \/ handleOpenChange \/ Back
  \/ CancelConfirm \/ Confirm \/ GwConfirmServed \/ GwConfirmAnswers \/ GwConfirmFails

GwSpec == GwInit /\ [][GwNext]_gwVars

\* The interval goes on; of the requests sent again and again not all are
\* lost, nor are their answers.
GwFair ==
  /\ WF_gwVars(PollTicks) /\ SF_gwVars(GwServerReads) /\ SF_gwVars(ListAnswers)

-----------------------------------------------------------------------------
GwTypeOK ==
  /\ gwServer \in [Gateways -> [st : RowStatuses \cup {"deleted"}, gen : 0..MaxCodes]]
  /\ gwRows \in [Gateways -> RowStatuses]
  /\ gwReading \in [by : {"none", "poll", "hand"}, has : BOOLEAN, rows : [Gateways -> RowStatuses]]
  /\ \A a \in gwAsks : a.of \in Gateways /\ a.st \in {"sent", "done"} /\ a.gen \in 0..MaxCodes
  /\ {gwCodes, gwForm.codes} \subseteq [of : Gateways \cup {NoGateway}, gen : 0..MaxCodes]
  /\ {gwForm.req, gwConfirm.req} \subseteq {"none", "sent", "done"}
  /\ gwAction \in {"none", "new", "regenerate"} /\ gwConfirm.kind \in {"none", "revoke", "delete"}
  /\ gwRecreating \in Gateways \cup {NoGateway} /\ {gwFailed, gwForm.open, gwLeft} \subseteq BOOLEAN
  /\ {gwBehind, gwUndone} \subseteq SUBSET Gateways

Stands(g) == gwServer[g].st \in {"pending", "paired"}

InHand(codes) ==
  LET shown == GatewayCredentialsPanel(codes) IN
  \/ codes = NoCodes
  \/ {shown.token, shown.key} = {gwServer[shown.of].gen} /\ Stands(shown.of)
  \/ \E a \in gwAsks : a.of = shown.of
  \/ shown.of \in gwBehind \cup gwUndone

(***************************************************************************)
(* The codes a dialog shows are the last the server issued for their       *)
(* gateway, and it is neither revoked nor deleted, so that an agent can    *)
(* pair with them: unless others are being asked for, the answer with      *)
(* others was lost, two recreations of the gateway were under way at once  *)
(* (the address's dialog lets one start), the gateway was revoked or       *)
(* deleted at the time others were asked for or shown (a row offers it     *)
(* whatever is under way), or Back once closed the creation, which then    *)
(* shows what it showed before, or the address's dialog was used over it.  *)
(***************************************************************************)
CodesShownWork ==
  /\ InHand(gwCodes)
  /\ CreateOpen /\ gwForm.req = "none" /\ ~gwLeft => InHand(gwForm.codes)

(***************************************************************************)
(* A gateway the page shows as waiting for its agent does not wait on the  *)
(* page for ever once it is paired, revoked or deleted: as long as a row   *)
(* is pending the list is asked for, a failure does not end it, and the    *)
(* answers that a change of the rows drops are asked for again.            *)
(***************************************************************************)
PairingIsSeen ==
  \A g \in Gateways :
    gwRows[g] = "pending" /\ gwServer[g].st # "pending" ~> (gwRows[g] # "pending" \/ gwServer[g].st = "pending")
=============================================================================
