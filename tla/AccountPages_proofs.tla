------------------------ MODULE AccountPages_proofs -------------------------
(***************************************************************************)
(* What is proved of the pages of an account - the deliveries, the link of *)
(* a device to a cloud, the devices and their forms, the sources, the      *)
(* gateways and their panels, the settings, the reader links - for any     *)
(* rows and any number of requests: what they show of the server is what   *)
(* it has, however their requests cross, but for what each property names. *)
(***************************************************************************)
EXTENDS MC_WebSettings, DeliveriesView, CloudLink, TLAPS

(***************************************************************************)
(* The switches of the sources page say what the server has, however their *)
(* changes cross.  The property says nothing of a catalog whose change is  *)
(* under way, and is not inductive for that: the invariant says what a     *)
(* change under way asks for, and on which side of the server's answer the *)
(* row is.                                                                 *)
(***************************************************************************)

\* A change under way is of a row the page has, and asks for its contrary.
PendingIsOfItsRow ==
  \A s \in OpenAccess : srcReq[s].st # "none" => s \in DOMAIN srcRows /\ srcReq[s].want = ~srcRows[s]

\* Until the server sets the value, and unless an answer was lost, the row is
\* the server's.
RowIsServers ==
  \A s \in DOMAIN srcRows : srcReq[s].st # "done" /\ s \notin srcLost => srcServer[s] = srcRows[s]

\* Once it has, the server has what was asked for.
DoneIsServers == \A s \in OpenAccess : srcReq[s].st = "done" => srcServer[s] = srcReq[s].want

\* The notice offers a change that is not under way, from the row's value.
NoticeIsOfItsRow ==
  srcFailed # NotFailed => /\ srcFailed.of \in DOMAIN srcRows \ Pending
                           /\ srcFailed.was = srcRows[srcFailed.of]

SrcInv ==
  /\ SrcTypeOK /\ PendingIsOfItsRow /\ RowIsServers /\ DoneIsServers /\ NoticeIsOfItsRow

-----------------------------------------------------------------------------
(***************************************************************************)
(* A row that has a switch is one the page was given, and the switch is    *)
(* on when the row says it is enabled, which no other type says.           *)
(***************************************************************************)
LEMMA SwitchShowsRow ==
  ASSUME SrcTypeOK, NEW type \in DisplayTypes, SourceRow(type).switch.there
  PROVE  /\ type \in DOMAIN srcRows
         /\ SourceRow(type).switch.checked = srcRows[type]
<1>1. type \in OpenAccess /\ ~srcAway /\ type \in DOMAIN srcRows
  BY DEF SourceRow, SourceToggle, canToggleSource
<1>2. type # "upload" /\ type # "torrent_gateway"
  BY <1>1, SourcesAssumption
<1>3. sourceAvailability(type) = IF srcRows[type] THEN "enabled" ELSE "disabled"
  BY <1>1, <1>2 DEF sourceAvailability
<1>4. SourceRow(type).switch.checked = (sourceAvailability(type) = "enabled")
  BY DEF SourceRow, SourceToggle
<1>5. srcRows[type] \in BOOLEAN
  BY <1>1 DEF SrcTypeOK
<1> QED
  BY <1>1, <1>3, <1>4, <1>5

LEMMA SrcInitInv == SrcInit => SrcInv
<1> SUFFICES ASSUME SrcInit PROVE SrcInv
  OBVIOUS
<1>1. PICK given \in SUBSET OpenAccess : srcRows = [s \in given |-> srcServer[s]]
  BY DEF SrcInit
<1>2. DOMAIN srcRows = given /\ \A s \in given : srcRows[s] = TRUE /\ srcServer[s] = TRUE
  BY <1>1 DEF SrcInit
<1>3. \A s \in OpenAccess : srcReq[s] = Unsent
  BY DEF SrcInit
<1>4. SrcTypeOK
  BY <1>2 DEF SrcInit, SrcTypeOK, Unsent, NotFailed
<1> QED
  BY <1>2, <1>3, <1>4
  DEF SrcInit, SrcInv, PendingIsOfItsRow, RowIsServers, DoneIsServers, NoticeIsOfItsRow, Unsent

-----------------------------------------------------------------------------
(***************************************************************************)
(* A change that is asked for on a row that has none under way, from the   *)
(* value of that row, keeps the invariant: by a switch or by the notice.   *)
(***************************************************************************)
LEMMA ToggleInv ==
  ASSUME SrcInv, NEW s \in OpenAccess, s \in DOMAIN srcRows, s \notin Pending, toggle(s, srcRows[s])
  PROVE  SrcInv'
<1> USE DEF SrcInv
<1>1. /\ srcReq' = [srcReq EXCEPT ![s] = [st |-> "sent", want |-> ~srcRows[s]]]
      /\ srcFailed' = NotFailed
      /\ UNCHANGED <<srcServer, srcRows, srcAway, srcIgnored, srcRefresh, srcHint, srcLost>>
  BY DEF toggle, Ask
<1>2. srcRows[s] \in BOOLEAN
  BY DEF SrcTypeOK
<1>3. /\ srcReq'[s] = [st |-> "sent", want |-> ~srcRows[s]]
      /\ \A k \in OpenAccess \ {s} : srcReq'[k] = srcReq[k]
  BY <1>1 DEF SrcTypeOK
<1>4. SrcTypeOK'
  BY <1>1, <1>2 DEF SrcTypeOK, NotFailed
<1>5. PendingIsOfItsRow' /\ DoneIsServers' /\ NoticeIsOfItsRow'
  BY <1>1, <1>3 DEF PendingIsOfItsRow, DoneIsServers, NoticeIsOfItsRow
<1>6. RowIsServers'
  BY <1>1, <1>3 DEF RowIsServers, Pending, SrcTypeOK
<1> QED
  BY <1>4, <1>5, <1>6

(***************************************************************************)
(* The server's answer to a change moves the server and the request of one *)
(* catalog together.                                                       *)
(***************************************************************************)
LEMMA ServerSetsInv ==
  ASSUME SrcInv, NEW s \in OpenAccess, ServerSets(s)
  PROVE  SrcInv'
<1> USE DEF SrcInv
<1>0. /\ srcReq[s].st = "sent" /\ srcReq[s].want \in BOOLEAN
      /\ UNCHANGED <<srcRows, srcAway, srcFailed, srcIgnored, srcRefresh, srcHint, srcLost>>
  BY DEF ServerSets, SrcTypeOK
<1>1. PICK st \in {"done", "refused"} :
        /\ srcReq' = [srcReq EXCEPT ![s].st = st]
        /\ srcServer' = IF st = "done" THEN [srcServer EXCEPT ![s] = srcReq[s].want] ELSE srcServer
  BY DEF ServerSets
<1>2. /\ srcReq'[s].st = st /\ srcReq'[s].want = srcReq[s].want
      /\ \A k \in OpenAccess \ {s} : srcReq'[k] = srcReq[k] /\ srcServer'[k] = srcServer[k]
      /\ srcServer'[s] = IF st = "done" THEN srcReq[s].want ELSE srcServer[s]
  BY <1>1 DEF SrcTypeOK
<1>3. SrcTypeOK'
  BY <1>0, <1>1 DEF SrcTypeOK
<1>4. PendingIsOfItsRow' /\ DoneIsServers'
  BY <1>0, <1>2 DEF PendingIsOfItsRow, DoneIsServers
<1>5. RowIsServers'
  BY <1>0, <1>2 DEF RowIsServers, SrcTypeOK
<1>6. Pending' = Pending
  BY <1>0, <1>2 DEF Pending
<1>7. NoticeIsOfItsRow'
  BY <1>0, <1>6 DEF NoticeIsOfItsRow
<1> QED
  BY <1>3, <1>4, <1>5, <1>7

(***************************************************************************)
(* The row takes the value the server has; or keeps its own, with a notice *)
(* that offers the change again, and is in doubt if the server was reached. *)
(***************************************************************************)
LEMMA AppliedInv ==
  ASSUME SrcInv, NEW s \in OpenAccess, applySourceToggleSuccess(s)
  PROVE  SrcInv'
<1> USE DEF SrcInv
<1>1. /\ srcReq[s].st = "done" /\ s \in DOMAIN srcRows /\ srcServer[s] = srcReq[s].want
      /\ srcReq[s].want \in BOOLEAN
  BY DEF applySourceToggleSuccess, PendingIsOfItsRow, DoneIsServers, SrcTypeOK
<1>2. /\ srcRows' = [srcRows EXCEPT ![s] = srcReq[s].want]
      /\ srcLost' = srcLost \ {s} /\ srcReq' = [srcReq EXCEPT ![s] = Unsent]
      /\ UNCHANGED <<srcServer, srcAway, srcFailed, srcIgnored, srcRefresh, srcHint>>
  BY DEF applySourceToggleSuccess, Ends
<1>3. /\ DOMAIN srcRows' = DOMAIN srcRows /\ srcRows'[s] = srcReq[s].want
      /\ \A k \in DOMAIN srcRows \ {s} : srcRows'[k] = srcRows[k]
      /\ srcReq'[s] = Unsent /\ \A k \in OpenAccess \ {s} : srcReq'[k] = srcReq[k]
  BY <1>1, <1>2 DEF SrcTypeOK
<1>4. SrcTypeOK'
  BY <1>1, <1>2, <1>3 DEF SrcTypeOK, Unsent
<1>5. PendingIsOfItsRow'
  <2> SUFFICES ASSUME NEW k \in OpenAccess, srcReq'[k].st # "none"
               PROVE  k \in DOMAIN srcRows' /\ srcReq'[k].want = ~srcRows'[k]
    BY DEF PendingIsOfItsRow
  <2>1. k # s /\ srcReq'[k] = srcReq[k]
    BY <1>3 DEF Unsent
  <2>2. k \in DOMAIN srcRows /\ srcReq[k].want = ~srcRows[k]
    BY <2>1 DEF PendingIsOfItsRow
  <2>3. DOMAIN srcRows' = DOMAIN srcRows /\ srcRows'[k] = srcRows[k]
    BY <1>2, <1>3, <2>1, <2>2
  <2> QED
    BY <2>1, <2>2, <2>3
<1>6. DoneIsServers'
  <2> SUFFICES ASSUME NEW k \in OpenAccess, srcReq'[k].st = "done"
               PROVE  srcServer'[k] = srcReq'[k].want
    BY DEF DoneIsServers
  <2>1. k # s /\ srcReq'[k] = srcReq[k]
    BY <1>3 DEF Unsent
  <2> QED
    BY <1>2, <2>1 DEF DoneIsServers
<1>7. RowIsServers'
  BY <1>1, <1>2, <1>3 DEF RowIsServers, SrcTypeOK
<1>8. s \in Pending
  BY <1>1 DEF Pending
<1>9. Pending' \subseteq Pending
  BY <1>3 DEF Pending, Unsent
<1>10. NoticeIsOfItsRow'
  BY <1>2, <1>3, <1>8, <1>9 DEF NoticeIsOfItsRow
<1> QED
  BY <1>4, <1>5, <1>6, <1>7, <1>10

LEMMA FailedInv ==
  ASSUME SrcInv, NEW s \in OpenAccess, ToggleFails(s)
  PROVE  SrcInv'
<1> USE DEF SrcInv
<1>1. /\ srcReq[s].st \in {"done", "refused"} /\ s \in DOMAIN srcRows
      /\ srcReq[s].want = ~srcRows[s] /\ srcRows[s] \in BOOLEAN
  BY DEF ToggleFails, PendingIsOfItsRow, SrcTypeOK
<1>2. /\ srcFailed' = [of |-> s, was |-> ~srcReq[s].want]
      /\ srcLost' = IF srcReq[s].st = "done" THEN srcLost \cup {s} ELSE srcLost
      /\ srcReq' = [srcReq EXCEPT ![s] = Unsent]
      /\ UNCHANGED <<srcServer, srcRows, srcAway, srcIgnored, srcRefresh, srcHint>>
  BY DEF ToggleFails, Ends
<1>3. srcReq'[s] = Unsent /\ \A k \in OpenAccess \ {s} : srcReq'[k] = srcReq[k]
  BY <1>2 DEF SrcTypeOK
<1>4. srcFailed'.of = s /\ srcFailed'.was = srcRows[s]
  BY <1>1, <1>2
<1>5. SrcTypeOK'
  BY <1>1, <1>2 DEF SrcTypeOK, Unsent
<1>6. PendingIsOfItsRow'
  <2> SUFFICES ASSUME NEW k \in OpenAccess, srcReq'[k].st # "none"
               PROVE  k \in DOMAIN srcRows' /\ srcReq'[k].want = ~srcRows'[k]
    BY DEF PendingIsOfItsRow
  <2>1. k # s /\ srcReq'[k] = srcReq[k]
    BY <1>3 DEF Unsent
  <2>2. k \in DOMAIN srcRows /\ srcReq[k].want = ~srcRows[k]
    BY <2>1 DEF PendingIsOfItsRow
  <2>3. DOMAIN srcRows' = DOMAIN srcRows /\ srcRows'[k] = srcRows[k]
    BY <1>2, <1>3, <2>1, <2>2
  <2> QED
    BY <2>1, <2>2, <2>3
<1>7. DoneIsServers'
  <2> SUFFICES ASSUME NEW k \in OpenAccess, srcReq'[k].st = "done"
               PROVE  srcServer'[k] = srcReq'[k].want
    BY DEF DoneIsServers
  <2>1. k # s /\ srcReq'[k] = srcReq[k]
    BY <1>3 DEF Unsent
  <2> QED
    BY <1>2, <2>1 DEF DoneIsServers
<1>8. RowIsServers'
  BY <1>1, <1>2, <1>3 DEF RowIsServers, SrcTypeOK
<1>9. s \notin Pending'
  BY <1>3 DEF Pending, Unsent
<1>10. NoticeIsOfItsRow'
  BY <1>1, <1>2, <1>4, <1>9 DEF NoticeIsOfItsRow
<1> QED
  BY <1>5, <1>6, <1>7, <1>8, <1>10

-----------------------------------------------------------------------------
(***************************************************************************)
(* Every step keeps the invariant.  Those of the other notices, of the     *)
(* page's refresh and of the gateways touch neither rows nor changes.      *)
(***************************************************************************)
LEMMA SrcStepInv == SrcInv /\ [SrcNext]_srcVars => SrcInv'
<1> SUFFICES ASSUME SrcInv, [SrcNext]_srcVars PROVE SrcInv'
  OBVIOUS
<1>1. ASSUME NEW s \in OpenAccess, Switch(s) PROVE SrcInv'
  <2>1. s \in DOMAIN srcRows /\ s \notin Pending /\ toggle(s, srcRows[s])
    BY <1>1 DEF Switch, SourceRow, SourceToggle, canToggleSource
  <2> QED
    BY <2>1, ToggleInv
<1>2. ASSUME NEW s \in OpenAccess, ServerSets(s) PROVE SrcInv'
  BY <1>2, ServerSetsInv
<1>3. ASSUME NEW s \in OpenAccess, applySourceToggleSuccess(s) PROVE SrcInv'
  BY <1>3, AppliedInv
<1>4. ASSUME NEW s \in OpenAccess, ToggleFails(s) PROVE SrcInv'
  BY <1>4, FailedInv
<1>5. ASSUME RetryFailed PROVE SrcInv'
  <2>1. /\ srcFailed.of \in DOMAIN srcRows /\ srcFailed.of \in OpenAccess /\ srcFailed.of \notin Pending
        /\ srcFailed.was = srcRows[srcFailed.of] /\ toggle(srcFailed.of, srcFailed.was)
    BY <1>5 DEF RetryFailed, SrcInv, NoticeIsOfItsRow, SrcTypeOK
  <2> QED
    BY <2>1, ToggleInv
<1>6. ASSUME \/ DismissFailed \/ IgnorePartial \/ RefreshPage \/ PageComes \/ GatewaysAnswer
             \/ UNCHANGED srcVars
      PROVE  SrcInv'
  <2>1. /\ UNCHANGED <<srcServer, srcRows, srcReq, srcLost>>
        /\ srcFailed' = srcFailed \/ srcFailed' = NotFailed
    BY <1>6 DEF DismissFailed, IgnorePartial, RefreshPage, PageComes, GatewaysAnswer, srcVars
  <2>2. {srcAway', srcIgnored', srcRefresh'} \subseteq BOOLEAN
    BY <1>6 DEF SrcInv, SrcTypeOK, DismissFailed, IgnorePartial, RefreshPage, PageComes, GatewaysAnswer, srcVars
  <2>3. srcHint' \in {"asked", "connected", "offline", "none"}
    BY <1>6 DEF SrcInv, SrcTypeOK, DismissFailed, IgnorePartial, RefreshPage, PageComes, GatewaysAnswer,
                gatewayHintKind, srcVars
  <2>4. SrcTypeOK'
    <3>1. srcFailed' \in [of : OpenAccess \cup {NoSource}, was : BOOLEAN]
      <4>1. srcFailed \in [of : OpenAccess \cup {NoSource}, was : BOOLEAN]
        BY DEF SrcInv, SrcTypeOK
      <4>2. NotFailed \in [of : OpenAccess \cup {NoSource}, was : BOOLEAN]
        BY DEF NotFailed
      <4> QED
        BY <2>1, <4>1, <4>2
    <3> QED
      BY <2>1, <2>2, <2>3, <3>1 DEF SrcInv, SrcTypeOK
  <2>5. Pending' = Pending
    BY <2>1 DEF Pending
  <2> QED
    BY <2>1, <2>4, <2>5
    DEF SrcInv, PendingIsOfItsRow, RowIsServers, DoneIsServers, NoticeIsOfItsRow
<1> QED
  BY <1>1, <1>2, <1>3, <1>4, <1>5, <1>6 DEF SrcNext

LEMMA SrcInvShows == SrcInv => SwitchesAreServers
<1> SUFFICES ASSUME SrcInv PROVE SwitchesAreServers
  OBVIOUS
<1>1. \A s \in DOMAIN srcRows \ (Pending \cup srcLost) : srcRows[s] = srcServer[s]
  BY DEF SrcInv, SrcTypeOK, RowIsServers, Pending
<1>2. ASSUME NEW type \in DisplayTypes \ (Pending \cup srcLost), SourceRow(type).switch.there
      PROVE  SourceRow(type).switch.checked = srcServer[type]
  BY <1>1, <1>2, SwitchShowsRow DEF SrcInv
<1> QED
  BY <1>1, <1>2 DEF SrcInv, NoticeIsOfItsRow, SwitchesAreServers

-----------------------------------------------------------------------------
(***************************************************************************)
(* The page's state has its type, and each change under way, each row and  *)
(* the notice stand to the server as the four parts of SrcInv say.         *)
(***************************************************************************)
THEOREM SrcInvariance == SrcSpec => []SrcInv
<1>1. SrcInit => SrcInv
  BY SrcInitInv
<1>2. SrcInv /\ [SrcNext]_srcVars => SrcInv'
  BY SrcStepInv
<1> QED
  BY <1>1, <1>2, PTL DEF SrcSpec

(***************************************************************************)
(* A switch at rest shows what the server has unless an answer was lost,   *)
(* and the notice offers only what is neither so nor under way.            *)
(***************************************************************************)
THEOREM SwitchesShowTheServer == SrcSpec => []SwitchesAreServers
BY SrcInvariance, SrcInvShows, PTL

-----------------------------------------------------------------------------
(***************************************************************************)
(* The codes the gateways page shows work. Codes are issued by a request   *)
(* and shown by its answer, and other codes may be issued between the two. *)
(* The invariant says which issue an answer on its way carries, and that a *)
(* gateway that is not created is nowhere on the page, so that nothing is  *)
(* asked of it meanwhile; and that what asks to confirm is there alone.    *)
(***************************************************************************)

ServerGateways == [st : RowStatuses \cup {"deleted"}, gen : Nat]
Codes == [of : Gateways \cup {NoGateway}, gen : Nat]
Readings == [by : {"none", "poll", "hand"}, has : BOOLEAN, rows : [Gateways -> RowStatuses]]
Forms == [open : BOOLEAN, req : {"none", "sent", "done"}, codes : Codes]
Confirmations ==
  [kind : {"none", "revoke", "delete"}, of : Gateways \cup {NoGateway}, req : {"none", "sent", "done"}]

GwRowsTyped ==
  /\ gwServer \in [Gateways -> ServerGateways]
  /\ gwRows \in [Gateways -> RowStatuses]
  /\ gwReading \in Readings

AsksTyped ==
  \A a \in gwAsks : a \in [n : {a.n}, of : Gateways, st : {"sent", "done"}, gen : Nat]

CodesTyped ==
  /\ gwCodes \in Codes
  /\ gwForm \in Forms
  /\ gwAction \in {"none", "new", "regenerate"} /\ gwLeft \in BOOLEAN
  /\ gwBehind \subseteq Gateways /\ gwUndone \subseteq Gateways
  /\ gwConfirm \in Confirmations

Created(g) == g \in Gateways /\ gwServer[g].st # "absent"

\* The page knows nothing of a gateway that is not created.
OnlyCreatedKnown ==
  /\ \A g \in Gateways : gwRows[g] # "absent" \/ gwReading.rows[g] # "absent" => Created(g)
  /\ \A a \in gwAsks : Created(a.of)
  /\ gwCodes # NoCodes => Created(gwCodes.of)
  /\ gwForm.codes # NoCodes => Created(gwForm.codes.of)
  /\ gwConfirm.kind # "none" \/ gwConfirm.req # "none" => gwConfirm.of \in Gateways

\* What asks to confirm is there alone.  Once it is sent, codes of its gateway
\* that are asked for or shown are noted.
ConfirmAlone ==
  /\ gwConfirm.req # "none" => gwConfirm.kind # "none"
  /\ gwConfirm.kind # "none" => gwAction = "none" /\ ~gwForm.open
  /\ gwConfirm.req = "sent" =>
       \/ gwConfirm.of \in gwUndone
       \/ gwCodes.of # gwConfirm.of /\ \A a \in gwAsks : a.of # gwConfirm.of

Good(g, gen) == gen = gwServer[g].gen /\ Stands(g)

\* Two recreations of a gateway are seen; an answer has the last codes but then,
\* and of a gateway that stands, unless that was undone.
AsksAreLast ==
  /\ \A a, b \in gwAsks : a.of = b.of => a = b \/ a.of \in gwBehind
  /\ \A a \in gwAsks : a.st = "done" => Good(a.of, a.gen) \/ a.of \in gwBehind \cup gwUndone

\* Until Back closes it, the creation that has codes is open, its codes are
\* the last, and no others are being asked for.
FormIsLast ==
  /\ gwForm.req = "done" => gwForm.codes # NoCodes
  /\ ~gwLeft /\ (gwForm.req # "none" \/ gwForm.codes # NoCodes) => CreateOpen
  /\ ~gwLeft /\ gwForm.codes # NoCodes =>
       Good(gwForm.codes.of, gwForm.codes.gen) /\ \A a \in gwAsks : a.of # gwForm.codes.of

ShownIsLast ==
  gwCodes # NoCodes => \/ Good(gwCodes.of, gwCodes.gen)
                       \/ \E a \in gwAsks : a.of = gwCodes.of /\ a.st = "done"
                       \/ gwCodes.of \in gwBehind \cup gwUndone

GwInv ==
  /\ GwRowsTyped /\ AsksTyped /\ CodesTyped
  /\ OnlyCreatedKnown /\ ConfirmAlone /\ AsksAreLast /\ FormIsLast /\ ShownIsLast

-----------------------------------------------------------------------------
\* The records' fields are in sight of all that follows.
USE DEF ServerGateways, Codes, Readings, Forms, Confirmations

LEMMA GwInitInv == GwInit => GwInv
<1> SUFFICES ASSUME GwInit PROVE GwInv
  OBVIOUS
<1>1. PICK known \in SUBSET Gateways, st \in {"pending", "paired", "revoked"} :
        gwServer = [g \in Gateways |-> IF g \in known THEN [st |-> st, gen |-> 0]
                                       ELSE [st |-> "absent", gen |-> 0]]
  BY DEF GwInit
<1>2. /\ gwReading = NotReading /\ gwAsks = {} /\ gwCodes = NoCodes /\ gwForm = NewForm
      /\ gwAction = "none" /\ gwConfirm = NoConfirm /\ gwBehind = {}
      /\ gwUndone = {} /\ gwLeft = FALSE
      /\ gwRows \in {ServerRows, [g \in Gateways |-> "absent"]}
  BY DEF GwInit
<1>3. /\ \A g \in Gateways : gwRows[g] \in RowStatuses /\ (gwRows[g] # "absent" => Created(g))
      /\ gwRows = [g \in Gateways |-> gwRows[g]]
  BY <1>1, <1>2 DEF ServerRows, RowStatuses, Created
<1>4. GwRowsTyped
  <2>1. gwServer \in [Gateways -> ServerGateways]
    BY <1>1 DEF RowStatuses
  <2>2. gwReading \in Readings
    BY <1>2 DEF NotReading, RowStatuses
  <2> QED
    BY <1>3, <2>1, <2>2 DEF GwRowsTyped
<1>5. CodesTyped
  BY <1>2 DEF CodesTyped, NoCodes, NewForm, NoConfirm
<1>6. OnlyCreatedKnown
  BY <1>2, <1>3 DEF OnlyCreatedKnown, NotReading, NewForm, NoConfirm
<1> QED
  BY <1>2, <1>4, <1>5, <1>6 DEF GwInv, AsksTyped, ConfirmAlone, AsksAreLast, FormIsLast, ShownIsLast,
                                   NewForm, NoConfirm

(***************************************************************************)
(* What changes neither the server nor the codes, asked for or shown.      *)
(***************************************************************************)
LEMMA ListChanges ==
  ASSUME GwInv, UNCHANGED <<gwServer, gwAsks, gwCodes, gwForm, gwAction, gwBehind, gwLeft>>,
         gwUndone \subseteq gwUndone', gwUndone' \subseteq Gateways, ConfirmAlone',
         gwRows' \in [Gateways -> RowStatuses],
         gwReading' \in Readings,
         gwConfirm' \in Confirmations,
         gwConfirm'.kind # "none" \/ gwConfirm'.req # "none" => gwConfirm'.of \in Gateways,
         \A g \in Gateways : gwRows'[g] # "absent" \/ gwReading'.rows[g] # "absent" => Created(g)
  PROVE  GwInv'
<1> USE DEF GwInv
<1>1. GwRowsTyped' /\ AsksTyped' /\ CodesTyped'
  BY DEF GwRowsTyped, AsksTyped, CodesTyped
<1>2. OnlyCreatedKnown'
  BY DEF OnlyCreatedKnown, Created
<1>3. AsksAreLast' /\ FormIsLast' /\ ShownIsLast'
  BY DEF AsksAreLast, FormIsLast, ShownIsLast, CreateOpen, Good, Stands
<1> QED
  BY <1>1, <1>2, <1>3

LEMMA NotReadingTyped ==
  /\ \A by \in {"none", "poll", "hand"} :
       [NotReading EXCEPT !.by = by] \in
         Readings
  /\ NotReading \in Readings
  /\ \A g \in Gateways : NotReading.rows[g] = "absent"
BY DEF NotReading, RowStatuses

(***************************************************************************)
(* The page sets a row: the list asked for meanwhile stays, or is dropped. *)
(***************************************************************************)
LEMMA RowsSet ==
  ASSUME GwRowsTyped, OnlyCreatedKnown, NEW g \in Gateways, NEW s \in RowStatuses,
         s # "absent" => Created(g), SetGateways([gwRows EXCEPT ![g] = s])
  PROVE  /\ gwRows' \in [Gateways -> RowStatuses]
         /\ gwReading' \in Readings
         /\ \A h \in Gateways : gwRows'[h] # "absent" \/ gwReading'.rows[h] # "absent" => Created(h)
<1>1. gwRows' \in [Gateways -> RowStatuses] /\ \A h \in Gateways : gwRows'[h] # "absent" => Created(h)
  BY DEF GwRowsTyped, OnlyCreatedKnown, SetGateways
<1>2. gwReading' \in {gwReading, NotReading}
  BY DEF SetGateways
<1> QED
  BY <1>1, <1>2, NotReadingTyped DEF GwRowsTyped, OnlyCreatedKnown

(***************************************************************************)
(* A gateway changes its status at the server and keeps its codes.  If it  *)
(* is not to be paired any more that was confirmed, and what the page has  *)
(* of its codes was noted then.                                            *)
(***************************************************************************)
LEMMA StatusChanges ==
  ASSUME GwInv, NEW g \in Gateways, NEW s \in RowStatuses \cup {"deleted"}, s # "absent", Created(g),
         gwServer' = [gwServer EXCEPT ![g].st = s],
         s = "paired" \/ (gwConfirm.req = "sent" /\ gwConfirm.of = g),
         ConfirmAlone', gwConfirm' \in Confirmations,
         gwConfirm'.kind # "none" \/ gwConfirm'.req # "none" => gwConfirm'.of \in Gateways,
         UNCHANGED <<gwLists, gwIssue, gwForm, gwAction, gwSeen>>
  PROVE  GwInv'
<1> USE DEF GwInv, gwLists, gwIssue, gwSeen
<1>1. /\ gwServer' \in [Gateways -> ServerGateways]
      /\ \A h \in Gateways : gwServer'[h].gen = gwServer[h].gen /\ (Created(h) => gwServer'[h].st # "absent")
  BY DEF GwRowsTyped, Created
<1>2. GwRowsTyped' /\ AsksTyped' /\ CodesTyped'
  BY <1>1 DEF GwRowsTyped, AsksTyped, CodesTyped
<1>3. OnlyCreatedKnown'
  BY <1>1 DEF OnlyCreatedKnown, Created
<1>4. /\ \A h \in Gateways : \A n : Good(h, n) => Good(h, n)' \/ (h = g /\ s # "paired")
      /\ \A a \in gwAsks : a.of \in Gateways
  BY <1>1 DEF Good, Stands, GwRowsTyped, AsksTyped
<1>5. s # "paired" => \/ g \in gwUndone
                      \/ gwCodes.of # g /\ \A a \in gwAsks : a.of # g
  BY DEF ConfirmAlone
<1>6. s # "paired" => gwLeft \/ gwForm.codes = NoCodes
  BY DEF ConfirmAlone, FormIsLast, CreateOpen
<1>7. AsksAreLast'
  BY <1>4, <1>5 DEF AsksAreLast
<1>8. FormIsLast'
  BY <1>4, <1>6 DEF FormIsLast, CreateOpen, OnlyCreatedKnown, Created
<1>9. ShownIsLast'
  BY <1>4, <1>5 DEF ShownIsLast, OnlyCreatedKnown, Created
<1> QED
  BY <1>2, <1>3, <1>7, <1>8, <1>9

(***************************************************************************)
(* A recreation is asked for: of a gateway the page knows, so that it is   *)
(* created; if another is under way, or the creation shows its codes, the  *)
(* property looks away.                                                    *)
(***************************************************************************)
LEMMA RecreateAskedInv == ASSUME GwInv, NEW g \in Gateways, recreate(g) PROVE GwInv'
<1> USE DEF GwInv
<1>1. PICK n : gwAsks' = gwAsks \cup {[n |-> n, of |-> g, st |-> "sent", gen |-> 0]}
  BY DEF recreate
<1>2. /\ gwBehind' = IF \E a \in gwAsks : a.of = g THEN gwBehind \cup {g} ELSE gwBehind
      /\ gwAction' = (IF gwAction = "regenerate" THEN "none" ELSE gwAction)
      /\ gwLeft' = (gwLeft \/ (CreateOpen /\ gwForm.codes # NoCodes))
      /\ UNCHANGED <<gwServer, gwRows, gwReading, gwCodes, gwForm, gwConfirm, gwUndone>>
  BY DEF recreate, gwLists
<1>3. gwRows[g] # "absent"
  BY DEF recreate, RecreateOffered, GatewayRow, GatewayActions, GwListed
<1>4. Created(g)
  BY <1>3 DEF OnlyCreatedKnown
<1>5. GwRowsTyped' /\ CodesTyped'
  BY <1>2 DEF GwRowsTyped, CodesTyped
<1>6. AsksTyped'
  BY <1>1 DEF AsksTyped
<1>7. OnlyCreatedKnown'
  BY <1>1, <1>2, <1>4 DEF OnlyCreatedKnown, Created
<1>8. AsksAreLast'
  BY <1>1, <1>2 DEF AsksAreLast, Good, Stands
<1>9. FormIsLast'
  <2>1. CreateOpen' = CreateOpen
    BY <1>2 DEF CreateOpen
  <2> QED
    BY <1>2, <2>1 DEF FormIsLast, Good, Stands
<1>10. ShownIsLast'
  BY <1>1, <1>2 DEF ShownIsLast, Good, Stands
<1>11. ConfirmAlone'
  <2>1. gwConfirm.kind = "none"
    BY DEF recreate, RecreateOffered, GwUncovered, ConfirmAlone
  <2> QED
    BY <1>2, <2>1 DEF ConfirmAlone
<1> QED
  BY <1>5, <1>6, <1>7, <1>8, <1>9, <1>10, <1>11

(***************************************************************************)
(* The server issues other codes: those on the page are the last no more,  *)
(* but the answer that replaces them is on its way.                        *)
(***************************************************************************)
LEMMA RecreateServedInv == ASSUME GwInv, NEW a \in gwAsks, RecreateServed(a) PROVE GwInv'
<1> USE DEF GwInv
<1> DEFINE g == a.of
<1>1. g \in Gateways /\ Created(g) /\ gwServer[g].gen \in Nat
  BY DEF AsksTyped, OnlyCreatedKnown, GwRowsTyped
<1> DEFINE n == gwServer[g].gen + 1
           b == [a EXCEPT !.st = "done", !.gen = n]
<1>2. /\ gwServer' = [gwServer EXCEPT ![g] = [st |-> "pending", gen |-> n]]
      /\ gwAsks' = (gwAsks \ {a}) \cup {b}
      /\ UNCHANGED <<gwRows, gwReading, gwCodes, gwForm, gwAction, gwConfirm, gwBehind, gwUndone, gwLeft>>
  BY DEF RecreateServed, gwLists, gwOpen, gwSeen
<1>3. /\ b.of = g /\ b.st = "done" /\ b.gen = n
      /\ b \in [n : {b.n}, of : Gateways, st : {"sent", "done"}, gen : Nat]
  <2>1. a \in [n : {a.n}, of : Gateways, st : {"sent", "done"}, gen : Nat]
    BY DEF AsksTyped
  <2>2. n \in Nat
    BY <1>1
  <2> HIDE DEF n
  <2>3. b.n = a.n /\ b.of = g /\ b.st = "done" /\ b.gen = n
    BY <2>1
  <2>4. b \in [n : {a.n}, of : Gateways, st : {"sent", "done"}, gen : Nat]
    BY <2>1, <2>2
  <2> HIDE DEF b, g
  <2> QED
    BY <2>3, <2>4
<1> HIDE DEF b
<1>4. n \in Nat
  BY <1>1
<1>5. /\ gwServer' \in [Gateways -> ServerGateways]
      /\ gwServer'[g].gen = n /\ gwServer'[g].st = "pending"
      /\ \A h \in Gateways : h # g => gwServer'[h] = gwServer[h]
  BY <1>1, <1>2, <1>4 DEF GwRowsTyped, RowStatuses
<1> HIDE DEF g, n
<1>6. GwRowsTyped' /\ CodesTyped'
  BY <1>2, <1>5 DEF GwRowsTyped, CodesTyped
<1>7. AsksTyped'
  BY <1>1, <1>2, <1>3, <1>4 DEF AsksTyped
<1>8. OnlyCreatedKnown'
  <2>1. \A h \in Gateways : Created(h) => Created(h)'
    BY <1>5 DEF Created
  <2>2. \A c \in gwAsks' : c.of \in Gateways /\ Created(c.of)
    BY <1>1, <1>2, <1>3 DEF AsksTyped, OnlyCreatedKnown
  <2>3. \A h : Created(h) => Created(h)'
    BY <2>1 DEF Created
  <2> QED
    BY <1>2, <2>2, <2>3 DEF OnlyCreatedKnown
<1>9. \A c \in gwAsks : c # a /\ c.of = g => g \in gwBehind
  BY DEF AsksAreLast, g
<1>10. AsksAreLast'
  <2>1. ASSUME NEW c \in gwAsks', NEW d \in gwAsks', c.of = d.of PROVE c = d \/ c.of \in gwBehind
    BY <1>2, <1>3, <1>9, <2>1 DEF AsksAreLast
  <2>2. ASSUME NEW c \in gwAsks', c.st = "done" PROVE Good(c.of, c.gen)' \/ c.of \in gwBehind \cup gwUndone
    BY <1>2, <1>3, <1>5, <1>9, <2>2 DEF AsksAreLast, AsksTyped, Good, Stands
  <2> QED
    BY <1>2, <2>1, <2>2 DEF AsksAreLast
<1>11. FormIsLast'
  <2>1. CreateOpen' = CreateOpen
    BY <1>2 DEF CreateOpen
  <2>2. ASSUME ~gwLeft, gwForm.codes # NoCodes
        PROVE  gwForm.codes.of # g /\ gwForm.codes.of \in Gateways
    BY <2>2 DEF FormIsLast, OnlyCreatedKnown, Created, g
  <2> QED
    BY <1>2, <1>3, <1>5, <2>1, <2>2 DEF FormIsLast, Good, Stands
<1>12. ShownIsLast'
  <2>1. gwCodes # NoCodes => gwCodes.of \in Gateways
    BY DEF OnlyCreatedKnown, Created
  <2>2. \A h : (\E c \in gwAsks : c.of = h /\ c.st = "done") => \E c \in gwAsks' : c.of = h /\ c.st = "done"
    BY <1>2, <1>3 DEF g
  <2>3. \E c \in gwAsks' : c.of = g /\ c.st = "done"
    BY <1>2, <1>3
  <2> QED
    BY <1>2, <1>5, <2>1, <2>2, <2>3 DEF ShownIsLast, Good, Stands
<1>13. ConfirmAlone'
  BY <1>2, <1>3 DEF ConfirmAlone, g
<1> QED
  BY <1>6, <1>7, <1>8, <1>10, <1>11, <1>12, <1>13

(***************************************************************************)
(* A recreation ends: its codes are shown, or lost.                        *)
(***************************************************************************)
LEMMA RecreateAnswersInv == ASSUME GwInv, NEW a \in gwAsks, RecreateAnswers(a) PROVE GwInv'
<1> USE DEF GwInv
<1> DEFINE g == a.of
           s == IF gwRows[g] = "absent" THEN "absent" ELSE "pending"
<1>1. /\ a.st = "done" /\ gwCodes' = [of |-> g, gen |-> a.gen] /\ gwAsks' = gwAsks \ {a}
      /\ SetGateways([gwRows EXCEPT ![g] = s])
      /\ UNCHANGED <<gwServer, gwForm, gwAction, gwConfirm, gwBehind, gwUndone, gwLeft>>
  BY DEF RecreateAnswers, RecreateEnds, gwOpen, gwSeen
<1>2. g \in Gateways /\ Created(g) /\ a.gen \in Nat
  BY DEF AsksTyped, OnlyCreatedKnown
<1>3. /\ gwRows' \in [Gateways -> RowStatuses]
      /\ gwReading' \in Readings
      /\ \A h \in Gateways : gwRows'[h] # "absent" \/ gwReading'.rows[h] # "absent" => Created(h)
  <2>1. s \in RowStatuses
    BY DEF RowStatuses
  <2> QED
    BY <1>1, <1>2, <2>1, RowsSet
<1> HIDE DEF s
<1>4. GwRowsTyped' /\ AsksTyped' /\ CodesTyped'
  BY <1>1, <1>2, <1>3 DEF GwRowsTyped, AsksTyped, CodesTyped
<1>5. OnlyCreatedKnown'
  BY <1>1, <1>2, <1>3 DEF OnlyCreatedKnown, Created
<1>6. AsksAreLast' /\ FormIsLast'
  BY <1>1 DEF AsksAreLast, FormIsLast, CreateOpen, Good, Stands
<1>7. ShownIsLast'
  <2>1. Good(g, a.gen) \/ g \in gwBehind \cup gwUndone
    BY <1>1 DEF AsksAreLast
  <2> QED
    BY <1>1, <2>1 DEF ShownIsLast, Good, Stands
<1>8. ConfirmAlone'
  BY <1>1 DEF ConfirmAlone
<1> QED
  BY <1>4, <1>5, <1>6, <1>7, <1>8

LEMMA RecreateFailsInv == ASSUME GwInv, NEW a \in gwAsks, RecreateFails(a) PROVE GwInv'
<1> USE DEF GwInv
<1>1. /\ gwAsks' = gwAsks \ {a} /\ a.st \in {"sent", "done"}
      /\ gwBehind' = IF a.st = "done" THEN gwBehind \cup {a.of} ELSE gwBehind
      /\ UNCHANGED <<gwServer, gwRows, gwReading, gwCodes, gwForm, gwAction, gwConfirm, gwUndone, gwLeft>>
  BY DEF RecreateFails, RecreateEnds, gwLists, gwOpen
<1>2. GwRowsTyped' /\ AsksTyped' /\ CodesTyped'
  BY <1>1 DEF GwRowsTyped, AsksTyped, CodesTyped
<1>3. OnlyCreatedKnown' /\ AsksAreLast' /\ FormIsLast'
  BY <1>1 DEF OnlyCreatedKnown, Created, AsksAreLast, FormIsLast, CreateOpen, Good, Stands
<1>4. ShownIsLast'
  BY <1>1 DEF ShownIsLast, Good, Stands
<1>5. ConfirmAlone'
  BY <1>1 DEF ConfirmAlone
<1> QED
  BY <1>2, <1>3, <1>4, <1>5

LEMMA CodesClosedInv == ASSUME GwInv, CloseCodes PROVE GwInv'
<1> USE DEF GwInv
<1>1. gwCodes' = NoCodes
      /\ UNCHANGED <<gwServer, gwRows, gwReading, gwAsks, gwForm, gwAction, gwConfirm, gwBehind, gwUndone, gwLeft>>
  BY DEF CloseCodes, gwLists, gwOpen, gwSeen
<1>2. NoCodes \in Codes
  BY DEF NoCodes
<1>3. GwRowsTyped' /\ AsksTyped' /\ CodesTyped'
  BY <1>1, <1>2 DEF GwRowsTyped, AsksTyped, CodesTyped
<1>4. ConfirmAlone'
  <2>1. gwConfirm.req # "none" => gwConfirm.of # NoGateway
    BY GatewaysAssumption DEF OnlyCreatedKnown
  <2> QED
    BY <1>1, <2>1 DEF ConfirmAlone, NoCodes
<1> QED
  BY <1>1, <1>3, <1>4 DEF OnlyCreatedKnown, Created, AsksAreLast, FormIsLast, ShownIsLast, CreateOpen,
                          Good, Stands

(***************************************************************************)
(* The form and the address change, and no codes arrive.  What the form    *)
(* loses it may lose; what it keeps, it keeps open, or Back is noted.      *)
(***************************************************************************)
LEMMA FormChanges ==
  ASSUME GwInv, UNCHANGED <<gwServer, gwLists, gwIssue, gwConfirm, gwBehind, gwUndone>>,
         gwForm' \in Forms,
         gwAction' \in {"none", "new", "regenerate"}, gwLeft' \in BOOLEAN, gwLeft => gwLeft',
         gwForm'.codes \in {gwForm.codes, NoCodes},
         gwForm'.req = "done" => gwForm.req = "done" /\ gwForm'.codes = gwForm.codes,
         gwForm'.req # "none" \/ gwForm'.codes # NoCodes => CreateOpen' \/ gwLeft',
         gwConfirm.kind # "none" => gwAction' = "none" /\ ~gwForm'.open
  PROVE  GwInv'
<1> USE DEF GwInv, gwLists, gwIssue
<1>1. GwRowsTyped' /\ AsksTyped' /\ CodesTyped'
  BY DEF GwRowsTyped, AsksTyped, CodesTyped
<1>2. OnlyCreatedKnown'
  BY DEF OnlyCreatedKnown, Created
<1>3. AsksAreLast' /\ ShownIsLast' /\ ConfirmAlone'
  BY DEF AsksAreLast, ShownIsLast, ConfirmAlone, Good, Stands
<1>4. FormIsLast'
  BY DEF FormIsLast, Good, Stands
<1> QED
  BY <1>1, <1>2, <1>3, <1>4

(***************************************************************************)
(* A gateway is created: nothing on the page was of it.                    *)
(***************************************************************************)
LEMMA CreationServedInv == ASSUME GwInv, CreationServed PROVE GwInv'
<1> USE DEF GwInv
<1>1. PICK g \in Gateways :
        /\ gwServer[g].st = "absent"
        /\ gwServer' = [gwServer EXCEPT ![g] = [st |-> "pending", gen |-> 1]]
        /\ gwForm' = [gwForm EXCEPT !.req = "done", !.codes = [of |-> g, gen |-> 1]]
  BY DEF CreationServed
<1>2. gwForm.req = "sent"
      /\ UNCHANGED <<gwRows, gwReading, gwAsks, gwCodes, gwAction, gwConfirm, gwBehind, gwUndone, gwLeft>>
  BY DEF CreationServed, gwLists, gwIssue, gwSeen
<1>3. /\ gwServer' \in [Gateways -> ServerGateways]
      /\ gwServer'[g].gen = 1 /\ gwServer'[g].st = "pending"
      /\ \A h \in Gateways : h # g => gwServer'[h] = gwServer[h]
  BY <1>1 DEF GwRowsTyped, RowStatuses
<1>4. /\ gwForm' \in Forms
      /\ gwForm'.open = gwForm.open /\ gwForm'.req = "done"
      /\ gwForm'.codes = [of |-> g, gen |-> 1]
  BY <1>1 DEF CodesTyped
<1>5. GwRowsTyped' /\ AsksTyped' /\ CodesTyped'
  BY <1>2, <1>3, <1>4 DEF GwRowsTyped, AsksTyped, CodesTyped
<1>6. \A h : Created(h) => Created(h)' /\ h # g /\ gwServer'[h] = gwServer[h]
  BY <1>1, <1>3 DEF Created
<1>7. gwForm'.codes # NoCodes /\ gwForm'.codes.of = g /\ gwForm'.codes.gen = 1
  BY <1>4, GatewaysAssumption DEF NoCodes
<1>8. OnlyCreatedKnown'
  BY <1>2, <1>3, <1>6, <1>7 DEF OnlyCreatedKnown, Created
<1>9. \A a \in gwAsks : a.of # g /\ gwServer'[a.of] = gwServer[a.of]
  BY <1>6 DEF OnlyCreatedKnown
<1>10. AsksAreLast'
  BY <1>2, <1>9 DEF AsksAreLast, Good, Stands
<1>11. FormIsLast'
  BY <1>2, <1>3, <1>4, <1>7, <1>9 DEF FormIsLast, CreateOpen, Good, Stands
<1>12. ShownIsLast'
  BY <1>2, <1>6 DEF ShownIsLast, OnlyCreatedKnown, Good, Stands
<1>13. ConfirmAlone'
  BY <1>2, <1>4 DEF ConfirmAlone
<1> QED
  BY <1>5, <1>8, <1>10, <1>11, <1>12, <1>13

LEMMA CreationAnswersInv == ASSUME GwInv, CreationAnswers PROVE GwInv'
<1> USE DEF GwInv
<1> DEFINE g == gwForm.codes.of
<1>1. /\ gwForm.req = "done" /\ SetGateways([gwRows EXCEPT ![g] = "pending"])
      /\ gwForm' = [gwForm EXCEPT !.req = "none"]
      /\ UNCHANGED <<gwServer, gwAsks, gwCodes, gwAction, gwConfirm, gwBehind, gwUndone, gwLeft>>
  BY DEF CreationAnswers, gwIssue, gwSeen
<1>2. g \in Gateways /\ Created(g)
  BY <1>1 DEF FormIsLast, OnlyCreatedKnown, Created
<1>3. /\ gwRows' \in [Gateways -> RowStatuses]
      /\ gwReading' \in Readings
      /\ \A h \in Gateways : gwRows'[h] # "absent" \/ gwReading'.rows[h] # "absent" => Created(h)
  BY <1>1, <1>2, RowsSet DEF RowStatuses
<1>4. /\ gwForm' \in Forms
      /\ gwForm'.open = gwForm.open /\ gwForm'.req = "none" /\ gwForm'.codes = gwForm.codes
  BY <1>1 DEF CodesTyped
<1>5. GwRowsTyped' /\ AsksTyped' /\ CodesTyped'
  BY <1>1, <1>3, <1>4 DEF GwRowsTyped, AsksTyped, CodesTyped
<1>6. OnlyCreatedKnown'
  BY <1>1, <1>3, <1>4 DEF OnlyCreatedKnown, Created
<1>7. AsksAreLast' /\ ShownIsLast' /\ ConfirmAlone'
  BY <1>1, <1>4 DEF AsksAreLast, ShownIsLast, ConfirmAlone, Good, Stands
<1>8. FormIsLast'
  BY <1>1, <1>4 DEF FormIsLast, CreateOpen, Good, Stands
<1> QED
  BY <1>5, <1>6, <1>7, <1>8

LEMMA GwStepInv == GwInv /\ [GwNext]_gwVars => GwInv'
<1> SUFFICES ASSUME GwInv, [GwNext]_gwVars PROVE GwInv'
  OBVIOUS
<1> USE DEF GwInv
<1>0. /\ gwRows \in [Gateways -> RowStatuses] /\ gwReading \in Readings /\ gwConfirm \in Confirmations
      /\ gwConfirm.kind # "none" \/ gwConfirm.req # "none" => gwConfirm.of \in Gateways
      /\ \A g \in Gateways : gwRows[g] # "absent" \/ gwReading.rows[g] # "absent" => Created(g)
      /\ gwUndone \subseteq Gateways
      /\ UNCHANGED <<gwConfirm, gwCodes, gwAsks, gwUndone, gwForm, gwAction>> => ConfirmAlone'
  BY DEF GwRowsTyped, CodesTyped, OnlyCreatedKnown, ConfirmAlone
<1>1. ASSUME PollTicks \/ refreshGatewayList PROVE GwInv'
  <2>1. PICK by \in {"poll", "hand"} : AskList(by)
    BY <1>1 DEF PollTicks, refreshGatewayList
  <2>2. /\ gwReading' = [NotReading EXCEPT !.by = by]
        /\ UNCHANGED <<gwServer, gwRows, gwAsks, gwCodes, gwForm, gwAction, gwConfirm, gwSeen>>
    BY <2>1 DEF AskList, gwIssue, gwOpen
  <2>3. gwReading' \in Readings /\ \A g \in Gateways : gwReading'.rows[g] = "absent"
    BY <2>2, NotReadingTyped DEF NotReading
  <2> QED
    BY <1>0, <2>2, <2>3, ListChanges DEF gwSeen
<1>2. ASSUME ListAnswers \/ ListFails \/ IgnoreFailed PROVE GwInv'
  <2>1. /\ gwRows' \in {gwRows, gwReading.rows} /\ gwReading' \in {gwReading, NotReading}
        /\ UNCHANGED <<gwServer, gwAsks, gwCodes, gwForm, gwAction, gwConfirm, gwSeen>>
    BY <1>2 DEF ListAnswers, ListFails, IgnoreFailed, gwIssue, gwOpen
  <2>2. gwRows' \in [Gateways -> RowStatuses] /\ gwReading' \in Readings
    BY <1>0, <2>1, NotReadingTyped
  <2>3. \A g \in Gateways : gwRows'[g] # "absent" \/ gwReading'.rows[g] # "absent" => Created(g)
    BY <1>0, <2>1, NotReadingTyped
  <2> QED
    BY <1>0, <2>1, <2>2, <2>3, ListChanges DEF gwSeen
<1>3. ASSUME GwServerReads PROVE GwInv'
  <2>1. /\ gwReading' = [gwReading EXCEPT !.has = TRUE, !.rows = ServerRows]
        /\ UNCHANGED <<gwServer, gwRows, gwAsks, gwCodes, gwForm, gwAction, gwConfirm, gwSeen>>
    BY <1>3 DEF GwServerReads, gwIssue, gwOpen
  <2>2. ServerRows \in [Gateways -> RowStatuses] /\ \A g \in Gateways : ServerRows[g] # "absent" => Created(g)
    BY DEF ServerRows, GwRowsTyped, RowStatuses, Created
  <2>3. gwReading' \in Readings /\ gwReading'.rows = ServerRows
    BY <1>0, <2>1, <2>2
  <2> QED
    BY <1>0, <2>1, <2>2, <2>3, ListChanges DEF gwSeen
<1>4. ASSUME NEW g \in Gateways, AgentPairs(g) PROVE GwInv'
  <2>1. Created(g) /\ gwServer' = [gwServer EXCEPT ![g].st = "paired"]
        /\ UNCHANGED <<gwLists, gwIssue, gwForm, gwAction, gwConfirm, gwSeen>>
    BY <1>4 DEF AgentPairs, Created, gwOpen
  <2>2. "paired" \in RowStatuses \cup {"deleted"}
    BY DEF RowStatuses
  <2> QED
    BY <1>0, <2>1, <2>2, StatusChanges DEF gwIssue, gwSeen
<1>5. ASSUME NEW g \in Gateways, recreate(g) PROVE GwInv'
  BY <1>5, RecreateAskedInv
<1>6. ASSUME NEW a \in gwAsks, RecreateServed(a) \/ RecreateAnswers(a) \/ RecreateFails(a) PROVE GwInv'
  BY <1>6, RecreateServedInv, RecreateAnswersInv, RecreateFailsInv
<1>7. ASSUME OpenForm PROVE GwInv'
  <2>1. /\ \/ gwForm' = [gwForm EXCEPT !.open = TRUE] /\ UNCHANGED <<gwAction, gwLeft>>
           \/ /\ gwAction' \in {"new", "regenerate"} /\ gwForm' = gwForm
              /\ gwLeft' = (gwLeft \/ gwAction = "new")
        /\ gwConfirm.kind = "none"
        /\ UNCHANGED <<gwServer, gwLists, gwIssue, gwConfirm, gwBehind, gwUndone>>
    BY <1>7 DEF OpenForm
  <2>2. /\ gwForm'.req = gwForm.req /\ gwForm'.codes = gwForm.codes
        /\ gwForm' \in Forms
    BY <2>1 DEF CodesTyped
  <2>3. CreateOpen => CreateOpen' \/ gwLeft'
    BY <2>1 DEF CreateOpen, CodesTyped
  <2>4. gwAction' \in {"none", "new", "regenerate"} /\ gwLeft' \in BOOLEAN /\ (gwLeft => gwLeft')
    BY <2>1 DEF CodesTyped
  <2> QED
    BY <2>1, <2>2, <2>3, <2>4, FormChanges DEF FormIsLast
<1>8. ASSUME SubmitCreation \/ CreationFails PROVE GwInv'
  <2>1. /\ \/ gwForm' = [gwForm EXCEPT !.req = "sent"] /\ CreateOpen
           \/ gwForm' = [gwForm EXCEPT !.req = "none", !.codes = NoCodes]
        /\ UNCHANGED <<gwServer, gwLists, gwIssue, gwConfirm, gwBehind, gwUndone, gwAction, gwLeft>>
    BY <1>8 DEF SubmitCreation, CreationFails, gwSeen
  <2>2. /\ gwForm'.open = gwForm.open /\ gwForm'.req \in {"none", "sent"}
        /\ \/ CreateOpen /\ gwForm'.codes = gwForm.codes
           \/ gwForm'.req = "none" /\ gwForm'.codes = NoCodes
        /\ gwForm' \in Forms
    <3>1. NoCodes \in Codes
      BY DEF NoCodes
    <3>2. CASE CreateOpen /\ gwForm' = [gwForm EXCEPT !.req = "sent"]
      BY <3>2 DEF CodesTyped
    <3>3. CASE gwForm' = [gwForm EXCEPT !.req = "none", !.codes = NoCodes]
      BY <3>1, <3>3 DEF CodesTyped
    <3> QED
      BY <2>1, <3>2, <3>3
  <2>3. CreateOpen' = CreateOpen
    BY <2>1, <2>2 DEF CreateOpen
  <2>4. gwAction' \in {"none", "new", "regenerate"} /\ gwLeft' \in BOOLEAN
    BY <2>1 DEF CodesTyped
  <2>5. gwConfirm.kind # "none" => gwAction' = "none" /\ ~gwForm'.open
    BY <2>1, <2>2 DEF ConfirmAlone
  <2> QED
    BY <2>1, <2>2, <2>3, <2>4, <2>5, FormChanges
<1>9. ASSUME CreationServed \/ CreationAnswers \/ CloseCodes PROVE GwInv'
  BY <1>9, CreationServedInv, CreationAnswersInv, CodesClosedInv
<1>10. ASSUME handleOpenChange PROVE GwInv'
  <2>1. /\ gwForm' = NewForm /\ gwAction' = "none"
        /\ UNCHANGED <<gwServer, gwLists, gwIssue, gwConfirm, gwBehind, gwUndone, gwLeft>>
    BY <1>10 DEF handleOpenChange, gwSeen
  <2>2. /\ NewForm.req = "none" /\ NewForm.codes = NoCodes /\ ~NewForm.open
        /\ NewForm \in Forms
    BY DEF NewForm, NoCodes
  <2>3. gwLeft' \in BOOLEAN
    BY <2>1 DEF CodesTyped
  <2> QED
    BY <2>1, <2>2, <2>3, FormChanges
<1>11. ASSUME Back PROVE GwInv'
  <2>1. /\ gwAction # "none" /\ gwAction' = "none" /\ gwLeft' = (gwLeft \/ gwAction = "new")
        /\ UNCHANGED <<gwServer, gwLists, gwIssue, gwForm, gwConfirm, gwBehind, gwUndone>>
    BY <1>11 DEF Back
  <2>2. CreateOpen => CreateOpen' \/ gwLeft'
    BY <2>1 DEF CreateOpen, CodesTyped
  <2>3. /\ gwLeft' \in BOOLEAN
        /\ gwForm' \in Forms
    BY <2>1 DEF CodesTyped
  <2> QED
    BY <2>1, <2>2, <2>3, FormChanges DEF FormIsLast, ConfirmAlone
<1>12. ASSUME \/ \E g \in Gateways, kind \in {"revoke", "delete"} : OpenConfirm(g, kind)
              \/ CancelConfirm \/ Confirm \/ GwConfirmFails
       PROVE  GwInv'
  <2>1. /\ gwConfirm' \in Confirmations /\ (gwConfirm'.kind # "none" \/ gwConfirm'.req # "none" => gwConfirm'.of \in Gateways)
        /\ UNCHANGED <<gwServer, gwRows, gwReading, gwAsks, gwCodes, gwForm, gwAction, gwBehind, gwLeft>>
    BY <1>0, <1>12 DEF OpenConfirm, CancelConfirm, Confirm, GwConfirmFails, NoConfirm, gwLists, gwIssue, gwSeen
  <2>2. /\ gwUndone \subseteq gwUndone' /\ gwUndone' \subseteq Gateways
        /\ ~Confirm => gwUndone' = gwUndone
    BY <1>0, <1>12 DEF OpenConfirm, CancelConfirm, Confirm, GwConfirmFails, gwSeen
  <2>3. ConfirmAlone'
    <3>1. CASE Confirm
      <4>1. /\ gwConfirm.kind # "none" /\ gwConfirm' = [gwConfirm EXCEPT !.req = "sent"]
            /\ gwUndone' = IF gwConfirm.of \in {a.of : a \in gwAsks} \cup {gwCodes.of}
                           THEN gwUndone \cup {gwConfirm.of} ELSE gwUndone
        BY <3>1 DEF Confirm
      <4>2. gwConfirm'.kind = gwConfirm.kind /\ gwConfirm'.of = gwConfirm.of
        BY <1>0, <4>1
      <4> QED
        BY <2>1, <4>1, <4>2 DEF ConfirmAlone
    <3>2. CASE \E g \in Gateways, kind \in {"revoke", "delete"} : OpenConfirm(g, kind)
      <4>1. gwConfirm'.req = "none" /\ gwAction = "none" /\ ~gwForm.open
        BY <3>2 DEF OpenConfirm, GwUncovered, CreateOpen
      <4> QED
        BY <2>1, <4>1 DEF ConfirmAlone
    <3>3. CASE CancelConfirm \/ GwConfirmFails
      <4>1. gwConfirm'.req = "none" /\ gwConfirm'.kind \in {"none", gwConfirm.kind}
        BY <1>0, <3>3 DEF CancelConfirm, GwConfirmFails, NoConfirm
      <4> QED
        BY <2>1, <4>1 DEF ConfirmAlone
    <3> QED
      BY <1>12, <3>1, <3>2, <3>3
  <2> QED
    BY <1>0, <2>1, <2>2, <2>3, ListChanges
<1>13. ASSUME GwConfirmServed PROVE GwInv'
  <2>1. PICK g \in Gateways : g = gwConfirm.of
    BY <1>0, <1>13 DEF GwConfirmServed
  <2>2. PICK s \in {"revoked", "deleted"} : gwServer' = [gwServer EXCEPT ![g].st = s]
    BY <1>13, <2>1 DEF GwConfirmServed
  <2>3. /\ gwServer[g].st # "absent" /\ gwConfirm.req = "sent" /\ gwConfirm' = [gwConfirm EXCEPT !.req = "done"]
        /\ UNCHANGED <<gwLists, gwIssue, gwForm, gwAction, gwSeen>>
    BY <1>13, <2>1 DEF GwConfirmServed
  <2>4. gwConfirm' \in Confirmations /\ gwConfirm'.of \in Gateways
    BY <1>0, <2>1, <2>3
  <2>6. ConfirmAlone'
    BY <1>0, <2>3 DEF ConfirmAlone
  <2>5. s \in RowStatuses \cup {"deleted"} /\ s # "absent" /\ Created(g)
    BY <2>3 DEF RowStatuses, Created
  <2> QED
    BY <2>1, <2>2, <2>3, <2>4, <2>5, <2>6, StatusChanges
<1>14. ASSUME GwConfirmAnswers PROVE GwInv'
  <2>1. PICK g \in Gateways : g = gwConfirm.of
    BY <1>0, <1>14 DEF GwConfirmAnswers
  <2>2. PICK s \in {"revoked", "absent"} :
          /\ SetGateways([gwRows EXCEPT ![g] = s])
          /\ s = "revoked" => gwRows[g] # "absent"
    BY <1>14, <2>1 DEF GwConfirmAnswers
  <2>3. gwConfirm' = NoConfirm /\ UNCHANGED <<gwServer, gwAsks, gwCodes, gwForm, gwAction, gwSeen>>
    BY <1>14 DEF GwConfirmAnswers, gwIssue
  <2>4. gwConfirm' \in Confirmations /\ gwConfirm'.kind = "none" /\ gwConfirm'.req = "none"
    BY <2>3 DEF NoConfirm
  <2>5. s \in RowStatuses /\ (s # "absent" => Created(g))
    BY <1>0, <2>2 DEF RowStatuses
  <2>6. /\ gwRows' \in [Gateways -> RowStatuses] /\ gwReading' \in Readings
        /\ \A h \in Gateways : gwRows'[h] # "absent" \/ gwReading'.rows[h] # "absent" => Created(h)
    BY <2>2, <2>5, RowsSet
  <2>7. ConfirmAlone'
    BY <2>3, <2>4 DEF ConfirmAlone
  <2> QED
    BY <1>0, <2>3, <2>4, <2>6, <2>7, ListChanges DEF gwSeen
<1>15. ASSUME UNCHANGED gwVars PROVE GwInv'
  BY <1>0, <1>15, ListChanges DEF gwVars, gwLists, gwIssue, gwOpen, gwSeen
<1> QED
  BY <1>1, <1>2, <1>3, <1>4, <1>5, <1>6, <1>7, <1>8, <1>9, <1>10, <1>11, <1>12, <1>13, <1>14, <1>15
  DEF GwNext

-----------------------------------------------------------------------------
LEMMA GwInvCodesWork == GwInv => CodesShownWork
<1> SUFFICES ASSUME GwInv PROVE CodesShownWork
  OBVIOUS
<1>1. InHand(gwCodes)
  BY DEF GwInv, ShownIsLast, InHand, GatewayCredentialsPanel, Good
<1>2. ~gwLeft => InHand(gwForm.codes)
  BY DEF GwInv, FormIsLast, InHand, GatewayCredentialsPanel, Good
<1> QED
  BY <1>1, <1>2 DEF CodesShownWork

(***************************************************************************)
(* The gateways page and its codes keep GwInv, for any gateways and any    *)
(* number of issues.                                                       *)
(***************************************************************************)
THEOREM GwInvariance == GwSpec => []GwInv
BY GwInitInv, GwStepInv, PTL DEF GwSpec

(***************************************************************************)
(* The codes a dialog shows are the last the server issued for their       *)
(* gateway, with the exceptions the property names.                        *)
(***************************************************************************)
THEOREM CodesOnThePageWork == GwSpec => []CodesShownWork
BY GwInvariance, GwInvCodesWork, PTL

-----------------------------------------------------------------------------
(***************************************************************************)
(* The gateways page's bound: no more codes are issued than MaxCodes, and  *)
(* none shown that were not issued.                                        *)
(***************************************************************************)
IssuesAreBounded ==
  /\ \A g \in Gateways : gwServer[g].gen <= MaxCodes
  /\ \A a \in gwAsks : a.gen <= MaxCodes
  /\ gwCodes.gen <= MaxCodes /\ gwForm.codes.gen <= MaxCodes
  /\ gwRecreating \in Gateways \cup {NoGateway} /\ gwFailed \in BOOLEAN

LEMMA BoundedAtFirst == GwInit => IssuesAreBounded
<1> SUFFICES ASSUME GwInit PROVE IssuesAreBounded
  OBVIOUS
<1>1. MaxCodes \in Nat /\ 0 <= MaxCodes
  BY GatewaysAssumption
<1>2. \A g \in Gateways : gwServer[g].gen = 0
  BY DEF GwInit
<1> QED
  BY <1>1, <1>2 DEF GwInit, IssuesAreBounded, NoCodes, NewForm

\* Where codes are issued, answered or forgotten.
LEMMA IssuesKeepBound ==
  ASSUME GwInv, IssuesAreBounded,
         (\E a \in gwAsks : RecreateServed(a) \/ RecreateAnswers(a) \/ RecreateFails(a))
           \/ (\E g \in Gateways : recreate(g)) \/ CloseCodes
  PROVE  IssuesAreBounded'
<1>0. MaxCodes \in Nat \ {0} /\ gwServer \in [Gateways -> ServerGateways]
      /\ \A g \in Gateways : gwServer[g].gen \in Nat
  BY GatewaysAssumption DEF GwInv, GwRowsTyped
<1>1. ASSUME NEW a \in gwAsks, RecreateServed(a) PROVE IssuesAreBounded'
  <2>1. PICK g \in Gateways : g = a.of
    BY DEF GwInv, AsksTyped
  <2>2. PICK n \in Nat : n = gwServer[g].gen + 1 /\ n <= MaxCodes
    <3>1. gwServer[g].gen < MaxCodes
      BY <1>1, <2>1 DEF RecreateServed
    <3>2. gwServer[g].gen \in Nat /\ gwServer[g].gen + 1 <= MaxCodes
      BY <1>0, <3>1
    <3> QED
      BY <3>2
  <2>3. /\ gwServer' = [gwServer EXCEPT ![g] = [st |-> "pending", gen |-> n]]
        /\ gwAsks' = (gwAsks \ {a}) \cup {[a EXCEPT !.st = "done", !.gen = n]}
        /\ UNCHANGED <<gwRecreating, gwCodes, gwForm, gwFailed>>
    BY <1>1, <2>1, <2>2 DEF RecreateServed, gwOpen, gwLists
  <2>4. \A h \in Gateways : gwServer'[h].gen <= MaxCodes
    BY <1>0, <2>2, <2>3 DEF IssuesAreBounded
  <2>5. [a EXCEPT !.st = "done", !.gen = n].gen = n
    BY DEF GwInv, AsksTyped
  <2> QED
    BY <2>2, <2>3, <2>4, <2>5 DEF IssuesAreBounded
<1>2. ASSUME NEW a \in gwAsks, RecreateAnswers(a) \/ RecreateFails(a) PROVE IssuesAreBounded'
  <2>1. /\ gwAsks' \subseteq gwAsks /\ gwRecreating' = NoGateway
        /\ gwCodes' = gwCodes \/ gwCodes' = [of |-> a.of, gen |-> a.gen]
        /\ UNCHANGED <<gwServer, gwForm, gwFailed>>
    BY <1>2 DEF RecreateAnswers, RecreateFails, RecreateEnds, gwOpen, gwLists
  <2>2. gwCodes'.gen <= MaxCodes
    BY <2>1 DEF IssuesAreBounded
  <2> QED
    BY <2>1, <2>2 DEF IssuesAreBounded
<1>3. ASSUME NEW g \in Gateways, recreate(g) PROVE IssuesAreBounded'
  <2>1. PICK n : gwAsks' = gwAsks \cup {[n |-> n, of |-> g, st |-> "sent", gen |-> 0]}
    BY <1>3 DEF recreate
  <2>2. gwRecreating' = g /\ UNCHANGED <<gwServer, gwCodes, gwForm, gwFailed>>
    BY <1>3 DEF recreate, gwLists
  <2> QED
    BY <1>0, <2>1, <2>2 DEF IssuesAreBounded
<1>4. CASE CloseCodes
  BY <1>0, <1>4 DEF CloseCodes, NoCodes, IssuesAreBounded, gwOpen, gwLists
<1> QED
  BY <1>1, <1>2, <1>3, <1>4

\* The form of a creation.
LEMMA CreationKeepsBound ==
  ASSUME GwInv, IssuesAreBounded,
         OpenForm \/ SubmitCreation \/ CreationServed \/ CreationAnswers \/ CreationFails \/ handleOpenChange
  PROVE  IssuesAreBounded'
<1>0. MaxCodes \in Nat \ {0} /\ gwServer \in [Gateways -> ServerGateways] /\ gwForm \in Forms
  BY GatewaysAssumption DEF GwInv, GwRowsTyped, CodesTyped
<1>1. UNCHANGED <<gwAsks, gwCodes, gwRecreating, gwFailed>>
  BY DEF OpenForm, SubmitCreation, CreationServed, CreationAnswers, CreationFails, handleOpenChange,
         gwIssue, gwLists
<1>2. CASE CreationServed
  <2>1. PICK g \in Gateways :
          /\ gwServer' = [gwServer EXCEPT ![g] = [st |-> "pending", gen |-> 1]]
          /\ gwForm' = [gwForm EXCEPT !.req = "done", !.codes = [of |-> g, gen |-> 1]]
    BY <1>2 DEF CreationServed
  <2>2. gwForm'.codes.gen = 1
    BY <1>0, <2>1
  <2>3. \A h \in Gateways : gwServer'[h].gen <= MaxCodes
    BY <1>0, <2>1 DEF IssuesAreBounded
  <2> QED
    BY <1>0, <1>1, <2>2, <2>3 DEF IssuesAreBounded
<1>3. CASE ~CreationServed
  <2>1. gwServer' = gwServer
    BY <1>3 DEF OpenForm, SubmitCreation, CreationAnswers, CreationFails, handleOpenChange
  <2>2. gwForm'.codes \in {gwForm.codes, NoCodes}
    <3>1. CASE OpenForm
      BY <1>0, <3>1 DEF OpenForm
    <3>2. CASE SubmitCreation
      BY <1>0, <3>2 DEF SubmitCreation
    <3>3. CASE CreationAnswers
      BY <1>0, <3>3 DEF CreationAnswers
    <3>4. CASE CreationFails
      BY <1>0, <3>4 DEF CreationFails
    <3>5. CASE handleOpenChange
      BY <3>5 DEF handleOpenChange, NewForm
    <3> QED
      BY <1>3, <3>1, <3>2, <3>3, <3>4, <3>5
  <2> QED
    BY <1>0, <1>1, <2>1, <2>2 DEF IssuesAreBounded, NoCodes
<1> QED
  BY <1>2, <1>3

LEMMA RestKeepsBound ==
  ASSUME GwInv, IssuesAreBounded,
         PollTicks \/ refreshGatewayList \/ ListAnswers \/ ListFails \/ IgnoreFailed \/ GwServerReads
           \/ Back \/ CancelConfirm \/ Confirm \/ GwConfirmAnswers \/ GwConfirmFails
           \/ (\E g \in Gateways, kind \in {"revoke", "delete"} : OpenConfirm(g, kind))
           \/ UNCHANGED gwVars
  PROVE  IssuesAreBounded'
<1>1. UNCHANGED <<gwServer, gwAsks, gwCodes, gwRecreating, gwForm>> /\ gwFailed' \in {gwFailed, TRUE, FALSE}
  BY DEF PollTicks, refreshGatewayList, AskList, ListAnswers, ListFails, IgnoreFailed, GwServerReads,
         Back, CancelConfirm, Confirm, GwConfirmAnswers, GwConfirmFails, OpenConfirm,
         gwVars, gwIssue, gwLists, gwOpen
<1> QED
  BY <1>1 DEF IssuesAreBounded

\* An agent pairs, a gateway is revoked or deleted: no codes are issued.
LEMMA StatusKeepsBound ==
  ASSUME GwInv, IssuesAreBounded, (\E g \in Gateways : AgentPairs(g)) \/ GwConfirmServed
  PROVE  IssuesAreBounded'
<1>1. PICK g, s : gwServer' = [gwServer EXCEPT ![g].st = s]
  BY DEF AgentPairs, GwConfirmServed
<1>2. UNCHANGED <<gwAsks, gwCodes, gwRecreating, gwForm, gwFailed>>
  BY DEF AgentPairs, GwConfirmServed, gwIssue, gwLists, gwOpen
<1>3. gwServer \in [Gateways -> ServerGateways]
  BY DEF GwInv, GwRowsTyped
<1>4. \A h \in Gateways : gwServer'[h].gen = gwServer[h].gen
  BY <1>1, <1>3
<1> QED
  BY <1>2, <1>4 DEF IssuesAreBounded

LEMMA BoundIsKept == GwInv /\ IssuesAreBounded /\ [GwNext]_gwVars => IssuesAreBounded'
  BY IssuesKeepBound, CreationKeepsBound, RestKeepsBound, StatusKeepsBound DEF GwNext

LEMMA GwTypes == GwInv /\ IssuesAreBounded => GwTypeOK
<1> SUFFICES ASSUME GwInv, IssuesAreBounded PROVE GwTypeOK
  OBVIOUS
<1>0. MaxCodes \in Nat
  BY GatewaysAssumption
<1>1. gwServer \in [Gateways -> [st : RowStatuses \cup {"deleted"}, gen : 0..MaxCodes]]
  BY <1>0 DEF GwInv, GwRowsTyped, IssuesAreBounded
<1>2. \A a \in gwAsks : a.of \in Gateways /\ a.st \in {"sent", "done"} /\ a.gen \in 0..MaxCodes
  BY <1>0 DEF GwInv, AsksTyped, IssuesAreBounded
<1>3. gwCodes \in [of : Gateways \cup {NoGateway}, gen : 0..MaxCodes]
  BY <1>0 DEF GwInv, CodesTyped, IssuesAreBounded
<1>4. gwForm.codes \in [of : Gateways \cup {NoGateway}, gen : 0..MaxCodes]
  <2>1. gwForm.codes \in [of : Gateways \cup {NoGateway}, gen : Nat]
    BY DEF GwInv, CodesTyped
  <2> QED
    BY <1>0, <2>1 DEF IssuesAreBounded
<1>5. /\ gwRows \in [Gateways -> RowStatuses]
      /\ gwReading \in [by : {"none", "poll", "hand"}, has : BOOLEAN, rows : [Gateways -> RowStatuses]]
  BY DEF GwInv, GwRowsTyped
<1>6. /\ gwForm.req \in {"none", "sent", "done"} /\ gwForm.open \in BOOLEAN
      /\ gwConfirm.req \in {"none", "sent", "done"} /\ gwConfirm.kind \in {"none", "revoke", "delete"}
      /\ gwAction \in {"none", "new", "regenerate"} /\ gwLeft \in BOOLEAN
      /\ gwBehind \subseteq Gateways /\ gwUndone \subseteq Gateways
  BY DEF GwInv, CodesTyped
<1>7. gwRecreating \in Gateways \cup {NoGateway} /\ gwFailed \in BOOLEAN
  BY DEF IssuesAreBounded
<1> QED
  BY <1>1, <1>2, <1>3, <1>4, <1>5, <1>6, <1>7 DEF GwTypeOK

\* The gateways page is typed, and its bound kept, in every reachable state
\* (gateways-view.tsx).
THEOREM GatewaysAreTyped == GwSpec => []GwTypeOK
  BY GwInvariance, BoundedAtFirst, BoundIsKept, GwTypes, PTL DEF GwSpec

-----------------------------------------------------------------------------
(***************************************************************************)
(* The deliveries page.  A row on the page may be older than the server's, *)
(* and so may be any that an answer is about to bring: the invariant says  *)
(* of all of them alike that each was the server's once, and that a row of *)
(* before the owner's action is brought back only over a newer one the     *)
(* page has seen, or while or since the answer of that action was missed.  *)
(***************************************************************************)

\* Only the last request is kept, and it is for the filter of the address.
LiveIsOfFilter == delLive.of \in {"none", delFilter}

\* The detail's first request is that of the open detail.
LoadIsOfDetail == delLoad # Absent => delDetail \in DelJobs

\* A row that an action brings is not the one from before it.
ActedIsNewer ==
  delActing.got \in Ages =>
    delActing.got # 0 /\ delActing.got \leq delServer[delActing.job]

\* The row of a job is on the page, or an answer under way brings it.
Comes(j, age) ==
  \/ delList[j] = age \/ delLive.got[j] = age
  \/ delDetail = j /\ delLoad = age
  \/ delPoll.job = j /\ delPoll.got = age

\* It is not newer than the server's, and if the server has left the first row,
\* then by an action whose answer the page has, waits for, or has lost.
WasServers(j, age) ==
  /\ age \leq delServer[j]
  /\ age = 0 /\ delServer[j] # 0 => delKnown[j] # 0 \/ ActedOn(j) \/ delActLost

RowsWereServers == \A j \in DelJobs, age \in Ages : Comes(j, age) => WasServers(j, age)

DelInv ==
  /\ DelTypeOK /\ LiveIsOfFilter /\ LoadIsOfDetail /\ ActedIsNewer /\ RowsWereServers
  /\ RowsAreOfTheFilter

-----------------------------------------------------------------------------
(***************************************************************************)
(* What the rows' invariant says is kept by every step that lets no row    *)
(* come which did not, moves no row of the server, and forgets no cause.   *)
(***************************************************************************)
LEMMA NoNewRow ==
  ASSUME RowsWereServers, UNCHANGED delServer,
         \A j \in DelJobs, age \in Ages : Comes(j, age)' => Comes(j, age),
         \A j \in DelJobs : /\ delKnown[j] # 0 => delKnown'[j] # 0
                            /\ ActedOn(j) => ActedOn(j)' \/ delKnown'[j] # 0 \/ delActLost'
                            /\ delActLost => delActLost'
  PROVE  RowsWereServers'
BY DEF RowsWereServers, WasServers

(***************************************************************************)
(* The list is replaced by rows that came: the page knows no less.         *)
(***************************************************************************)
LEMMA SetRowsKnows ==
  ASSUME DelTypeOK, NEW rows \in [DelJobs -> Ages \cup {Absent}], SetRows(rows)
  PROVE  /\ delList' = rows /\ delPollsOver' \in BOOLEAN
         /\ delKnown' \in [DelJobs -> Ages]
         /\ \A j \in DelJobs : delKnown[j] # 0 => delKnown'[j] # 0
<1>1. delKnown' = [j \in DelJobs |-> IF rows[j] \in Ages /\ rows[j] > delKnown[j] THEN rows[j] ELSE delKnown[j]]
  BY DEF SetRows
<1>2. \A j \in DelJobs : delKnown[j] \in Ages /\ (rows[j] \in Ages => rows[j] \in 0..2)
  BY DEF DelTypeOK, Ages
<1>3. \A j \in DelJobs : delKnown'[j] \in Ages /\ (delKnown[j] # 0 => delKnown'[j] # 0)
  BY <1>1, <1>2 DEF Ages
<1>4. delPollsOver' \in BOOLEAN
  BY DEF SetRows, DelTypeOK
<1> QED
  BY <1>1, <1>3, <1>4 DEF SetRows

-----------------------------------------------------------------------------
LEMMA DelInitInv == DelInit => DelInv
<1> SUFFICES ASSUME DelInit PROVE DelInv
  OBVIOUS
<1>1. delServer \in [DelJobs -> Ages] /\ delList \in [DelJobs -> Ages \cup {Absent}]
  BY DEF DelInit, Ages, Absent, NoRows
<1>2. DelTypeOK
  <2>1. {delTimer, delSpin, delError, delGone, delPollsOver, delLoadFailed} \subseteq BOOLEAN
    BY DEF DelInit
  <2>2. delKnown \in [DelJobs -> Ages]
    BY DEF DelInit, Ages
  <2> QED
    BY <1>1, <2>1, <2>2 DEF DelInit, DelTypeOK, DelFilters
<1>3. ASSUME NEW j \in DelJobs, NEW age \in Ages, Comes(j, age) PROVE age = delServer[j]
  BY <1>3 DEF DelInit, Comes, Ages, Absent, NoRows, NoDelRequest, Asked, InFlight, Idle
<1>4. RowsWereServers
  BY <1>1, <1>3 DEF RowsWereServers, WasServers, Ages
<1> QED
  BY <1>2, <1>4
  DEF DelInit, DelInv, LiveIsOfFilter, LoadIsOfDetail, ActedIsNewer, RowsAreOfTheFilter, NoDelRequest,
      NotActing, Ages, Absent

(***************************************************************************)
(* Refreshes: sending one, or dropping it, brings no row; its answer       *)
(* replaces the list by the rows it read.                                  *)
(***************************************************************************)
LEMMA RefreshInv ==
  ASSUME DelInv, \/ Refresh \/ TimerFires \/ DelPollTick \/ FiveMinutesPass \/ RefreshFails \/ IgnoreNotice
                 \/ \E f \in DelFilters : ChangeFilter(f)
  PROVE  DelInv'
<1> USE DEF DelInv
<1>1. /\ UNCHANGED <<delServer, delList, delListOf, delKnown, delAction, delDialog>>
      /\ \/ delLive' = delLive \/ delLive' = [of |-> delFilter, got |-> Asked]
         \/ delLive' = NoDelRequest
  BY DEF Refresh, TimerFires, DelPollTick, FiveMinutesPass, RefreshFails, IgnoreNotice, ChangeFilter,
         SendRefresh, delRows, delRefresh
<1>2. RowsWereServers'
  <2>1. ASSUME NEW j \in DelJobs, NEW age \in Ages, Comes(j, age)' PROVE Comes(j, age)
    BY <1>1, <2>1 DEF Comes, delDialog, NoDelRequest, Asked, InFlight, Ages
  <2> QED
    BY <1>1, <2>1, NoNewRow DEF ActedOn, delAction
<1>3. LoadIsOfDetail' /\ ActedIsNewer'
  BY <1>1 DEF LoadIsOfDetail, ActedIsNewer, delAction, delDialog
<1>4. DelTypeOK' /\ LiveIsOfFilter' /\ RowsAreOfTheFilter'
  <2>1. delFilter \in DelFilters
    BY DEF DelTypeOK
  <2>2. CASE Refresh
    BY <1>1, <2>1, <2>2
    DEF Refresh, SendRefresh, DelTypeOK, LiveIsOfFilter, RowsAreOfTheFilter, delNotice, delRows, delAction, delDialog
  <2>3. CASE TimerFires
    BY <1>1, <2>1, <2>3
    DEF TimerFires, SendRefresh, DelTypeOK, LiveIsOfFilter, RowsAreOfTheFilter, delNotice, delRows, delAction, delDialog
  <2>4. CASE DelPollTick
    BY <1>1, <2>1, <2>4
    DEF DelPollTick, SendRefresh, DelTypeOK, LiveIsOfFilter, RowsAreOfTheFilter, delNotice, delRows, delAction, delDialog
  <2>5. CASE FiveMinutesPass
    BY <1>1, <2>1, <2>5
    DEF FiveMinutesPass, DelTypeOK, LiveIsOfFilter, RowsAreOfTheFilter, delRefresh, delNotice, delAction, delDialog
  <2>6. CASE RefreshFails
    BY <1>1, <2>1, <2>6
    DEF RefreshFails, DelTypeOK, LiveIsOfFilter, RowsAreOfTheFilter, NoDelRequest, delRows, delAction, delDialog
  <2>7. CASE IgnoreNotice
    BY <1>1, <2>1, <2>7
    DEF IgnoreNotice, DelTypeOK, LiveIsOfFilter, RowsAreOfTheFilter, delRefresh, delRows, delAction, delDialog
  <2>8. ASSUME NEW f \in DelFilters, ChangeFilter(f) PROVE DelTypeOK' /\ LiveIsOfFilter' /\ RowsAreOfTheFilter'
    BY <1>1, <2>1, <2>8
    DEF ChangeFilter, DelTypeOK, LiveIsOfFilter, RowsAreOfTheFilter, NoDelRequest, delNotice, delRows, delAction, delDialog
  <2> QED
    BY <2>2, <2>3, <2>4, <2>5, <2>6, <2>7, <2>8
<1> QED
  BY <1>2, <1>3, <1>4

LEMMA RefreshAnswersInv ==
  ASSUME DelInv, RefreshAnswers
  PROVE  DelInv'
<1> USE DEF DelInv
<1>1. /\ delLive.of \in DelFilters /\ delLive.of = delFilter
      /\ delLive.got \in [DelJobs -> Ages \cup {Absent}] /\ SetRows(delLive.got)
      /\ delListOf' = delLive.of /\ delLive' = NoDelRequest /\ delSpin' = FALSE
      /\ delGone' = FALSE /\ delError' = FALSE /\ delHeedless' = FALSE
      /\ UNCHANGED <<delServer, delFilter, delTimer, delAction, delDialog>>
  BY DEF RefreshAnswers, DelTypeOK, LiveIsOfFilter, NoDelRequest
<1>2. /\ delList' = delLive.got /\ delPollsOver' \in BOOLEAN /\ delKnown' \in [DelJobs -> Ages]
      /\ \A j \in DelJobs : delKnown[j] # 0 => delKnown'[j] # 0
  BY <1>1, SetRowsKnows
<1>3. RowsWereServers'
  <2>1. ASSUME NEW j \in DelJobs, NEW age \in Ages, Comes(j, age)' PROVE Comes(j, age)
    BY <1>1, <1>2, <2>1 DEF Comes, delDialog, NoDelRequest, Asked, InFlight, Ages
  <2> QED
    BY <1>1, <1>2, <2>1, NoNewRow DEF ActedOn, delAction
<1>4. DelTypeOK'
  BY <1>1, <1>2 DEF DelTypeOK, delAction, delDialog
<1> QED
  BY <1>1, <1>3, <1>4
  DEF LiveIsOfFilter, LoadIsOfDetail, ActedIsNewer, RowsAreOfTheFilter, NoDelRequest, delAction, delDialog

(***************************************************************************)
(* The server moves a row on: whatever the page has was older already, and *)
(* it leaves the first row only for an action whose answer is under way.   *)
(***************************************************************************)
LEMMA ServerMovesInv ==
  ASSUME DelInv, ServerActs \/ \E j \in DelJobs : DeliveryMoves(j)
  PROVE  DelInv'
<1> USE DEF DelInv
<1>1. ASSUME NEW j \in DelJobs, DeliveryMoves(j) PROVE DelInv'
  <2>1. /\ delServer[j] = 1 /\ delServer' = [delServer EXCEPT ![j] = 2]
        /\ UNCHANGED <<delFilter, delRefresh, delNotice, delRows, delAction, delDialog>>
    BY <1>1 DEF DeliveryMoves
  <2>2. /\ delServer' \in [DelJobs -> Ages] /\ delServer'[j] = 2
        /\ \A i \in DelJobs : i # j => delServer'[i] = delServer[i]
    BY <2>1 DEF DelTypeOK, Ages
  <2>3. DelTypeOK'
    BY <2>1, <2>2 DEF DelTypeOK, delRefresh, delNotice, delRows, delAction, delDialog
  <2>4. RowsWereServers'
    <3>1. ASSUME NEW i \in DelJobs, NEW age \in Ages, Comes(i, age)' PROVE WasServers(i, age)'
      <4>1. WasServers(i, age)
        BY <2>1, <3>1 DEF RowsWereServers, Comes, delRefresh, delRows, delDialog
      <4>2. CASE i = j
        BY <2>1, <2>2, <4>1, <4>2 DEF WasServers, ActedOn, Ages, delRows, delAction
      <4>3. CASE i # j
        BY <2>1, <2>2, <4>1, <4>3 DEF WasServers, ActedOn, delRows, delAction
      <4> QED
        BY <4>2, <4>3
    <3> QED
      BY <3>1 DEF RowsWereServers
  <2>5. ActedIsNewer'
    <3>1. delActing.got \in Ages => delActing.job \in DelJobs
      BY DEF DelTypeOK, NotActing, Ages, Absent
    <3> QED
      BY <2>1, <2>2, <3>1 DEF ActedIsNewer, delAction, Ages
  <2> QED
    BY <2>1, <2>3, <2>4, <2>5
    DEF LiveIsOfFilter, LoadIsOfDetail, RowsAreOfTheFilter, delRefresh, delNotice, delRows, delDialog
<1>2. ASSUME ServerActs PROVE DelInv'
  <2> DEFINE j == delActing.job
  <2>1. /\ j \in DelJobs /\ delActing.got = InFlight /\ delServer[j] \in Ages
        /\ delActing \in [job : DelJobs, on : {"queued", "failed"}, got : Ages \cup {InFlight, Lost}]
        /\ UNCHANGED <<delFilter, delRefresh, delNotice, delRows, delActLost, delDialog>>
    BY <1>2 DEF ServerActs, DelTypeOK
  <2>2. CASE /\ delServer[j] \in 0..1 /\ delServer' = [delServer EXCEPT ![j] = IF @ = 0 THEN 1 ELSE 2]
             /\ delActing' = [delActing EXCEPT !.got = delServer'[j]]
    <3>1. /\ delServer' \in [DelJobs -> Ages] /\ delServer'[j] \in {1, 2}
          /\ delServer[j] \leq delServer'[j]
          /\ \A i \in DelJobs : i # j => delServer'[i] = delServer[i]
      BY <2>1, <2>2 DEF DelTypeOK, Ages
    <3>2. delActing'.job = j /\ delActing'.got = delServer'[j] /\ delActing'.got \in Ages
      BY <2>1, <2>2, <3>1 DEF Ages
    <3>3. delActing' \in [job : DelJobs, on : {"queued", "failed"}, got : Ages \cup {InFlight, Lost}]
      BY <2>1, <2>2, <3>1 DEF Ages
    <3>4. DelTypeOK'
      BY <2>1, <3>1, <3>3 DEF DelTypeOK, delRefresh, delNotice, delRows, delDialog
    <3>5. RowsWereServers'
      <4>1. ASSUME NEW i \in DelJobs, NEW age \in Ages, Comes(i, age)' PROVE WasServers(i, age)'
        <5>1. WasServers(i, age)
          BY <2>1, <4>1 DEF RowsWereServers, Comes, delRefresh, delRows, delDialog
        <5>2. CASE i = j
          BY <3>1, <3>2, <5>1, <5>2, <2>1 DEF WasServers, ActedOn, Ages
        <5>3. CASE i # j
          BY <2>1, <3>1, <5>1, <5>3 DEF WasServers, ActedOn, delRows
        <5> QED
          BY <5>2, <5>3
      <4> QED
        BY <4>1 DEF RowsWereServers
    <3>6. ActedIsNewer'
      BY <3>1, <3>2 DEF ActedIsNewer
    <3> QED
      BY <2>1, <3>4, <3>5, <3>6
      DEF LiveIsOfFilter, LoadIsOfDetail, RowsAreOfTheFilter, delRefresh, delNotice, delRows, delDialog
  <2>3. CASE delActing' = [delActing EXCEPT !.got = Lost] /\ UNCHANGED delServer
    <3>1. /\ delActing'.got = Lost
          /\ delActing' \in [job : DelJobs, on : {"queued", "failed"}, got : Ages \cup {InFlight, Lost}]
      BY <2>1, <2>3
    <3>2. DelTypeOK'
      BY <2>1, <2>3, <3>1 DEF DelTypeOK, delRefresh, delNotice, delRows, delDialog
    <3>3. RowsWereServers'
      <4>1. ~\E i \in DelJobs : ActedOn(i)
        BY <2>1 DEF ActedOn, Ages, InFlight
      <4> QED
        BY <2>1, <2>3, <4>1, NoNewRow DEF Comes, delRefresh, delRows, delDialog
    <3> QED
      BY <2>1, <2>3, <3>1, <3>2, <3>3
      DEF LiveIsOfFilter, LoadIsOfDetail, ActedIsNewer, RowsAreOfTheFilter, Ages, Lost,
          delRefresh, delNotice, delRows, delDialog
  <2> QED
    BY <1>2, <2>2, <2>3 DEF ServerActs
<1> QED
  BY <1>1, <1>2

(***************************************************************************)
(* The owner's action on the page: its answer is a newer row, and the page *)
(* remembers that it knows one, or that the answer was lost.               *)
(***************************************************************************)
LEMMA ActInv ==
  ASSUME DelInv, ActAnswered \/ ActFails \/ \E j \in DelJobs : act(j)
  PROVE  DelInv'
<1> USE DEF DelInv
<1>1. ASSUME NEW j \in DelJobs, act(j) PROVE DelInv'
  <2>1. /\ delActing = NotActing
        /\ delActing' = [job |-> j, on |-> DelStatus(delList[j]), got |-> InFlight]
        /\ UNCHANGED <<delServer, delFilter, delRefresh, delNotice, delRows, delActLost, delDialog>>
    BY <1>1 DEF act
  <2>2. DelStatus(delList[j]) \in {"failed", "queued"}
    <3>1. DelShown[j] \in Ages /\ DelStatus(DelShown[j]) \in {"failed", "queued"}
      BY <1>1 DEF act
    <3>2. DelShown[j] = delList[j]
      BY <3>1 DEF DelShown, RowsFor, NoRows, Ages, Absent
    <3> QED
      BY <3>1, <3>2
  <2>3. DelTypeOK'
    BY <2>1, <2>2 DEF DelTypeOK, delRefresh, delNotice, delRows, delDialog
  <2>4. RowsWereServers'
    <3>1. ~\E i \in DelJobs : ActedOn(i)
      BY <2>1 DEF ActedOn, NotActing, Ages, Absent
    <3> QED
      BY <2>1, <3>1, NoNewRow DEF Comes, delRefresh, delRows, delDialog
  <2> QED
    BY <2>1, <2>3, <2>4
    DEF LiveIsOfFilter, LoadIsOfDetail, ActedIsNewer, RowsAreOfTheFilter, Ages, InFlight,
        delRefresh, delNotice, delRows, delDialog
<1>2. ASSUME ActAnswered PROVE DelInv'
  <2> DEFINE j == delActing.job
  <2>1. /\ delActing.got \in Ages /\ delActing.got # 0 /\ j \in DelJobs
        /\ delActing.got \leq delServer[j]
    BY <1>2 DEF ActAnswered, DelTypeOK, NotActing, Ages, Absent, ActedIsNewer
  <2>2. /\ delList' = [delList EXCEPT ![j] = IF @ = Absent THEN Absent ELSE delActing.got]
        /\ delPollsOver' = (delPollsOver /\ hasActiveDeliveries(delList'))
        /\ delKnown' = [delKnown EXCEPT ![j] = IF @ > delActing.got THEN @ ELSE delActing.got]
        /\ delActing' = NotActing
        /\ UNCHANGED <<delServer, delFilter, delRefresh, delNotice, delListOf, delActLost, delDialog>>
    BY <1>2 DEF ActAnswered
  <2>3. /\ delKnown' \in [DelJobs -> Ages] /\ delKnown'[j] # 0
        /\ \A i \in DelJobs : delKnown[i] # 0 => delKnown'[i] # 0
    BY <2>1, <2>2 DEF DelTypeOK, Ages
  <2>4. /\ delList' \in [DelJobs -> Ages \cup {Absent}]
        /\ delList'[j] \in {Absent, delActing.got}
        /\ \A i \in DelJobs : i # j => delList'[i] = delList[i]
    BY <2>1, <2>2 DEF DelTypeOK
  <2>5. delPollsOver' \in BOOLEAN
    BY <2>2 DEF DelTypeOK
  <2>6. DelTypeOK'
    BY <2>2, <2>3, <2>4, <2>5 DEF DelTypeOK, delRefresh, delNotice, delDialog
  <2>7. RowsWereServers'
    <3>1. ASSUME NEW i \in DelJobs, NEW age \in Ages, Comes(i, age)' PROVE WasServers(i, age)'
      <4>1. CASE Comes(i, age)
        BY <2>2, <2>3, <3>1, <4>1 DEF RowsWereServers, WasServers, ActedOn
      <4>2. CASE ~Comes(i, age)
        <5>1. delList'[i] = age /\ delList[i] # age
          BY <2>2, <3>1, <4>2 DEF Comes, delRefresh, delDialog
        <5>2. i = j /\ age = delActing.got
          BY <2>4, <5>1 DEF Ages, Absent
        <5> QED
          BY <2>1, <2>2, <5>2 DEF WasServers
      <4> QED
        BY <4>1, <4>2
    <3> QED
      BY <3>1 DEF RowsWereServers
  <2> QED
    BY <2>2, <2>6, <2>7
    DEF LiveIsOfFilter, LoadIsOfDetail, ActedIsNewer, RowsAreOfTheFilter, NotActing, Ages, Absent,
        delRefresh, delNotice, delDialog
<1>3. ASSUME ActFails PROVE DelInv'
  <2>1. /\ delActLost' = (delActLost \/ delActing.got \in Ages) /\ delActing' = NotActing
        /\ UNCHANGED <<delServer, delFilter, delRefresh, delNotice, delRows, delDialog>>
    BY <1>3 DEF ActFails
  <2>2. delActLost' \in BOOLEAN
    BY <2>1 DEF DelTypeOK
  <2>3. DelTypeOK'
    BY <2>1, <2>2 DEF DelTypeOK, delRefresh, delNotice, delRows, delDialog
  <2>4. RowsWereServers'
    BY <2>1, NoNewRow DEF Comes, ActedOn, delRefresh, delRows, delDialog
  <2> QED
    BY <2>1, <2>3, <2>4
    DEF LiveIsOfFilter, LoadIsOfDetail, ActedIsNewer, RowsAreOfTheFilter, NotActing, Ages, Absent,
        delRefresh, delNotice, delRows, delDialog
<1> QED
  BY <1>1, <1>2, <1>3

(***************************************************************************)
(* The detail: its answers put a row that came into the list.              *)
(***************************************************************************)
LEMMA DetailInv ==
  ASSUME DelInv, \/ DelCloseDetail \/ RetryDetail \/ DetailLoadFails \/ DetailPollTick \/ DetailPollFails
                 \/ \E j \in DelJobs : Track(j)
  PROVE  DelInv'
<1> USE DEF DelInv
<1>1. UNCHANGED <<delServer, delFilter, delRefresh, delNotice, delRows, delAction>>
  BY DEF DelCloseDetail, RetryDetail, DetailLoadFails, DetailPollTick, DetailPollFails, Track
<1>2. \/ UNCHANGED <<delDetail, delLoad>> \/ delLoad' = Absent
      \/ delLoad' = InFlight /\ delDetail' \in DelJobs
  BY DEF DelCloseDetail, RetryDetail, DetailPanel, DetailLoadFails, DetailPollTick, DetailPollFails, Track, DelTypeOK
<1>3. delPoll' = delPoll \/ delPoll'.got \in {InFlight, Absent}
  BY DEF DelCloseDetail, RetryDetail, DetailLoadFails, DetailPollTick, DetailPollFails, Track, Idle
<1>4. /\ delDetail' \in DelJobs \cup {NoDelivery} /\ delLoad' \in Ages \cup {Absent, InFlight}
      /\ delFetched' \in Ages \cup {Absent} /\ delLoadFailed' \in BOOLEAN
  BY DEF DelCloseDetail, RetryDetail, DetailLoadFails, DetailPollTick, DetailPollFails, Track, DelTypeOK
<1>5. delPoll' \in [job : DelJobs, got : Ages \cup {InFlight}] \cup {Idle}
  <2>1. CASE DetailPollTick
    BY <2>1 DEF DetailPollTick, DelTypeOK
  <2> QED
    BY <2>1 DEF DelCloseDetail, RetryDetail, DetailLoadFails, DetailPollFails, Track, DelTypeOK
<1>6. DelTypeOK'
  BY <1>1, <1>4, <1>5 DEF DelTypeOK, delRefresh, delNotice, delRows, delAction
<1>7. RowsWereServers'
  <2>1. ASSUME NEW j \in DelJobs, NEW age \in Ages, Comes(j, age)' PROVE Comes(j, age)
    BY <1>1, <1>2, <1>3, <2>1 DEF Comes, delRefresh, delRows, InFlight, Absent, Ages
  <2> QED
    BY <1>1, <2>1, NoNewRow DEF ActedOn, delRows, delAction
<1> QED
  BY <1>1, <1>2, <1>6, <1>7
  DEF LiveIsOfFilter, LoadIsOfDetail, ActedIsNewer, RowsAreOfTheFilter, delRefresh, delNotice, delRows, delAction

LEMMA JobUpdatedInv ==
  ASSUME DelInv, NEW j \in DelJobs, NEW age \in Ages, Comes(j, age), JobUpdated(j, age),
         UNCHANGED <<delServer, delFilter, delRefresh, delNotice, delListOf, delAction, delDetail>>,
         delLoad' \in {delLoad, Absent}, delPoll' \in {delPoll, Idle},
         delFetched' \in Ages \cup {Absent}, delLoadFailed' \in BOOLEAN
  PROVE  DelInv'
<1> USE DEF DelInv
<1> DEFINE rows == [delList EXCEPT ![j] = age]
<1>1. rows \in [DelJobs -> Ages \cup {Absent}]
  BY DEF DelTypeOK
<1>2. /\ delList' = rows /\ delPollsOver' \in BOOLEAN /\ delKnown' \in [DelJobs -> Ages]
      /\ \A i \in DelJobs : delKnown[i] # 0 => delKnown'[i] # 0
  BY <1>1, SetRowsKnows DEF JobUpdated
<1>3. DelTypeOK'
  BY <1>1, <1>2 DEF DelTypeOK, delRefresh, delNotice, delAction
<1>4. RowsWereServers'
  <2>1. ASSUME NEW i \in DelJobs, NEW a \in Ages, Comes(i, a)' PROVE Comes(i, a)
    <3>1. delList'[i] = a => Comes(i, a)
      BY <1>2 DEF DelTypeOK, Comes
    <3> QED
      BY <2>1, <3>1 DEF Comes, delRefresh, Idle, Absent, Ages
  <2> QED
    BY <1>2, <2>1, NoNewRow DEF ActedOn, delAction
<1> QED
  BY <1>3, <1>4
  DEF LiveIsOfFilter, LoadIsOfDetail, ActedIsNewer, RowsAreOfTheFilter, delRefresh, delNotice, delAction

LEMMA DetailAnswersInv ==
  ASSUME DelInv, DetailLoads \/ DetailPollAnswers
  PROVE  DelInv'
<1> USE DEF DelInv
<1>1. CASE DetailLoads
  <2>1. delLoad \in Ages /\ delDetail \in DelJobs
    BY <1>1 DEF DetailLoads, LoadIsOfDetail, Ages, Absent
  <2>2. Comes(delDetail, delLoad)
    BY DEF Comes
  <2> QED
    BY <1>1, <2>1, <2>2, JobUpdatedInv DEF DetailLoads
<1>2. CASE DetailPollAnswers
  <2>1. delPoll.got \in Ages /\ delPoll.job \in DelJobs
    BY <1>2 DEF DetailPollAnswers, DelTypeOK, Idle, Ages, Absent
  <2>2. Comes(delPoll.job, delPoll.got)
    BY DEF Comes
  <2>3. delFetched' \in Ages \cup {Absent} /\ delLoadFailed' \in BOOLEAN
    BY <1>2, <2>1 DEF DetailPollAnswers, DelTypeOK
  <2> QED
    BY <1>2, <2>1, <2>2, <2>3, JobUpdatedInv DEF DetailPollAnswers
<1> QED
  BY <1>1, <1>2

(***************************************************************************)
(* The server reads its rows for a request: what comes then is its row.    *)
(***************************************************************************)
LEMMA ServerReadsInv ==
  ASSUME DelInv, ServerReads
  PROVE  DelInv'
<1> USE DEF DelInv
<1>1. UNCHANGED <<delServer, delFilter, delTimer, delSpin, delNotice, delRows, delAction, delDetail,
                  delFetched, delLoadFailed>>
  BY DEF ServerReads
<1>2. ASSUME NEW j \in DelJobs, NEW age \in Ages, age = delServer[j] PROVE WasServers(j, age)
  BY <1>2 DEF WasServers, Ages
<1>3. ASSUME delLive.of \in DelFilters, delLive' = [delLive EXCEPT !.got = RowsFor(delLive.of, delServer)],
             UNCHANGED <<delLoad, delPoll>>, delLive # NoDelRequest
      PROVE  DelInv'
  <2>1. delLive \in [of : DelFilters, got : {Asked} \cup [DelJobs -> Ages \cup {Absent}]]
    BY <1>3 DEF DelTypeOK
  <2>2. RowsFor(delLive.of, delServer) \in [DelJobs -> Ages \cup {Absent}]
    BY DEF RowsFor
  <2>3. /\ delLive' \in [of : DelFilters, got : {Asked} \cup [DelJobs -> Ages \cup {Absent}]]
        /\ delLive'.of = delLive.of /\ delLive'.got = RowsFor(delLive.of, delServer)
    BY <1>3, <2>1, <2>2
  <2>4. DelTypeOK'
    BY <1>1, <1>3, <2>3 DEF DelTypeOK, delNotice, delRows, delAction
  <2>5. RowsWereServers'
    <3>1. ASSUME NEW j \in DelJobs, NEW age \in Ages, Comes(j, age)' PROVE WasServers(j, age)
      <4>1. CASE delLive'.got[j] = age
        <5>1. age = delServer[j]
          BY <2>3, <4>1 DEF RowsFor, Ages, Absent
        <5> QED
          BY <1>2, <5>1
      <4>2. CASE delLive'.got[j] # age
        BY <1>1, <1>3, <3>1, <4>2 DEF Comes, RowsWereServers, delRows
      <4> QED
        BY <4>1, <4>2
    <3> QED
      BY <1>1, <3>1 DEF RowsWereServers, WasServers, ActedOn, delRows, delAction
  <2> QED
    BY <1>1, <1>3, <2>3, <2>4, <2>5
    DEF LiveIsOfFilter, LoadIsOfDetail, ActedIsNewer, RowsAreOfTheFilter, delNotice, delRows, delAction
<1>4. ASSUME delLoad = InFlight, delLoad' = delServer[delDetail], UNCHANGED <<delLive, delPoll>> PROVE DelInv'
  <2>1. delDetail \in DelJobs /\ delServer[delDetail] \in Ages
    BY <1>4 DEF LoadIsOfDetail, DelTypeOK, InFlight, Absent
  <2>2. DelTypeOK'
    BY <1>1, <1>4, <2>1 DEF DelTypeOK, delNotice, delRows, delAction
  <2>3. RowsWereServers'
    <3>1. ASSUME NEW j \in DelJobs, NEW age \in Ages, Comes(j, age)' PROVE WasServers(j, age)
      BY <1>1, <1>2, <1>4, <3>1 DEF Comes, RowsWereServers, delRows
    <3> QED
      BY <1>1, <3>1 DEF RowsWereServers, WasServers, ActedOn, delRows, delAction
  <2> QED
    BY <1>1, <1>4, <2>1, <2>2, <2>3
    DEF LiveIsOfFilter, LoadIsOfDetail, ActedIsNewer, RowsAreOfTheFilter, delNotice, delRows, delAction
<1>5. ASSUME delPoll.got = InFlight, delPoll' = [delPoll EXCEPT !.got = delServer[delPoll.job]],
             UNCHANGED <<delLive, delLoad>>
      PROVE  DelInv'
  <2>1. delPoll \in [job : DelJobs, got : Ages \cup {InFlight}]
    BY <1>5 DEF DelTypeOK, Idle, InFlight, Absent
  <2>2. /\ delPoll' \in [job : DelJobs, got : Ages \cup {InFlight}]
        /\ delPoll'.job = delPoll.job /\ delPoll'.got = delServer[delPoll.job]
    BY <1>5, <2>1 DEF DelTypeOK
  <2>3. DelTypeOK'
    BY <1>1, <1>5, <2>2 DEF DelTypeOK, delNotice, delRows, delAction
  <2>4. RowsWereServers'
    <3>1. ASSUME NEW j \in DelJobs, NEW age \in Ages, Comes(j, age)' PROVE WasServers(j, age)
      BY <1>1, <1>2, <1>5, <2>2, <3>1 DEF Comes, RowsWereServers, delRows
    <3> QED
      BY <1>1, <3>1 DEF RowsWereServers, WasServers, ActedOn, delRows, delAction
  <2> QED
    BY <1>1, <1>5, <2>3, <2>4
    DEF LiveIsOfFilter, LoadIsOfDetail, ActedIsNewer, RowsAreOfTheFilter, delNotice, delRows, delAction
<1>6. delLive.of # "none" => delLive.of \in DelFilters /\ delLive # NoDelRequest
  BY DEF DelTypeOK, NoDelRequest
<1> QED
  BY <1>3, <1>4, <1>5, <1>6 DEF ServerReads

LEMMA DelStepInv == DelInv /\ [DelNext]_delVars => DelInv'
<1> SUFFICES ASSUME DelInv, [DelNext]_delVars PROVE DelInv'
  OBVIOUS
<1>1. CASE UNCHANGED delVars
  BY <1>1
  DEF DelInv, DelTypeOK, LiveIsOfFilter, LoadIsOfDetail, ActedIsNewer, RowsWereServers, WasServers, Comes,
      ActedOn, RowsAreOfTheFilter, delVars, delRefresh, delNotice, delRows, delAction, delDialog
<1> QED
  BY <1>1, RefreshInv, RefreshAnswersInv, ServerMovesInv, ActInv, DetailInv, DetailAnswersInv, ServerReadsInv
  DEF DelNext

-----------------------------------------------------------------------------
(***************************************************************************)
(* Every row on the page, or about to come, was the server's, and a row    *)
(* the server has left by the owner's action comes back only for the       *)
(* causes named.                                                           *)
(***************************************************************************)
THEOREM RowsInvariance == DelSpec => []DelInv
BY DelInitInv, DelStepInv, PTL DEF DelSpec

(***************************************************************************)
(* The page is of its filter, or tells that it is not, and its settled     *)
(* rows are the server's, for any number of deliveries.                    *)
(***************************************************************************)
THEOREM DeliveriesAreAlwaysTrue == DelSpec => []DeliveriesAreTrue
<1>1. ASSUME DelInv PROVE SettledRowsAreTrue
  <2>1. SUFFICES ASSUME ~delActLost, NEW j \in DelJobs, delList[j] # Absent, Terminal(delList[j]),
                        delServer[j] # delList[j], ~ActedOn(j)
                 PROVE  delList[j] < delKnown[j]
    BY DEF SettledRowsAreTrue
  <2>2. delList[j] \in 0..2 /\ delServer[j] \in 0..2 /\ delKnown[j] \in 0..2
    BY <1>1, <2>1 DEF DelInv, DelTypeOK, Ages
  <2>3. WasServers(j, delList[j])
    BY <1>1, <2>2 DEF DelInv, RowsWereServers, Comes, Ages
  <2>4. delList[j] # 1
    BY <2>1 DEF Terminal, DelStatus
  <2>5. delList[j] = 0 /\ delServer[j] # 0
    BY <2>1, <2>2, <2>3, <2>4 DEF WasServers
  <2> QED
    BY <2>1, <2>2, <2>3, <2>5 DEF WasServers
<1>2. DelInv => DeliveriesAreTrue
  BY <1>1 DEF DelInv, DeliveriesAreTrue
<1> QED
  BY <1>2, RowsInvariance, PTL

-----------------------------------------------------------------------------
(***************************************************************************)
(* The dialog that links a device.  All the runs of startLink write one    *)
(* phase, and each goes by what it reads of the others': the invariant     *)
(* says what a run that finds the polls cancelled may conclude, and        *)
(* follows a device from the window's outcome to what the owner is told.   *)
(***************************************************************************)

\* Polls are cancelled by what ends the wait, or by a message that says ok.
CancelledIsOver == lnkCancelled => lnkWaiting = NoLink \/ lnkConfirm # {}

\* A run has its device from its press on, and a window from its answer on.
RunsHaveDevices ==
  \A r \in LinkRuns :
    /\ lnkRun[r].at # "unused" => lnkRun[r].of \in LinkDevices \ {NoLink}
    /\ lnkPopup[r] # "none" => lnkRun[r].at # "unused"

\* A window says ok of a device that is linked; what is read after it is
\* linked, unless the message was taken for another device's.
OkIsLinked == \A r \in LinkRuns : lnkPopup[r] = "ok" => lnkRun[r].of \in lnkServer
ConfirmedIsLinked == lnkMixed \/ lnkConfirm \subseteq lnkServer

LinkInv ==
  /\ LinkTypeOK /\ CancelledIsOver /\ RunsHaveDevices /\ OkIsLinked /\ ConfirmedIsLinked
  /\ WaitingIsAttended /\ ToldLinkedIsLinked

-----------------------------------------------------------------------------
LEMMA LinkInitInv == LinkInit => LinkInv
<1> SUFFICES ASSUME LinkInit PROVE LinkInv
  OBVIOUS
<1>1. LinkTypeOK
  BY DEF LinkInit, LinkTypeOK
<1>2. RunsHaveDevices /\ OkIsLinked
  BY DEF LinkInit, RunsHaveDevices, OkIsLinked
<1> QED
  BY <1>1, <1>2
  DEF LinkInit, LinkInv, CancelledIsOver, ConfirmedIsLinked, WaitingIsAttended, ToldLinkedIsLinked

(***************************************************************************)
(* The dialog is opened, closed or reset: it waits for nothing.            *)
(***************************************************************************)
LEMMA ResetInv ==
  ASSUME LinkInv, NEW d \in LinkDevices \cup {NoLink}, ResetLink(d),
         UNCHANGED <<lnkRun, lnkPopup, lnkServer, lnkConfirm, lnkTold, lnkSeen>>
  PROVE  LinkInv'
BY DEF LinkInv, ResetLink, lnkSeen, LinkTypeOK, CancelledIsOver, RunsHaveDevices, OkIsLinked,
       ConfirmedIsLinked, WaitingIsAttended, ToldLinkedIsLinked

(***************************************************************************)
(* A run moves on, and nothing but where it is changes.                    *)
(***************************************************************************)
LEMMA RunMoves ==
  ASSUME LinkInv, NEW r \in LinkRuns, NEW at \in {"polling", "checking", "ended"}, At(r, at),
         lnkRun[r].at # "unused"
  PROVE  /\ lnkRun' \in [LinkRuns -> [at : {"unused", "asking", "polling", "checking", "ended"},
                                      of : LinkDevices \cup {NoLink}]]
         /\ \A q \in LinkRuns : lnkRun'[q].of = lnkRun[q].of
         /\ \A q \in LinkRuns : q # r => lnkRun'[q].at = lnkRun[q].at
         /\ lnkRun'[r].at = at
BY DEF LinkInv, LinkTypeOK, At

(***************************************************************************)
(* A press of the button.                                                  *)
(***************************************************************************)
LEMMA PressInv ==
  ASSUME LinkInv, NEW r \in LinkRuns, startLink(r)
  PROVE  LinkInv'
<1> USE DEF LinkInv
<1>1. /\ lnkFor \in LinkDevices \ {NoLink} /\ lnkRun[r].at = "unused"
      /\ lnkPhase' = "opening" /\ lnkCancelled' = FALSE /\ lnkWaiting' = lnkFor
      /\ lnkRun' = [lnkRun EXCEPT ![r] = [at |-> "asking", of |-> lnkFor]]
      /\ UNCHANGED <<lnkFor, lnkPopup, lnkServer, lnkConfirm, lnkTold, lnkSeen>>
  BY DEF startLink, LinkTypeOK
<1>2. /\ \A q \in LinkRuns : q # r => lnkRun'[q] = lnkRun[q]
      /\ lnkRun'[r] = [at |-> "asking", of |-> lnkFor]
  BY <1>1 DEF LinkTypeOK
<1>3. LinkTypeOK'
  BY <1>1 DEF LinkTypeOK, lnkSeen
<1>4. lnkPopup[r] = "none"
  BY <1>1 DEF RunsHaveDevices
<1>5. RunsHaveDevices' /\ OkIsLinked'
  BY <1>1, <1>2, <1>4 DEF RunsHaveDevices, OkIsLinked
<1> QED
  BY <1>1, <1>3, <1>5
  DEF CancelledIsOver, ConfirmedIsLinked, WaitingIsAttended, ToldLinkedIsLinked, lnkSeen

(***************************************************************************)
(* A run, from await to await.  The address that comes to a dialog whose   *)
(* polls are cancelled is late, unless a message is being confirmed.       *)
(***************************************************************************)
LEMMA AddressInv ==
  ASSUME LinkInv, NEW r \in LinkRuns, AddressOpens(r)
  PROVE  LinkInv'
<1> USE DEF LinkInv
<1> DEFINE next == IF lnkCancelled THEN "ended" ELSE "polling"
<1>1. /\ lnkRun[r].at = "asking" /\ lnkPhase' = "waiting"
      /\ lnkPopup' = [lnkPopup EXCEPT ![r] = "open"] /\ At(r, next)
      /\ lnkLate' = (lnkLate \/ lnkWaiting # lnkRun[r].of)
      /\ UNCHANGED <<lnkFor, lnkCancelled, lnkWaiting, lnkServer, lnkConfirm, lnkTold, lnkMixed>>
  BY DEF AddressOpens
<1>2. /\ lnkRun' \in [LinkRuns -> [at : {"unused", "asking", "polling", "checking", "ended"},
                                   of : LinkDevices \cup {NoLink}]]
      /\ \A q \in LinkRuns : lnkRun'[q].of = lnkRun[q].of
      /\ \A q \in LinkRuns : q # r => lnkRun'[q].at = lnkRun[q].at
      /\ lnkRun'[r].at = next
  BY <1>1, RunMoves
<1>3. LinkTypeOK'
  <2>1. lnkPopup' \in [LinkRuns -> {"none", "open", "ok", "error", "closed"}]
    BY <1>1 DEF LinkTypeOK
  <2>2. lnkLate' \in BOOLEAN
    BY <1>1 DEF LinkTypeOK
  <2> QED
    BY <1>1, <1>2, <2>1, <2>2 DEF LinkTypeOK
<1>4. /\ lnkPopup'[r] = "open" /\ \A q \in LinkRuns : q # r => lnkPopup'[q] = lnkPopup[q]
  BY <1>1 DEF LinkTypeOK
<1>5. next # "unused"
  OBVIOUS
<1>6. RunsHaveDevices' /\ OkIsLinked'
  BY <1>1, <1>2, <1>4, <1>5 DEF RunsHaveDevices, OkIsLinked
<1>7. CASE lnkCancelled
  <2>1. lnkRun[r].of # NoLink
    BY <1>1 DEF RunsHaveDevices
  <2>2. lnkLate' \/ lnkConfirm' # {}
    BY <1>1, <1>7, <2>1 DEF CancelledIsOver
  <2> QED
    BY <1>1, <1>3, <1>6, <2>2 DEF CancelledIsOver, ConfirmedIsLinked, WaitingIsAttended, ToldLinkedIsLinked
<1>8. CASE ~lnkCancelled
  BY <1>1, <1>2, <1>3, <1>6, <1>8
  DEF CancelledIsOver, ConfirmedIsLinked, WaitingIsAttended, ToldLinkedIsLinked
<1> QED
  BY <1>7, <1>8

LEMMA RunEndsInv ==
  ASSUME LinkInv, NEW r \in LinkRuns,
         AddressBlocked(r) \/ AddressFails(r) \/ DeadlinePasses(r)
  PROVE  LinkInv'
<1> USE DEF LinkInv
<1>1. /\ lnkRun[r].at # "unused" /\ At(r, "ended")
      /\ lnkPhase' \in {"idle", "popup_blocked"} /\ lnkWaiting' = NoLink
      /\ UNCHANGED <<lnkFor, lnkCancelled, lnkPopup, lnkServer, lnkConfirm, lnkTold, lnkSeen>>
  BY DEF AddressBlocked, AddressFails, DeadlinePasses, GiveUp
<1>2. /\ lnkRun' \in [LinkRuns -> [at : {"unused", "asking", "polling", "checking", "ended"},
                                   of : LinkDevices \cup {NoLink}]]
      /\ \A q \in LinkRuns : lnkRun'[q].of = lnkRun[q].of
      /\ \A q \in LinkRuns : q # r => lnkRun'[q].at = lnkRun[q].at
      /\ lnkRun'[r].at = "ended"
  BY <1>1, RunMoves
<1>3. LinkTypeOK'
  BY <1>1, <1>2 DEF LinkTypeOK, lnkSeen
<1>4. RunsHaveDevices' /\ OkIsLinked'
  BY <1>1, <1>2 DEF RunsHaveDevices, OkIsLinked
<1> QED
  BY <1>1, <1>3, <1>4
  DEF CancelledIsOver, ConfirmedIsLinked, WaitingIsAttended, ToldLinkedIsLinked, lnkSeen

LEMMA PollInv ==
  ASSUME LinkInv, NEW r \in LinkRuns, LinkPoll(r) \/ CheckSaysNothing(r) \/ (CheckAnswers(r) /\ lnkCancelled)
  PROVE  LinkInv'
<1> USE DEF LinkInv
<1>1. /\ lnkRun[r].at \in {"polling", "checking"}
      /\ UNCHANGED <<lnkDialog, lnkPopup, lnkServer, lnkConfirm, lnkTold, lnkSeen>>
  BY DEF LinkPoll, CheckSaysNothing, CheckAnswers
<1>2. PICK at \in {"polling", "checking", "ended"} : At(r, at) /\ (at = "ended" => lnkCancelled)
  BY DEF LinkPoll, CheckSaysNothing, CheckAnswers
<1>3. /\ lnkRun' \in [LinkRuns -> [at : {"unused", "asking", "polling", "checking", "ended"},
                                   of : LinkDevices \cup {NoLink}]]
      /\ \A q \in LinkRuns : lnkRun'[q].of = lnkRun[q].of
      /\ \A q \in LinkRuns : q # r => lnkRun'[q].at = lnkRun[q].at
      /\ lnkRun'[r].at = at
  BY <1>1, <1>2, RunMoves
<1>4. LinkTypeOK'
  BY <1>1, <1>3 DEF LinkTypeOK, lnkDialog, lnkSeen
<1>5. RunsHaveDevices' /\ OkIsLinked'
  BY <1>1, <1>3 DEF RunsHaveDevices, OkIsLinked
<1>6. WaitingIsAttended'
  BY <1>1, <1>2, <1>3 DEF WaitingIsAttended, lnkDialog, lnkSeen
<1> QED
  BY <1>1, <1>4, <1>5, <1>6
  DEF CancelledIsOver, ConfirmedIsLinked, ToldLinkedIsLinked, lnkDialog, lnkSeen

(***************************************************************************)
(* What the owner is told: by a poll that read the device, or after a      *)
(* message.                                                                *)
(***************************************************************************)
LEMMA ToldInv ==
  ASSUME LinkInv,
         \/ \E r \in LinkRuns : CheckAnswers(r) /\ ~lnkCancelled
         \/ \E d \in LinkDevices : ConfirmAnswers(d)
  PROVE  LinkInv'
<1> USE DEF LinkInv
<1>1. ASSUME NEW d \in LinkDevices, TellLinked(d), lnkMixed \/ d \in lnkServer,
             UNCHANGED <<lnkPopup, lnkServer, lnkSeen>>, lnkConfirm' \subseteq lnkConfirm,
             lnkRun' \in [LinkRuns -> [at : {"unused", "asking", "polling", "checking", "ended"},
                                       of : LinkDevices \cup {NoLink}]],
             \A q \in LinkRuns : lnkRun'[q].of = lnkRun[q].of,
             \A q \in LinkRuns : lnkRun[q].at # "unused" <=> lnkRun'[q].at # "unused"
      PROVE  LinkInv'
  <2>1. LinkTypeOK'
    BY <1>1 DEF LinkTypeOK, TellLinked, ResetLink, lnkSeen
  <2>2. RunsHaveDevices' /\ OkIsLinked'
    BY <1>1 DEF RunsHaveDevices, OkIsLinked
  <2>3. ConfirmedIsLinked' /\ ToldLinkedIsLinked'
    BY <1>1 DEF ConfirmedIsLinked, ToldLinkedIsLinked, TellLinked, lnkSeen
  <2>4. CancelledIsOver' /\ WaitingIsAttended'
    BY <1>1 DEF CancelledIsOver, WaitingIsAttended, TellLinked, ResetLink
  <2> QED
    BY <2>1, <2>2, <2>3, <2>4
<1>2. ASSUME NEW r \in LinkRuns, CheckAnswers(r), ~lnkCancelled PROVE LinkInv'
  <2>1. /\ lnkRun[r].at = "checking" /\ lnkRun[r].of \in lnkServer /\ TellLinked(lnkRun[r].of)
        /\ At(r, "ended") /\ UNCHANGED <<lnkPopup, lnkServer, lnkConfirm, lnkSeen>>
    BY <1>2 DEF CheckAnswers
  <2>2. lnkRun[r].of \in LinkDevices
    BY <2>1 DEF LinkTypeOK
  <2>3. /\ lnkRun' \in [LinkRuns -> [at : {"unused", "asking", "polling", "checking", "ended"},
                                     of : LinkDevices \cup {NoLink}]]
        /\ \A q \in LinkRuns : lnkRun'[q].of = lnkRun[q].of
        /\ \A q \in LinkRuns : q # r => lnkRun'[q].at = lnkRun[q].at
        /\ lnkRun'[r].at = "ended"
    BY <2>1, RunMoves
  <2> QED
    BY <1>1, <2>1, <2>2, <2>3
<1>3. ASSUME NEW d \in LinkDevices, ConfirmAnswers(d) PROVE LinkInv'
  <2>1. /\ d \in lnkConfirm /\ lnkConfirm' = lnkConfirm \ {d} /\ TellLinked(d)
        /\ UNCHANGED <<lnkRun, lnkPopup, lnkServer, lnkSeen>>
    BY <1>3 DEF ConfirmAnswers
  <2>2. lnkMixed \/ d \in lnkServer
    BY <2>1 DEF ConfirmedIsLinked
  <2> QED
    BY <1>1, <2>1, <2>2 DEF LinkTypeOK
<1> QED
  BY <1>2, <1>3

(***************************************************************************)
(* The other window, and what the page does of its message.                *)
(***************************************************************************)
LEMMA WindowInv ==
  ASSUME LinkInv, NEW r \in LinkRuns,
         Message(r) \/ \E outcome \in {"ok", "error"} : Callback(r, outcome)
  PROVE  LinkInv'
<1> USE DEF LinkInv
<1>1. ASSUME NEW outcome \in {"ok", "error"}, Callback(r, outcome) PROVE LinkInv'
  <2>1. /\ lnkPopup[r] = "open" /\ lnkPopup' = [lnkPopup EXCEPT ![r] = outcome]
        /\ lnkServer' = IF outcome = "ok" THEN lnkServer \cup {lnkRun[r].of} ELSE lnkServer
        /\ UNCHANGED <<lnkDialog, lnkRun, lnkConfirm, lnkTold, lnkSeen>>
    BY <1>1 DEF Callback
  <2>2. lnkRun[r].of \in LinkDevices /\ lnkRun[r].at # "unused"
    BY <2>1 DEF RunsHaveDevices
  <2>3. LinkTypeOK'
    BY <2>1, <2>2 DEF LinkTypeOK, lnkDialog, lnkSeen
  <2>4. lnkPopup'[r] = outcome /\ \A q \in LinkRuns : q # r => lnkPopup'[q] = lnkPopup[q]
    BY <2>1 DEF LinkTypeOK
  <2>5. RunsHaveDevices' /\ OkIsLinked'
    BY <2>1, <2>2, <2>4 DEF RunsHaveDevices, OkIsLinked
  <2> QED
    BY <2>1, <2>3, <2>5
    DEF CancelledIsOver, ConfirmedIsLinked, WaitingIsAttended, ToldLinkedIsLinked, lnkDialog, lnkSeen
<1>2. ASSUME Message(r) PROVE LinkInv'
  <2>1. /\ lnkPopup[r] \in {"ok", "error"} /\ lnkPopup' = [lnkPopup EXCEPT ![r] = "closed"]
        /\ lnkMixed' = (lnkMixed \/ lnkWaiting \notin {NoLink, lnkRun[r].of})
        /\ UNCHANGED <<lnkRun, lnkServer, lnkTold, lnkLate>>
    BY <1>2 DEF Message
  <2>2. \/ lnkWaiting = NoLink /\ UNCHANGED <<lnkDialog, lnkConfirm>>
        \/ /\ lnkWaiting # NoLink /\ lnkPopup[r] = "ok" /\ lnkCancelled' = TRUE
           /\ lnkConfirm' = lnkConfirm \cup {lnkWaiting} /\ UNCHANGED <<lnkFor, lnkPhase, lnkWaiting>>
        \/ /\ lnkCancelled' = TRUE /\ lnkPhase' = "idle" /\ lnkWaiting' = NoLink
           /\ UNCHANGED <<lnkFor, lnkConfirm>>
    BY <1>2 DEF Message
  <2>3. /\ lnkPopup'[r] = "closed" /\ \A q \in LinkRuns : q # r => lnkPopup'[q] = lnkPopup[q]
        /\ lnkPopup' \in [LinkRuns -> {"none", "open", "ok", "error", "closed"}]
    BY <2>1 DEF LinkTypeOK
  <2>4. lnkMixed' \in BOOLEAN
    BY <2>1 DEF LinkTypeOK
  <2>5. LinkTypeOK'
    BY <2>1, <2>2, <2>3, <2>4 DEF LinkTypeOK, lnkDialog
  <2>6. RunsHaveDevices' /\ OkIsLinked'
    BY <2>1, <2>3 DEF RunsHaveDevices, OkIsLinked
  <2>7. CancelledIsOver' /\ WaitingIsAttended'
    BY <2>1, <2>2 DEF CancelledIsOver, WaitingIsAttended, lnkDialog
  <2>8. ConfirmedIsLinked'
    BY <2>1, <2>2 DEF ConfirmedIsLinked, OkIsLinked
  <2>9. ToldLinkedIsLinked'
    BY <2>1 DEF ToldLinkedIsLinked
  <2> QED
    BY <2>5, <2>6, <2>7, <2>8, <2>9
<1> QED
  BY <1>1, <1>2

LEMMA ConfirmFailsInv ==
  ASSUME LinkInv, NEW d \in LinkDevices, ConfirmFails(d)
  PROVE  LinkInv'
BY DEF LinkInv, ConfirmFails, lnkSeen, LinkTypeOK, CancelledIsOver, RunsHaveDevices, OkIsLinked,
       ConfirmedIsLinked, WaitingIsAttended, ToldLinkedIsLinked

LEMMA LinkStepInv == LinkInv /\ [LinkNext]_lnkVars => LinkInv'
<1> SUFFICES ASSUME LinkInv, [LinkNext]_lnkVars PROVE LinkInv'
  OBVIOUS
<1>1. ASSUME \/ \E d \in LinkDevices : OpenLink(d)
             \/ CloseLink \/ ChangeProvider
      PROVE  LinkInv'
  <2>1. lnkFor \in LinkDevices \cup {NoLink}
    BY DEF LinkInv, LinkTypeOK
  <2> QED
    BY <1>1, <2>1, ResetInv DEF OpenLink, CloseLink, ChangeProvider
<1>2. CASE UNCHANGED lnkVars
  BY <1>2
  DEF LinkInv, lnkVars, lnkDialog, lnkSeen, LinkTypeOK, CancelledIsOver, RunsHaveDevices, OkIsLinked,
      ConfirmedIsLinked, WaitingIsAttended, ToldLinkedIsLinked
<1> QED
  BY <1>1, <1>2, PressInv, AddressInv, RunEndsInv, PollInv, ToldInv, WindowInv, ConfirmFailsInv DEF LinkNext

-----------------------------------------------------------------------------
(***************************************************************************)
(* The state of the dialog has its type, its runs their devices, and polls *)
(* are cancelled only where the wait is over.                              *)
(***************************************************************************)
THEOREM LinkDialogInvariance == LinkSpec => []LinkInv
BY LinkInitInv, LinkStepInv, PTL DEF LinkSpec

(***************************************************************************)
(* A dialog that waits is attended, and a device told linked is linked,    *)
(* but for late addresses and mixed messages, for any number of presses    *)
(* and devices.                                                            *)
(***************************************************************************)
THEOREM LinksAreAlwaysAttended == LinkSpec => []LinksAreAttended
<1>1. LinkInv => LinksAreAttended
  BY DEF LinkInv, LinksAreAttended
<1> QED
  BY <1>1, LinkDialogInvariance, PTL

-----------------------------------------------------------------------------
(***************************************************************************)
(* The devices page.  A device only comes further, so that a list or an    *)
(* answer that shows it less far is an older one.  Whatever the server has *)
(* done is known to the page, or read for it, or its answer is on its way, *)
(* or lost.                                                                *)
(***************************************************************************)

\* What the page has of a device, or is being given, is not ahead of the server;
\* and it shows less than it knew if a list took it back.
NoneIsAhead ==
  \A d \in OwnDevices :
    /\ devList[d] <= devKnown[d] /\ devKnown[d] <= devServer[d]
    /\ devRead.got[d] <= devServer[d] /\ devCallback.got[d] <= devServer[d]
    /\ devList[d] < devKnown[d] => d \in devBack

\* A change that is served and neither answered nor missing.
Unanswered(d) ==
  \/ d \in devLost
  \/ devForm.req = "done" /\ devForm.of = d
  \/ devDelete.req = "done" /\ devDelete.of = d
Caught(d, age) == devServer[d] = age \/ devServer[d] = devKnown[d] \/ Unanswered(d)

ChangesAreCaught ==
  /\ devGone \/ \A d \in OwnDevices : Caught(d, devKnown[d])
  /\ devRead.has => \A d \in OwnDevices : Caught(d, devRead.got[d])
  /\ devCallback.has => \A d \in OwnDevices : Caught(d, devCallback.got[d])

\* A form, or a deletion, and of a device that was on the page.
OneFormAtATime ==
  /\ devForm.kind = "closed" \/ devDelete.of = NoDevice
  /\ devForm.req # "none" => devForm.kind # "closed"
  /\ devDelete.req # "none" => devDelete.of # NoDevice
  /\ devForm.kind = "edit" => devForm.of # NoDevice /\ devKnown[devForm.of] >= 1
  /\ devForm.req = "done" =>
       devForm.of # NoDevice /\ devServer[devForm.of] = IF devForm.kind = "create" THEN 1 ELSE 2
  /\ devDelete.req = "done" => devServer[devDelete.of] = 3

DevInv == DevTypeOK /\ NoneIsAhead /\ ChangesAreCaught /\ OneFormAtATime

DevRows == [OwnDevices -> 0..3]
DevReading == [asked : BOOLEAN, got : DevRows, has : BOOLEAN]
DevFormOK == [kind : {"closed", "create", "edit"}, of : OwnDevices \cup {NoDevice},
              req : {"none", "sent", "done", "refused"}]
DevDeleteOK == [of : OwnDevices \cup {NoDevice}, req : {"none", "sent", "done", "refused"}]

\* The type of the page, part by part, before a step and after it.
DevTyped ==
  /\ devServer \in DevRows /\ devList \in DevRows /\ devKnown \in DevRows
  /\ devRead \in DevReading /\ devCallback \in DevReading
  /\ devSpin \in BOOLEAN /\ devGone \in BOOLEAN /\ devError \in BOOLEAN /\ devLink \in BOOLEAN
  /\ devForm \in DevFormOK /\ devDelete \in DevDeleteOK
  /\ devBack \subseteq OwnDevices /\ devLost \subseteq OwnDevices

LEMMA DevTypes == (DevTypeOK <=> DevTyped) /\ (DevTyped' => DevTypeOK')
  BY DEF DevTypeOK, DevTyped, DevRows, DevReading, DevAges, DevFormOK, DevDeleteOK

LEMMA DevReadings ==
  /\ NotRead \in DevReading /\ ~NotRead.has /\ \A d \in OwnDevices : NotRead.got[d] = 0
  /\ AskRead \in DevReading /\ ~AskRead.has /\ \A d \in OwnDevices : AskRead.got[d] = 0
<1>1. [d \in OwnDevices |-> 0] \in DevRows
  BY DEF DevRows
<1>2. NotRead \in DevReading
  BY <1>1 DEF NotRead, DevReading
<1>3. AskRead \in DevReading /\ AskRead.has = NotRead.has /\ AskRead.got = NotRead.got
  BY <1>2 DEF AskRead, DevReading
<1>4. NotRead.has = FALSE /\ \A d \in OwnDevices : NotRead.got[d] = 0
  BY DEF NotRead
<1> QED
  BY <1>2, <1>3, <1>4

LEMMA NewerAge ==
  ASSUME NEW d \in OwnDevices, NEW age \in 0..3, devKnown[d] \in 0..3
  PROVE  Newer(d, age) \in 0..3 /\ devKnown[d] <= Newer(d, age) /\ age <= Newer(d, age)
         /\ Newer(d, age) \in {age, devKnown[d]}
  BY DEF Newer

-----------------------------------------------------------------------------
LEMMA DevInitInv == DevInit => DevInv
<1> SUFFICES ASSUME DevInit PROVE DevInv
  OBVIOUS
<1>1. /\ devServer \in [OwnDevices -> 0..1] /\ devList \in {devServer, [d \in OwnDevices |-> 0]}
      /\ devRead = NotRead /\ devSpin = FALSE /\ devLink \in BOOLEAN
      /\ devCallback \in {NotRead, AskRead}
      /\ devGone = (devList # devServer) /\ devError = FALSE
      /\ devForm = NoForm /\ devDelete = NoDelete
      /\ devKnown = devList /\ devBack = {} /\ devLost = {}
  BY DEF DevInit
<1>2. devServer \in DevRows /\ devList \in DevRows
      /\ \A d \in OwnDevices : devServer[d] \in 0..3 /\ devList[d] \in 0..3 /\ devList[d] <= devServer[d]
  BY <1>1 DEF DevRows
<1>3. DevTypeOK
  <2>1. devGone \in BOOLEAN
    BY <1>1
  <2>2. devForm \in DevFormOK /\ devDelete \in DevDeleteOK
    BY <1>1 DEF NoForm, NoDelete, DevFormOK, DevDeleteOK
  <2> QED
    BY <1>1, <1>2, <2>1, <2>2, DevReadings, DevTypes DEF DevTyped
<1>4. NoneIsAhead
  BY <1>1, <1>2, DevReadings DEF NoneIsAhead
<1>5. ChangesAreCaught
  <2>1. devGone \/ devList = devServer
    BY <1>1
  <2> QED
    BY <1>1, <2>1, DevReadings DEF ChangesAreCaught, Caught
<1>6. OneFormAtATime
  BY <1>1 DEF OneFormAtATime, NoForm, NoDelete
<1> QED
  BY <1>3, <1>4, <1>5, <1>6 DEF DevInv

-----------------------------------------------------------------------------
\* A request that begins, ends or fails, and what the page says of it.
LEMMA AskingKeeps ==
  ASSUME DevInv, devRead' \in {devRead, NotRead, AskRead}, devCallback' \in {devCallback, NotRead},
         devSpin' \in BOOLEAN, devError' \in BOOLEAN, devLink' \in BOOLEAN,
         devGone' \in {devGone, TRUE},
         UNCHANGED <<devServer, devList, devForms, devSeen>>
  PROVE  DevInv'
<1> USE DEF devForms, devSeen
<1>1. DevTypeOK'
  BY DevTypes, DevReadings DEF DevTyped, DevInv
<1>2. NoneIsAhead'
  BY DevTypes, DevReadings DEF DevTyped, DevInv, NoneIsAhead, DevRows
<1>3. ChangesAreCaught'
  <2>1. devGone => devGone'
    BY DevTypes DEF DevTyped, DevInv
  <2> QED
    BY <2>1, DevReadings DEF DevInv, ChangesAreCaught, Caught, Unanswered
<1>4. OneFormAtATime'
  BY DEF DevInv, OneFormAtATime
<1> QED
  BY <1>1, <1>2, <1>3, <1>4 DEF DevInv

LEMMA ServerReadsKeeps == ASSUME DevInv, DevServerReads PROVE DevInv'
<1>0. /\ devRead' \in {devRead, [devRead EXCEPT !.has = TRUE, !.got = devServer]}
      /\ devCallback' \in {devCallback, [devCallback EXCEPT !.has = TRUE, !.got = devServer]}
      /\ UNCHANGED <<devServer, devList, devSpin, devGone, devError, devLink, devForm, devDelete,
                     devKnown, devBack, devLost>>
  BY DEF DevServerReads, devNotice, devForms, devSeen
<1>1. DevTypeOK /\ devServer \in DevRows /\ devRead \in DevReading /\ devCallback \in DevReading
  BY DevTypes DEF DevTyped, DevInv
<1>2. /\ devRead' \in DevReading /\ devCallback' \in DevReading
      /\ devRead' = devRead \/ devRead'.got = devServer
      /\ devCallback' = devCallback \/ devCallback'.got = devServer
  BY <1>0, <1>1 DEF DevReading
<1>3. DevTypeOK'
  BY <1>0, <1>1, <1>2, DevTypes DEF DevTyped
<1>4. NoneIsAhead'
  BY <1>0, <1>1, <1>2 DEF DevInv, NoneIsAhead, DevRows
<1>5. ChangesAreCaught'
  BY <1>0, <1>2 DEF DevInv, ChangesAreCaught, Caught, Unanswered
<1>6. OneFormAtATime'
  BY <1>0 DEF DevInv, OneFormAtATime
<1> QED
  BY <1>3, <1>4, <1>5, <1>6 DEF DevInv

\* A list comes that caught every change.
LEMMA ListKeeps ==
  ASSUME DevInv, NEW rows \in DevRows, SetDevices(rows),
         \A d \in OwnDevices : rows[d] <= devServer[d] /\ Caught(d, rows[d]),
         devRead' \in {devRead, NotRead}, devCallback' \in {devCallback, NotRead},
         devSpin' \in BOOLEAN, devGone' \in BOOLEAN, devError' \in BOOLEAN,
         UNCHANGED <<devServer, devLink, devForms, devLost>>
  PROVE  DevInv'
<1> USE DEF devForms
<1>1. /\ devList' = rows /\ devKnown' = [d \in OwnDevices |-> Newer(d, rows[d])]
      /\ devBack' = {d \in OwnDevices : rows[d] < devKnown[d]}
  BY DEF SetDevices
<1>2. \A d \in OwnDevices :
        /\ rows[d] \in 0..3 /\ devKnown[d] \in 0..3 /\ devServer[d] \in 0..3
        /\ devRead.got[d] <= devServer[d] /\ devCallback.got[d] <= devServer[d]
        /\ devKnown[d] <= devServer[d]
  BY DevTypes DEF DevTyped, DevInv, DevRows, NoneIsAhead
<1>3. \A d \in OwnDevices :
        /\ devKnown'[d] \in 0..3 /\ devKnown[d] <= devKnown'[d] /\ rows[d] <= devKnown'[d]
        /\ devKnown'[d] \in {rows[d], devKnown[d]}
  BY <1>1, <1>2, NewerAge
<1>4. DevTypeOK'
  <2>1. devKnown' \in DevRows
    BY <1>1, <1>3 DEF DevRows
  <2> QED
    BY <1>1, <2>1, DevTypes, DevReadings DEF DevTyped, DevInv
<1>5. NoneIsAhead'
  BY <1>1, <1>2, <1>3, DevReadings DEF NoneIsAhead
<1>6. \A d \in OwnDevices : devServer[d] = devKnown'[d] \/ Unanswered(d)
  BY <1>2, <1>3 DEF Caught
<1>7. ChangesAreCaught'
  BY <1>6, DevReadings DEF ChangesAreCaught, Caught, Unanswered
<1>8. OneFormAtATime'
  <2>1. devForm.kind = "edit" => devKnown'[devForm.of] >= 1
    BY <1>2, <1>3, DevTypes DEF DevTyped, DevInv, OneFormAtATime, DevFormOK
  <2> QED
    BY <2>1 DEF DevInv, OneFormAtATime
<1> QED
  BY <1>4, <1>5, <1>7, <1>8 DEF DevInv

\* The forms, before they are served.
LEMMA DevFormsKeep ==
  ASSUME DevInv, devForm' \in DevFormOK, devDelete' \in DevDeleteOK, OneFormAtATime',
         \A d \in OwnDevices : Unanswered(d) => Unanswered(d)',
         UNCHANGED <<devServer, devList, devReads, devNotice, devKnown, devBack>>,
         devLost' \subseteq OwnDevices
  PROVE  DevInv'
<1> USE DEF devReads, devNotice
<1>1. DevTypeOK'
  BY DevTypes DEF DevTyped, DevInv
<1>2. NoneIsAhead'
  BY DEF DevInv, NoneIsAhead
<1>3. ChangesAreCaught'
  BY DEF DevInv, ChangesAreCaught, Caught
<1> QED
  BY <1>1, <1>2, <1>3 DEF DevInv

\* The server changes a device, which is answered later.
LEMMA ServedKeeps ==
  ASSUME DevInv, NEW d \in OwnDevices, NEW age \in 0..3,
         devServer' = [devServer EXCEPT ![d] = age], devServer[d] <= age,
         devForm' \in DevFormOK, devDelete' \in DevDeleteOK, OneFormAtATime',
         Unanswered(d)',
         \A k \in OwnDevices : Unanswered(k) => Unanswered(k)',
         UNCHANGED <<devList, devReads, devNotice, devSeen>>
  PROVE  DevInv'
<1> USE DEF devReads, devNotice, devSeen
<1>0. \A k \in OwnDevices :
        /\ devList[k] \in 0..3 /\ devServer[k] \in 0..3 /\ devKnown[k] \in 0..3
        /\ devRead.got[k] \in 0..3 /\ devCallback.got[k] \in 0..3
        /\ devServer'[k] = IF k = d THEN age ELSE devServer[k]
  BY DevTypes DEF DevTyped, DevInv, DevRows, DevReading
<1>1. DevTypeOK'
  <2>1. devServer' \in DevRows
    BY DevTypes DEF DevTyped, DevInv, DevRows
  <2> QED
    BY <2>1, DevTypes DEF DevTyped, DevInv
<1>2. NoneIsAhead'
  BY <1>0 DEF DevInv, NoneIsAhead
<1>3. ChangesAreCaught'
  BY <1>0 DEF DevInv, ChangesAreCaught, Caught
<1> QED
  BY <1>1, <1>2, <1>3 DEF DevInv

\* The answer to a change of a device, which the page shows if it had it.
LEMMA AnswerKeeps ==
  ASSUME DevInv, NEW d \in OwnDevices, NEW age \in 0..3, devServer[d] = age,
         SetDevice(d, age)
           \/ (devList[d] = 0 /\ devKnown[d] >= 1
               /\ devKnown' = [devKnown EXCEPT ![d] = Newer(d, age)] /\ UNCHANGED <<devList, devBack>>),
         devForm' \in DevFormOK, devDelete' \in DevDeleteOK, OneFormAtATime',
         \A k \in OwnDevices \ {d} : Unanswered(k) => Unanswered(k)',
         UNCHANGED <<devServer, devReads, devNotice, devLost>>
  PROVE  DevInv'
<1> USE DEF devReads, devNotice
<1>0. \A k \in OwnDevices :
        /\ devList[k] \in 0..3 /\ devServer[k] \in 0..3 /\ devKnown[k] \in 0..3
        /\ devRead.got[k] \in 0..3 /\ devCallback.got[k] \in 0..3
  BY DevTypes DEF DevTyped, DevInv, DevRows, DevReading
<1>1. Newer(d, age) = age
  BY <1>0 DEF Newer, DevInv, NoneIsAhead
<1>2. /\ devKnown' = [devKnown EXCEPT ![d] = age]
      /\ \A k \in OwnDevices : devKnown'[k] = IF k = d THEN age ELSE devKnown[k]
  <2>1. devKnown' = [devKnown EXCEPT ![d] = age]
    BY <1>1 DEF SetDevice
  <2> QED
    BY <2>1, DevTypes DEF DevTyped, DevInv, DevRows
<1>3. \/ devList' = [devList EXCEPT ![d] = age] /\ devBack' = devBack \ {d}
      \/ devList' = devList /\ devBack' = devBack /\ d \in devBack
  BY <1>0 DEF SetDevice, DevInv, NoneIsAhead
<1>4. DevTypeOK'
  <2>1. devKnown' \in DevRows /\ devList' \in DevRows /\ devBack' \subseteq OwnDevices
    BY <1>2, <1>3, DevTypes DEF DevTyped, DevInv, DevRows
  <2> QED
    BY <2>1, DevTypes DEF DevTyped, DevInv
<1>5. NoneIsAhead'
  <2>1. \A k \in OwnDevices : devList'[k] = devList[k] \/ (k = d /\ devList'[k] = age)
    BY <1>3, DevTypes DEF DevTyped, DevInv, DevRows
  <2>2. \A k \in OwnDevices :
          devList[k] <= devKnown[k] /\ devKnown[k] <= devServer[k]
          /\ devRead.got[k] <= devServer[k] /\ devCallback.got[k] <= devServer[k]
          /\ (devList[k] < devKnown[k] => k \in devBack)
    BY DEF DevInv, NoneIsAhead
  <2>3. \A k \in OwnDevices \ {d} : devList'[k] = devList[k] /\ devKnown'[k] = devKnown[k]
                                     /\ (k \in devBack => k \in devBack')
    BY <1>2, <1>3, DevTypes DEF DevInv, DevTyped, DevRows
  <2>4. devKnown'[d] = age /\ devList'[d] <= age /\ (devList'[d] = age \/ d \in devBack')
    <3>1. devList[d] <= age
      BY <1>0, <2>2
    <3> QED
      BY <1>2, <1>3, <2>1, <3>1, DevTypes DEF DevInv, DevTyped, DevRows
  <2>5. \A k \in OwnDevices : devServer'[k] = devServer[k] /\ devRead' = devRead /\ devCallback' = devCallback
    OBVIOUS
  <2>6. ASSUME NEW k \in OwnDevices
        PROVE  /\ devList'[k] <= devKnown'[k] /\ devKnown'[k] <= devServer'[k]
               /\ devList'[k] < devKnown'[k] => k \in devBack'
    <3>1. CASE k = d
      BY <1>0, <2>4, <2>5, <3>1
    <3>2. CASE k # d
      BY <2>2, <2>3, <2>5, <3>2
    <3> QED
      BY <3>1, <3>2
  <2> QED
    BY <2>2, <2>5, <2>6 DEF NoneIsAhead
<1>6. ChangesAreCaught'
  BY <1>2 DEF DevInv, ChangesAreCaught, Caught
<1> QED
  BY <1>4, <1>5, <1>6 DEF DevInv

-----------------------------------------------------------------------------
\* What opens, closes, is sent, is refused, or fails.
LEMMA FormMoves ==
  ASSUME DevInv, OpenCreate \/ CloseForm \/ SubmitForm \/ FormFails
  PROVE  DevInv'
<1>0. devForm \in DevFormOK /\ devDelete \in DevDeleteOK /\ OneFormAtATime
      /\ devLost \subseteq OwnDevices
  BY DevTypes DEF DevTyped, DevInv
<1>1. UNCHANGED <<devServer, devList, devReads, devNotice, devKnown, devBack, devDelete>>
      /\ devDelete' \in DevDeleteOK
  BY <1>0 DEF OpenCreate, CloseForm, SubmitForm, FormFails, devSeen
<1>2. CASE OpenCreate \/ CloseForm \/ SubmitForm
  <2>1. devForm' \in DevFormOK /\ devForm'.req # "done" /\ devForm.req = "none" /\ devLost' = devLost
    BY <1>0, <1>2 DEF OpenCreate, CloseForm, SubmitForm, DevUncovered, NoForm, DevFormOK, devSeen,
                      OneFormAtATime
  <2>2. /\ devForm'.kind = "closed" \/ devDelete.of = NoDevice
        /\ devForm'.req # "none" => devForm'.kind # "closed"
        /\ devForm'.kind = "edit" => devForm.kind = "edit" /\ devForm'.of = devForm.of
    BY <1>0, <1>2 DEF OpenCreate, CloseForm, SubmitForm, DevUncovered, NoForm, DevFormOK,
                      OneFormAtATime
  <2>3. OneFormAtATime'
    BY <1>0, <1>1, <2>1, <2>2 DEF OneFormAtATime
  <2>4. \A d \in OwnDevices : Unanswered(d) => Unanswered(d)'
    BY <1>1, <2>1 DEF Unanswered
  <2> QED
    BY <1>0, <1>1, <2>1, <2>3, <2>4, DevFormsKeep
<1>3. CASE FormFails
  <2>1. PICK of \in OwnDevices \cup {NoDevice} :
          /\ devForm' = [kind |-> devForm.kind, of |-> of, req |-> "none"]
          /\ devForm.kind = "edit" => of = devForm.of
    BY <1>0, <1>3 DEF FormFails, DevFormOK
  <2>2. devForm' \in DevFormOK /\ devForm'.kind = devForm.kind /\ devForm'.req = "none"
        /\ devForm'.of = of
    BY <1>0, <2>1 DEF DevFormOK
  <2>3. devLost' = IF devForm.req = "done" THEN devLost \cup {devForm.of} ELSE devLost
    BY <1>3 DEF FormFails
  <2>4. devLost' \subseteq OwnDevices
    BY <1>0, <2>3 DEF OneFormAtATime, DevFormOK
  <2>5. OneFormAtATime'
    BY <1>0, <1>1, <2>1, <2>2 DEF OneFormAtATime
  <2>6. \A d \in OwnDevices : Unanswered(d) => Unanswered(d)'
    BY <1>1, <2>2, <2>3 DEF Unanswered
  <2> QED
    BY <1>1, <2>2, <2>4, <2>5, <2>6, DevFormsKeep
<1> QED
  BY <1>2, <1>3

LEMMA EditOpens ==
  ASSUME DevInv, NEW d \in OwnDevices, OpenEdit(d)
  PROVE  DevInv'
<1>0. devForm \in DevFormOK /\ devDelete \in DevDeleteOK /\ OneFormAtATime
      /\ devLost \subseteq OwnDevices /\ devList[d] \in 0..3 /\ devKnown[d] \in 0..3
  BY DevTypes DEF DevTyped, DevInv, DevRows
<1>1. /\ devForm' = [kind |-> "edit", of |-> d, req |-> "none"] /\ devForm' \in DevFormOK
      /\ UNCHANGED <<devServer, devList, devReads, devNotice, devDelete, devKnown, devBack, devLost>>
      /\ devForm.kind = "closed" /\ devDelete.of = NoDevice /\ devList[d] \in 1..2
  BY DEF OpenEdit, RowOffers, DevUncovered, Has, devSeen, DevFormOK
<1>2. devKnown[d] >= 1
  BY <1>0, <1>1 DEF DevInv, NoneIsAhead
<1>3. d # NoDevice
  BY DevicesAssumption
<1>4. OneFormAtATime'
  BY <1>0, <1>1, <1>2, <1>3 DEF OneFormAtATime
<1>5. \A k \in OwnDevices : Unanswered(k) => Unanswered(k)'
  BY <1>0, <1>1 DEF Unanswered, OneFormAtATime
<1> QED
  BY <1>0, <1>1, <1>4, <1>5, DevFormsKeep

LEMMA DeleteMoves ==
  ASSUME DevInv,
         (\E d \in OwnDevices : OpenDelete(d)) \/ CancelDelete \/ confirmDelete \/ DevDeleteFails
  PROVE  DevInv'
<1>0. devForm \in DevFormOK /\ devDelete \in DevDeleteOK /\ OneFormAtATime
      /\ devLost \subseteq OwnDevices
  BY DevTypes DEF DevTyped, DevInv
<1>1. UNCHANGED <<devServer, devList, devReads, devNotice, devKnown, devBack, devForm>>
  BY DEF OpenDelete, CancelDelete, confirmDelete, DevDeleteFails, devSeen
<1>2. ASSUME NEW d \in OwnDevices, OpenDelete(d) PROVE DevInv'
  <2>1. devDelete' = [of |-> d, req |-> "none"] /\ devForm.kind = "closed" /\ devDelete.of = NoDevice
        /\ devLost' = devLost /\ devDelete' \in DevDeleteOK
    BY <1>2 DEF OpenDelete, RowOffers, DevUncovered, devSeen, DevDeleteOK
  <2>2. OneFormAtATime'
    BY <1>0, <1>1, <2>1 DEF OneFormAtATime
  <2>3. \A k \in OwnDevices : Unanswered(k) => Unanswered(k)'
    BY <1>0, <1>1, <2>1 DEF Unanswered, OneFormAtATime
  <2> QED
    BY <1>0, <1>1, <2>1, <2>2, <2>3, DevFormsKeep
<1>3. CASE CancelDelete \/ confirmDelete
  <2>1. /\ devDelete' \in DevDeleteOK /\ devDelete'.req # "done" /\ devDelete.req = "none"
        /\ devDelete.of # NoDevice /\ devLost' = devLost
        /\ devDelete'.req # "none" => devDelete'.of # NoDevice
    BY <1>0, <1>3 DEF CancelDelete, confirmDelete, NoDelete, DevDeleteOK, devSeen
  <2>2. OneFormAtATime'
    BY <1>0, <1>1, <2>1 DEF OneFormAtATime
  <2>3. \A k \in OwnDevices : Unanswered(k) => Unanswered(k)'
    BY <1>0, <1>1, <2>1 DEF Unanswered
  <2> QED
    BY <1>0, <1>1, <2>1, <2>2, <2>3, DevFormsKeep
<1>4. CASE DevDeleteFails
  <2>1. /\ devDelete' \in DevDeleteOK /\ devDelete'.req = "none" /\ devDelete'.of = devDelete.of
        /\ devLost' = (IF devDelete.req = "done" THEN devLost \cup {devDelete.of} ELSE devLost)
        /\ devDelete.req # "none"
    BY <1>0, <1>4 DEF DevDeleteFails, DevDeleteOK
  <2>2. devLost' \subseteq OwnDevices
    BY <1>0, <2>1 DEF OneFormAtATime, DevDeleteOK
  <2>3. OneFormAtATime'
    BY <1>0, <1>1, <2>1 DEF OneFormAtATime
  <2>4. \A k \in OwnDevices : Unanswered(k) => Unanswered(k)'
    BY <1>0, <1>1, <2>1 DEF Unanswered
  <2> QED
    BY <1>0, <1>1, <2>1, <2>2, <2>3, <2>4, DevFormsKeep
<1> QED
  BY <1>2, <1>3, <1>4

LEMMA FormServedKeeps == ASSUME DevInv, FormServed PROVE DevInv'
<1>0. devForm \in DevFormOK /\ devDelete \in DevDeleteOK /\ OneFormAtATime /\ devServer \in DevRows
      /\ devLost \subseteq OwnDevices
  BY DevTypes DEF DevTyped, DevInv
<1>1. /\ devForm.req = "sent" /\ devForm.kind # "closed" /\ devDelete.of = NoDevice
      /\ UNCHANGED <<devList, devReads, devNotice, devDelete, devKnown, devBack, devLost>>
      /\ devDelete.req = "none"
  BY <1>0 DEF FormServed, devSeen, OneFormAtATime, DevDeleteOK
<1>2. ASSUME NEW d \in OwnDevices,
             IF devForm.kind = "create" THEN devServer[d] = 0 ELSE d = devForm.of /\ devServer[d] # 3,
             devServer' = [devServer EXCEPT ![d] = IF devForm.kind = "create" THEN 1 ELSE 2],
             devForm' = [devForm EXCEPT !.req = "done", !.of = d]
      PROVE  DevInv'
  <2>1. PICK age \in 0..3 : age = IF devForm.kind = "create" THEN 1 ELSE 2
    OBVIOUS
  <2>2. devServer' = [devServer EXCEPT ![d] = age] /\ devServer'[d] = age
    BY <1>0, <1>2, <2>1 DEF DevRows
  <2>3. devServer[d] <= age
    <3>1. devServer[d] \in 0..3
      BY <1>0 DEF DevRows
    <3> QED
      BY <1>2, <2>1, <3>1
  <2>4. devForm' \in DevFormOK /\ devForm'.req = "done" /\ devForm'.of = d
        /\ devForm'.kind = devForm.kind
    BY <1>0, <1>2 DEF DevFormOK
  <2>5. d # NoDevice
    BY DevicesAssumption
  <2>6. OneFormAtATime'
    BY <1>0, <1>1, <1>2, <2>1, <2>2, <2>4, <2>5 DEF OneFormAtATime
  <2>7. Unanswered(d)' /\ \A k \in OwnDevices : Unanswered(k) => Unanswered(k)'
    BY <1>1, <2>4 DEF Unanswered
  <2> QED
    BY <1>0, <1>1, <2>2, <2>3, <2>4, <2>6, <2>7, ServedKeeps DEF devSeen
<1>3. ASSUME devForm' = [devForm EXCEPT !.req = "refused"], devServer' = devServer
      PROVE  DevInv'
  <2>1. devForm' \in DevFormOK /\ devForm'.req = "refused" /\ devForm'.of = devForm.of
        /\ devForm'.kind = devForm.kind
    BY <1>0, <1>3 DEF DevFormOK
  <2>2. OneFormAtATime'
    BY <1>0, <1>1, <1>3, <2>1 DEF OneFormAtATime
  <2>3. \A k \in OwnDevices : Unanswered(k) => Unanswered(k)'
    BY <1>1, <2>1 DEF Unanswered
  <2> QED
    BY <1>0, <1>1, <1>3, <2>1, <2>2, <2>3, DevFormsKeep
<1> QED
  BY <1>2, <1>3 DEF FormServed

LEMMA DeleteServedKeeps == ASSUME DevInv, DevDeleteServed PROVE DevInv'
<1>0. devForm \in DevFormOK /\ devDelete \in DevDeleteOK /\ OneFormAtATime /\ devServer \in DevRows
      /\ devLost \subseteq OwnDevices
  BY DevTypes DEF DevTyped, DevInv
<1>1. /\ devDelete.req = "sent" /\ devDelete.of \in OwnDevices /\ devForm.kind = "closed"
      /\ UNCHANGED <<devList, devReads, devNotice, devForm, devKnown, devBack, devLost>>
      /\ devForm.req = "none"
  BY <1>0 DEF DevDeleteServed, devSeen, OneFormAtATime, DevDeleteOK
<1>2. PICK d \in OwnDevices : d = devDelete.of
  BY <1>1
<1>3. ASSUME devServer[d] \in {1, 2}, devServer' = [devServer EXCEPT ![d] = 3],
             devDelete' = [devDelete EXCEPT !.req = "done"]
      PROVE  DevInv'
  <2>1. devServer'[d] = 3 /\ devServer[d] <= 3
    BY <1>0, <1>3 DEF DevRows
  <2>2. devDelete' \in DevDeleteOK /\ devDelete'.req = "done" /\ devDelete'.of = d
    BY <1>0, <1>2, <1>3 DEF DevDeleteOK
  <2>3. d # NoDevice
    BY DevicesAssumption
  <2>4. OneFormAtATime'
    BY <1>0, <1>1, <2>1, <2>2, <2>3 DEF OneFormAtATime
  <2>5. Unanswered(d)' /\ \A k \in OwnDevices : Unanswered(k) => Unanswered(k)'
    BY <1>1, <2>2 DEF Unanswered
  <2> QED
    <3>1. PICK age \in 0..3 : age = 3
      OBVIOUS
    <3> QED
      BY <1>0, <1>1, <1>3, <2>1, <2>2, <2>4, <2>5, <3>1, ServedKeeps DEF devSeen
<1>4. ASSUME devDelete' = [devDelete EXCEPT !.req = "refused"], devServer' = devServer
      PROVE  DevInv'
  <2>1. devDelete' \in DevDeleteOK /\ devDelete'.req = "refused" /\ devDelete'.of = devDelete.of
    BY <1>0, <1>4 DEF DevDeleteOK
  <2>2. OneFormAtATime'
    BY <1>0, <1>1, <1>4, <2>1 DEF OneFormAtATime
  <2>3. \A k \in OwnDevices : Unanswered(k) => Unanswered(k)'
    BY <1>1, <2>1 DEF Unanswered
  <2> QED
    BY <1>0, <1>1, <1>4, <2>1, <2>2, <2>3, DevFormsKeep
<1> QED
  BY <1>2, <1>3, <1>4 DEF DevDeleteServed

LEMMA FormAnswersKeeps == ASSUME DevInv, FormAnswers PROVE DevInv'
<1>0. devForm \in DevFormOK /\ devDelete \in DevDeleteOK /\ OneFormAtATime
      /\ devServer \in DevRows /\ devList \in DevRows /\ devKnown \in DevRows
  BY DevTypes DEF DevTyped, DevInv
<1>1. devForm.req = "done" /\ devForm' = NoForm /\ devForm.kind \in {"create", "edit"}
      /\ UNCHANGED <<devServer, devReads, devNotice, devDelete, devLost>>
      /\ devForm' \in DevFormOK /\ devDelete' \in DevDeleteOK
  BY <1>0 DEF FormAnswers, OneFormAtATime, NoForm, DevFormOK
<1>2. PICK d \in OwnDevices : d = devForm.of
  BY <1>0, <1>1 DEF OneFormAtATime, DevFormOK
<1>3. PICK age \in 0..3 : age = IF devForm.kind = "create" THEN 1 ELSE 2
  OBVIOUS
<1>4. devServer[d] = age
  BY <1>0, <1>1, <1>2, <1>3 DEF OneFormAtATime
<1>6. \/ SetDevice(d, age)
      \/ /\ devList[d] = 0 /\ devKnown[d] >= 1
         /\ devKnown' = [devKnown EXCEPT ![d] = Newer(d, age)] /\ UNCHANGED <<devList, devBack>>
  <2>1. CASE devForm.kind = "create" \/ d \in Has(devList)
    BY <1>1, <1>2, <1>3, <2>1 DEF FormAnswers
  <2>2. CASE ~(devForm.kind = "create" \/ d \in Has(devList))
    <3>1. devKnown' = [devKnown EXCEPT ![d] = Newer(d, age)] /\ UNCHANGED <<devList, devBack>>
          /\ age = 2
      BY <1>1, <1>2, <1>3, <2>2 DEF FormAnswers
    <3>2. devKnown[d] >= 1
      BY <1>0, <1>1, <1>2, <2>2 DEF OneFormAtATime
    <3>3. devList[d] \in 0..3 /\ devList[d] \notin 1..2 /\ devKnown[d] \in 0..3
      BY <1>0, <2>2 DEF Has, DevRows
    <3>4. devList[d] <= devKnown[d] /\ devKnown[d] <= 2
      BY <1>4, <3>1 DEF DevInv, NoneIsAhead
    <3> QED
      BY <3>1, <3>2, <3>3, <3>4
  <2> QED
    BY <2>1, <2>2
<1>7. OneFormAtATime'
  BY <1>0, <1>1 DEF OneFormAtATime, NoForm
<1>8. \A k \in OwnDevices \ {d} : Unanswered(k) => Unanswered(k)'
  BY <1>1, <1>2 DEF Unanswered
<1> QED
  BY <1>1, <1>4, <1>6, <1>7, <1>8, AnswerKeeps

LEMMA DeleteAnswersKeeps == ASSUME DevInv, DevDeleteAnswers PROVE DevInv'
<1>0. devForm \in DevFormOK /\ devDelete \in DevDeleteOK /\ OneFormAtATime
  BY DevTypes DEF DevTyped, DevInv
<1>1. devDelete.req = "done" /\ devDelete' = NoDelete /\ SetDevice(devDelete.of, 3)
      /\ UNCHANGED <<devServer, devReads, devNotice, devForm, devLost>>
      /\ devDelete' \in DevDeleteOK
  BY <1>0 DEF DevDeleteAnswers, NoDelete, DevDeleteOK
<1>2. PICK d \in OwnDevices : d = devDelete.of
  BY <1>0, <1>1 DEF OneFormAtATime, DevDeleteOK
<1>3. devServer[d] = 3 /\ SetDevice(d, 3) /\ devForm.kind = "closed"
  BY <1>0, <1>1, <1>2, DevicesAssumption DEF OneFormAtATime
<1>4. devForm.req = "none"
  BY <1>0, <1>3 DEF OneFormAtATime, DevFormOK
<1>5. OneFormAtATime'
  BY <1>0, <1>1, <1>3, <1>4 DEF OneFormAtATime, NoDelete
<1>6. \A k \in OwnDevices \ {d} : Unanswered(k) => Unanswered(k)'
  BY <1>1, <1>2 DEF Unanswered
<1> QED
  BY <1>0, <1>1, <1>3, <1>5, <1>6, AnswerKeeps

-----------------------------------------------------------------------------
LEMMA DevStepInv == DevInv /\ [DevNext]_devVars => DevInv'
<1> SUFFICES ASSUME DevInv, [DevNext]_devVars PROVE DevInv'
  OBVIOUS
<1>0. /\ devRead \in DevReading /\ devCallback \in DevReading
      /\ devSpin \in BOOLEAN /\ devGone \in BOOLEAN /\ devError \in BOOLEAN /\ devLink \in BOOLEAN
  BY DevTypes DEF DevTyped, DevInv
<1>1. CASE UNCHANGED devVars
  BY <1>0, <1>1, AskingKeeps DEF devVars, devReads, devNotice
<1>2. CASE DevRefresh
  BY <1>0, <1>2, AskingKeeps DEF DevRefresh, devNotice
<1>3. CASE DevRefreshFails
  BY <1>0, <1>3, AskingKeeps DEF DevRefreshFails, RefreshEnds
<1>4. CASE CallbackFails
  BY <1>0, <1>4, AskingKeeps DEF CallbackFails
<1>5. CASE DevDismissNotice
  BY <1>0, <1>5, AskingKeeps DEF DevDismissNotice, devReads
<1>6. CASE DevRefreshAnswers
  <2>1. \A d \in OwnDevices : devRead.got[d] <= devServer[d] /\ Caught(d, devRead.got[d])
    BY <1>6 DEF DevRefreshAnswers, DevInv, NoneIsAhead, ChangesAreCaught
  <2>2. devRead.got \in DevRows
    BY <1>0 DEF DevReading
  <2> QED
    BY <1>0, <1>6, <2>1, <2>2, ListKeeps DEF DevRefreshAnswers, RefreshEnds
<1>7. CASE CallbackAnswers
  <2>1. \A d \in OwnDevices : devCallback.got[d] <= devServer[d] /\ Caught(d, devCallback.got[d])
    BY <1>7 DEF CallbackAnswers, DevInv, NoneIsAhead, ChangesAreCaught
  <2>2. devCallback.got \in DevRows
    BY <1>0 DEF DevReading
  <2> QED
    BY <1>0, <1>7, <2>1, <2>2, ListKeeps DEF CallbackAnswers
<1> QED
  BY <1>1, <1>2, <1>3, <1>4, <1>5, <1>6, <1>7, ServerReadsKeeps, FormMoves, EditOpens, DeleteMoves,
     FormServedKeeps, DeleteServedKeeps, FormAnswersKeeps, DeleteAnswersKeeps DEF DevNext

\* The parts of the invariant hold of every reachable state of the devices page,
\* for any devices (devices-view.tsx).
THEOREM DevicesInvariance == DevSpec => []DevInv
  BY DevInitInv, DevStepInv, PTL DEF DevSpec

LEMMA DevInvRows == DevInv => DevTypeOK /\ DevicesAreServers
<1> SUFFICES ASSUME DevInv, ~devGone, devForm.req = "none", devDelete.req = "none",
                    NEW d \in OwnDevices, d \notin devBack, d \notin devLost
             PROVE  devList[d] = devServer[d]
  BY DEF DevicesAreServers, DevInv
<1>1. devServer[d] = devKnown[d]
  BY DEF DevInv, ChangesAreCaught, Caught, Unanswered
<1>2. devList[d] \in 0..3 /\ devKnown[d] \in 0..3 /\ devList[d] <= devKnown[d]
      /\ ~(devList[d] < devKnown[d])
  BY DevTypes DEF DevTyped, DevInv, NoneIsAhead, DevRows
<1> QED
  BY <1>1, <1>2

-----------------------------------------------------------------------------
(***************************************************************************)
(* The forms of a device.  The fields of a form are of one brand as long   *)
(* as it is open, whatever they were opened with; what they send is then a *)
(* device that a form could mean, if its address is allowed.               *)
(***************************************************************************)

\* A device that a form could mean, and the fields of one.
Devices == {d \in {Stored(x) : x \in Drafts} : Coherent(d)}
Meant(d) == d \in Drafts /\ d.model \in FormModels[d.brand] \cup {NoWord}

FormInv ==
  /\ dfOpen \in {"none", "new", "edit"} /\ dfReq \in {"none", "sent", "done"}
  /\ dfStored \in {NoReader} \cup Devices /\ dfRow \in {NoReader} \cup Devices
  /\ Meant(dfNew) /\ Meant(dfEdit)
  /\ dfReq # "none" => dfOpen # "none"
  /\ dfReq = "done" => is_allowed_recipient(Payload(Draft).mail)

LEMMA DevicesAre ==
  ASSUME NEW d \in Devices
  PROVE  /\ Meant([brand |-> d.brand, model |-> d.model, mail |-> d.mail])
         /\ Coherent(d) /\ d.tier \in {"A", "B", "C", "D"}
<1>1. PICK x \in Drafts : d = Stored(x) /\ Coherent(d)
  BY DEF Devices
<1>2. /\ d.brand = x.brand /\ d.model = x.model /\ d.mail = x.mail
      /\ d.tier = _compute_tier(x.brand, x.model)
  BY <1>1 DEF Stored
<1>3. [brand |-> d.brand, model |-> d.model, mail |-> d.mail] = x
  BY <1>2 DEF Drafts
<1>4. d.model \in FormModels[d.brand] \cup {NoWord}
  BY <1>1 DEF Coherent
<1>5. d.tier \in {"A", "B", "C", "D"}
  BY <1>2 DEF _compute_tier
<1> QED
  BY <1>1, <1>2, <1>3, <1>4, <1>5 DEF Meant

LEMMA NewDraftMeant == Meant(NewDraft)
  BY FormAssumption DEF Meant, NewDraft, Drafts, FormMails, Brands

\* What is sent of the fields is one, if its address is allowed.
LEMMA SentIsADevice ==
  ASSUME NEW d, Meant(d), is_allowed_recipient(Payload(d).mail)
  PROVE  Stored(Payload(d)) \in Devices
<1>1. /\ Payload(d) \in Drafts /\ Payload(d).brand = d.brand /\ Payload(d).model = d.model
      /\ Payload(d).mail # NoWord => isKindleDeliveryBrand(d.brand)
  BY DEF Meant, Payload, Drafts, FormMails
<1>2. PICK x \in Drafts : x = Payload(d)
  BY <1>1
<1>3. /\ Stored(x).brand = x.brand /\ Stored(x).model = x.model /\ Stored(x).mail = x.mail
      /\ Stored(x).tier = _compute_tier(x.brand, x.model)
  BY DEF Stored
<1>4. Coherent(Stored(x))
  BY <1>1, <1>2, <1>3 DEF Coherent, Meant
<1> QED
  BY <1>2, <1>4 DEF Devices

-----------------------------------------------------------------------------
LEMMA FormInitInv == FormInit => FormInv
  BY NewDraftMeant DEF FormInit, FormInv, Devices

\* Filling in the fields of the form that is open.
LEMMA FillingKeeps ==
  ASSUME FormInv, Filling, NEW d, Meant(d), SetDraft(d),
         UNCHANGED <<dfStored, dfRow, dfOpen, dfReq>>
  PROVE  FormInv'
<1>1. Meant(dfNew)' /\ Meant(dfEdit)'
  BY DEF FormInv, SetDraft, Meant
<1>2. (dfOpen \in {"none", "new", "edit"} /\ dfReq \in {"none", "sent", "done"})'
      /\ (dfStored \in {NoReader} \cup Devices /\ dfRow \in {NoReader} \cup Devices)'
  BY DEF FormInv, Devices
<1>3. dfReq' = "none"
  BY DEF Filling
<1> QED
  BY <1>1, <1>2, <1>3 DEF FormInv

\* What comes and goes without a change of the open form's fields.
LEMMA RestKeeps ==
  ASSUME FormInv,
         dfStored' \in {NoReader} \cup Devices, dfRow' \in {NoReader} \cup Devices,
         UNCHANGED <<dfForms, dfReq>>
  PROVE  FormInv'
  BY DEF FormInv, dfForms, Devices, Meant, Draft

LEMMA FormStepInv == FormInv /\ [FormNext]_dfVars => FormInv'
<1> SUFFICES ASSUME FormInv, [FormNext]_dfVars PROVE FormInv'
  OBVIOUS
<1>0. Meant(Draft)
  BY DEF FormInv, Draft
<1>1. CASE UNCHANGED dfVars
  BY <1>1, RestKeeps DEF dfVars, FormInv
<1>2. ASSUME NEW b \in Brands, ChooseBrand(b) PROVE FormInv'
  <2>1. Meant(handleBrandChange(Draft, b))
    BY <1>0 DEF Meant, handleBrandChange, Drafts
  <2> QED
    BY <1>2, <2>1, FillingKeeps DEF ChooseBrand
<1>3. ASSUME NEW b \in Brands, NEW m \in FormModels[b], ChooseModel(m) PROVE FormInv'
  <2>1. Meant([Draft EXCEPT !.model = m])
    <3>1. m \in FormModels[Draft.brand] /\ Draft.brand \in Brands
      BY <1>0, <1>3 DEF Meant, Drafts, ChooseModel
    <3>2. m \in UNION {FormModels[k] : k \in Brands}
      BY <3>1
    <3> QED
      BY <1>0, <3>1, <3>2 DEF Meant, Drafts
  <2> QED
    BY <1>3, <2>1, FillingKeeps DEF ChooseModel
<1>4. ASSUME NEW m \in FormMails, TypeMail(m) PROVE FormInv'
  <2>1. Meant([Draft EXCEPT !.mail = m])
    BY <1>0 DEF Meant, Drafts
  <2> QED
    BY <1>4, <2>1, FillingKeeps DEF TypeMail
<1>5. CASE OpenCreating \/ LeaveForm
  <2>1. (Meant(dfNew) /\ Meant(dfEdit))' /\ dfReq' = "none"
    BY <1>5, NewDraftMeant DEF OpenCreating, LeaveForm, Filling, FormInv, Meant
  <2>2. (dfOpen \in {"none", "new", "edit"} /\ dfStored \in {NoReader} \cup Devices
         /\ dfRow \in {NoReader} \cup Devices)'
    BY <1>5 DEF OpenCreating, LeaveForm, FormInv, Devices
  <2> QED
    BY <2>1, <2>2 DEF FormInv
<1>6. CASE OpenEditing
  <2>1. Meant(dfEdit)'
    BY <1>6, DevicesAre DEF OpenEditing, FormInv, Meant
  <2>2. (Meant(dfNew) /\ dfOpen = "edit" /\ dfStored \in {NoReader} \cup Devices
         /\ dfRow \in {NoReader} \cup Devices)' /\ dfReq' = "none"
    BY <1>6 DEF OpenEditing, FormInv, Devices, Meant
  <2> QED
    BY <2>1, <2>2 DEF FormInv
<1>7. CASE SendForm
  BY <1>7 DEF SendForm, Filling, dfForms, FormInv, Devices, Meant
<1>8. CASE SendingServed
  <2>1. dfStored' \in Devices
    BY <1>0, <1>8, SentIsADevice DEF SendingServed
  <2>2. is_allowed_recipient(Payload(Draft).mail)' /\ dfReq' = "done" /\ dfReq = "sent"
    BY <1>8 DEF SendingServed, dfForms, is_allowed_recipient, Payload, Draft
  <2>3. (Meant(dfNew) /\ Meant(dfEdit) /\ dfRow \in {NoReader} \cup Devices)'
        /\ dfOpen' = dfOpen
    BY <1>8 DEF SendingServed, dfForms, FormInv, Devices, Meant
  <2> QED
    BY <2>1, <2>2, <2>3 DEF FormInv, Devices
<1>9. CASE SendingAnswered
  <2>1. dfRow' \in Devices
    BY <1>0, <1>9, SentIsADevice DEF SendingAnswered, FormInv
  <2>2. Meant(dfNew)'
    <3>1. Meant([NewDraft EXCEPT !.brand = dfNew.brand])
      BY NewDraftMeant DEF FormInv, Meant, NewDraft, Drafts
    <3> QED
      BY <1>9, <3>1 DEF SendingAnswered, FormInv, Meant
  <2>3. Meant(dfEdit)'
    BY <1>9, NewDraftMeant DEF SendingAnswered, Meant
  <2>4. dfOpen' = "none" /\ dfReq' = "none" /\ dfStored' = dfStored
    BY <1>9 DEF SendingAnswered
  <2> QED
    BY <2>1, <2>2, <2>3, <2>4 DEF FormInv, Devices
<1>10. CASE SendingFails
  BY <1>10 DEF SendingFails, dfForms, FormInv, Devices, Meant
<1>11. CASE OtherTabSaves \/ OtherTabDeletes \/ RowRead
  <2>1. dfStored' \in {NoReader} \cup Devices /\ dfRow' \in {NoReader} \cup Devices
    BY <1>11 DEF OtherTabSaves, OtherTabDeletes, RowRead, FormInv, Devices
  <2> QED
    BY <1>11, <2>1, RestKeeps DEF OtherTabSaves, OtherTabDeletes, RowRead
<1> QED
  BY <1>1, <1>2, <1>3, <1>4, <1>5, <1>6, <1>7, <1>8, <1>9, <1>10, <1>11 DEF FormNext

\* The parts of the invariant hold of every reachable state of the forms, for any
\* brands, models and addresses (edit-device-dialog.tsx, api/devices.py).
THEOREM FormInvariance == FormSpec => []FormInv
  BY FormInitInv, FormStepInv, PTL DEF FormSpec

LEMMA FormInvDevices == FormInv => FormTypeOK /\ DevicesAreCoherent
<1> SUFFICES ASSUME FormInv PROVE FormTypeOK /\ DevicesAreCoherent
  OBVIOUS
<1>1. \A d \in {dfStored, dfRow} \ {NoReader} : Coherent(d) /\ d.tier \in {"A", "B", "C", "D"}
  BY DevicesAre DEF FormInv
<1>2. FormTypeOK
  BY <1>1 DEF FormTypeOK, FormInv, Meant
<1>3. dfRow # NoReader => ~({"link", "test"} \subseteq DeviceRow(dfRow))
  BY <1>1 DEF DeviceRow, DeviceActions, Coherent, _compute_tier
<1>4. Draft.model \in FormModels[Draft.brand] \cup {NoWord}
  BY DEF FormInv, Draft, Meant
<1> QED
  BY <1>1, <1>2, <1>3, <1>4 DEF DevicesAreCoherent

-----------------------------------------------------------------------------
(***************************************************************************)
(* The settings page's form.  The refreshes that wait are answered one     *)
(* after another, and the last of them reads the server after the last     *)
(* save that was answered; what fills the form before it is older, and     *)
(* taken back.  A form whose fields nothing was typed in meanwhile has one *)
(* save or one refresh under way, never both.                              *)
(***************************************************************************)
setWaiting == setRefresh.left

\* What holds whatever was lost.
SavesAreTrim ==
  /\ Trim[setServer] = setServer
  /\ Saving => Trim[setReq.of] = setReq.of /\ ~setError
  /\ setReq.st = "done" => setServer = setReq.of
  /\ setWaiting = 0 => ~setRefresh.read
  /\ setMailAway => setTest = "idle"

\* Between saves, with no answer lost.
SavedInTheEnd ==
  ~setLost /\ setReq.st # "done" =>
    /\ setBase = setServer => setSaved = setServer
    /\ setWaiting = 0 => setSaved = setServer \/ setAway
    /\ setWaiting = 1 /\ setRefresh.read => setRefresh.got = setServer

\* With no answer lost, and nothing typed while one was waited for.
TypedStays ==
  ~setLost /\ ~setOver =>
    /\ setWaiting \in {0, 1}
    /\ ~setAway => Trim[setShown] = Trim[setTyped]
    /\ setAway => ~Saving /\ ~setError /\ setWaiting = 0
    /\ Saving => setReq.of = Trim[setTyped] /\ setWaiting = 0
    /\ setWaiting = 1 =>
         /\ ~Saving /\ ~setError /\ ~settingsAreDirty
         /\ setServer = Trim[setTyped]

SetInv == SetTypeOK /\ SavesAreTrim /\ SavedInTheEnd /\ TypedStays

-----------------------------------------------------------------------------
LEMMA SetInitInv == SetInit => SetInv
<1> SUFFICES ASSUME SetInit PROVE SetInv
  OBVIOUS
<1> USE SettingsAssumption DEF SetInit, NoSave, NoRefresh
<1>1. SetTypeOK
  <2>1. setServer \in Settings /\ setShown \in Settings /\ setSaved \in Settings
        /\ setBase \in Settings /\ setTyped \in Settings
    OBVIOUS
  <2>2. setAway \in BOOLEAN /\ setError \in BOOLEAN /\ setMailAway \in BOOLEAN
        /\ setOver \in BOOLEAN /\ setLost \in BOOLEAN
    OBVIOUS
  <2>3. setReq \in [st : {"none", "sent", "done"}, of : Settings]
        /\ setRefresh \in [left : 0..MaxRefreshes, read : BOOLEAN, got : Settings]
    OBVIOUS
  <2>4. setTest \in {"idle", "sending", "sent", "failed"} /\ setHealth \in {"loading", "ready", "error"}
    OBVIOUS
  <2> QED
    BY <2>1, <2>2, <2>3, <2>4 DEF SetTypeOK
<1>2. SavesAreTrim
  BY DEF SavesAreTrim, Saving, setWaiting
<1>3. SavedInTheEnd
  BY DEF SavedInTheEnd, setWaiting
<1>4. TypedStays
  BY DEF TypedStays, Saving, setWaiting, settingsAreDirty
<1> QED
  BY <1>1, <1>2, <1>3, <1>4 DEF SetInv

\* What is typed, or taken back.
LEMMA TypingKeeps ==
  ASSUME SetInv, ~setAway, setShown' \in Settings, setTyped' = setShown',
         setOver' = ~SetQuiet, setError' \in {setError, FALSE},
         UNCHANGED <<setServer, setSaved, setBase, setAway, setReq, setRefresh, setPanels, setLost>>
  PROVE  SetInv'
<1> USE DEF SetInv, setPanels
<1>1. SetTypeOK'
  <2>1. (setServer \in Settings /\ setShown \in Settings /\ setSaved \in Settings
         /\ setBase \in Settings /\ setTyped \in Settings)'
    BY DEF SetTypeOK
  <2>2. (setAway \in BOOLEAN /\ setError \in BOOLEAN /\ setMailAway \in BOOLEAN
         /\ setLost \in BOOLEAN)'
    BY DEF SetTypeOK
  <2>3. setOver' \in BOOLEAN
    OBVIOUS
  <2> QED
    BY <2>1, <2>2, <2>3 DEF SetTypeOK
<1>2. SavesAreTrim'
  <2>1. setError' => setError
    BY DEF SetTypeOK
  <2> QED
    BY <2>1 DEF SavesAreTrim, Saving, setWaiting
<1>3. SavedInTheEnd'
  BY DEF SavedInTheEnd, setWaiting
<1>4. TypedStays'
  <2>1. ~setOver' => SetQuiet
    OBVIOUS
  <2>2. SetQuiet => setWaiting' = 0 /\ ~Saving'
    BY DEF Saving, setWaiting, SetQuiet
  <2> QED
    BY <2>1, <2>2 DEF TypedStays
<1> QED
  BY <1>1, <1>2, <1>3, <1>4

LEMMA SaveKeeps == ASSUME SetInv, save PROVE SetInv'
<1> USE SettingsAssumption DEF SetInv, setForm, setPanels, setSeen
<1>0. /\ ~Saving /\ ((~setAway /\ settingsAreDirty) \/ setError)
      /\ setReq' = [st |-> "sent", of |-> Trim[setShown]] /\ setError' = FALSE
      /\ UNCHANGED <<setServer, setForm, setRefresh, setPanels, setSeen>>
  BY DEF save, EditsOffered, buildSettingsPatchPayload
<1>1. SetTypeOK'
  BY <1>0 DEF SetTypeOK
<1>2. SavesAreTrim'
  BY <1>0 DEF SavesAreTrim, Saving, setWaiting, SetTypeOK
<1>3. SavedInTheEnd'
  BY <1>0 DEF SavedInTheEnd, setWaiting, Saving
<1>4. TypedStays'
  BY <1>0 DEF TypedStays, Saving, setWaiting, settingsAreDirty, SetTypeOK
<1> QED
  BY <1>1, <1>2, <1>3, <1>4

LEMMA SaveServedKeeps == ASSUME SetInv, SaveServed PROVE SetInv'
<1> USE SettingsAssumption DEF SetInv, setForm, setPanels, setSeen
<1>0. /\ setReq.st = "sent" /\ setServer' = setReq.of /\ setReq'.st = "done" /\ setReq'.of = setReq.of
      /\ UNCHANGED <<setForm, setError, setRefresh, setPanels, setSeen>>
  BY DEF SaveServed, SetTypeOK
<1>1. SetTypeOK'
  BY DEF SetTypeOK, SaveServed
<1>2. SavesAreTrim'
  BY <1>0 DEF SavesAreTrim, Saving, setWaiting, SetTypeOK
<1>3. SavedInTheEnd'
  BY <1>0 DEF SavedInTheEnd
<1>4. TypedStays'
  BY <1>0 DEF TypedStays, Saving, setWaiting
<1> QED
  BY <1>1, <1>2, <1>3, <1>4

LEMMA SaveAnswersKeeps == ASSUME SetInv, SaveAnswers PROVE SetInv'
<1> USE SettingsAssumption DEF SetInv, setForm, setPanels, setSeen
<1>0. /\ setReq.st = "done" /\ setWaiting < MaxRefreshes
      /\ setShown' = setReq.of /\ setSaved' = setReq.of /\ setReq' = NoSave /\ ~Saving'
      /\ setRefresh'.left = setWaiting + 1 /\ setRefresh'.read = setRefresh.read
      /\ setRefresh'.got = setRefresh.got
      /\ UNCHANGED <<setServer, setBase, setAway, setError, setPanels, setSeen>>
  BY DEF SaveAnswers, SetTypeOK, NoSave, Saving, setWaiting
<1>00. setWaiting \in Nat /\ setWaiting' = setWaiting + 1
  BY <1>0 DEF setWaiting, SetTypeOK
<1>1. SetTypeOK'
  <2>1. setRefresh' \in [left : 0..MaxRefreshes, read : BOOLEAN, got : Settings]
    BY <1>00, <1>0 DEF SaveAnswers, SetTypeOK, setWaiting
  <2> QED
    BY <1>0, <2>1 DEF SetTypeOK, NoSave
<1>2. SavesAreTrim'
  BY <1>0, <1>00 DEF SavesAreTrim, NoSave
<1>3. SavedInTheEnd'
  <2>1. setSaved' = setServer'
    BY <1>0 DEF SavesAreTrim
  <2>2. setWaiting' = 1 => ~setRefresh'.read
    BY <1>0, <1>00 DEF SavesAreTrim
  <2> QED
    BY <1>00, <2>1, <2>2 DEF SavedInTheEnd
<1>4. TypedStays'
  <2> SUFFICES ASSUME ~setLost, ~setOver
               PROVE  /\ setWaiting' = 1 /\ Trim[setShown'] = Trim[setTyped']
                      /\ ~setAway' /\ ~setError' /\ ~settingsAreDirty'
                      /\ setServer' = Trim[setTyped']
    BY <1>0 DEF TypedStays, setSeen
  <2>1. Saving /\ setServer = setReq.of /\ ~setError
    BY <1>0 DEF Saving, SavesAreTrim
  <2>2. setReq.of = Trim[setTyped] /\ setWaiting = 0 /\ ~setAway /\ setTyped \in Settings
    BY <2>1 DEF TypedStays, SetTypeOK
  <2>3. Trim[setReq.of] = Trim[setTyped]
    BY <2>2
  <2> QED
    BY <1>0, <1>00, <2>1, <2>2, <2>3 DEF settingsAreDirty
<1> QED
  BY <1>1, <1>2, <1>3, <1>4

LEMMA SaveFailsKeeps == ASSUME SetInv, SaveFails PROVE SetInv'
<1> USE SettingsAssumption DEF SetInv, setForm, setPanels
<1>0. /\ Saving /\ setReq' = NoSave /\ setError' = TRUE /\ ~Saving'
      /\ setLost' = (setLost \/ setReq.st = "done")
      /\ UNCHANGED <<setServer, setForm, setRefresh, setPanels, setTyped, setOver>>
  BY DEF SaveFails, NoSave, Saving
<1>1. SetTypeOK'
  BY <1>0 DEF SetTypeOK, NoSave
<1>2. SavesAreTrim'
  BY <1>0 DEF SavesAreTrim, setWaiting, NoSave
<1>3. SavedInTheEnd'
  BY <1>0 DEF SavedInTheEnd, setWaiting
<1>4. TypedStays'
  BY <1>0 DEF TypedStays, setWaiting
<1> QED
  BY <1>1, <1>2, <1>3, <1>4

-----------------------------------------------------------------------------
LEMMA PageReadsKeeps == ASSUME SetInv, PageReads PROVE SetInv'
<1> USE SettingsAssumption DEF SetInv, setForm, setPanels, setSeen
<1>0. /\ setWaiting > 0 /\ setRefresh'.left = setWaiting /\ setRefresh'.got = setServer
      /\ setRefresh' \in [left : 0..MaxRefreshes, read : BOOLEAN, got : Settings]
      /\ UNCHANGED <<setServer, setForm, setReq, setError, setPanels, setSeen>>
  BY DEF PageReads, SetTypeOK, setWaiting
<1>00. setWaiting \in Nat /\ setWaiting' = setWaiting
  BY <1>0 DEF setWaiting, SetTypeOK
<1>1. SetTypeOK'
  BY <1>0 DEF SetTypeOK
<1>2. SavesAreTrim'
  BY <1>0, <1>00 DEF SavesAreTrim, Saving
<1>3. SavedInTheEnd'
  BY <1>0, <1>00 DEF SavedInTheEnd
<1>4. TypedStays'
  BY <1>0, <1>00 DEF TypedStays, Saving, settingsAreDirty
<1> QED
  BY <1>1, <1>2, <1>3, <1>4

\* A refresh less, read or not.
LEMMA DoneIsOneLess ==
  ASSUME SetInv, setRefresh.left > 0, RefreshDone
  PROVE  /\ setWaiting \in Nat /\ setWaiting > 0
         /\ setWaiting' = setWaiting - 1 /\ setRefresh'.read = FALSE
         /\ setRefresh' \in [left : 0..MaxRefreshes, read : BOOLEAN, got : Settings]
<1>1. setRefresh' = [left |-> setRefresh.left - 1, read |-> FALSE, got |-> NotSet]
  BY DEF RefreshDone, NoRefresh
<1>2. setRefresh.left \in 0..MaxRefreshes
  BY DEF SetInv, SetTypeOK
<1>3. setRefresh.left - 1 \in 0..MaxRefreshes
  BY <1>2, SettingsAssumption
<1> QED
  BY <1>1, <1>2, <1>3, SettingsAssumption DEF setWaiting

LEMMA RenderKeeps ==
  ASSUME SetInv, PageRenders
  PROVE  SetInv'
<1> USE SettingsAssumption DEF SetInv, setForm, setSeen
<1>0. PICK given, away :
        /\ Render(given, away)
        /\ (given = setRefresh.got /\ away = FALSE) \/ (given = NotSet /\ away = TRUE)
        /\ given \in Settings
  BY DEF PageRenders, SetTypeOK
<1>1. /\ setRefresh.read /\ setMailAway' \in BOOLEAN
      /\ setTest' = (IF setMailAway' THEN "idle" ELSE setTest)
      /\ RefreshDone /\ UNCHANGED <<setServer, setReq, setError, setHealth, setSeen>>
  BY DEF PageRenders
<1>2. setRefresh.left > 0
  BY <1>1 DEF SavesAreTrim, SetTypeOK, setWaiting
<1>3. /\ setWaiting \in Nat /\ setWaiting > 0 /\ setWaiting' = setWaiting - 1
      /\ setRefresh'.read = FALSE
      /\ setRefresh' \in [left : 0..MaxRefreshes, read : BOOLEAN, got : Settings]
  BY <1>1, <1>2, DoneIsOneLess
<1>4. /\ setAway' = away /\ setBase' = given
      /\ (given # setBase => setShown' = given /\ setSaved' = given)
      /\ (given = setBase => setShown' = setShown /\ setSaved' = setSaved)
  BY <1>0 DEF Render
<1>5. SetTypeOK'
  <2>1. setShown' \in Settings /\ setSaved' \in Settings /\ setBase' \in Settings
    BY <1>0, <1>4 DEF SetTypeOK
  <2>2. setAway' \in BOOLEAN /\ setMailAway' \in BOOLEAN
    BY <1>0, <1>1, <1>4
  <2>3. setTest' \in {"idle", "sending", "sent", "failed"}
    BY <1>1 DEF SetTypeOK
  <2> QED
    BY <1>1, <1>3, <2>1, <2>2, <2>3 DEF SetTypeOK
<1>6. SavesAreTrim'
  BY <1>1, <1>3 DEF SavesAreTrim, Saving
<1>7. SavedInTheEnd'
  <2> SUFFICES ASSUME ~setLost, setReq.st # "done"
               PROVE  /\ setBase' = setServer' => setSaved' = setServer'
                      /\ setWaiting' = 0 => setSaved' = setServer' \/ setAway'
    BY <1>1, <1>3 DEF SavedInTheEnd
  <2>1. setBase = setServer => setSaved = setServer
    BY DEF SavedInTheEnd
  <2>2. setBase' = setServer' => setSaved' = setServer'
    BY <1>1, <1>4, <2>1
  <2>3. ASSUME setWaiting' = 0, ~setAway' PROVE setBase' = setServer'
    <3>1. setWaiting = 1
      BY <1>3, <2>3
    <3>2. setRefresh.got = setServer
      BY <1>1, <3>1 DEF SavedInTheEnd
    <3> QED
      BY <1>0, <1>1, <1>4, <2>3, <3>2
  <2> QED
    BY <2>2, <2>3
<1>8. TypedStays'
  <2> SUFFICES ASSUME ~setLost, ~setOver
               PROVE  /\ setWaiting' = 0 /\ ~Saving' /\ ~setError'
                      /\ ~setAway' => Trim[setShown'] = Trim[setTyped']
    BY <1>1 DEF TypedStays
  <2>1. setWaiting = 1 /\ setWaiting' = 0
    BY <1>3 DEF TypedStays
  <2>2. ~Saving /\ ~setError /\ ~setAway /\ setServer = Trim[setTyped]
        /\ Trim[setShown] = Trim[setTyped] /\ setTyped \in Settings
    BY <2>1 DEF TypedStays, SetTypeOK
  <2>3. ~Saving' /\ ~setError'
    BY <1>1, <2>2 DEF Saving
  <2>4. setRefresh.got = setServer
    BY <1>1, <2>1, <2>2 DEF SavedInTheEnd, Saving
  <2>5. ASSUME ~setAway' PROVE Trim[setShown'] = Trim[setTyped']
    <3>1. given = Trim[setTyped]
      BY <1>0, <1>4, <2>2, <2>4, <2>5
    <3>2. Trim[given] = Trim[setTyped]
      BY <2>2, <3>1
    <3> QED
      BY <1>1, <1>4, <2>2, <3>2
  <2> QED
    BY <2>1, <2>3, <2>5
<1> QED
  BY <1>5, <1>6, <1>7, <1>8

LEMMA RefreshLostKeeps == ASSUME SetInv, RefreshLost PROVE SetInv'
<1> USE DEF SetInv, setForm, setPanels
<1>0. setLost' = TRUE /\ UNCHANGED <<setServer, setForm, setReq, setError, setPanels, setTyped, setOver>>
  BY DEF RefreshLost
<1>1. setRefresh'.read = FALSE
      /\ setRefresh' \in [left : 0..MaxRefreshes, read : BOOLEAN, got : Settings]
  BY DoneIsOneLess DEF RefreshLost
<1>2. SetTypeOK'
  BY <1>0, <1>1 DEF SetTypeOK
<1>3. SavesAreTrim'
  BY <1>0, <1>1 DEF SavesAreTrim, Saving
<1> QED
  BY <1>0, <1>2, <1>3 DEF SavedInTheEnd, TypedStays

\* The panels are none of the form's business, nor is the end of an error.
LEMMA PanelsKeep ==
  ASSUME SetInv, setError' \in {setError, FALSE},
         setTest' \in {"idle", "sending", "sent", "failed"}, setHealth' \in {"loading", "ready", "error"},
         ~setMailAway \/ setTest' = setTest,
         UNCHANGED <<setServer, setForm, setReq, setRefresh, setMailAway, setSeen>>
  PROVE  SetInv'
<1> USE DEF SetInv, setForm, setSeen
<1>1. SetTypeOK'
  BY DEF SetTypeOK
<1>2. SavesAreTrim'
  <2>1. setError' => setError
    BY DEF SetTypeOK
  <2>2. setMailAway' => setTest' = "idle"
    BY DEF SavesAreTrim
  <2> QED
    BY <2>1, <2>2 DEF SavesAreTrim, Saving, setWaiting
<1>3. SavedInTheEnd'
  BY DEF SavedInTheEnd, setWaiting
<1>4. TypedStays'
  BY DEF TypedStays, Saving, setWaiting, settingsAreDirty
<1> QED
  BY <1>1, <1>2, <1>3, <1>4

LEMMA SetStepInv == SetInv /\ [SetNext]_setVars => SetInv'
<1> SUFFICES ASSUME SetInv, [SetNext]_setVars PROVE SetInv'
  OBVIOUS
<1>0. SetTypeOK /\ SavesAreTrim
  BY DEF SetInv
<1>1. CASE UNCHANGED setVars
  BY <1>0, <1>1, PanelsKeep DEF setVars, setForm, setPanels, setSeen, SetTypeOK
<1>2. ASSUME NEW v \in Settings, TypeSetting(v) PROVE SetInv'
  BY <1>0, <1>2, TypingKeeps DEF TypeSetting, SetTypeOK
<1>3. CASE cancelEdits
  BY <1>0, <1>3, TypingKeeps DEF cancelEdits, EditsOffered, SetTypeOK
<1>4. CASE DismissError
  BY <1>0, <1>4, PanelsKeep DEF DismissError, setForm, setPanels, setSeen, SetTypeOK
<1>5. CASE SendTest
  BY <1>0, <1>5, PanelsKeep DEF SendTest, TestOffered, setForm, setSeen, SetTypeOK
<1>6. CASE TestAnswers
  BY <1>0, <1>6, PanelsKeep DEF TestAnswers, setForm, setSeen, SetTypeOK, SavesAreTrim
<1>7. CASE HealthAnswers \/ RetryHealth
  BY <1>0, <1>7, PanelsKeep DEF HealthAnswers, RetryHealth, setForm, setSeen, SetTypeOK
<1> QED
  BY <1>1, <1>2, <1>3, <1>4, <1>5, <1>6, <1>7, SaveKeeps, SaveServedKeeps, SaveAnswersKeeps,
     SaveFailsKeeps, PageReadsKeeps, RenderKeeps, RefreshLostKeeps DEF SetNext

\* The parts of the invariant hold of every reachable state of the form, for any
\* values and however many refreshes wait (settings-form.tsx).
THEOREM SetInvariance == SetSpec => []SetInv
  BY SetInitInv, SetStepInv, PTL DEF SetSpec

LEMMA SetInvSaved == SetInv => SetTypeOK /\ SavedIsSaved
<1> SUFFICES ASSUME SetInv PROVE SavedIsSaved
  BY DEF SetInv
<1> USE SettingsAssumption DEF SetInv
<1>1. ASSUME SetQuiet, ~setAway, ~setLost
      PROVE  /\ setSaved = setServer /\ (settingsState = "ready" => Trim[setShown] = setServer)
             /\ Trim[setShown] = Trim[setTyped] \/ setOver
  <2>1. ~Saving /\ setReq.st = "none" /\ setWaiting = 0
    BY <1>1 DEF SetQuiet, Saving, setWaiting
  <2>2. setSaved = setServer
    BY <1>1, <2>1 DEF SavedInTheEnd
  <2>3. settingsState = "ready" => Trim[setShown] = Trim[setSaved]
    BY DEF settingsState, settingsAreDirty
  <2>4. Trim[setShown] = Trim[setTyped] \/ setOver
    BY <1>1 DEF TypedStays
  <2> QED
    BY <2>2, <2>3, <2>4 DEF SavesAreTrim
<1> QED
  BY <1>1 DEF SavedIsSaved, SavesAreTrim

-----------------------------------------------------------------------------
(***************************************************************************)
(* The panels of the gateways page.  The list is never fresher than the    *)
(* server, so an age it has is never too young; and a panel of jobs is     *)
(* mounted whenever the gateway it is about is not the page's any more, so *)
(* that what it was given is of that gateway and of after the last news.   *)
(***************************************************************************)

\* The list has a gateway for no younger than it is.
ListIsNotYounger ==
  \A g \in ActGateways : actServer[g].st = "paired" /\ actRows[g].st = "paired" =>
    actServer[g].age <= actRows[g].age

\* What was read for the panel is not older than the last news of its gateway.
PanelIsOfItsGateway ==
  /\ actPanel.of = JobsShownFor(actRows, actLag)
  /\ actPanel.of # NoneShown => actFloor <= actJobs[actPanel.of]
  /\ actPanel.req # "none" => actPanel.of # NoneShown /\ actPanel.outcome = "loading"
  /\ actPanel.outcome \in {"empty", "ready"} => actPanel.req = "none" /\ actPanel.of # NoneShown
  /\ actPanel.req = "read" \/ actPanel.outcome \in {"empty", "ready"} =>
       actFloor <= actPanel.got /\ actPanel.got <= actJobs[actPanel.of]
  /\ actPanel.outcome = "empty" => actPanel.got = 0

PanelInv == ActTypeOK /\ ListIsNotYounger /\ PanelIsOfItsGateway

-----------------------------------------------------------------------------
LEMMA ActStates == DOMAIN Oldest = {"pending", "paired", "revoked"}
                   /\ Oldest["pending"] = CodesWindow + 1 /\ Oldest["paired"] = OnlineWindow + 2
                   /\ Oldest["revoked"] = 0
  BY DEF Oldest

ActRow == [st : {"pending", "paired", "revoked"}, age : Nat]

LEMMA OlderRow ==
  ASSUME NEW row \in ActRow
  PROVE  /\ Older(row) \in ActRow /\ Older(row).st = row.st
         /\ Older(row).age = (IF row.age = Oldest[row.st] THEN row.age ELSE row.age + 1)
  BY DEF ActRow, Older

LEMMA ShownIsAGateway ==
  ASSUME NEW rows, NEW lag
  PROVE  JobsShownFor(rows, lag) \in ActGateways \cup {NoneShown}
  BY DEF JobsShownFor, pickPrimaryGateway, ActGateways

\* A tick that the clock missed does not change how a row is presented.
LEMMA PresentedAsBefore ==
  ASSUME NEW row \in ActRow, NEW lag \in {0, 1}, row.st # "revoked" => lag = 0
  PROVE  gatewayConnectionPresentation(Older(row), 1) = gatewayConnectionPresentation(row, lag)
<1>1. /\ Older(row).st = row.st /\ row.age \in Nat /\ CodesWindow \in Nat /\ OnlineWindow \in Nat
      /\ Older(row).age = (IF row.age = Oldest[row.st] THEN row.age ELSE row.age + 1)
      /\ row.st \in {"pending", "paired", "revoked"}
  BY OlderRow, ActivityAssumption DEF ActRow
<1>2. CASE row.st = "pending"
  <2>1. isPairingExpired(Older(row), 1) = isPairingExpired(row, lag)
    BY <1>1, <1>2, ActStates DEF isPairingExpired
  <2> QED
    BY <1>1, <1>2, <2>1 DEF gatewayConnectionPresentation
<1>3. CASE row.st = "paired"
  <2>1. isGatewayOnline(Older(row), 1) = isGatewayOnline(row, lag)
    BY <1>1, <1>3, ActStates DEF isGatewayOnline
  <2> QED
    BY <1>1, <1>3, <2>1 DEF gatewayConnectionPresentation
<1>4. CASE row.st = "revoked"
  BY <1>1, <1>4 DEF gatewayConnectionPresentation
<1> QED
  BY <1>1, <1>2, <1>3, <1>4

LEMMA ActRowTypes ==
  ASSUME ActTypeOK
  PROVE  actServer \in [ActGateways -> ActRow] /\ actRows \in [ActGateways -> ActRow]
  BY ActStates DEF ActTypeOK, ActRow

-----------------------------------------------------------------------------
\* A panel is mounted, or the one there is goes on.
LEMMA RenderedKeeps ==
  ASSUME PanelInv, NEW news, Rendered(news), actJobs' = actJobs,
         actServer' \in [ActGateways -> ActRow], actRows' \in [ActGateways -> ActRow],
         actLag' \in {0, 1}, ListIsNotYounger'
  PROVE  PanelInv'
<1> USE DEF PanelInv
<1>1. PICK g : g = JobsShownFor(actRows', actLag')
  OBVIOUS
<1>2. g \in ActGateways \cup {NoneShown}
  BY <1>1, ShownIsAGateway
<1>3. ({actServer, actRows} \subseteq [ActGateways -> [st : DOMAIN Oldest, age : Nat]])'
      /\ actJobs' \in [ActGateways -> JobStages]
  BY ActStates DEF ActRow, ActTypeOK, Oldest
<1>4. CASE Mounted(g)
  <2>1. actPanel' = NewPanel(g) /\ actFloor' = FloorOf(g)
    BY <1>4 DEF Mounted
  <2>2. actPanel'.of = g
    BY <2>1 DEF NewPanel, NoPanel
  <2>3. actPanel' \in [of : ActGateways \cup {NoneShown}, req : {"none", "sent", "read"},
                       got : JobStages, outcome : {"none", "loading", "unavailable", "empty", "ready"}]
    BY <1>2, <2>1 DEF NewPanel, NoPanel, JobStages
  <2>4. actFloor' \in JobStages
    BY <1>2, <2>1 DEF FloorOf, JobStages, ActTypeOK
  <2>5. actLate' \in [there : BOOLEAN, got : JobStages]
    <3>1. actPanel.req = "sent" => actJobs[actPanel.of] \in JobStages
      BY DEF ActTypeOK, PanelIsOfItsGateway
    <3>2. actPanel.got \in JobStages /\ actLate \in [there : BOOLEAN, got : JobStages]
      BY DEF ActTypeOK
    <3> QED
      BY <1>4, <3>1, <3>2 DEF Mounted
  <2>6. ActTypeOK'
    BY <1>3, <2>3, <2>4, <2>5 DEF ActTypeOK
  <2>7. PanelIsOfItsGateway'
    <3>1. CASE g = NoneShown
      BY <1>1, <2>1, <2>2, <3>1 DEF PanelIsOfItsGateway, NewPanel, NoPanel
    <3>2. CASE g # NoneShown
      <4>1. actPanel' = [of |-> g, req |-> "sent", got |-> 0, outcome |-> "loading"]
            /\ actFloor' = actJobs[g] /\ actJobs[g] \in 0..2
        BY <1>2, <2>1, <3>2 DEF NewPanel, FloorOf, ActTypeOK, JobStages
      <4>2. actPanel'.of = g /\ actPanel'.req = "sent" /\ actPanel'.outcome = "loading"
        BY <4>1
      <4>3. actFloor' <= actJobs'[g]
        BY <4>1
      <4> QED
        BY <1>1, <3>2, <4>2, <4>3 DEF PanelIsOfItsGateway
    <3> QED
      BY <3>1, <3>2
  <2> QED
    BY <2>6, <2>7
<1>5. CASE UNCHANGED actShown /\ g = actPanel.of
  BY <1>1, <1>3, <1>5 DEF ActTypeOK, PanelIsOfItsGateway, actShown
<1> QED
  BY <1>1, <1>4, <1>5 DEF Rendered

\* The panel's own steps.
LEMMA PanelStepKeeps ==
  ASSUME PanelInv, JobsRead \/ JobsCome \/ JobsFail \/ LateJobsDropped
  PROVE  PanelInv'
<1> USE DEF PanelInv, actClocks
<1>1. UNCHANGED <<actServer, actRows, actLag, actJobs, actFloor>>
  BY DEF JobsRead, JobsCome, JobsFail, LateJobsDropped
<1>2. ListIsNotYounger'
  BY <1>1 DEF ListIsNotYounger
<1>3. JobsShownFor(actRows, actLag)' = JobsShownFor(actRows, actLag)
  BY <1>1
<1>4. CASE JobsRead
  <2>1. actPanel.of \in ActGateways /\ actPanel.outcome = "loading"
    BY <1>4 DEF JobsRead, ActTypeOK, PanelIsOfItsGateway
  <2>2. actJobs[actPanel.of] \in 0..2
    BY <2>1 DEF ActTypeOK, JobStages
  <2>3. /\ actPanel' \in [of : ActGateways \cup {NoneShown}, req : {"none", "sent", "read"},
                       got : JobStages, outcome : {"none", "loading", "unavailable", "empty", "ready"}]
        /\ actPanel'.of = actPanel.of /\ actPanel'.req = "read" /\ actPanel'.outcome = "loading"
        /\ actPanel'.got = actJobs[actPanel.of]
    BY <1>4, <2>1, <2>2 DEF JobsRead, ActTypeOK, JobStages
  <2>4. ActTypeOK'
    BY <1>1, <1>4, <2>3 DEF JobsRead, ActTypeOK
  <2>5. PanelIsOfItsGateway'
    <3>1. actPanel'.of = JobsShownFor(actRows, actLag)' /\ actPanel'.of # NoneShown
          /\ actJobs'[actPanel'.of] = actPanel'.got
      BY <1>1, <1>3, <2>1, <2>3, ActivityAssumption DEF PanelIsOfItsGateway
    <3>2. actFloor' <= actPanel'.got /\ actPanel'.got <= actPanel'.got
      BY <1>1, <2>2, <2>3, <3>1 DEF PanelIsOfItsGateway
    <3> QED
      BY <2>3, <3>1, <3>2 DEF PanelIsOfItsGateway
  <2> QED
    BY <1>2, <2>4, <2>5
<1>5. CASE JobsCome
  <2>1. PICK o \in {"empty", "ready"} :
          actPanel' = [actPanel EXCEPT !.req = "none", !.outcome = o]
          /\ (o = "empty" => actPanel.got = 0)
    BY <1>5 DEF JobsCome, applyActivityFetchResult
  <2>2. actPanel.req = "read"
    BY <1>5 DEF JobsCome
  <2>3. /\ actPanel' \in [of : ActGateways \cup {NoneShown}, req : {"none", "sent", "read"},
                       got : JobStages, outcome : {"none", "loading", "unavailable", "empty", "ready"}]
        /\ actPanel'.of = actPanel.of /\ actPanel'.req = "none" /\ actPanel'.outcome = o
        /\ actPanel'.got = actPanel.got
    BY <2>1 DEF ActTypeOK
  <2>4. ActTypeOK'
    BY <1>1, <1>5, <2>3 DEF JobsCome, ActTypeOK
  <2>5. PanelIsOfItsGateway'
    <3>1. actPanel'.of = JobsShownFor(actRows, actLag)' /\ actPanel'.of # NoneShown
          /\ actJobs'[actPanel'.of] = actJobs[actPanel.of]
      BY <1>1, <1>3, <2>2, <2>3 DEF PanelIsOfItsGateway
    <3>2. actFloor' <= actPanel'.got /\ actPanel'.got <= actJobs'[actPanel'.of]
          /\ actFloor' <= actJobs'[actPanel'.of]
      BY <1>1, <2>2, <2>3, <3>1 DEF PanelIsOfItsGateway
    <3>3. actPanel'.outcome = "empty" => actPanel'.got = 0
      BY <2>1, <2>3
    <3> QED
      BY <2>3, <3>1, <3>2, <3>3 DEF PanelIsOfItsGateway
  <2> QED
    BY <1>2, <2>4, <2>5
<1>6. CASE JobsFail
  <2>1. /\ actPanel' \in [of : ActGateways \cup {NoneShown}, req : {"none", "sent", "read"},
                       got : JobStages, outcome : {"none", "loading", "unavailable", "empty", "ready"}]
        /\ actPanel'.of = actPanel.of /\ actPanel'.req = "none" /\ actPanel'.outcome = "unavailable"
    <3>1. actPanel' = [actPanel EXCEPT !.req = "none", !.got = 0, !.outcome = "unavailable"]
      BY <1>6 DEF JobsFail, applyActivityFetchResult
    <3>2. /\ actPanel \in [of : ActGateways \cup {NoneShown}, req : {"none", "sent", "read"},
                           got : JobStages, outcome : {"none", "loading", "unavailable", "empty", "ready"}]
          /\ 0 \in JobStages
      BY DEF ActTypeOK, JobStages
    <3> QED
      BY <3>1, <3>2
  <2>2. ActTypeOK'
    BY <1>1, <1>6, <2>1 DEF JobsFail, ActTypeOK
  <2>3. PanelIsOfItsGateway'
    BY <1>1, <1>3, <2>1 DEF PanelIsOfItsGateway
  <2> QED
    BY <1>2, <2>2, <2>3
<1>7. CASE LateJobsDropped
  <2>1. ActTypeOK' /\ PanelIsOfItsGateway'
    BY <1>1, <1>3, <1>7 DEF LateJobsDropped, ActTypeOK, PanelIsOfItsGateway, NoAnswer, JobStages
  <2> QED
    BY <1>2, <2>1
<1> QED
  BY <1>4, <1>5, <1>6, <1>7

\* Time makes the list's rows and the server's older alike, and changes no
\* presentation until the clock ticks.
LEMMA TimeKeeps ==
  ASSUME PanelInv, ActTimePasses
  PROVE  PanelInv'
<1> USE DEF PanelInv
<1>0. actServer \in [ActGateways -> ActRow] /\ actRows \in [ActGateways -> ActRow]
  BY ActRowTypes
<1>1. /\ needsClock => actLag = 0
      /\ actServer' = [g \in ActGateways |-> Older(actServer[g])]
      /\ actRows' = [g \in ActGateways |-> Older(actRows[g])]
      /\ actLag' = 1 /\ UNCHANGED <<actJobs, actPanel, actLate, actFloor>>
  BY DEF ActTimePasses, actShown
<1>2. \A g \in ActGateways :
        /\ actServer'[g] = Older(actServer[g]) /\ actRows'[g] = Older(actRows[g])
        /\ actServer[g] \in ActRow /\ actRows[g] \in ActRow
  BY <1>0, <1>1
<1>3. actServer' \in [ActGateways -> ActRow] /\ actRows' \in [ActGateways -> ActRow]
  BY <1>1, <1>2, OlderRow
<1>4. ActTypeOK'
  BY <1>1, <1>3, ActStates DEF ActTypeOK, ActRow, Oldest
<1>5. ListIsNotYounger'
  <2> SUFFICES ASSUME NEW g \in ActGateways, actServer'[g].st = "paired", actRows'[g].st = "paired"
               PROVE  actServer'[g].age <= actRows'[g].age
    BY DEF ListIsNotYounger
  <2>1. PICK s \in ActRow, r \in ActRow :
          s = actServer[g] /\ r = actRows[g] /\ actServer'[g] = Older(s) /\ actRows'[g] = Older(r)
    BY <1>2
  <2>2. s.st = "paired" /\ r.st = "paired" /\ s.age \in Nat /\ r.age \in Nat
        /\ Older(s).age = (IF s.age = OnlineWindow + 2 THEN s.age ELSE s.age + 1)
        /\ Older(r).age = (IF r.age = OnlineWindow + 2 THEN r.age ELSE r.age + 1)
    BY <2>1, OlderRow, ActStates DEF ActRow
  <2>3. s.age <= r.age
    BY <2>1, <2>2 DEF ListIsNotYounger
  <2> QED
    BY <2>1, <2>2, <2>3, ActivityAssumption
<1>6. actLag \in {0, 1} /\ \A g \in ActGateways : actRows[g].st # "revoked" => actLag = 0
  <2>1. actLag \in {0, 1}
    BY DEF ActTypeOK
  <2>2. ASSUME NEW g \in ActGateways, actRows[g].st # "revoked" PROVE actLag = 0
    BY <1>1, <1>2, <2>2 DEF needsClock, ActRow
  <2> QED
    BY <2>1, <2>2
<1>7. \A g \in ActGateways :
        /\ gatewayConnectionPresentation(actRows'[g], 1) = gatewayConnectionPresentation(actRows[g], actLag)
        /\ actRows'[g].st = actRows[g].st
  BY <1>2, <1>6, PresentedAsBefore, OlderRow
<1>8. JobsShownFor(actRows', actLag') = JobsShownFor(actRows, actLag)
  <2>1. ActFirst \in ActGateways /\ ActSecond \in ActGateways
    BY DEF ActGateways
  <2>2. pickPrimaryGateway(actRows', actLag') = pickPrimaryGateway(actRows, actLag)
    BY <1>1, <1>7, <2>1 DEF pickPrimaryGateway
  <2>3. pickPrimaryGateway(actRows, actLag) \in ActGateways
    BY <2>1 DEF pickPrimaryGateway
  <2> QED
    BY <1>7, <2>2, <2>3 DEF JobsShownFor
<1>9. PanelIsOfItsGateway'
  BY <1>1, <1>8 DEF PanelIsOfItsGateway
<1> QED
  BY <1>4, <1>5, <1>9

\* What the page hears of by the list alone.
LEMMA AgentKeeps ==
  ASSUME PanelInv, NEW g \in ActGateways, AgentHeard(g) \/ JobMoves(g)
  PROVE  PanelInv'
<1> USE DEF PanelInv
<1>0. actServer \in [ActGateways -> ActRow] /\ actRows \in [ActGateways -> ActRow]
  BY ActRowTypes
<1>1. CASE AgentHeard(g)
  <2>1. /\ actServer' = [actServer EXCEPT ![g] = [st |-> "paired", age |-> 0]]
        /\ UNCHANGED <<actRows, actLag, actJobs, actPanel, actLate, actFloor>>
    BY <1>1 DEF AgentHeard, actShown
  <2>2. actServer' \in [ActGateways -> ActRow]
    BY <1>0, <2>1 DEF ActRow
  <2>3. ActTypeOK'
    BY <2>1, <2>2, ActStates DEF ActTypeOK, ActRow
  <2>4. ListIsNotYounger'
    BY <1>0, <2>1 DEF ListIsNotYounger, ActRow
  <2>5. PanelIsOfItsGateway'
    BY <2>1 DEF PanelIsOfItsGateway
  <2> QED
    BY <2>3, <2>4, <2>5
<1>2. CASE JobMoves(g)
  <2>1. /\ actJobs[g] < 2 /\ actJobs' = [actJobs EXCEPT ![g] = @ + 1]
        /\ UNCHANGED <<actServer, actRows, actLag, actPanel, actLate, actFloor>>
    BY <1>2 DEF JobMoves, actShown, actClocks
  <2>2. actJobs' \in [ActGateways -> JobStages]
        /\ \A k \in ActGateways : actJobs[k] <= actJobs'[k] /\ actJobs[k] \in 0..2 /\ actJobs'[k] \in 0..2
    BY <2>1 DEF ActTypeOK, JobStages
  <2>3. ActTypeOK' /\ ListIsNotYounger'
    BY <2>1, <2>2 DEF ActTypeOK, ListIsNotYounger
  <2>4. actPanel.of # NoneShown => actPanel.of \in ActGateways
    BY DEF ActTypeOK
  <2>5. actFloor \in 0..2 /\ actPanel.got \in 0..2
    BY DEF ActTypeOK, JobStages
  <2>6. PanelIsOfItsGateway'
    BY <2>1, <2>2, <2>4, <2>5 DEF PanelIsOfItsGateway
  <2> QED
    BY <2>3, <2>6
<1> QED
  BY <1>1, <1>2

LEMMA ActInitInv == ActInit => PanelInv
<1> SUFFICES ASSUME ActInit PROVE PanelInv
  OBVIOUS
<1>1. PICK st \in [ActGateways -> {"pending", "paired"}] :
        actServer = [g \in ActGateways |-> [st |-> st[g], age |-> 0]]
  BY DEF ActInit
<1>2. /\ actRows = actServer /\ actLag = 0 /\ actJobs = [g \in ActGateways |-> 0]
      /\ actPanel = NewPanel(JobsShownFor(actRows, 0))
      /\ actLate = NoAnswer /\ actFloor = 0
  BY DEF ActInit
<1>3. actServer \in [ActGateways -> ActRow]
  BY <1>1 DEF ActRow
<1>4. PICK g \in ActGateways \cup {NoneShown} : g = JobsShownFor(actRows, actLag)
  BY ShownIsAGateway
<1>5. actPanel = NewPanel(g)
  BY <1>2, <1>4
<1>6. actPanel \in [of : ActGateways \cup {NoneShown}, req : {"none", "sent", "read"},
                    got : JobStages, outcome : {"none", "loading", "unavailable", "empty", "ready"}]
      /\ actPanel.of = g
  BY <1>5 DEF NewPanel, NoPanel, JobStages
<1>7. ActTypeOK
  BY <1>2, <1>3, <1>6, ActStates DEF ActTypeOK, ActRow, NoAnswer, JobStages
<1>8. ListIsNotYounger
  BY <1>2, <1>3 DEF ListIsNotYounger, ActRow
<1>9. PanelIsOfItsGateway
  BY <1>2, <1>4, <1>5 DEF PanelIsOfItsGateway, NewPanel, NoPanel
<1> QED
  BY <1>7, <1>8, <1>9 DEF PanelInv

LEMMA ActStepInv == PanelInv /\ [ActNext]_actVars => PanelInv'
<1> SUFFICES ASSUME PanelInv, [ActNext]_actVars PROVE PanelInv'
  OBVIOUS
<1>0. actServer \in [ActGateways -> ActRow] /\ actRows \in [ActGateways -> ActRow]
      /\ actLag \in {0, 1} /\ ListIsNotYounger
  BY ActRowTypes DEF PanelInv, ActTypeOK
<1>1. CASE UNCHANGED actVars
  BY <1>1 DEF actVars, actClocks, actShown, PanelInv, ActTypeOK, ListIsNotYounger, PanelIsOfItsGateway
<1>2. CASE ClockTicks
  <2>1. ListIsNotYounger'
    BY <1>0, <1>2 DEF ClockTicks, ListIsNotYounger
  <2> QED
    BY <1>0, <1>2, <2>1, RenderedKeeps DEF ClockTicks
<1>3. CASE ListComes
  <2>1. ListIsNotYounger'
    BY <1>0, <1>3 DEF ListComes, ListIsNotYounger, ActRow
  <2> QED
    BY <1>0, <1>3, <2>1, RenderedKeeps DEF ListComes
<1>4. ASSUME NEW g \in ActGateways, PageRevokes(g) \/ PageRecreates(g) PROVE PanelInv'
  <2>1. PICK row \in ActRow :
          /\ row.age = 0
          /\ actServer' = [actServer EXCEPT ![g] = row] /\ actRows' = [actRows EXCEPT ![g] = row]
          /\ UNCHANGED <<actLag, actJobs>> /\ Rendered(FALSE)
    <3>1. [st |-> "revoked", age |-> 0] \in ActRow /\ [st |-> "pending", age |-> 0] \in ActRow
      BY DEF ActRow
    <3> QED
      BY <1>4, <3>1 DEF PageRevokes, PageRecreates
  <2>2. actServer' \in [ActGateways -> ActRow] /\ actRows' \in [ActGateways -> ActRow]
    BY <1>0, <2>1
  <2>3. ListIsNotYounger'
    BY <1>0, <2>1 DEF ListIsNotYounger
  <2> QED
    BY <1>0, <2>1, <2>2, <2>3, RenderedKeeps
<1> QED
  BY <1>1, <1>2, <1>3, <1>4, PanelStepKeeps, TimeKeeps, AgentKeeps DEF ActNext

\* The parts of the invariant hold of every reachable state of the panels, for any
\* windows (gateways-state.ts, gateway-activity.tsx).
THEOREM PanelsInvariance == ActSpec => []PanelInv
  BY ActInitInv, ActStepInv, PTL DEF ActSpec

LEMMA PanelInvTrue == PanelInv => ActTypeOK /\ PanelsAreTrue
<1> SUFFICES ASSUME PanelInv PROVE PanelsAreTrue
  BY DEF PanelInv
<1> USE DEF PanelInv
<1>0. actServer \in [ActGateways -> ActRow] /\ actRows \in [ActGateways -> ActRow]
      /\ actLag \in {0, 1} /\ actFloor \in 0..2 /\ actPanel.got \in 0..2
  BY ActRowTypes DEF ActTypeOK, JobStages
<1>1. /\ actPanel.of = JobsShownFor(actRows, actLag)
      /\ actPanel.outcome \in {"empty", "ready"} =>
           actFloor <= actPanel.got /\ actPanel.got <= actJobs[actPanel.of]
      /\ actPanel.outcome = "empty" => actPanel.got = 0 /\ actFloor = 0
  BY <1>0 DEF PanelIsOfItsGateway
<1>2. ASSUME PanelShows.says = "done" PROVE StageStatus(actJobs[actPanel.of]) = "done"
  <2>1. actPanel.outcome = "ready"
    BY <1>2 DEF PanelShows, ActTypeOK
  <2>2. normalizeJobStatus(StageStatus(actPanel.got)) = "done"
    BY <1>2, <2>1 DEF PanelShows
  <2>3. actPanel.got = 2
    BY <1>0, <2>2 DEF normalizeJobStatus, StageStatus
  <2>4. actPanel.of \in ActGateways
    BY <2>1 DEF PanelIsOfItsGateway, ActTypeOK
  <2>5. actJobs[actPanel.of] = 2
    BY <1>1, <2>1, <2>3, <2>4 DEF ActTypeOK, JobStages
  <2> QED
    BY <2>5 DEF StageStatus
<1>3. ASSUME NEW g \in ActGateways
      PROVE  LET label == connectionLabel(actRows[g], actLag) IN
             /\ label.says = "connected" /\ actServer[g].st = "paired" =>
                  actServer[g].age <= OnlineWindow + 1
             /\ label.says = "offline" => OnlineWindow < label.since /\ label.since <= actRows[g].age
             /\ label.says = "pending" => actRows[g].age <= CodesWindow
  <2>0. PICK r \in ActRow, s \in ActRow : r = actRows[g] /\ s = actServer[g]
    BY <1>0
  <2>1. PICK p : p = gatewayConnectionPresentation(r, actLag)
    OBVIOUS
  <2>2. connectionLabel(actRows[g], actLag) = [says |-> p, since |-> IF p = "offline" THEN r.age - actLag ELSE 0]
    BY <2>0, <2>1 DEF connectionLabel
  <2>3. r.age \in Nat /\ s.age \in Nat /\ r.st \in {"pending", "paired", "revoked"}
    BY DEF ActRow
  <2>4. /\ p = "connected" => r.st = "paired" /\ r.age <= OnlineWindow + actLag
        /\ p = "offline" => r.age > OnlineWindow + actLag
        /\ p = "pending" => r.age < CodesWindow + actLag
    BY <1>0, <2>1, <2>3, ActivityAssumption
       DEF gatewayConnectionPresentation, isPairingExpired, isGatewayOnline
  <2>5. r.st = "paired" /\ s.st = "paired" => s.age <= r.age
    BY <2>0 DEF ListIsNotYounger
  <2> QED
    BY <1>0, <2>0, <2>2, <2>3, <2>4, <2>5, ActivityAssumption
<1> QED
  BY <1>1, <1>2, <1>3 DEF PanelsAreTrue

-----------------------------------------------------------------------------
(***************************************************************************)
(* The reader links.  A link is on the page if it is not revoked, but for  *)
(* the one whose creation or revocation is served and not answered, and    *)
(* those the page was never given; that is the whole difference, for a     *)
(* creation and a revocation have one dialog each, and never both.         *)
(***************************************************************************)

\* The link that is there and not listed yet, and the one listed still.
CreatedUnseen == {l \in ReaderLinks : catCreate.req = "done" /\ catCreate.of = l}
RevokedUnseen == {l \in ReaderLinks : catRevoke.req = "done" /\ catRevoke.of = l}

ListedAreLive ==
  \A l \in ReaderLinks \ catLost :
    l \in Listed <=> (l \in Live /\ l \notin CreatedUnseen \cup catUnread) \/ l \in RevokedUnseen

\* A link the page was never given is none of its own.
UnreadAreOthers ==
  \A l \in catUnread : catServer[l] # "absent" /\ l \notin Listed \cup CreatedUnseen

\* The dialog of a creation, and that of a revocation.
CreationIsOpen ==
  /\ catCreate.req # "none" => catCreate.open /\ catUrl = NoUrl
  /\ catCreate.req = "done" => catCreate.of \in Live \ Listed
  /\ catUrl # NoUrl => catCreate.open /\ catUrl.of \in Listed \cap Live
RevocationIsOpen ==
  /\ catRevoke.req # "none" => catRevoke.of # NoLinkShown
  /\ catRevoke.of # NoLinkShown => ~catCreate.open /\ catRevoke.of \in Listed
  /\ catRevoke.req = "done" => catServer[catRevoke.of] = "revoked"

\* A listed link was created, and one that was used up is not live again.
SpentStay ==
  \A l \in Listed : catServer[l] # "absent" /\ (catRows[l] = "spent" => catServer[l] # "live")

CatInv ==
  CatTypeOK /\ ListedAreLive /\ UnreadAreOthers /\ CreationIsOpen /\ RevocationIsOpen /\ SpentStay

-----------------------------------------------------------------------------
LEMMA CatInitInv == CatInit => CatInv
<1> SUFFICES ASSUME CatInit PROVE CatInv
  OBVIOUS
<1> USE CatAssumption
<1>1. catServer \in [ReaderLinks -> {"absent", "live", "spent"}] /\ catAway \in BOOLEAN
  BY DEF CatInit
<1>2. Listed = (IF catAway THEN {} ELSE Live) /\ \A l \in Listed : catRows[l] = catServer[l]
  BY DEF CatInit, Listed
<1>3. catCreate = CreateClosed /\ catUrl = NoUrl /\ catRevoke = RevokeClosed
      /\ catLost = {} /\ catError = FALSE /\ catUnread = (IF catAway THEN Live ELSE {})
      /\ catPast \subseteq Live /\ catNow = catPast
  BY DEF CatInit
<1>4. CatTypeOK
  <2>1. Listed \subseteq ReaderLinks /\ \A l \in Listed : catRows[l] \in {"live", "spent"}
    BY <1>1, <1>2 DEF Live
  <2> QED
    BY <1>1, <1>3, <2>1 DEF CatTypeOK, CreateClosed, NoUrl, RevokeClosed, Live
<1>5. ListedAreLive /\ UnreadAreOthers
  BY <1>1, <1>2, <1>3
  DEF ListedAreLive, UnreadAreOthers, CreatedUnseen, RevokedUnseen, CreateClosed, RevokeClosed, Live
<1>6. CreationIsOpen /\ RevocationIsOpen
  BY <1>3 DEF CreationIsOpen, RevocationIsOpen, CreateClosed, RevokeClosed
<1>7. SpentStay
  BY <1>1, <1>2 DEF SpentStay, Live
<1> QED
  BY <1>4, <1>5, <1>6, <1>7 DEF CatInv

\* What opens, closes and types, and what the browser does with an address.
LEMMA CatFormKeeps ==
  ASSUME CatInv,
         OpenCreateLink \/ TypeLimits \/ submit \/ QrDrawn \/ handleCopyUrl \/ closeCreate
           \/ OpenRevokeLink \/ CloseRevokeLink \/ ConfirmRevokeLink
  PROVE  CatInv'
<1> USE DEF CatInv
<1>1. UNCHANGED <<catServer, catPast, catNow, catRows, catAway, catLost, catUnread>>
  BY DEF OpenCreateLink, TypeLimits, submit, QrDrawn, handleCopyUrl, closeCreate,
         OpenRevokeLink, CloseRevokeLink, ConfirmRevokeLink, catTimes, catSeen
<1>2. /\ catCreate.req = "done" <=> catCreate'.req = "done"
      /\ catCreate.req = "done" => catCreate'.of = catCreate.of
      /\ catRevoke.req = "done" <=> catRevoke'.req = "done"
      /\ catRevoke.req = "done" => catRevoke'.of = catRevoke.of
  <2>1. CASE OpenCreateLink \/ TypeLimits
    BY <2>1 DEF OpenCreateLink, TypeLimits, CatTypeOK
  <2>2. CASE submit \/ QrDrawn \/ handleCopyUrl
    BY <2>2 DEF submit, QrDrawn, handleCopyUrl, CatTypeOK
  <2>3. CASE closeCreate
    BY <2>3 DEF closeCreate, CreateClosed, CatTypeOK
  <2>4. CASE OpenRevokeLink
    BY <2>4 DEF OpenRevokeLink, CatUncovered, RevocationIsOpen, RevokeClosed, CatTypeOK
  <2>5. CASE CloseRevokeLink \/ ConfirmRevokeLink
    BY <2>5 DEF CloseRevokeLink, ConfirmRevokeLink, CatTypeOK
  <2> QED
    BY <2>1, <2>2, <2>3, <2>4, <2>5
<1>3. ListedAreLive' /\ UnreadAreOthers'
  BY <1>1, <1>2 DEF ListedAreLive, UnreadAreOthers, CreatedUnseen, RevokedUnseen, Listed, Live
<1>4. SpentStay'
  BY <1>1 DEF SpentStay, Listed
<1>5. /\ catCreate' \in [open : BOOLEAN, limits : {"none", "set", "wrong"},
                         req : {"none", "sent", "done"}, of : ReaderLinks \cup {NoLinkShown}]
      /\ catUrl' \in [of : ReaderLinks \cup {NoLinkShown}, qr : {"loading", "ready", "error"},
                      uncopied : BOOLEAN]
      /\ catRevoke' \in [of : ReaderLinks \cup {NoLinkShown}, req : {"none", "sent", "done"},
                         error : BOOLEAN]
      /\ catError' \in BOOLEAN
  <2>1. CASE OpenCreateLink \/ TypeLimits \/ submit
    BY <2>1 DEF OpenCreateLink, TypeLimits, submit, CatTypeOK
  <2>2. CASE QrDrawn \/ handleCopyUrl
    BY <2>2 DEF QrDrawn, handleCopyUrl, resolveQrRenderState, CatTypeOK
  <2>3. CASE closeCreate
    BY <2>3 DEF closeCreate, CreateClosed, NoUrl, CatTypeOK
  <2>4. CASE OpenRevokeLink
    BY <2>4 DEF OpenRevokeLink, RevokeClosed, CatTypeOK
  <2>5. CASE CloseRevokeLink \/ ConfirmRevokeLink
    BY <2>5 DEF CloseRevokeLink, ConfirmRevokeLink, CatTypeOK
  <2> QED
    BY <2>1, <2>2, <2>3, <2>4, <2>5
<1>6. CatTypeOK'
  BY <1>1, <1>5 DEF CatTypeOK, Listed
<1>7. CreationIsOpen' /\ RevocationIsOpen'
  <2> USE CatAssumption DEF CreationIsOpen, RevocationIsOpen
  <2>1. Listed' = Listed /\ Live' = Live
    BY <1>1 DEF Listed, Live
  <2>2. CASE OpenCreateLink
    BY <1>1, <2>1, <2>2 DEF OpenCreateLink, CatUncovered, CatTypeOK
  <2>3. CASE TypeLimits \/ submit
    BY <1>1, <2>1, <2>3 DEF TypeLimits, submit, CreateShows, CatTypeOK
  <2>4. CASE QrDrawn
    <3>1. catUrl # NoUrl /\ catUrl'.of = catUrl.of
      BY <2>4 DEF QrDrawn, NoUrl, CatTypeOK
    <3> QED
      BY <1>1, <2>1, <2>4, <3>1 DEF QrDrawn
  <2>5. CASE handleCopyUrl
    <3>1. catUrl # NoUrl /\ catUrl'.of = catUrl.of
      BY <2>5 DEF handleCopyUrl, CreateShows, CatTypeOK
    <3> QED
      BY <1>1, <2>1, <2>5, <3>1 DEF handleCopyUrl
  <2>6. CASE closeCreate
    BY <1>1, <2>1, <2>6 DEF closeCreate, CreateClosed
  <2>7. CASE OpenRevokeLink
    <3>1. PICK l \in Listed : catRevoke' = [RevokeClosed EXCEPT !.of = l]
      BY <2>7 DEF OpenRevokeLink
    <3>2. catRevoke'.of = l /\ catRevoke'.req = "none"
      BY <3>1 DEF RevokeClosed
    <3>3. ~catCreate.open /\ UNCHANGED <<catCreate, catUrl>>
      BY <2>7 DEF OpenRevokeLink, CatUncovered
    <3>4. catCreate.req = "none" /\ catUrl = NoUrl
      BY <3>3
    <3> QED
      BY <1>1, <2>1, <3>2, <3>3, <3>4
  <2>8. CASE CloseRevokeLink \/ ConfirmRevokeLink
    <3>1. catRevoke.of # NoLinkShown /\ UNCHANGED <<catCreate, catUrl>>
      BY <2>8 DEF CloseRevokeLink, ConfirmRevokeLink
    <3>2. /\ catRevoke'.of \in {catRevoke.of, NoLinkShown} /\ catRevoke'.req \in {"none", "sent"}
          /\ catRevoke'.req = "sent" => catRevoke'.of = catRevoke.of
      BY <2>8 DEF CloseRevokeLink, ConfirmRevokeLink, CatTypeOK
    <3>3. ~catCreate.open /\ catRevoke.of \in Listed /\ catCreate.req = "none" /\ catUrl = NoUrl
      BY <3>1
    <3> QED
      BY <1>1, <2>1, <3>1, <3>2, <3>3
  <2> QED
    BY <2>2, <2>3, <2>4, <2>5, <2>6, <2>7, <2>8
<1> QED
  BY <1>3, <1>4, <1>6, <1>7

\* A creation: it is served, it answers, or it fails.
LEMMA CreationKeeps ==
  ASSUME CatInv, CreateLinkServed \/ CreateLinkAnswers \/ CreateLinkFails
  PROVE  CatInv'
<1> USE CatAssumption DEF CatInv
<1>1. catAway' = catAway /\ catRevoke' = catRevoke /\ catCreate.req # "none"
      /\ UNCHANGED <<catPast, catNow, catUnread>>
  BY DEF CreateLinkServed, CreateLinkAnswers, CreateLinkFails, catTimes, catSeen
<1>2. catCreate.open /\ catUrl = NoUrl /\ catRevoke.of = NoLinkShown /\ catRevoke.req = "none"
  BY <1>1 DEF CreationIsOpen, RevocationIsOpen, CatTypeOK
<1>3. CASE CreateLinkServed
  <2>1. PICK l \in ReaderLinks :
          /\ catServer[l] = "absent"
          /\ catServer' = [catServer EXCEPT ![l] = "live"]
          /\ catCreate' = [catCreate EXCEPT !.req = "done", !.of = l]
    BY <1>3 DEF CreateLinkServed
  <2>2. UNCHANGED <<catRows, catError, catUrl, catLost>> /\ catCreate.req = "sent"
    BY <1>3 DEF CreateLinkServed, catSeen
  <2>3. Listed' = Listed /\ l \notin Listed /\ Live' = Live \cup {l}
    BY <2>1, <2>2 DEF Listed, Live, SpentStay, CatTypeOK
  <2>4. catCreate'.req = "done" /\ catCreate'.of = l /\ catCreate'.open = catCreate.open
    BY <2>1 DEF CatTypeOK
  <2>5. CatTypeOK'
    <3>1. catServer' \in [ReaderLinks -> {"absent", "live", "spent", "revoked"}]
      BY <2>1 DEF CatTypeOK
    <3>2. catCreate' \in [open : BOOLEAN, limits : {"none", "set", "wrong"},
                           req : {"none", "sent", "done"}, of : ReaderLinks \cup {NoLinkShown}]
      BY <2>1 DEF CatTypeOK
    <3> QED
      BY <1>1, <2>2, <2>3, <3>1, <3>2 DEF CatTypeOK
  <2>6. ListedAreLive' /\ UnreadAreOthers'
    BY <1>1, <1>2, <2>1, <2>2, <2>3, <2>4 DEF ListedAreLive, UnreadAreOthers, CreatedUnseen, RevokedUnseen
  <2>7. CreationIsOpen' /\ RevocationIsOpen'
    BY <1>1, <1>2, <2>2, <2>3, <2>4 DEF CreationIsOpen, RevocationIsOpen
  <2>8. SpentStay'
    BY <2>1, <2>2, <2>3 DEF SpentStay, CatTypeOK
  <2> QED
    BY <2>5, <2>6, <2>7, <2>8
<1>4. CASE CreateLinkAnswers
  <2>0. PICK l \in ReaderLinks : l = catCreate.of
    BY <1>4 DEF CreateLinkAnswers, CreationIsOpen, Live
  <2>1. l \in ReaderLinks /\ l \in Live \ Listed /\ l # NoLinkShown
    BY <1>4, <2>0 DEF CreateLinkAnswers, CreationIsOpen, Live
  <2>2. catRows' = [k \in Listed \cup {l} |-> IF k = l THEN "live" ELSE catRows[k]]
        /\ UNCHANGED <<catServer, catError, catLost>>
    BY <1>4, <2>0 DEF WithRow, CreateLinkAnswers, catSeen
  <2>3. Listed' = Listed \cup {l} /\ catRows'[l] = "live"
        /\ \A k \in Listed : catRows'[k] = catRows[k]
    BY <2>1, <2>2 DEF Listed
  <2>4. Live' = Live
    BY <2>2 DEF Live
  <2>5. catUrl' = [NoUrl EXCEPT !.of = l] /\ catUrl'.of = l
    BY <1>4, <2>0 DEF CreateLinkAnswers, NoUrl
  <2>6. catCreate' = [catCreate EXCEPT !.req = "none", !.of = NoLinkShown]
        /\ catCreate'.req = "none" /\ catCreate'.open = catCreate.open /\ catCreate.req = "done"
    BY <1>4 DEF CreateLinkAnswers, CatTypeOK
  <2>7. CatTypeOK'
    BY <1>1, <2>1, <2>2, <2>3, <2>5, <2>6 DEF CatTypeOK, NoUrl
  <2>8. ListedAreLive' /\ UnreadAreOthers'
    BY <1>1, <1>2, <2>0, <2>1, <2>2, <2>3, <2>4, <2>6 DEF ListedAreLive, UnreadAreOthers, CreatedUnseen, RevokedUnseen
  <2>9. CreationIsOpen' /\ RevocationIsOpen'
    BY <1>1, <1>2, <2>1, <2>3, <2>4, <2>5, <2>6 DEF CreationIsOpen, RevocationIsOpen
  <2>10. SpentStay'
    BY <2>1, <2>2, <2>3 DEF SpentStay, Live
  <2> QED
    BY <2>7, <2>8, <2>9, <2>10
<1>5. CASE CreateLinkFails
  <2>1. UNCHANGED <<catServer, catRows, catUrl>> /\ catError' = TRUE
        /\ catLost' = (IF catCreate.req = "done" THEN catLost \cup {catCreate.of} ELSE catLost)
        /\ catCreate' = [catCreate EXCEPT !.req = "none", !.of = NoLinkShown]
    BY <1>5 DEF CreateLinkFails
  <2>2. Listed' = Listed /\ Live' = Live
    BY <2>1 DEF Listed, Live
  <2>3. catCreate'.req = "none" /\ catCreate'.open = catCreate.open
    BY <2>1 DEF CatTypeOK
  <2>4. catLost' \subseteq ReaderLinks
    BY <2>1 DEF CatTypeOK, CreationIsOpen, Live
  <2>5. CatTypeOK'
    BY <1>1, <2>1, <2>2, <2>4 DEF CatTypeOK
  <2>6. ListedAreLive' /\ UnreadAreOthers'
    BY <1>1, <1>2, <2>1, <2>2, <2>3 DEF ListedAreLive, UnreadAreOthers, CreatedUnseen, RevokedUnseen
  <2>7. CreationIsOpen' /\ RevocationIsOpen' /\ SpentStay'
    BY <1>1, <1>2, <2>1, <2>2, <2>3 DEF CreationIsOpen, RevocationIsOpen, SpentStay
  <2> QED
    BY <2>5, <2>6, <2>7
<1> QED
  BY <1>3, <1>4, <1>5

\* A revocation likewise.
LEMMA RevocationKeeps ==
  ASSUME CatInv, RevokeLinkServed \/ RevokeLinkAnswers \/ RevokeLinkFails
  PROVE  CatInv'
<1> USE CatAssumption DEF CatInv
<1>0. PICK l : l = catRevoke.of
  OBVIOUS
<1>1. catAway' = catAway /\ catCreate' = catCreate /\ catUrl' = catUrl /\ catError' = catError
      /\ catRevoke.req # "none" /\ UNCHANGED <<catPast, catNow, catUnread>>
  BY DEF RevokeLinkServed, RevokeLinkAnswers, RevokeLinkFails, catTimes, catSeen
<1>2. l \in ReaderLinks /\ l \in Listed /\ ~catCreate.open /\ catCreate.req = "none"
      /\ catUrl = NoUrl
  BY <1>0, <1>1 DEF CreationIsOpen, RevocationIsOpen, CatTypeOK
<1>3. CASE RevokeLinkServed
  <2>1. catServer' = [catServer EXCEPT ![l] = "revoked"] /\ UNCHANGED <<catRows, catLost>>
        /\ catRevoke' = [catRevoke EXCEPT !.req = "done"] /\ catRevoke.req = "sent"
    BY <1>0, <1>3 DEF RevokeLinkServed, catSeen
  <2>2. Listed' = Listed /\ Live' = Live \ {l}
    BY <1>2, <2>1 DEF Listed, Live, CatTypeOK
  <2>3. catRevoke'.req = "done" /\ catRevoke'.of = l
    BY <1>0, <2>1 DEF CatTypeOK
  <2>4. catServer'[l] = "revoked" /\ \A k \in ReaderLinks \ {l} : catServer'[k] = catServer[k]
    BY <1>2, <2>1 DEF CatTypeOK
  <2>5. CatTypeOK'
    BY <1>1, <2>1, <2>2 DEF CatTypeOK
  <2>6. ListedAreLive' /\ UnreadAreOthers'
    BY <1>0, <1>1, <1>2, <2>1, <2>2, <2>3 DEF ListedAreLive, UnreadAreOthers, CreatedUnseen, RevokedUnseen
  <2>7. CreationIsOpen' /\ RevocationIsOpen' /\ SpentStay'
    BY <1>0, <1>1, <1>2, <2>1, <2>2, <2>3, <2>4
       DEF CreationIsOpen, RevocationIsOpen, SpentStay, CatTypeOK
  <2> QED
    BY <2>5, <2>6, <2>7
<1>4. CASE RevokeLinkAnswers
  <2>1. catRows' = [k \in Listed \ {l} |-> catRows[k]] /\ UNCHANGED <<catServer, catLost>>
        /\ catRevoke' = RevokeClosed /\ catRevoke.req = "done"
    BY <1>0, <1>4 DEF RevokeLinkAnswers, catSeen
  <2>2. Listed' = Listed \ {l} /\ Live' = Live /\ \A k \in Listed' : catRows'[k] = catRows[k]
    BY <2>1 DEF Listed, Live
  <2>3. catRevoke'.req = "none" /\ catRevoke'.of = NoLinkShown /\ l \notin Live
    BY <1>0, <2>1 DEF RevokeClosed, RevocationIsOpen, Live
  <2>4. CatTypeOK'
    BY <1>1, <2>1, <2>2 DEF CatTypeOK, RevokeClosed
  <2>5. ListedAreLive' /\ UnreadAreOthers'
    BY <1>0, <1>1, <1>2, <2>1, <2>2, <2>3 DEF ListedAreLive, UnreadAreOthers, CreatedUnseen, RevokedUnseen
  <2>6. CreationIsOpen' /\ RevocationIsOpen' /\ SpentStay'
    BY <1>0, <1>1, <1>2, <2>1, <2>2, <2>3 DEF CreationIsOpen, RevocationIsOpen, SpentStay
  <2> QED
    BY <2>4, <2>5, <2>6
<1>5. CASE RevokeLinkFails
  <2>1. UNCHANGED <<catServer, catRows>>
        /\ catLost' = (IF catRevoke.req = "done" THEN catLost \cup {l} ELSE catLost)
        /\ catRevoke' = [catRevoke EXCEPT !.req = "none", !.error = TRUE]
    BY <1>0, <1>5 DEF RevokeLinkFails
  <2>2. Listed' = Listed /\ Live' = Live
    BY <2>1 DEF Listed, Live
  <2>3. catRevoke'.req = "none" /\ catRevoke'.of = l
    BY <1>0, <2>1 DEF CatTypeOK
  <2>4. CatTypeOK'
    BY <1>0, <1>1, <1>2, <2>1, <2>2 DEF CatTypeOK
  <2>5. ListedAreLive' /\ UnreadAreOthers'
    BY <1>0, <1>1, <1>2, <2>1, <2>2, <2>3 DEF ListedAreLive, UnreadAreOthers, CreatedUnseen, RevokedUnseen
  <2>6. CreationIsOpen' /\ RevocationIsOpen' /\ SpentStay'
    BY <1>0, <1>1, <1>2, <2>1, <2>2, <2>3 DEF CreationIsOpen, RevocationIsOpen, SpentStay
  <2> QED
    BY <2>4, <2>5, <2>6
<1> QED
  BY <1>3, <1>4, <1>5

\* What readers, deliveries and the time do to the links, and the page's clock.
LEMMA LinksMove ==
  ASSUME CatInv, NEW l \in ReaderLinks,
         LinkSpent(l) \/ device_catalog(l) \/ LinkExpires(l) \/ SetNow \/ PageRefreshed
  PROVE  CatInv'
<1> USE CatAssumption DEF CatInv
<1>1. UNCHANGED <<catRows, catCreate, catError, catUrl, catRevoke, catLost>> /\ catAway' \in BOOLEAN
  BY DEF LinkSpent, device_catalog, LinkExpires, SetNow, PageRefreshed, catSeen, CatTypeOK
<1>2. Listed' = Listed /\ CreatedUnseen' = CreatedUnseen /\ RevokedUnseen' = RevokedUnseen
  BY <1>1 DEF Listed, CreatedUnseen, RevokedUnseen
<1>3. CASE device_catalog(l)
  <2>1. catServer[l] = "absent" /\ catServer' = [catServer EXCEPT ![l] = "live"]
        /\ catUnread' = catUnread \cup {l} /\ UNCHANGED <<catPast, catNow>>
    BY <1>3 DEF device_catalog, catTimes
  <2>2. l \notin Listed /\ l \notin CreatedUnseen /\ l \notin RevokedUnseen
    BY <2>1 DEF SpentStay, CreatedUnseen, RevokedUnseen, CreationIsOpen, RevocationIsOpen, Live
  <2>3. /\ catServer' \in [ReaderLinks -> {"absent", "live", "spent", "revoked"}]
        /\ Live' = Live \cup {l} /\ catServer'[l] = "live"
        /\ \A k \in ReaderLinks \ {l} : catServer'[k] = catServer[k]
    BY <2>1 DEF Live, CatTypeOK
  <2>4. CatTypeOK'
    BY <1>1, <1>2, <2>1, <2>3 DEF CatTypeOK
  <2>5. ListedAreLive' /\ UnreadAreOthers'
    BY <1>1, <1>2, <2>1, <2>2, <2>3 DEF ListedAreLive, UnreadAreOthers, CatTypeOK
  <2>6. CreationIsOpen' /\ SpentStay'
    BY <1>1, <1>2, <2>2, <2>3 DEF CreationIsOpen, SpentStay, CatTypeOK
  <2>7. RevocationIsOpen'
    BY <1>1, <1>2, <2>2, <2>3 DEF RevocationIsOpen, CatTypeOK
  <2> QED
    BY <2>4, <2>5, <2>6, <2>7
<1>4. CASE LinkSpent(l)
  <2>1. catServer[l] = "live" /\ catServer' = [catServer EXCEPT ![l] = "spent"]
        /\ UNCHANGED <<catPast, catNow, catUnread>>
    BY <1>4 DEF LinkSpent, LetsIn, catTimes, catSeen
  <2>2. Live' = Live
    BY <2>1 DEF Live, CatTypeOK
  <2>3. CatTypeOK'
    BY <1>1, <1>2, <2>1 DEF CatTypeOK
  <2>4. ListedAreLive' /\ UnreadAreOthers'
    BY <1>1, <1>2, <2>1, <2>2 DEF ListedAreLive, UnreadAreOthers, CatTypeOK
  <2>5. CreationIsOpen' /\ RevocationIsOpen' /\ SpentStay'
    BY <1>1, <1>2, <2>1, <2>2 DEF CreationIsOpen, RevocationIsOpen, SpentStay, CatTypeOK
  <2> QED
    BY <2>3, <2>4, <2>5
<1>5. CASE LinkExpires(l) \/ SetNow \/ PageRefreshed
  <2>1. UNCHANGED <<catServer, catUnread>> /\ catPast' \subseteq ReaderLinks /\ catNow' \subseteq catPast'
    BY <1>5 DEF LinkExpires, SetNow, PageRefreshed, catTimes, catSeen, CatTypeOK
  <2>2. Live' = Live
    BY <2>1 DEF Live
  <2>3. CatTypeOK'
    BY <1>1, <1>2, <2>1 DEF CatTypeOK
  <2>4. ListedAreLive' /\ UnreadAreOthers'
    BY <1>1, <1>2, <2>1, <2>2 DEF ListedAreLive, UnreadAreOthers
  <2>5. CreationIsOpen' /\ RevocationIsOpen' /\ SpentStay'
    BY <1>1, <1>2, <2>1, <2>2 DEF CreationIsOpen, RevocationIsOpen, SpentStay
  <2> QED
    BY <2>3, <2>4, <2>5
<1> QED
  BY <1>3, <1>4, <1>5

LEMMA CatStepInv == CatInv /\ [CatNext]_catVars => CatInv'
<1> SUFFICES ASSUME CatInv, [CatNext]_catVars PROVE CatInv'
  OBVIOUS
<1>1. CASE UNCHANGED catVars
  BY <1>1 DEF catVars, catTimes, catSeen, CatInv, CatTypeOK, ListedAreLive, UnreadAreOthers,
         CreatedUnseen, RevokedUnseen,
         CreationIsOpen, RevocationIsOpen, SpentStay, Listed, Live
<1>2. CASE \E l \in ReaderLinks : LinkSpent(l) \/ device_catalog(l) \/ LinkExpires(l)
  BY <1>2, LinksMove
<1>3. CASE SetNow \/ PageRefreshed
  <2>1. CASE ReaderLinks # {}
    BY <1>3, <2>1, LinksMove
  <2>2. CASE ReaderLinks = {}
    BY <1>3, <2>2
    DEF SetNow, PageRefreshed, catTimes, catSeen, CatInv, CatTypeOK, ListedAreLive,
        UnreadAreOthers, CreatedUnseen, RevokedUnseen, CreationIsOpen, RevocationIsOpen, SpentStay,
        Listed, Live
  <2> QED
    BY <2>1, <2>2
<1>4. CASE CatNext
  BY <1>2, <1>3, <1>4, CatFormKeeps, CreationKeeps, RevocationKeeps DEF CatNext
<1> QED
  BY <1>1, <1>4

\* The parts of the invariant hold of every reachable state of the reader links,
\* for any links (reader-catalog-section.tsx).
THEOREM CatInvariance == CatSpec => []CatInv
  BY CatInitInv, CatStepInv, PTL DEF CatSpec

LEMMA CatInvLists == CatInv => CatTypeOK /\ LinksAreServers
<1> SUFFICES ASSUME CatInv PROVE LinksAreServers
  BY DEF CatInv
<1> USE DEF CatInv
<1>1. Listed \subseteq ReaderLinks /\ Live \subseteq ReaderLinks
  BY DEF CatTypeOK, Live
<1>2. catCreate.req # "none" \/ catRevoke.req # "none"
      \/ Listed \ catLost = Live \ (catLost \cup catUnread)
  BY <1>1 DEF ListedAreLive, UnreadAreOthers, CreatedUnseen, RevokedUnseen
<1>3. \A l \in Listed : OpdsTokenBadge(l) # "statusActive" => ~LetsIn(l)
  BY DEF OpdsTokenBadge, LetsIn, SpentStay, CatTypeOK
<1>4. catUrl # NoUrl => CreateShows = "created" /\ catUrl.of \in Listed \cap Live
  BY DEF CreateShows, CreationIsOpen
<1> QED
  BY <1>2, <1>3, <1>4 DEF LinksAreServers

-----------------------------------------------------------------------------
(***************************************************************************)
(* Every page of an account at once.  A behavior is about one of them, and *)
(* the others stay as they were, which each of their specifications        *)
(* allows.                                                                 *)
(***************************************************************************)
LEMMA PageSteps ==
  ASSUME [Next]_vars
  PROVE  /\ [DevNext]_devVars /\ [FormNext]_dfVars /\ [SrcNext]_srcVars /\ [GwNext]_gwVars
         /\ [ActNext]_actVars /\ [SetNext]_setVars /\ [CatNext]_catVars
  BY DEF Next, vars

LEMMA PagesAreAll ==
  Spec => /\ DevSpec /\ FormSpec /\ SrcSpec /\ GwSpec /\ ActSpec /\ SetSpec /\ CatSpec
<1>1. Init => /\ DevInit /\ FormInit /\ SrcInit /\ GwInit /\ ActInit /\ SetInit /\ CatInit
  BY DEF Init
<1> QED
  BY <1>1, PageSteps, PTL DEF Spec, DevSpec, FormSpec, SrcSpec, GwSpec, ActSpec, SetSpec, CatSpec

\* The devices page, the forms, the sources, the gateways and their panels, the
\* settings and the reader links show what the server has, as PagesAreServers
\* says of each, whatever is answered late, lost or done by others meanwhile
\* (devices-view.tsx, gateways-state.ts, settings-form.tsx, reader-catalog-section.tsx).
THEOREM PagesAreAlwaysServers == Spec => []PagesAreServers
<1>1. /\ DevInv => DevTypeOK /\ DevicesAreServers
      /\ FormInv => FormTypeOK /\ DevicesAreCoherent
      /\ SrcInv => SrcTypeOK
      /\ SetInv => SetTypeOK /\ SavedIsSaved
      /\ CatInv => CatTypeOK /\ LinksAreServers
      /\ PanelInv => ActTypeOK /\ PanelsAreTrue
  BY DevInvRows, FormInvDevices, SetInvSaved, CatInvLists, PanelInvTrue DEF SrcInv
<1>2. DevInv /\ FormInv /\ SrcInv /\ GwTypeOK /\ SetInv /\ CatInv /\ PanelInv => PagesAreServers
  BY <1>1 DEF PagesAreServers
<1> QED
  BY <1>2, PagesAreAll, DevicesInvariance, FormInvariance, SrcInvariance, GatewaysAreTyped,
     SetInvariance, CatInvariance, PanelsInvariance, PTL
=============================================================================
