----------------------------- MODULE DevicesView -----------------------------
(***************************************************************************)
(* The devices page (devices-view.tsx, devices-state.ts, device-row.tsx,   *)
(* its page) and its forms (new-device-dialog.tsx, edit-device-dialog.tsx). *)
(*                                                                         *)
(* A device is created, edited and deleted: what the page shows of it is   *)
(* how far it has come.  Refreshes are one at a time; the list read after  *)
(* a cloud callback, the answers of the forms and that of a deletion come  *)
(* when they come.                                                         *)
(***************************************************************************)
EXTENDS Naturals, FiniteSets

CONSTANTS OwnDevices,
          NoDevice  \* not a device

ASSUME DevicesAssumption == NoDevice \notin OwnDevices

\* 0: not created; 1: created; 2: edited; 3: deleted.
DevAges == 0..3
Has(rows) == {d \in OwnDevices : rows[d] \in 1..2}

VARIABLES
  devServer,    \* per device: the server's row
  devList,      \* per device: the row the page has, 0 or 3 if it has none
  devRead,      \* the refresh in flight, and the list it has read
  devCallback,  \* the list asked for after a callback, likewise
  devSpin,      \* refreshing
  devGone,      \* unavailable
  devError,     \* refreshError
  devLink,      \* cloudLinkStatus is that of a failed callback, until dismissed
  devForm,      \* the form that is open, its device and its request
  devDelete,    \* the deletion that is asked to confirm, or runs
  devKnown,     \* observed: per device, the newest row an answer brought
  devBack,      \* observed: devices of which the list read last was older
  devLost       \* observed: devices of which the answer to a change was lost

devNotice == <<devGone, devError, devLink>>
devReads  == <<devRead, devCallback, devSpin>>
devForms  == <<devForm, devDelete>>
devSeen   == <<devKnown, devBack, devLost>>
devVars   == <<devServer, devList, devReads, devNotice, devForms, devSeen>>

NotRead == [asked |-> FALSE, got |-> [d \in OwnDevices |-> 0], has |-> FALSE]
AskRead == [NotRead EXCEPT !.asked = TRUE]
NoForm == [kind |-> "closed", of |-> NoDevice, req |-> "none"]
NoDelete == [of |-> NoDevice, req |-> "none"]

DevInit ==
  /\ devServer \in [OwnDevices -> 0..1]
  /\ devList \in {devServer, [d \in OwnDevices |-> 0]}
  /\ devRead = NotRead /\ devSpin = FALSE
  /\ devLink \in BOOLEAN
  /\ devCallback \in (IF devLink THEN {NotRead} ELSE {NotRead, AskRead})
  /\ devGone = (devList # devServer) /\ devError = FALSE
  /\ devForm = NoForm /\ devDelete = NoDelete
  /\ devKnown = devList /\ devBack = {} /\ devLost = {}

-----------------------------------------------------------------------------
(* What the page shows.                                                    *)

DevPanel ==
  IF devGone /\ Has(devList) = {} THEN "unavailable"
  ELSE IF Has(devList) = {} THEN "empty" ELSE "rows"

DevPartialShown == devError /\ Has(devList) # {}
\* The forms cover the page; the rows' buttons wait for a deletion.
DevUncovered == devForm.kind = "closed" /\ devDelete.of = NoDevice
RowOffers(d) == DevUncovered /\ DevPanel = "rows" /\ d \in Has(devList)

Newer(d, age) == IF age > devKnown[d] THEN age ELSE devKnown[d]

\* setDevices, of the whole list or of a row.
SetDevices(rows) ==
  /\ devList' = rows
  /\ devKnown' = [d \in OwnDevices |-> Newer(d, rows[d])]
  /\ devBack' = {d \in OwnDevices : rows[d] < devKnown[d]}
SetDevice(d, age) ==
  /\ devList' = [devList EXCEPT ![d] = age]
  /\ devKnown' = [devKnown EXCEPT ![d] = Newer(d, age)]
  /\ devBack' = devBack \ {d}

-----------------------------------------------------------------------------
(* Reading the list.                                                       *)

\* refresh: refreshingRef lets one run at a time.
DevRefresh ==
  /\ DevUncovered /\ ~devRead.asked
  /\ devRead' = AskRead /\ devSpin' = TRUE
  /\ UNCHANGED <<devServer, devList, devCallback, devNotice, devForms, devSeen>>

RefreshEnds == devRead' = NotRead /\ devSpin' = FALSE

DevRefreshAnswers ==
  /\ devRead.has
  /\ SetDevices(devRead.got)
  /\ devGone' = FALSE /\ devError' = FALSE
  /\ RefreshEnds
  /\ UNCHANGED <<devServer, devCallback, devLink, devForms, devLost>>

\* Faulty variant: a reading that fails empties the list.
DevRefreshFailsEmpty ==
  /\ devRead.asked
  /\ devList' = [d \in OwnDevices |-> 0]
  /\ devError' = TRUE /\ UNCHANGED devGone
  /\ RefreshEnds
  /\ UNCHANGED <<devServer, devCallback, devLink, devForms, devSeen>>

\* applyDeviceFetchResult keeps the list.
DevRefreshFails ==
  /\ devRead.asked
  /\ IF Has(devList) = {} THEN devGone' = TRUE /\ UNCHANGED devError
     ELSE devError' = TRUE /\ UNCHANGED devGone
  /\ RefreshEnds
  /\ UNCHANGED <<devServer, devList, devCallback, devLink, devForms, devSeen>>

CallbackAnswers ==
  /\ devCallback.has
  /\ SetDevices(devCallback.got)
  /\ devGone' = FALSE /\ devError' = FALSE
  /\ devCallback' = NotRead
  /\ UNCHANGED <<devServer, devRead, devSpin, devLink, devForms, devLost>>

CallbackFails ==
  /\ devCallback.asked
  /\ devError' = TRUE
  /\ devCallback' = NotRead
  /\ UNCHANGED <<devServer, devList, devRead, devSpin, devGone, devLink, devForms, devSeen>>

DevDismissNotice ==
  /\ DevUncovered
  /\ \/ DevPartialShown /\ devError' = FALSE /\ UNCHANGED devLink
     \/ devLink /\ devLink' = FALSE /\ UNCHANGED devError
  /\ UNCHANGED <<devServer, devList, devReads, devGone, devForms, devSeen>>

\* The server reads the devices for a request in flight; a deleted one is
\* absent like one that is not created.
DevServerReads ==
  /\ \/ /\ devRead.asked /\ ~devRead.has
        /\ devRead' = [devRead EXCEPT !.has = TRUE, !.got = devServer]
        /\ UNCHANGED devCallback
     \/ /\ devCallback.asked /\ ~devCallback.has
        /\ devCallback' = [devCallback EXCEPT !.has = TRUE, !.got = devServer]
        /\ UNCHANGED devRead
  /\ UNCHANGED <<devServer, devList, devSpin, devNotice, devForms, devSeen>>

-----------------------------------------------------------------------------
(* The forms.                                                              *)

\* The button, or the address's action.
OpenCreate ==
  /\ DevUncovered
  /\ devForm' = [kind |-> "create", of |-> NoDevice, req |-> "none"]
  /\ UNCHANGED <<devServer, devList, devReads, devNotice, devDelete, devSeen>>

OpenEdit(d) ==
  /\ RowOffers(d)
  /\ devForm' = [kind |-> "edit", of |-> d, req |-> "none"]
  /\ UNCHANGED <<devServer, devList, devReads, devNotice, devDelete, devSeen>>

\* handleOpenChange: not while submitting.
CloseForm ==
  /\ devForm.kind # "closed" /\ devForm.req = "none"
  /\ devForm' = NoForm
  /\ UNCHANGED <<devServer, devList, devReads, devNotice, devDelete, devSeen>>

SubmitForm ==
  /\ devForm.kind # "closed" /\ devForm.req = "none"
  /\ devForm' = [devForm EXCEPT !.req = "sent"]
  /\ UNCHANGED <<devServer, devList, devReads, devNotice, devDelete, devSeen>>

\* The server creates another device or edits this one, or refuses.
FormServed ==
  /\ devForm.req = "sent"
  /\ \/ \E d \in OwnDevices :
          /\ IF devForm.kind = "create" THEN devServer[d] = 0 ELSE d = devForm.of /\ devServer[d] # 3
          /\ devServer' = [devServer EXCEPT ![d] = IF devForm.kind = "create" THEN 1 ELSE 2]
          /\ devForm' = [devForm EXCEPT !.req = "done", !.of = d]
     \/ /\ devForm' = [devForm EXCEPT !.req = "refused"]
        /\ UNCHANGED devServer
  /\ UNCHANGED <<devList, devReads, devNotice, devDelete, devSeen>>

\* onCreated puts the device before the others, onUpdated in its place.
FormAnswers ==
  LET d == devForm.of IN
  /\ devForm.req = "done"
  /\ IF devForm.kind = "create" \/ d \in Has(devList)
     THEN SetDevice(d, IF devForm.kind = "create" THEN 1 ELSE 2)
     ELSE devKnown' = [devKnown EXCEPT ![d] = Newer(d, 2)] /\ UNCHANGED <<devList, devBack>>
  /\ devForm' = NoForm
  /\ UNCHANGED <<devServer, devReads, devNotice, devDelete, devLost>>

\* The form stays open; the server may have served it, and creates another
\* device if it is submitted again.
FormFails ==
  /\ devForm.req \in {"done", "refused"}
  /\ devLost' = IF devForm.req = "done" THEN devLost \cup {devForm.of} ELSE devLost
  /\ devForm' = [devForm EXCEPT !.req = "none", !.of = IF devForm.kind = "create" THEN NoDevice ELSE @]
  /\ UNCHANGED <<devServer, devList, devReads, devNotice, devDelete, devKnown, devBack>>

-----------------------------------------------------------------------------
(* Deleting.                                                               *)

OpenDelete(d) ==
  /\ RowOffers(d)
  /\ devDelete' = [of |-> d, req |-> "none"]
  /\ UNCHANGED <<devServer, devList, devReads, devNotice, devForm, devSeen>>

CancelDelete ==
  /\ devDelete.of # NoDevice /\ devDelete.req = "none"
  /\ devDelete' = NoDelete
  /\ UNCHANGED <<devServer, devList, devReads, devNotice, devForm, devSeen>>

confirmDelete ==
  /\ devDelete.of # NoDevice /\ devDelete.req = "none"
  /\ devDelete' = [devDelete EXCEPT !.req = "sent"]
  /\ UNCHANGED <<devServer, devList, devReads, devNotice, devForm, devSeen>>

\* The server refuses a device that is deleted already.
DevDeleteServed ==
  LET d == devDelete.of IN
  /\ devDelete.req = "sent"
  /\ \/ /\ devServer[d] \in {1, 2}
        /\ devServer' = [devServer EXCEPT ![d] = 3]
        /\ devDelete' = [devDelete EXCEPT !.req = "done"]
     \/ /\ devDelete' = [devDelete EXCEPT !.req = "refused"]
        /\ UNCHANGED devServer
  /\ UNCHANGED <<devList, devReads, devNotice, devForm, devSeen>>

DevDeleteAnswers ==
  /\ devDelete.req = "done"
  /\ SetDevice(devDelete.of, 3)
  /\ devDelete' = NoDelete
  /\ UNCHANGED <<devServer, devReads, devNotice, devForm, devLost>>

\* The question stays; the server may have deleted.
DevDeleteFails ==
  /\ devDelete.req \in {"done", "refused"}
  /\ devLost' = IF devDelete.req = "done" THEN devLost \cup {devDelete.of} ELSE devLost
  /\ devDelete' = [devDelete EXCEPT !.req = "none"]
  /\ UNCHANGED <<devServer, devList, devReads, devNotice, devForm, devKnown, devBack>>

-----------------------------------------------------------------------------
DevNext ==
  \/ DevRefresh \/ DevRefreshAnswers \/ DevRefreshFails \/ CallbackAnswers \/ CallbackFails
  \/ DevDismissNotice \/ DevServerReads
  \/ OpenCreate
  \/ \E d \in OwnDevices : OpenEdit(d) \/ OpenDelete(d)
  \/ CloseForm \/ SubmitForm \/ FormServed \/ FormAnswers \/ FormFails
  \/ CancelDelete \/ confirmDelete \/ DevDeleteServed \/ DevDeleteAnswers \/ DevDeleteFails

DevSpec == DevInit /\ [][DevNext]_devVars

-----------------------------------------------------------------------------
DevTypeOK ==
  /\ {devServer, devList, devKnown} \subseteq [OwnDevices -> DevAges]
  /\ {devRead, devCallback} \subseteq [asked : BOOLEAN, got : [OwnDevices -> DevAges], has : BOOLEAN]
  /\ {devSpin, devGone, devError, devLink} \subseteq BOOLEAN
  /\ devForm \in [kind : {"closed", "create", "edit"}, of : OwnDevices \cup {NoDevice},
                  req : {"none", "sent", "done", "refused"}]
  /\ devDelete \in [of : OwnDevices \cup {NoDevice}, req : {"none", "sent", "done", "refused"}]
  /\ devBack \subseteq OwnDevices /\ devLost \subseteq OwnDevices

(***************************************************************************)
(* Once the page has read the devices, and no request of it is under way,  *)
(* each row is the server's, but for a device of which the list was read   *)
(* before a change and applied after it (a deleted device is back, a new   *)
(* one missing, an edit undone), and for one whose change was served and   *)
(* its answer lost.  A reading that fails takes nothing away.              *)
(***************************************************************************)
DevicesAreServers ==
  \/ devGone \/ devForm.req # "none" \/ devDelete.req # "none"
  \/ \A d \in OwnDevices :
       devList[d] = devServer[d] \/ d \in devBack \/ d \in devLost
=============================================================================
