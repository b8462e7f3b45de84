------------------------------ MODULE CloudLink ------------------------------
(***************************************************************************)
(* Linking a device to a cloud account (cloud-link-dialog.tsx and the      *)
(* callback's page in devices-view.tsx): the dialog asks for an address,   *)
(* opens it in another window, asks for the device every two seconds for   *)
(* five minutes and listens for the message that the window's page posts.  *)
(*                                                                         *)
(* Each press of the button starts a run of startLink.  All the runs share *)
(* the component's state and two refs, and a run only ends when it reads   *)
(* that it is cancelled: one that is awaiting an answer when the dialog is *)
(* closed goes on when the answer comes, and the next press re-arms it.    *)
(***************************************************************************)
EXTENDS Naturals, FiniteSets

CONSTANTS LinkDevices,
          LinkRuns,  \* bound: presses of the button
          NoLink     \* not a device

VARIABLES
  lnkFor,       \* device: the dialog's, open unless NoLink
  lnkPhase,     \* phase
  lnkCancelled, \* pollCancelled
  lnkWaiting,   \* waitingDeviceId
  lnkRun,       \* per run: where startLink is, and for which device
  lnkPopup,     \* per run: its window, and the outcome its page will post
  lnkServer,    \* devices that are linked
  lnkConfirm,   \* devices asked for after a message that says ok
  lnkTold,      \* devices the owner was told are linked
  lnkLate,      \* observed: an address came to a dialog that no longer waits for its device
  lnkMixed      \* observed: a message was taken for another device's

lnkDialog == <<lnkFor, lnkPhase, lnkCancelled, lnkWaiting>>
lnkSeen   == <<lnkLate, lnkMixed>>
lnkVars   == <<lnkDialog, lnkRun, lnkPopup, lnkServer, lnkConfirm, lnkTold, lnkSeen>>

LinkBusy == lnkPhase \in {"opening", "waiting"}

LinkInit ==
  /\ lnkFor = NoLink /\ lnkPhase = "idle" /\ lnkCancelled = TRUE /\ lnkWaiting = NoLink
  /\ lnkRun = [r \in LinkRuns |-> [at |-> "unused", of |-> NoLink]]
  /\ lnkPopup = [r \in LinkRuns |-> "none"]
  /\ lnkServer = {} /\ lnkConfirm = {} /\ lnkTold = {} /\ lnkLate = FALSE /\ lnkMixed = FALSE

-----------------------------------------------------------------------------
(* The dialog.                                                             *)

\* Another resetKey: the phase is reset, and the effect cancels the polls.
ResetLink(d) ==
  /\ lnkFor' = d /\ lnkPhase' = "idle" /\ lnkCancelled' = TRUE /\ lnkWaiting' = NoLink

OpenLink(d) ==
  /\ lnkFor = NoLink
  /\ ResetLink(d)
  /\ UNCHANGED <<lnkRun, lnkPopup, lnkServer, lnkConfirm, lnkTold, lnkSeen>>

\* handleOpenChange; only the button Cancel is disabled while opening.
CloseLink ==
  /\ lnkFor # NoLink
  /\ ResetLink(NoLink)
  /\ UNCHANGED <<lnkRun, lnkPopup, lnkServer, lnkConfirm, lnkTold, lnkSeen>>

ChangeProvider ==
  /\ lnkFor # NoLink /\ ~LinkBusy
  /\ ResetLink(lnkFor)
  /\ UNCHANGED <<lnkRun, lnkPopup, lnkServer, lnkConfirm, lnkTold, lnkSeen>>

startLink(r) ==
  /\ lnkFor # NoLink /\ ~LinkBusy /\ lnkRun[r].at = "unused"
  /\ lnkPhase' = "opening" /\ lnkCancelled' = FALSE /\ lnkWaiting' = lnkFor
  /\ lnkRun' = [lnkRun EXCEPT ![r] = [at |-> "asking", of |-> lnkFor]]
  /\ UNCHANGED <<lnkFor, lnkPopup, lnkServer, lnkConfirm, lnkTold, lnkSeen>>

-----------------------------------------------------------------------------
(* A run, from await to await.                                             *)

At(r, at) == lnkRun' = [lnkRun EXCEPT ![r].at = at]

\* The address is opened, also for a dialog that was closed: the loop then
\* ends at its first test, and startLink without another word.
AddressOpens(r) ==
  /\ lnkRun[r].at = "asking"
  /\ lnkPopup' = [lnkPopup EXCEPT ![r] = "open"]
  /\ lnkPhase' = "waiting"
  /\ At(r, IF lnkCancelled THEN "ended" ELSE "polling")
  /\ lnkLate' = (lnkLate \/ lnkWaiting # lnkRun[r].of)
  /\ UNCHANGED <<lnkFor, lnkCancelled, lnkWaiting, lnkServer, lnkConfirm, lnkTold, lnkMixed>>

\* window.open returns nothing.
AddressBlocked(r) ==
  /\ lnkRun[r].at = "asking"
  /\ lnkPhase' = "popup_blocked" /\ lnkWaiting' = NoLink
  /\ At(r, "ended")
  /\ UNCHANGED <<lnkFor, lnkCancelled, lnkPopup, lnkServer, lnkConfirm, lnkTold, lnkSeen>>

\* The end without a link: an error of the first call, or five minutes.
GiveUp(r) ==
  /\ lnkPhase' = "idle" /\ lnkWaiting' = NoLink
  /\ At(r, "ended")
  /\ UNCHANGED <<lnkFor, lnkCancelled, lnkPopup, lnkServer, lnkConfirm, lnkTold, lnkSeen>>

AddressFails(r) == lnkRun[r].at = "asking" /\ GiveUp(r)
DeadlinePasses(r) == lnkRun[r].at = "polling" /\ ~lnkCancelled /\ GiveUp(r)

\* The two tests, before and after the two seconds.
LinkPoll(r) ==
  /\ lnkRun[r].at = "polling"
  /\ At(r, IF lnkCancelled THEN "ended" ELSE "checking")
  /\ UNCHANGED <<lnkDialog, lnkPopup, lnkServer, lnkConfirm, lnkTold, lnkSeen>>

\* onLinked, and the parent closes the dialog, whichever device it is of.
TellLinked(d) ==
  /\ lnkTold' = lnkTold \cup {d}
  /\ ResetLink(NoLink)

\* Faulty variant: any answer is a link.
CheckAnswersAny(r) ==
  /\ lnkRun[r].at = "checking"
  /\ IF lnkCancelled THEN UNCHANGED <<lnkDialog, lnkTold>> ELSE TellLinked(lnkRun[r].of)
  /\ At(r, "ended")
  /\ UNCHANGED <<lnkPopup, lnkServer, lnkConfirm, lnkSeen>>

\* An answer that says linked ends the run, and is told unless cancelled.
CheckAnswers(r) ==
  /\ lnkRun[r].at = "checking" /\ lnkRun[r].of \in lnkServer
  /\ IF lnkCancelled THEN UNCHANGED <<lnkDialog, lnkTold>> ELSE TellLinked(lnkRun[r].of)
  /\ At(r, "ended")
  /\ UNCHANGED <<lnkPopup, lnkServer, lnkConfirm, lnkSeen>>

\* Not linked yet, or a network error, which is ignored.
CheckSaysNothing(r) ==
  /\ lnkRun[r].at = "checking"
  /\ At(r, "polling")
  /\ UNCHANGED <<lnkDialog, lnkPopup, lnkServer, lnkConfirm, lnkTold, lnkSeen>>

-----------------------------------------------------------------------------
(* The other window.                                                       *)

\* The callback links the device, or not, and sends the window to the page.
Callback(r, outcome) ==
  /\ lnkPopup[r] = "open"
  /\ lnkPopup' = [lnkPopup EXCEPT ![r] = outcome]
  /\ lnkServer' = IF outcome = "ok" THEN lnkServer \cup {lnkRun[r].of} ELSE lnkServer
  /\ UNCHANGED <<lnkDialog, lnkRun, lnkConfirm, lnkTold, lnkSeen>>

\* Faulty variant: a failure is only told by a toast.
MessageToasted(r) ==
  /\ lnkPopup[r] \in {"ok", "error"}
  /\ lnkPopup' = [lnkPopup EXCEPT ![r] = "closed"]
  /\ IF lnkWaiting = NoLink THEN UNCHANGED <<lnkDialog, lnkConfirm>>
     ELSE /\ lnkCancelled' = TRUE
          /\ lnkConfirm' = IF lnkPopup[r] = "ok" THEN lnkConfirm \cup {lnkWaiting} ELSE lnkConfirm
          /\ UNCHANGED <<lnkFor, lnkPhase, lnkWaiting>>
  /\ lnkMixed' = (lnkMixed \/ lnkWaiting \notin {NoLink, lnkRun[r].of})
  /\ UNCHANGED <<lnkRun, lnkServer, lnkTold, lnkLate>>

\* onMessage: the message does not say of which device it is.
Message(r) ==
  /\ lnkPopup[r] \in {"ok", "error"}
  /\ lnkPopup' = [lnkPopup EXCEPT ![r] = "closed"]
  /\ IF lnkWaiting = NoLink THEN UNCHANGED <<lnkDialog, lnkConfirm>>
     ELSE IF lnkPopup[r] = "ok"
     THEN /\ lnkCancelled' = TRUE
          /\ lnkConfirm' = lnkConfirm \cup {lnkWaiting}
          /\ UNCHANGED <<lnkFor, lnkPhase, lnkWaiting>>
     ELSE /\ lnkCancelled' = TRUE /\ lnkPhase' = "idle" /\ lnkWaiting' = NoLink
          /\ UNCHANGED <<lnkFor, lnkConfirm>>
  /\ lnkMixed' = (lnkMixed \/ lnkWaiting \notin {NoLink, lnkRun[r].of})
  /\ UNCHANGED <<lnkRun, lnkServer, lnkTold, lnkLate>>

\* The device is told linked, whatever the row that was read says.
ConfirmAnswers(d) ==
  /\ d \in lnkConfirm
  /\ lnkConfirm' = lnkConfirm \ {d}
  /\ TellLinked(d)
  /\ UNCHANGED <<lnkRun, lnkPopup, lnkServer, lnkSeen>>

ConfirmFails(d) ==
  /\ d \in lnkConfirm
  /\ lnkConfirm' = lnkConfirm \ {d}
  /\ lnkPhase' = "success_uncertain" /\ lnkWaiting' = NoLink
  /\ UNCHANGED <<lnkFor, lnkCancelled, lnkRun, lnkPopup, lnkServer, lnkTold, lnkSeen>>

-----------------------------------------------------------------------------
LinkNext ==
  \/ \E d \in LinkDevices : OpenLink(d) \/ ConfirmAnswers(d) \/ ConfirmFails(d)
  \/ CloseLink \/ ChangeProvider
  \/ \E r \in LinkRuns :
       \/ startLink(r) \/ AddressOpens(r) \/ AddressBlocked(r) \/ AddressFails(r)
       \/ DeadlinePasses(r) \/ LinkPoll(r) \/ CheckAnswers(r) \/ CheckSaysNothing(r)
       \/ \E outcome \in {"ok", "error"} : Callback(r, outcome)
       \/ Message(r)

LinkSpec == LinkInit /\ [][LinkNext]_lnkVars

-----------------------------------------------------------------------------
LinkTypeOK ==
  /\ {lnkFor, lnkWaiting} \subseteq LinkDevices \cup {NoLink}
  /\ lnkPhase \in {"idle", "opening", "waiting", "popup_blocked", "success_uncertain"}
  /\ lnkRun \in [LinkRuns -> [at : {"unused", "asking", "polling", "checking", "ended"}, of : LinkDevices \cup {NoLink}]]
  /\ lnkPopup \in [LinkRuns -> {"none", "open", "ok", "error", "closed"}]
  /\ lnkServer \subseteq LinkDevices /\ lnkConfirm \subseteq LinkDevices /\ lnkTold \subseteq LinkDevices
  /\ {lnkCancelled, lnkLate, lnkMixed} \subseteq BOOLEAN

(***************************************************************************)
(* A dialog that says it waits for the other window, and whose button is   *)
(* disabled meanwhile, is attended: a run polls that nobody cancelled, or  *)
(* the device is being read after a message.  Messages, deadlines, errors, *)
(* closing and reopening for another device come in any order.  It fails   *)
(* only once an address has come to a dialog that no longer waits for its  *)
(* device, as it was closed or a message of an earlier window ended its    *)
(* wait: that run sets the phase of whatever dialog is open.               *)
(***************************************************************************)
WaitingIsAttended ==
  lnkPhase = "waiting" =>
    \/ lnkLate \/ lnkConfirm # {}
    \/ ~lnkCancelled /\ \E r \in LinkRuns : lnkRun[r].at \in {"polling", "checking"}

(***************************************************************************)
(* A device the owner is told is linked is linked, by a poll as well as by *)
(* a message, and in whichever order the two come, unless a window of an   *)
(* earlier press posted its outcome while another device was waited for:   *)
(* the message names none.                                                 *)
(***************************************************************************)
ToldLinkedIsLinked == lnkMixed \/ lnkTold \subseteq lnkServer

\* A dialog that waits for a link is attended, and a link that is told exists:
\* see both.
LinksAreAttended == LinkTypeOK /\ WaitingIsAttended /\ ToldLinkedIsLinked
=============================================================================
