--------------------------- MODULE DeliverDialog ---------------------------
(***************************************************************************)
(* The dialog that asks for a delivery (deliver-dialog.tsx): the owner     *)
(* chooses a device, one of the methods the server offers for it, and a    *)
(* format.  The dialog is closed and opened again, for another book        *)
(* perhaps, and keeps its device and method; the field that lists the      *)
(* methods is new each time, and asks the server again.                    *)
(***************************************************************************)
EXTENDS Naturals, FiniteSets

CONSTANTS SendBooks, SendDevices, SendMethods,
          KindleDevices,  \* those of delivery tier A
          SendFormats,    \* bound: formats that are chosen, or an account's default
          NoSendBook, NoSendDevice, NoMethod

ASSUME SendAssumption ==
  /\ KindleDevices \subseteq SendDevices
  /\ SendFormats \subseteq {"epub", "mobi", "azw3", "pdf"}
  /\ NoSendDevice \notin SendDevices /\ NoMethod \notin SendMethods

ALL_FORMATS    == {"epub", "mobi", "azw3", "pdf"}
KINDLE_FORMATS == {"epub", "pdf"}
NoChoice       == "unset"

VARIABLES
  sendItem,    \* the book the dialog is open for
  sendDevice,  \* deviceId
  sendMethod,  \* method
  sendChoice,  \* formatChoice
  sendDefault, \* defaultFormat
  sendField,   \* the methods the field lists, and how it got on
  sendAsks,    \* requests for methods in flight: the device, and not cancelled
  sendPost,    \* the POST in flight
  sendEver     \* observed, read by no action: methods answered, per device

sendForm == <<sendItem, sendDevice, sendMethod, sendChoice, sendDefault>>
sendVars == <<sendForm, sendField, sendAsks, sendPost, sendEver>>

NoPost == [device |-> NoSendDevice, method |-> NoMethod, format |-> NoChoice]
NoField  == [state |-> "loading", methods |-> {}]

formatsForDevice(d) == IF d \in KindleDevices THEN KINDLE_FORMATS ELSE ALL_FORMATS

pickDeliverFormat(preferred, allowed) == IF preferred \in allowed THEN preferred ELSE "epub"

SendFormat ==
  pickDeliverFormat(IF sendChoice # NoChoice THEN sendChoice ELSE sendDefault,
                    formatsForDevice(sendDevice))

SendInit ==
  /\ sendItem = NoSendBook /\ sendDevice = NoSendDevice /\ sendMethod = NoMethod
  /\ sendChoice = NoChoice /\ sendDefault = "epub"
  /\ sendField = NoField /\ sendAsks = {} /\ sendPost = NoPost
  /\ sendEver = [d \in SendDevices |-> {}]

-----------------------------------------------------------------------------
\* The clean-up of the field's effect: requests sent before are cancelled.
Cancelled(asks) == {[a EXCEPT !.live = FALSE] : a \in asks}

\* The field is mounted for a device: it asks for that device's methods.
MountField(d) ==
  /\ sendField' = NoField
  /\ sendAsks' = IF d = NoSendDevice THEN Cancelled(sendAsks)
                 ELSE Cancelled(sendAsks) \cup {[device |-> d, live |-> TRUE]}

\* The dialog opens for a book, with the device and method it had.
OpenSend(b) ==
  /\ sendItem = NoSendBook
  /\ sendItem' = b
  /\ MountField(sendDevice)
  /\ UNCHANGED <<sendDevice, sendMethod, sendChoice, sendDefault, sendPost, sendEver>>

\* Closed by the owner: its content is unmounted.
CloseSend ==
  /\ sendItem # NoSendBook
  /\ sendItem' = NoSendBook
  /\ MountField(NoSendDevice)
  /\ UNCHANGED <<sendDevice, sendMethod, sendChoice, sendDefault, sendPost, sendEver>>

\* The account's default format arrives, or the request for it fails.
SetDefaultFormat(f) ==
  /\ sendItem # NoSendBook
  /\ sendDefault' = f
  /\ UNCHANGED <<sendItem, sendDevice, sendMethod, sendChoice, sendField, sendAsks,
                 sendPost, sendEver>>

\* Faulty variant: the method is kept for the next device.
KeepMethod(d) ==
  /\ sendItem # NoSendBook /\ d # sendDevice
  /\ sendDevice' = d
  /\ MountField(d)
  /\ UNCHANGED <<sendItem, sendMethod, sendChoice, sendDefault, sendPost, sendEver>>

handleDeviceChange(d) ==
  /\ sendItem # NoSendBook /\ d # sendDevice
  /\ sendDevice' = d
  /\ sendMethod' = NoMethod
  /\ MountField(d)
  /\ UNCHANGED <<sendItem, sendChoice, sendDefault, sendPost, sendEver>>

\* The answer for a device, whatever it offers by then (a cloud is linked or
\* unlinked, a relay configured): the field lists what is available, and chooses
\* when there is no choice.  A cancelled request's answer is dropped.
MethodsAnswered(a, S) ==
  /\ a \in sendAsks
  /\ sendAsks' = sendAsks \ {a}
  /\ IF a.live
     THEN /\ sendField' = [state |-> "listed", methods |-> S]
          /\ sendMethod' = IF Cardinality(S) = 1
                           THEN CHOOSE m \in S : TRUE ELSE sendMethod
          /\ sendEver' = [sendEver EXCEPT ![a.device] = @ \cup S]
     ELSE UNCHANGED <<sendField, sendMethod, sendEver>>
  /\ UNCHANGED <<sendItem, sendDevice, sendChoice, sendDefault, sendPost>>

MethodsFail(a) ==
  /\ a \in sendAsks
  /\ sendAsks' = sendAsks \ {a}
  /\ sendField' = IF a.live THEN [state |-> "failed", methods |-> {}] ELSE sendField
  /\ UNCHANGED <<sendForm, sendPost, sendEver>>

\* What the field renders: a badge for one method, a list to choose from for
\* several, a message otherwise.
Choosable ==
  IF sendField.state = "listed" /\ Cardinality(sendField.methods) > 1 THEN sendField.methods ELSE {}

ChooseMethod(m) ==
  /\ sendItem # NoSendBook /\ m \in Choosable
  /\ sendMethod' = m
  /\ UNCHANGED <<sendItem, sendDevice, sendChoice, sendDefault, sendField, sendAsks,
                 sendPost, sendEver>>

ChooseFormat(f) ==
  /\ sendItem # NoSendBook /\ f \in formatsForDevice(sendDevice)
  /\ sendChoice' = f
  /\ UNCHANGED <<sendItem, sendDevice, sendMethod, sendDefault, sendField, sendAsks,
                 sendPost, sendEver>>

\* submit: the button needs a device and a method, and no POST in flight,
\* be it for another book.
submit ==
  /\ sendItem # NoSendBook /\ sendDevice # NoSendDevice /\ sendMethod # NoMethod
  /\ sendPost = NoPost
  /\ sendPost' = [device |-> sendDevice, method |-> sendMethod, format |-> SendFormat]
  /\ UNCHANGED <<sendForm, sendField, sendAsks, sendEver>>

\* Created: the dialog closes, whichever book it is open for by now.
Delivered ==
  /\ sendPost # NoPost
  /\ sendPost' = NoPost
  /\ sendItem' = NoSendBook
  /\ MountField(NoSendDevice)
  /\ UNCHANGED <<sendDevice, sendMethod, sendChoice, sendDefault, sendEver>>

SendFails ==
  /\ sendPost # NoPost
  /\ sendPost' = NoPost
  /\ UNCHANGED <<sendForm, sendField, sendAsks, sendEver>>

-----------------------------------------------------------------------------
SendNext ==
  \/ \E d \in SendDevices : handleDeviceChange(d)
  \/ \E b \in SendBooks : OpenSend(b)
  \/ \E f \in SendFormats : SetDefaultFormat(f) \/ ChooseFormat(f)
  \/ \E a \in sendAsks : (\E S \in SUBSET SendMethods : MethodsAnswered(a, S)) \/ MethodsFail(a)
  \/ \E m \in SendMethods : ChooseMethod(m)
  \/ CloseSend \/ submit \/ Delivered \/ SendFails

SendSpec == SendInit /\ [][SendNext]_sendVars

-----------------------------------------------------------------------------
SendTypeOK ==
  /\ sendItem \in SendBooks \cup {NoSendBook}
  /\ sendDevice \in SendDevices \cup {NoSendDevice}
  /\ sendMethod \in SendMethods \cup {NoMethod}
  /\ sendChoice \in ALL_FORMATS \cup {NoChoice} /\ sendDefault \in ALL_FORMATS
  /\ sendField \in [state : {"loading", "listed", "failed"}, methods : SUBSET SendMethods]
  /\ sendAsks \subseteq [device : SendDevices, live : BOOLEAN]
  /\ sendPost = NoPost \/ sendPost \in [device : SendDevices, method : SendMethods,
                                        format : ALL_FORMATS]
  /\ sendEver \in [SendDevices -> SUBSET SendMethods]

(***************************************************************************)
(* What is sent was offered: the method by an answer for that very device, *)
(* not by one for the device chosen before whose answer came late, nor     *)
(* left from it; and a Kindle is sent only what Amazon takes, also when    *)
(* the format was chosen for another device or is the account's default.   *)
(***************************************************************************)
SentWasOffered ==
  sendPost # NoPost =>
    /\ sendPost.method \in sendEver[sendPost.device]
    /\ sendPost.format \in formatsForDevice(sendPost.device)
=============================================================================
