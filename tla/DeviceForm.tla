----------------------------- MODULE DeviceForm -----------------------------
(***************************************************************************)
(* The forms of a device: the one that creates it (new-device-dialog.tsx), *)
(* the one that changes it (edit-device-dialog.tsx), and what the server   *)
(* makes of what they send (api/devices.py).                               *)
(*                                                                         *)
(* A form knows which models a brand has and that only a Kindle has an     *)
(* address; the server takes a model and a brand as they come, and works   *)
(* out the tier.  The form that changes a device starts from the page's    *)
(* row of it, which another tab or client may have overtaken.              *)
(***************************************************************************)
EXTENDS Naturals

CONSTANTS FormModels,   \* per brand: the models the form offers, or takes
          HighEnd,      \* _KOBO_HIGH_END
          NoWord,       \* an empty field
          GoodMails,    \* the addresses that mail_policy allows
          BadMails,     \* those it does not
          NoReader        \* neither a device nor a form

Brands == DOMAIN FormModels
FormMails == GoodMails \cup BadMails \cup {NoWord}

ASSUME FormAssumption ==
  /\ {"kindle", "kobo"} \subseteq Brands
  /\ NoWord \notin (UNION {FormModels[b] : b \in Brands}) \cup GoodMails \cup BadMails
  /\ GoodMails \cap BadMails = {}

VARIABLES
  dfStored,   \* the device at the server, or NoReader; the tier is what it works out
  dfRow,      \* the page's row of it
  dfOpen,     \* the form on the page: "new", "edit" or none
  dfNew,      \* the fields of the form that creates: they outlive it
  dfEdit,     \* those of the form that changes
  dfReq       \* the form's request: not sent, sent, or done at the server

dfForms == <<dfOpen, dfNew, dfEdit>>
dfVars == <<dfStored, dfRow, dfForms, dfReq>>

NewDraft == [brand |-> "kindle", model |-> NoWord, mail |-> NoWord]
Drafts == [brand : Brands, model : (UNION {FormModels[b] : b \in Brands}) \cup {NoWord},
           mail : FormMails]

isKindleDeliveryBrand(brand) == brand = "kindle"

-----------------------------------------------------------------------------
(* The server.                                                             *)

_compute_tier(brand, model) ==
  CASE brand = "kindle"                     -> "A"
    [] brand = "kobo" /\ model \in HighEnd  -> "B"
    [] brand \in {"kobo", "tolino"}         -> "C"
    [] OTHER                                -> "D"

Stored(d) == [brand |-> d.brand, model |-> d.model, mail |-> d.mail,
              tier |-> _compute_tier(d.brand, d.model)]
is_allowed_recipient(mail) == mail \notin BadMails

\* What a device may be: of its brand's models, with an address that is
\* allowed if it is a Kindle, and of the tier of both.
Coherent(d) ==
  /\ d.model \in FormModels[d.brand] \cup {NoWord}
  /\ d.mail # NoWord => isKindleDeliveryBrand(d.brand) /\ is_allowed_recipient(d.mail)
  /\ d.tier = _compute_tier(d.brand, d.model)

\* A row offers a link to a cloud by the server's tier, the test message by
\* the brand.
DeviceActions(d) == {"edit", "delete"} \cup (IF d.tier = "B" THEN {"link"} ELSE {})
DeviceRow(d) == DeviceActions(d) \cup (IF d.brand = "kindle" THEN {"test"} ELSE {})

FormInit ==
  /\ dfStored \in {NoReader} \cup {d \in {Stored(x) : x \in Drafts} : Coherent(d)}
  /\ dfRow = dfStored
  /\ dfOpen = "none" /\ dfNew = NewDraft /\ dfEdit = NewDraft /\ dfReq = "none"

-----------------------------------------------------------------------------
(* The fields, which are disabled while the form is sent.                  *)

Draft == IF dfOpen = "new" THEN dfNew ELSE dfEdit
SetDraft(d) == IF dfOpen = "new" THEN dfNew' = d /\ UNCHANGED dfEdit
               ELSE dfEdit' = d /\ UNCHANGED dfNew
Filling == dfOpen # "none" /\ dfReq = "none"

\* Faulty variant: the model stays when the brand changes.
BrandChangeKeeps(d, brand) == [d EXCEPT !.brand = brand]

handleBrandChange(d, brand) == [d EXCEPT !.brand = brand, !.model = NoWord]

ChooseBrand(brand) ==
  /\ Filling
  /\ SetDraft(handleBrandChange(Draft, brand))
  /\ UNCHANGED <<dfStored, dfRow, dfOpen, dfReq>>

\* From the brand's list, or typed if it has none.
ChooseModel(model) ==
  /\ Filling
  /\ model \in FormModels[Draft.brand]
  /\ SetDraft([Draft EXCEPT !.model = model])
  /\ UNCHANGED <<dfStored, dfRow, dfOpen, dfReq>>

\* There for a Kindle only; what was typed stays when the brand changes.
TypeMail(mail) ==
  /\ Filling /\ isKindleDeliveryBrand(Draft.brand)
  /\ SetDraft([Draft EXCEPT !.mail = mail])
  /\ UNCHANGED <<dfStored, dfRow, dfOpen, dfReq>>

-----------------------------------------------------------------------------
(* Opening, closing and sending.                                           *)

\* One form of each at a time; there is one device in this model.
OpenCreating ==
  /\ dfOpen = "none" /\ dfOpen' = "new"
  /\ UNCHANGED <<dfStored, dfRow, dfNew, dfEdit, dfReq>>

\* The form that changes is mounted with the row's fields.
OpenEditing ==
  /\ dfOpen = "none" /\ dfRow # NoReader /\ "edit" \in DeviceRow(dfRow)
  /\ dfOpen' = "edit"
  /\ dfEdit' = [brand |-> dfRow.brand, model |-> dfRow.model, mail |-> dfRow.mail]
  /\ UNCHANGED <<dfStored, dfRow, dfNew, dfReq>>

\* handleOpenChange: not while it is sent.
LeaveForm ==
  /\ Filling
  /\ dfOpen' = "none" /\ dfEdit' = NewDraft
  /\ UNCHANGED <<dfStored, dfRow, dfNew, dfReq>>

\* Faulty variant: only what differs from the row is sent: the server keeps
\* its own of the rest.
PayloadChanged(d) ==
  IF dfOpen = "new" \/ dfStored = NoReader THEN d
  ELSE [brand |-> IF d.brand = dfRow.brand THEN dfStored.brand ELSE d.brand,
        model |-> IF d.model = dfRow.model THEN dfStored.model ELSE d.model,
        mail  |-> IF d.mail = dfRow.mail THEN dfStored.mail ELSE d.mail]

\* Faulty variant: the address typed before another brand was chosen is sent.
PayloadWithMail(d) == d

\* buildDeviceEmailPayload, for a Kindle; no address else.  All the fields are
\* sent, changed or not.
Payload(d) == [d EXCEPT !.mail = IF isKindleDeliveryBrand(d.brand) THEN @ ELSE NoWord]

SendForm ==
  /\ Filling /\ dfReq' = "sent"
  /\ UNCHANGED <<dfStored, dfRow, dfForms>>

\* create_device, update_device; a device that is gone is not found.  Bound:
\* one device, that the form creates if there is none.
SendingServed ==
  /\ dfReq = "sent"
  /\ (dfOpen = "new") = (dfStored = NoReader)
  /\ is_allowed_recipient(Payload(Draft).mail)
  /\ dfStored' = Stored(Payload(Draft))
  /\ dfReq' = "done"
  /\ UNCHANGED <<dfRow, dfForms>>

\* onCreated or onUpdated, with what the server answered; the form closes.
\* The one that creates keeps the brand of its fields.
SendingAnswered ==
  /\ dfReq = "done"
  /\ dfRow' = Stored(Payload(Draft))
  /\ dfOpen' = "none" /\ dfReq' = "none"
  /\ dfNew' = IF dfOpen = "new" THEN [NewDraft EXCEPT !.brand = dfNew.brand] ELSE dfNew
  /\ dfEdit' = NewDraft
  /\ UNCHANGED dfStored

\* Refused, lost, or its answer lost: the form stays with what was typed.
SendingFails ==
  /\ dfReq # "none" /\ dfReq' = "none"
  /\ UNCHANGED <<dfStored, dfRow, dfForms>>

-----------------------------------------------------------------------------
(* What goes on beside the form.                                           *)

\* Another tab's form, or another client, that keeps the rules.
OtherTabSaves ==
  /\ dfStored # NoReader
  /\ dfStored' \in {d \in {Stored(x) : x \in Drafts} : Coherent(d)}
  /\ UNCHANGED <<dfRow, dfForms, dfReq>>

OtherTabDeletes ==
  /\ dfStored # NoReader /\ dfStored' = NoReader
  /\ UNCHANGED <<dfRow, dfForms, dfReq>>

\* The page reads the list again; the form keeps the fields it was given.
RowRead ==
  /\ dfOpen = "none"
  /\ dfRow' = dfStored
  /\ UNCHANGED <<dfStored, dfForms, dfReq>>

-----------------------------------------------------------------------------
FormNext ==
  \/ \E b \in Brands : ChooseBrand(b) \/ \E m \in FormModels[b] : ChooseModel(m)
  \/ \E m \in FormMails : TypeMail(m)
  \/ OpenCreating \/ OpenEditing \/ LeaveForm \/ SendForm \/ SendingServed \/ SendingAnswered \/ SendingFails
  \/ OtherTabSaves \/ OtherTabDeletes \/ RowRead

FormSpec == FormInit /\ [][FormNext]_dfVars

-----------------------------------------------------------------------------
FormTypeOK ==
  /\ {dfNew, dfEdit} \subseteq Drafts
  /\ dfOpen \in {"none", "new", "edit"} /\ dfReq \in {"none", "sent", "done"}
  /\ \A d \in {dfStored, dfRow} \ {NoReader} : d.tier \in {"A", "B", "C", "D"}

(***************************************************************************)
(* A device is always one a form could mean, and so is the row of it: its  *)
(* model is its brand's, its address an allowed one and a Kindle's, its    *)
(* tier that of both, in whatever order the fields were filled, and        *)
(* whatever another tab stored since the row was read, for neither form    *)
(* leaves the server a field of another brand's device; and its row never  *)
(* offers both a cloud and a Kindle's test.                                *)
(***************************************************************************)
DevicesAreCoherent ==
  /\ \A d \in {dfStored, dfRow} \ {NoReader} : Coherent(d)
  /\ dfRow # NoReader => ~({"link", "test"} \subseteq DeviceRow(dfRow))
  /\ dfOpen # "none" => Draft.model \in FormModels[Draft.brand] \cup {NoWord}
=============================================================================
