---------------------------- MODULE SettingsView ----------------------------
(***************************************************************************)
(* The settings page's form (settings-form.tsx, settings-state.ts), its    *)
(* test message (kindle-test.tsx) and system panel (system-health.tsx).    *)
(*                                                                         *)
(* A change is typed and saved; the answer fills the form, and the page is *)
(* asked again, whose answer fills it too.  The fields are never disabled  *)
(* meanwhile.  One value stands for the Kindle address and the format; the *)
(* blanks around an address count for nothing, and are not sent.           *)
(***************************************************************************)
EXTENDS Naturals

CONSTANTS Settings,     \* what can be typed, saved and shown
          NotSet,       \* what the page is given when they cannot be read
          Trim,         \* of each, the same without the blanks around it
          MaxRefreshes  \* bound: refreshes of the page that wait

ASSUME SettingsAssumption ==
  /\ NotSet \in Settings /\ MaxRefreshes \in Nat
  /\ Trim \in [Settings -> Settings] /\ Trim[NotSet] = NotSet
  /\ \A v \in Settings : Trim[Trim[v]] = Trim[v]

VARIABLES
  setServer,   \* the user's settings at the server
  setShown,    \* kindleEmail and defaultFormat
  setSaved,    \* saved
  setBase,     \* baseline: what the page was given last
  setAway,     \* settingsUnavailable
  setReq,      \* saving: the request, and what it asks for
  setError,    \* saveError
  setRefresh,  \* refreshes asked for and not answered, one of them read
  setMailAway, \* mailSettingsUnavailable
  setTest,     \* the test message
  setHealth,   \* the system panel
  setTyped,    \* observed: what was typed or chosen last
  setOver,     \* observed: it was typed while a save or a refresh was under way
  setLost      \* observed: a save was served and its answer lost, or a refresh lost

setForm  == <<setShown, setSaved, setBase, setAway>>
setPanels == <<setMailAway, setTest, setHealth>>
setSeen  == <<setTyped, setOver, setLost>>
setVars  == <<setServer, setForm, setReq, setError, setRefresh, setPanels, setSeen>>

NoSave == [st |-> "none", of |-> NotSet]
NoRefresh == [left |-> 0, read |-> FALSE, got |-> NotSet]

SetInit ==
  /\ setServer \in Settings /\ Trim[setServer] = setServer
  /\ setAway \in BOOLEAN /\ setMailAway \in BOOLEAN
  /\ setShown = IF setAway THEN NotSet ELSE setServer
  /\ setSaved = setShown /\ setBase = setShown /\ setTyped = setShown
  /\ setReq = NoSave /\ setError = FALSE /\ setRefresh = NoRefresh
  /\ setTest = "idle" /\ setHealth = "loading"
  /\ setOver = FALSE /\ setLost = FALSE

-----------------------------------------------------------------------------
settingsAreDirty == Trim[setShown] # Trim[setSaved]
Saving == setReq.st # "none"

\* What the form says of itself.
settingsState ==
  IF setAway THEN "unavailable" ELSE IF setError THEN "error"
  ELSE IF settingsAreDirty THEN "dirty" ELSE "ready"

\* The two buttons under the fields.
EditsOffered == ~setAway /\ ~Saving /\ settingsAreDirty

buildSettingsPatchPayload == Trim[setShown]
SetQuiet == ~Saving /\ setRefresh.left = 0

\* The fields, the button that clears one, the formats.
TypeSetting(v) ==
  /\ ~setAway /\ v # setShown
  /\ setShown' = v /\ setTyped' = v /\ setOver' = ~SetQuiet
  /\ UNCHANGED <<setServer, setSaved, setBase, setAway, setReq, setError, setRefresh, setPanels, setLost>>

cancelEdits ==
  /\ EditsOffered
  /\ setShown' = setSaved /\ setTyped' = setSaved /\ setOver' = ~SetQuiet
  /\ setError' = FALSE
  /\ UNCHANGED <<setServer, setSaved, setBase, setAway, setReq, setRefresh, setPanels, setLost>>

\* save, by the button or by the notice of a failure, which stays when the
\* edits are typed back.
save ==
  /\ EditsOffered \/ (setError /\ ~Saving)
  /\ setReq' = [st |-> "sent", of |-> buildSettingsPatchPayload]
  /\ setError' = FALSE
  /\ UNCHANGED <<setServer, setForm, setRefresh, setPanels, setSeen>>

DismissError ==
  /\ setError /\ setError' = FALSE
  /\ UNCHANGED <<setServer, setForm, setReq, setRefresh, setPanels, setSeen>>

SaveServed ==
  /\ setReq.st = "sent"
  /\ setServer' = setReq.of
  /\ setReq' = [setReq EXCEPT !.st = "done"]
  /\ UNCHANGED <<setForm, setError, setRefresh, setPanels, setSeen>>

\* The answer fills the form; router.refresh.
SaveAnswers ==
  /\ setReq.st = "done" /\ setRefresh.left < MaxRefreshes
  /\ setShown' = setReq.of /\ setSaved' = setReq.of
  /\ setReq' = NoSave
  /\ setRefresh' = [setRefresh EXCEPT !.left = @ + 1]
  /\ UNCHANGED <<setServer, setBase, setAway, setError, setPanels, setSeen>>

\* Faulty variant: what was typed is given up.
SaveFailsBack ==
  /\ Saving
  /\ setShown' = setSaved
  /\ setReq' = NoSave /\ setError' = TRUE
  /\ setLost' = (setLost \/ setReq.st = "done")
  /\ UNCHANGED <<setServer, setSaved, setBase, setAway, setRefresh, setPanels, setTyped, setOver>>

\* Refused, lost, or its answer lost: what was typed stays.
SaveFails ==
  /\ Saving
  /\ setReq' = NoSave /\ setError' = TRUE
  /\ setLost' = (setLost \/ setReq.st = "done")
  /\ UNCHANGED <<setServer, setForm, setRefresh, setPanels, setTyped, setOver>>

-----------------------------------------------------------------------------
(* The page again: the router does one refresh at a time.                  *)

PageReads ==
  /\ setRefresh.left > 0 /\ ~setRefresh.read
  /\ setRefresh' = [setRefresh EXCEPT !.read = TRUE, !.got = setServer]
  /\ UNCHANGED <<setServer, setForm, setReq, setError, setPanels, setSeen>>

RefreshDone == setRefresh' = [NoRefresh EXCEPT !.left = setRefresh.left - 1]

\* The render: what the page is given fills the form if it is not what the
\* page was given before.
Render(given, away) ==
  /\ setAway' = away
  /\ setBase' = given
  /\ IF given # setBase THEN setShown' = given /\ setSaved' = given
     ELSE UNCHANGED <<setShown, setSaved>>

\* With the settings, or without if they could not be read; and so for the
\* mailer's, without which its panel forgets the test message.
PageRenders ==
  /\ setRefresh.read
  /\ \/ Render(setRefresh.got, FALSE)
     \/ Render(NotSet, TRUE)
  /\ setMailAway' \in BOOLEAN
  /\ setTest' = IF setMailAway' THEN "idle" ELSE setTest
  /\ RefreshDone
  /\ UNCHANGED <<setServer, setReq, setError, setHealth, setSeen>>

RefreshLost ==
  /\ setRefresh.left > 0
  /\ RefreshDone /\ setLost' = TRUE
  /\ UNCHANGED <<setServer, setForm, setReq, setError, setPanels, setTyped, setOver>>

-----------------------------------------------------------------------------
(* The test message and the system panel.                                  *)

\* The panel of the mailer offers the test when its settings are at hand.
TestOffered == ~setMailAway /\ setTest # "sending"

\* KindleTest: to the address saved, whatever is typed.
SendTest ==
  /\ TestOffered /\ setTest' = "sending"
  /\ UNCHANGED <<setServer, setForm, setReq, setError, setRefresh, setMailAway, setHealth, setSeen>>
TestAnswers ==
  /\ setTest = "sending" /\ setTest' \in {"sent", "failed"}
  /\ UNCHANGED <<setServer, setForm, setReq, setError, setRefresh, setMailAway, setHealth, setSeen>>

\* SystemHealthPanel: asked once, and again after a failure.
HealthAnswers ==
  /\ setHealth = "loading" /\ setHealth' \in {"ready", "error"}
  /\ UNCHANGED <<setServer, setForm, setReq, setError, setRefresh, setMailAway, setTest, setSeen>>
RetryHealth ==
  /\ setHealth = "error" /\ setHealth' = "loading"
  /\ UNCHANGED <<setServer, setForm, setReq, setError, setRefresh, setMailAway, setTest, setSeen>>

-----------------------------------------------------------------------------
SetNext ==
  \/ \E v \in Settings : TypeSetting(v)
  \/ cancelEdits \/ save \/ DismissError \/ SaveServed \/ SaveAnswers \/ SaveFails
  \/ PageReads \/ PageRenders \/ RefreshLost
  \/ SendTest \/ TestAnswers \/ HealthAnswers \/ RetryHealth

SetSpec == SetInit /\ [][SetNext]_setVars

-----------------------------------------------------------------------------
SetTypeOK ==
  /\ {setServer, setShown, setSaved, setBase, setTyped} \subseteq Settings
  /\ {setAway, setError, setMailAway, setOver, setLost} \subseteq BOOLEAN
  /\ setReq \in [st : {"none", "sent", "done"}, of : Settings]
  /\ setRefresh \in [left : 0..MaxRefreshes, read : BOOLEAN, got : Settings]
  /\ setTest \in {"idle", "sending", "sent", "failed"} /\ setHealth \in {"loading", "ready", "error"}

(***************************************************************************)
(* At rest, with no answer lost, the form says that everything is saved    *)
(* when what it shows is what the server has, although the answer of a     *)
(* save and those of the refreshes before and after it fill it one after   *)
(* another; and what was typed last is what is shown, unless it was typed  *)
(* while a save or a refresh was under way, whose answer took it away.  A  *)
(* test message is not reported by a panel that the page does not have.    *)
(***************************************************************************)
SavedIsSaved ==
  /\ SetQuiet /\ ~setAway /\ ~setLost =>
       /\ setSaved = setServer
       /\ settingsState = "ready" => Trim[setShown] = setServer
       /\ Trim[setShown] = Trim[setTyped] \/ setOver
  /\ setMailAway => setTest = "idle"
=============================================================================
