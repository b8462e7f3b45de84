---------------------------- MODULE ReaderCatalog ----------------------------
(***************************************************************************)
(* The reader links of the settings page (reader-catalog-section.tsx,      *)
(* opds-limits.tsx, catalog-qr-code.tsx): the address of a link is told    *)
(* once, when it is created, and drawn as a code beside it.                *)
(*                                                                         *)
(* The list is the one the page was first given; saving the settings form  *)
(* above it has the page rendered again, which tells anew whether the      *)
(* links can be read, and leaves the list (reglages/page.tsx).  Deliveries *)
(* make links too (services/opds.py).  Other windows' changes are left     *)
(* out, and the browser's clock is taken to be the server's.               *)
(***************************************************************************)
EXTENDS Naturals

CONSTANTS ReaderLinks, NoLinkShown

ASSUME CatAssumption == NoLinkShown \notin ReaderLinks

VARIABLES
  catServer,  \* per link, at the server: absent, live, spent, revoked
  catPast,    \* links whose time has run out
  catNow,     \* now: those that had when the page last looked at its clock
  catRows,    \* tokens: the links the page lists, each as it then was
  catAway,    \* tokensUnavailable
  catCreate,  \* the creation: createOpen, its limits, its request, its link
  catError,   \* createError
  catUrl,     \* created: the link whose address is shown, its drawing, and
              \* copyFailed
  catRevoke,  \* revokeTarget, its request, revokeError
  catLost,    \* observed: links whose creation or revocation lost its answer
  catUnread   \* observed: links the page was never given: those there when it
              \* was first rendered without a list, or made by a delivery since

catTimes == <<catPast, catNow>>
catSeen  == <<catLost, catUnread>>
catVars == <<catServer, catTimes, catRows, catAway, catCreate, catError, catUrl, catRevoke, catSeen>>

CreateClosed == [open |-> FALSE, limits |-> "none", req |-> "none", of |-> NoLinkShown]
NoUrl == [of |-> NoLinkShown, qr |-> "loading", uncopied |-> FALSE]
RevokeClosed == [of |-> NoLinkShown, req |-> "none", error |-> FALSE]
Live == {l \in ReaderLinks : catServer[l] \in {"live", "spent"}}
Listed == DOMAIN catRows
WithRow(l, st) == [k \in Listed \cup {l} |-> IF k = l THEN st ELSE catRows[k]]

CatInit ==
  /\ catServer \in [ReaderLinks -> {"absent", "live", "spent"}]
  /\ catAway \in BOOLEAN /\ catRows = [l \in (IF catAway THEN {} ELSE Live) |-> catServer[l]]
  /\ catCreate = CreateClosed /\ catError = FALSE /\ catUrl = NoUrl
  /\ catRevoke = RevokeClosed /\ catLost = {} /\ catUnread = (IF catAway THEN Live ELSE {})
  /\ catPast \in SUBSET Live /\ catNow = catPast

-----------------------------------------------------------------------------
(* What the page shows.                                                    *)

catalogState ==
  IF catAway THEN "unavailable"
  ELSE IF catError \/ catRevoke.error THEN "error"
  ELSE IF Listed = {} THEN "empty" ELSE "ready"

\* A link's badge, from what the page was given of it and its clock.
OpdsTokenBadge(l) ==
  IF l \in catNow THEN "statusExpired"
  ELSE IF catRows[l] = "spent" THEN "statusExhausted" ELSE "statusActive"

\* _active_token_conditions: a link that lets a reader in.
LetsIn(l) == catServer[l] = "live" /\ l \notin catPast

\* The dialog of a creation: the form, or what was created.
CreateShows == IF ~catCreate.open THEN "nothing" ELSE IF catUrl # NoUrl THEN "created" ELSE "form"

CatUncovered == ~catCreate.open /\ catRevoke.of = NoLinkShown

\* parseOptionalLimit: nothing, a whole number in range, or neither.
limitsValid == catCreate.limits # "wrong"

-----------------------------------------------------------------------------
(* Creating.                                                               *)

OpenCreateLink ==
  /\ CatUncovered /\ ~catAway
  /\ catCreate' = [catCreate EXCEPT !.open = TRUE]
  /\ UNCHANGED <<catServer, catTimes, catRows, catAway, catError, catUrl, catRevoke, catSeen>>

TypeLimits ==
  /\ CreateShows = "form" /\ catCreate.req = "none"
  /\ \E v \in {"none", "set", "wrong"} : catCreate' = [catCreate EXCEPT !.limits = v]
  /\ UNCHANGED <<catServer, catTimes, catRows, catAway, catError, catUrl, catRevoke, catSeen>>

\* By the button or by Enter.
submit ==
  /\ CreateShows = "form" /\ catCreate.req = "none"
  /\ limitsValid
  /\ catCreate' = [catCreate EXCEPT !.req = "sent"]
  /\ catError' = FALSE
  /\ UNCHANGED <<catServer, catTimes, catRows, catAway, catUrl, catRevoke, catSeen>>

CreateLinkServed ==
  /\ catCreate.req = "sent"
  /\ \E l \in ReaderLinks :
       /\ catServer[l] = "absent"
       /\ catServer' = [catServer EXCEPT ![l] = "live"]
       /\ catCreate' = [catCreate EXCEPT !.req = "done", !.of = l]
  /\ UNCHANGED <<catTimes, catRows, catAway, catError, catUrl, catRevoke, catSeen>>

CreateLinkAnswers ==
  /\ catCreate.req = "done"
  /\ catUrl' = [NoUrl EXCEPT !.of = catCreate.of]
  /\ catRows' = WithRow(catCreate.of, "live")
  /\ catCreate' = [catCreate EXCEPT !.req = "none", !.of = NoLinkShown]
  /\ UNCHANGED <<catServer, catTimes, catAway, catError, catRevoke, catSeen>>

\* The form stays, and creates another link if it is submitted again.
CreateLinkFails ==
  /\ catCreate.req # "none"
  /\ catLost' = IF catCreate.req = "done" THEN catLost \cup {catCreate.of} ELSE catLost
  /\ catCreate' = [catCreate EXCEPT !.req = "none", !.of = NoLinkShown]
  /\ catError' = TRUE
  /\ UNCHANGED <<catServer, catTimes, catRows, catAway, catUrl, catRevoke, catUnread>>

resolveQrRenderState(failed) == IF failed THEN "error" ELSE "ready"

\* CatalogQrCode: drawn from the address, or not; a later drawing is dropped.
QrDrawn ==
  /\ catUrl.of # NoLinkShown /\ catUrl.qr = "loading"
  /\ \E failed \in BOOLEAN : catUrl' = [catUrl EXCEPT !.qr = resolveQrRenderState(failed)]
  /\ UNCHANGED <<catServer, catTimes, catRows, catAway, catCreate, catError, catRevoke, catSeen>>

\* handleCopyUrl: the browser may refuse, which the dialog then says.
handleCopyUrl ==
  /\ CreateShows = "created"
  /\ \E ok \in BOOLEAN : catUrl' = [catUrl EXCEPT !.uncopied = ~ok]
  /\ UNCHANGED <<catServer, catTimes, catRows, catAway, catCreate, catError, catRevoke, catSeen>>

\* A reader downloads the last book its link is good for.
LinkSpent(l) ==
  /\ LetsIn(l)
  /\ catServer' = [catServer EXCEPT ![l] = "spent"]
  /\ UNCHANGED <<catTimes, catRows, catAway, catCreate, catError, catUrl, catRevoke, catSeen>>

\* device_catalog: a delivery to a reader that has no link of its label that
\* lets it in makes one.
device_catalog(l) ==
  /\ catServer[l] = "absent"
  /\ catServer' = [catServer EXCEPT ![l] = "live"]
  /\ catUnread' = catUnread \cup {l}
  /\ UNCHANGED <<catTimes, catRows, catAway, catCreate, catError, catUrl, catRevoke, catLost>>

LinkExpires(l) ==
  /\ l \in Live /\ catPast' = catPast \cup {l}
  /\ UNCHANGED <<catServer, catNow, catRows, catAway, catCreate, catError, catUrl, catRevoke, catSeen>>

\* setNow, each minute.
SetNow ==
  /\ catNow' = catPast
  /\ UNCHANGED <<catServer, catPast, catRows, catAway, catCreate, catError, catUrl, catRevoke, catSeen>>

\* router.refresh, after a save: the list's rows are not read from it.
PageRefreshed ==
  /\ catAway' \in BOOLEAN
  /\ UNCHANGED <<catServer, catTimes, catRows, catCreate, catError, catUrl, catRevoke, catSeen>>

\* Faulty variant: the address stays for the next time.
closeCreateKept ==
  /\ catCreate.open /\ catCreate.req = "none"
  /\ catCreate' = CreateClosed /\ catError' = FALSE
  /\ UNCHANGED <<catServer, catTimes, catRows, catAway, catUrl, catRevoke, catSeen>>

\* closeCreate: not while submitting.
closeCreate ==
  /\ catCreate.open /\ catCreate.req = "none"
  /\ catCreate' = CreateClosed /\ catError' = FALSE /\ catUrl' = NoUrl
  /\ UNCHANGED <<catServer, catTimes, catRows, catAway, catRevoke, catSeen>>

-----------------------------------------------------------------------------
(* Revoking.                                                               *)

OpenRevokeLink ==
  /\ CatUncovered /\ ~catAway
  /\ \E l \in Listed : catRevoke' = [RevokeClosed EXCEPT !.of = l]
  /\ UNCHANGED <<catServer, catTimes, catRows, catAway, catCreate, catError, catUrl, catSeen>>

\* Closing keeps the error, which counts until another is asked about.
CloseRevokeLink ==
  /\ catRevoke.of # NoLinkShown /\ catRevoke.req = "none"
  /\ catRevoke' = [catRevoke EXCEPT !.of = NoLinkShown]
  /\ UNCHANGED <<catServer, catTimes, catRows, catAway, catCreate, catError, catUrl, catSeen>>

ConfirmRevokeLink ==
  /\ catRevoke.of # NoLinkShown /\ catRevoke.req = "none"
  /\ catRevoke' = [catRevoke EXCEPT !.req = "sent", !.error = FALSE]
  /\ UNCHANGED <<catServer, catTimes, catRows, catAway, catCreate, catError, catUrl, catSeen>>

RevokeLinkServed ==
  /\ catRevoke.req = "sent"
  /\ catServer' = [catServer EXCEPT ![catRevoke.of] = "revoked"]
  /\ catRevoke' = [catRevoke EXCEPT !.req = "done"]
  /\ UNCHANGED <<catTimes, catRows, catAway, catCreate, catError, catUrl, catSeen>>

RevokeLinkAnswers ==
  /\ catRevoke.req = "done"
  /\ catRows' = [l \in Listed \ {catRevoke.of} |-> catRows[l]]
  /\ catRevoke' = RevokeClosed
  /\ UNCHANGED <<catServer, catTimes, catAway, catCreate, catError, catUrl, catSeen>>

\* The question stays, and the link on the list.
RevokeLinkFails ==
  /\ catRevoke.req # "none"
  /\ catLost' = IF catRevoke.req = "done" THEN catLost \cup {catRevoke.of} ELSE catLost
  /\ catRevoke' = [catRevoke EXCEPT !.req = "none", !.error = TRUE]
  /\ UNCHANGED <<catServer, catTimes, catRows, catAway, catCreate, catError, catUrl, catUnread>>

-----------------------------------------------------------------------------
CatNext ==
  \/ OpenCreateLink \/ TypeLimits \/ submit \/ CreateLinkServed \/ CreateLinkAnswers
  \/ CreateLinkFails \/ QrDrawn \/ handleCopyUrl \/ closeCreate
  \/ \E l \in ReaderLinks : LinkSpent(l) \/ device_catalog(l) \/ LinkExpires(l)
  \/ SetNow \/ PageRefreshed
  \/ OpenRevokeLink \/ CloseRevokeLink \/ ConfirmRevokeLink \/ RevokeLinkServed
  \/ RevokeLinkAnswers \/ RevokeLinkFails

CatSpec == CatInit /\ [][CatNext]_catVars

-----------------------------------------------------------------------------
CatTypeOK ==
  /\ catServer \in [ReaderLinks -> {"absent", "live", "spent", "revoked"}]
  /\ Listed \subseteq ReaderLinks /\ \A l \in Listed : catRows[l] \in {"live", "spent"}
  /\ {catAway, catError} \subseteq BOOLEAN
  /\ catPast \subseteq ReaderLinks /\ catNow \subseteq catPast
  /\ catLost \subseteq ReaderLinks /\ catUnread \subseteq ReaderLinks
  /\ catCreate \in [open : BOOLEAN, limits : {"none", "set", "wrong"}, req : {"none", "sent", "done"},
                    of : ReaderLinks \cup {NoLinkShown}]
  /\ catUrl \in [of : ReaderLinks \cup {NoLinkShown}, qr : {"loading", "ready", "error"},
                 uncopied : BOOLEAN]
  /\ catRevoke \in [of : ReaderLinks \cup {NoLinkShown}, req : {"none", "sent", "done"}, error : BOOLEAN]

(***************************************************************************)
(* Once nothing is under way the page lists the links that are not         *)
(* revoked, and no other, but for those whose creation or revocation lost  *)
(* its answer, and those it was never given: it reads no list again, so it *)
(* may call the readers' links none while there are (catUnread).  It says  *)
(* of no link that lets a reader in that it is used up or expired; and an  *)
(* address, its drawing and the word that it was not copied are shown only *)
(* by the dialog of the creation that told it, of a link that is listed    *)
(* and not revoked.                                                        *)
(***************************************************************************)
LinksAreServers ==
  /\ catCreate.req # "none" \/ catRevoke.req # "none"
     \/ Listed \ catLost = Live \ (catLost \cup catUnread)
  /\ \A l \in Listed : OpdsTokenBadge(l) # "statusActive" => ~LetsIn(l)
  /\ catUrl # NoUrl => CreateShows = "created" /\ catUrl.of \in Listed \cap Live
=============================================================================
