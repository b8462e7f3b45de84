------------------------------- MODULE Shell -------------------------------
(***************************************************************************)
(* What is around the pages of the web app: the sidebar of a wide window   *)
(* (sidebar.tsx, app-sidebar.tsx), the bar and the sheet of a narrow one   *)
(* (app-mobile-nav.tsx), the header, the language, and the first steps on  *)
(* the home page (onboarding.tsx), which a user sees until they are done   *)
(* or dismissed.                                                           *)
(*                                                                         *)
(* The window changes its width while a navigation is open, and the first  *)
(* steps are one user's: another may sign in, in this tab or another of    *)
(* the browser, whose storage all share.                                   *)
(***************************************************************************)
EXTENDS Naturals, FiniteSets

CONSTANTS Tabs4,        \* PRIMARY: the pages of the narrow window's bar
          MorePages,    \* MORE_LINKS, without the docs
          ShellUsers,   \* who may sign in
          FirstSteps    \* the steps of the onboarding

AppPages == Tabs4 \cup MorePages
ASSUME ShellAssumption ==
  "home" \notin AppPages /\ "docs" \notin AppPages /\ FirstSteps # {}

VARIABLES
  shPath,      \* the page: one of the app, its home, or the docs
  shPhone,     \* isMobile
  shKeyboard,  \* keyboardOpen
  shOpen,      \* open: the sidebar
  shMobile,    \* openMobile
  shMore,      \* moreOpen: the sheet
  obUser,      \* who is signed in
  obKept,      \* storage is enabled
  obDone,      \* localStorage: per user, the steps are done or dismissed
  obHas,       \* per user: the steps the server knows done
  obSaw,       \* status: the steps the page was told are done
  obMay        \* observed: the users that dismissed the steps or had done them all

shWindow == <<shPhone, shKeyboard, shOpen, shMobile, shMore>>
obVars == <<obUser, obKept, obDone, obHas, obSaw, obMay>>
shVars == <<shPath, shWindow, obVars>>

ShellInit ==
  /\ shPath = "home"
  /\ shPhone \in BOOLEAN /\ shKeyboard = FALSE
  /\ shOpen = TRUE /\ shMobile = FALSE /\ shMore = FALSE
  /\ obUser \in ShellUsers /\ obKept \in BOOLEAN
  /\ obDone = [u \in ShellUsers |-> FALSE] /\ obHas \in [ShellUsers -> {{}, FirstSteps}]
  /\ obSaw = {} /\ obMay = {}

-----------------------------------------------------------------------------
(* What is on the screen.                                                  *)

InApp == shPath # "docs"

\* Faulty variant: the narrow window has the sidebar's own sheet as well.
SidebarShownAsSheet == InApp /\ IF shPhone THEN shMobile ELSE shOpen

\* enableMobileSheet is FALSE: a narrow window has none.
SidebarShown == InApp /\ ~shPhone /\ shOpen

BarShown == InApp /\ shPhone /\ ~shKeyboard
TriggerShown == InApp /\ (shPath = "home" => ~shPhone)

-----------------------------------------------------------------------------
(* The sidebar, the sheet and the window.                                  *)

\* The trigger, or Ctrl-B.
toggleSidebar ==
  /\ InApp
  /\ IF shPhone THEN shMobile' = ~shMobile /\ UNCHANGED shOpen
     ELSE shOpen' = ~shOpen /\ UNCHANGED shMobile
  /\ UNCHANGED <<shPath, shPhone, shKeyboard, shMore, obVars>>

\* The sheet stays as the window grows.
setMoreOpen ==
  /\ InApp
  /\ IF shMore THEN shMore' = FALSE ELSE BarShown /\ shMore' = TRUE
  /\ UNCHANGED <<shPath, shPhone, shKeyboard, shOpen, shMobile, obVars>>

\* A keyboard on the screen covers the bar.
useKeyboardOpen ==
  /\ InApp
  /\ shKeyboard' = ~shKeyboard
  /\ UNCHANGED <<shPath, shPhone, shOpen, shMobile, shMore, obVars>>

useIsMobile ==
  /\ shPhone' = ~shPhone
  /\ UNCHANGED <<shPath, shKeyboard, shOpen, shMobile, shMore, obVars>>

-----------------------------------------------------------------------------
(* Going to a page.                                                        *)

\* The layout, with the sidebar and the sheet, is mounted anew.
LayoutMounted == shOpen' = TRUE /\ shMobile' = FALSE /\ shMore' = FALSE

\* The docs have another layout; a link of the sheet closes it.
Goes(p) ==
  /\ shPath' = p
  /\ IF "docs" \in {p, shPath} THEN LayoutMounted
     ELSE shMore' = FALSE /\ UNCHANGED <<shOpen, shMobile>>
  /\ UNCHANGED <<shPhone, shKeyboard, obVars>>

\* The open sheet covers every other link.
FollowSidebar(p) == SidebarShown /\ ~shMore /\ p \in AppPages /\ Goes(p)
FollowBar(p)     == BarShown /\ ~shMore /\ p \in Tabs4 /\ Goes(p)
FollowSheet(p)   == InApp /\ shMore /\ p \in MorePages \cup {"docs"} /\ Goes(p)
FollowCard(p)    == shPath = "home" /\ ~shMore /\ p \in AppPages /\ Goes(p)

\* By the history of the browser, which leaves the sheet as it is.
GoBack(p) ==
  /\ shPath' = p
  /\ IF "docs" \in {p, shPath} THEN LayoutMounted ELSE UNCHANGED <<shOpen, shMobile, shMore>>
  /\ UNCHANGED <<shPhone, shKeyboard, obVars>>

\* selectLocale, in the sheet or on the page of the settings: the path stays,
\* and the layout, which is of one language, may be mounted anew.
selectLocale ==
  /\ InApp /\ (shMore \/ shPath \in MorePages)
  /\ LayoutMounted
  /\ UNCHANGED <<shPath, shPhone, shKeyboard, obVars>>

-----------------------------------------------------------------------------
(* The first steps.                                                        *)

dismissed(u) == obKept /\ obDone[u]
OnboardingShown == shPath = "home" /\ ~dismissed(obUser) /\ obSaw # FirstSteps

\* Faulty variant: the key is not the user's.
RememberAnyone == obDone' = IF obKept THEN [u \in ShellUsers |-> TRUE] ELSE obDone

\* A storage that is disabled remembers nothing.
remember == obDone' = IF obKept THEN [obDone EXCEPT ![obUser] = TRUE] ELSE obDone

\* Faulty variant: what the server did not answer is taken for done.
StatusOrDone(told) == (FirstSteps \ told) \cup obHas[obUser]

\* The steps of which the answer came and says so: a request that fails
\* leaves its step unknown.
StatusOf(told) == told \cap obHas[obUser]

\* The home page is rendered; all steps done are remembered.
AppIndex ==
  /\ shPath = "home"
  /\ \E told \in SUBSET FirstSteps :
       /\ obSaw' = StatusOf(told)
       /\ obMay' = IF obHas[obUser] = FirstSteps THEN obMay \cup {obUser} ELSE obMay
       /\ IF obSaw' = FirstSteps THEN remember ELSE UNCHANGED obDone
  /\ UNCHANGED <<shPath, shWindow, obUser, obKept, obHas>>

\* The button, in this tab or in another: the tabs hear of it.
Dismiss ==
  /\ OnboardingShown
  /\ remember /\ obMay' = obMay \cup {obUser}
  /\ UNCHANGED <<shPath, shWindow, obUser, obKept, obHas, obSaw>>

\* A book, a device, a delivery or a gateway comes or goes.
StepChanges(s) ==
  /\ obHas' = [obHas EXCEPT ![obUser] = IF s \in @ THEN @ \ {s} ELSE @ \cup {s}]
  /\ UNCHANGED <<shPath, shWindow, obUser, obKept, obDone, obSaw, obMay>>

\* Another user signs in, and the home page is rendered for them.
SignIn(u) ==
  /\ obUser # u /\ obUser' = u /\ obSaw' = {}
  /\ shPath' = "home" /\ LayoutMounted
  /\ UNCHANGED <<shPhone, shKeyboard, obKept, obDone, obHas, obMay>>

-----------------------------------------------------------------------------
ShellNext ==
  \/ toggleSidebar \/ setMoreOpen \/ useKeyboardOpen \/ useIsMobile
  \/ \E p \in AppPages \cup {"home", "docs"} :
       FollowSidebar(p) \/ FollowBar(p) \/ FollowSheet(p) \/ FollowCard(p) \/ GoBack(p)
  \/ selectLocale
  \/ AppIndex \/ Dismiss \/ \E s \in FirstSteps : StepChanges(s)
  \/ \E u \in ShellUsers : SignIn(u)

ShellSpec == ShellInit /\ [][ShellNext]_shVars

-----------------------------------------------------------------------------
ShellTypeOK ==
  /\ shPath \in AppPages \cup {"home", "docs"}
  /\ {shPhone, shKeyboard, shOpen, shMobile, shMore, obKept} \subseteq BOOLEAN
  /\ obUser \in ShellUsers /\ obDone \in [ShellUsers -> BOOLEAN]
  /\ obHas \in [ShellUsers -> SUBSET FirstSteps] /\ obSaw \subseteq FirstSteps
  /\ obMay \subseteq ShellUsers

(***************************************************************************)
(* However the window changes, a page of the app shows one navigation and  *)
(* never two, or the way back to it is there: the sidebar's trigger, or    *)
(* the keyboard to close.  The first steps are kept from a user only who   *)
(* dismissed them or had done them all, though requests fail and others    *)
(* use the browser.                                                        *)
(***************************************************************************)
NavigationIsThere ==
  /\ ~(SidebarShown /\ BarShown)
  /\ InApp => SidebarShown \/ BarShown \/ (IF shPhone THEN shKeyboard ELSE TriggerShown)
  /\ {u \in ShellUsers : dismissed(u)} \subseteq obMay
  /\ obSaw = FirstSteps => obUser \in obMay
=============================================================================
