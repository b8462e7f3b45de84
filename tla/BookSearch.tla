----------------------------- MODULE BookSearch -----------------------------
(***************************************************************************)
(* Searching the sources from the library page (the search effect of       *)
(* library-view.tsx, library-query.ts, use-url-query.ts).  The criteria    *)
(* are in the address, which typing, the filters, the pager, the history   *)
(* and links change; each change aborts the request in flight and sends    *)
(* another.  An aborted request's answer is ignored and, which matters,    *)
(* leaves the page's flags alone.                                          *)
(*                                                                         *)
(* A result's cover, as a book's elsewhere, is read through the            *)
(* authenticated proxy and shown from an object URL (cover-image.tsx): the *)
(* component stays while the book it is for changes, and a URL that is not *)
(* revoked keeps its image in memory.                                      *)
(***************************************************************************)
EXTENDS Naturals, FiniteSets

CONSTANTS Queries,   \* queries that are not blank
          MaxPage,   \* bound: pages of results that are opened
          CoverBooks, NoCover

ASSUME SearchAssumption == MaxPage \in Nat \ {0}
ASSUME CoverAssumption == NoCover \notin CoverBooks

Blank   == "blank"
Nothing == [query |-> Blank, page |-> 0]
\* The request of a query and its page; the filters are part of the query.
Criteria == [query : Queries \cup {Blank}, page : 1..MaxPage]

VARIABLES
  srchMode,    \* browseMode, as the address has it
  srchCrit,    \* criteria.request, as the address has it
  srchDraft,   \* query: what the field holds
  srchTab,     \* addTab
  srchLive,    \* the request that was not aborted
  srchAborted, \* requests that were
  searching, searchError,
  srchResults, \* results: those of which request
  srchMore     \* hasNextSearchPage

srchAddress == <<srchMode, srchCrit>>
srchFlags   == <<searching, searchError, srchResults, srchMore>>
srchRequests == <<srchLive, srchAborted>>
srchVars    == <<srchAddress, srchDraft, srchTab, srchRequests, srchFlags>>

First(q) == [query |-> q, page |-> 1]

SearchInit ==
  /\ srchMode = "mine" /\ srchCrit = First(Blank) /\ srchDraft = Blank /\ srchTab = "search"
  /\ srchLive = Nothing /\ srchAborted = {}
  /\ searching = FALSE /\ searchError = FALSE /\ srchResults = Nothing /\ srchMore = FALSE

-----------------------------------------------------------------------------
(* The effect, which runs when the mode, the criteria or the attempt       *)
(* changes, after the clean-up of the one before.                          *)

Abort == srchAborted' = srchAborted \cup ({srchLive} \ {Nothing})

\* Faulty variant: a blank query returns before it resets.
SearchForKept(mode, crit) ==
  /\ Abort
  /\ IF mode = "mine" \/ crit.query = Blank
     THEN srchLive' = Nothing /\ UNCHANGED <<searching, searchError, srchResults>>
     ELSE /\ srchLive' = crit
          /\ searching' = TRUE /\ searchError' = FALSE /\ srchResults' = Nothing

SearchFor(mode, crit) ==
  /\ Abort
  /\ IF mode = "mine" THEN srchLive' = Nothing /\ UNCHANGED <<searching, searchError, srchResults>>
     ELSE IF crit.query = Blank
     THEN /\ srchLive' = Nothing
          /\ searching' = FALSE /\ srchResults' = Nothing /\ UNCHANGED searchError
     ELSE /\ srchLive' = crit
          /\ searching' = TRUE /\ searchError' = FALSE /\ srchResults' = Nothing

\* updateUrlQuery, the history or a link: the field takes the query.
Address(mode, crit) ==
  /\ srchMode' = mode /\ srchCrit' = crit
  /\ srchDraft' = IF crit.query # srchCrit.query THEN crit.query ELSE srchDraft
  /\ IF <<mode, crit>> = srchAddress THEN UNCHANGED <<srchRequests, searching, searchError, srchResults>>
     ELSE SearchFor(mode, crit)
  /\ UNCHANGED srchMore

\* setBrowseMode: another mode, without criteria.
SwitchMode ==
  /\ Address(IF srchMode = "mine" THEN "sources" ELSE "mine", First(Blank))
  /\ UNCHANGED srchTab

Popstate(mode, crit) ==
  /\ <<mode, crit>> # srchAddress
  /\ Address(mode, crit)
  /\ UNCHANGED srchTab

\* Typing: in the collection it is the criteria, in the sources a draft. The
\* field is disabled while a search of the sources runs.
Type(q) ==
  /\ IF srchMode = "mine" THEN Address("mine", First(q))
     ELSE /\ ~searching
          /\ srchDraft' = q
          /\ UNCHANGED <<srchAddress, srchRequests, srchFlags>>
  /\ UNCHANGED srchTab

\* runSearch: another attempt, also of the same criteria.
runSearch ==
  /\ srchMode = "sources" /\ srchDraft # Blank /\ ~searching
  /\ srchMode' = "sources" /\ srchCrit' = First(srchDraft)
  /\ srchTab' = "search"
  /\ SearchFor("sources", First(srchDraft))
  /\ UNCHANGED <<srchDraft, srchMore>>

setAddTab(tab) ==
  /\ srchMode = "sources" /\ srchTab # tab
  /\ srchTab' = tab
  /\ UNCHANGED <<srchAddress, srchDraft, srchRequests, srchFlags>>

\* changeFilters: another query of the first page.
changeFilters(q) ==
  /\ srchMode = "sources" /\ srchTab = "search"
  /\ Address("sources", First(q))
  /\ UNCHANGED srchTab

\* What is shown below the filters.
SearchShows ==
  IF searching THEN "loading"
  ELSE IF srchResults # Nothing THEN "results"
  ELSE IF searchError THEN "error" ELSE "nothing"

\* The pager is shown with the results.
TurnPage(p) ==
  /\ srchMode = "sources" /\ srchTab = "search" /\ SearchShows = "results"
  /\ srchCrit.page > 1 \/ srchMore
  /\ p = srchCrit.page - 1 \/ (p = srchCrit.page + 1 /\ srchMore)
  /\ p \in 1..MaxPage
  /\ Address("sources", [srchCrit EXCEPT !.page = p])
  /\ UNCHANGED srchTab

-----------------------------------------------------------------------------
(* Answers.                                                                *)

SearchAnswered(more) ==
  /\ srchLive # Nothing
  /\ srchResults' = srchLive /\ srchMore' = more
  /\ searching' = FALSE
  /\ srchLive' = Nothing
  /\ UNCHANGED <<srchAddress, srchDraft, srchTab, srchAborted, searchError>>

SearchFails ==
  /\ srchLive # Nothing
  /\ searchError' = TRUE /\ searching' = FALSE
  /\ srchLive' = Nothing
  /\ UNCHANGED <<srchAddress, srchDraft, srchTab, srchAborted, srchResults, srchMore>>

AbortedEnds(c) ==
  /\ c \in srchAborted
  /\ srchAborted' = srchAborted \ {c}
  /\ UNCHANGED <<srchAddress, srchDraft, srchTab, srchLive, srchFlags>>

-----------------------------------------------------------------------------
SearchNext ==
  \/ \E mode \in {"mine", "sources"}, c \in Criteria : Popstate(mode, c)
  \/ \E q \in Queries \cup {Blank} : Type(q) \/ changeFilters(q)
  \/ \E tab \in {"search", "import"} : setAddTab(tab)
  \/ \E p \in 1..MaxPage : TurnPage(p)
  \/ \E more \in BOOLEAN : SearchAnswered(more)
  \/ \E c \in srchAborted : AbortedEnds(c)
  \/ SwitchMode \/ runSearch \/ SearchFails

SearchSpec == SearchInit /\ [][SearchNext]_srchVars

-----------------------------------------------------------------------------
SearchTypeOK ==
  /\ srchMode \in {"mine", "sources"} /\ srchCrit \in Criteria
  /\ srchDraft \in Queries \cup {Blank} /\ srchTab \in {"search", "import"}
  /\ srchLive \in Criteria \cup {Nothing} /\ srchAborted \subseteq Criteria
  /\ searching \in BOOLEAN /\ searchError \in BOOLEAN /\ srchMore \in BOOLEAN
  /\ srchResults \in Criteria \cup {Nothing}

(***************************************************************************)
(* While the sources are browsed, the results shown are those of the       *)
(* criteria in the address, and the spinner, which disables the field and  *)
(* the button, is shown exactly while a request for them is in flight:     *)
(* whatever was aborted, in whatever order it ends, and though leaving the *)
(* sources leaves the flags as they were.                                  *)
(***************************************************************************)
SearchIsCurrent ==
  srchMode = "sources" =>
    /\ SearchShows = "results" => srchResults = srchCrit
    /\ searching <=> srchLive # Nothing
    /\ srchLive \in {Nothing, srchCrit}

-----------------------------------------------------------------------------
(* The covers.                                                             *)

VARIABLES
  coverKey,   \* the book, or NoCover when it has none
  coverSrc,   \* src: the URL that is shown, named by its book
  coverFailed,
  coverUrl,   \* objectUrl of the running effect
  coverAlive, \* object URLs that are not revoked
  coverLive,  \* the request of the running effect is in flight
  coverOld    \* requests of effects that were cleaned up

coverVars == <<coverKey, coverSrc, coverFailed, coverUrl, coverAlive, coverLive, coverOld>>

CoverInit ==
  /\ coverKey = NoCover /\ coverSrc = NoCover /\ coverFailed = FALSE
  /\ coverUrl = NoCover /\ coverAlive = {} /\ coverLive = FALSE /\ coverOld = {}

\* Faulty variant: the clean-up revokes nothing.
CleanUpNothing ==
  /\ coverOld' = IF coverLive THEN coverOld \cup {coverKey} ELSE coverOld
  /\ UNCHANGED coverAlive

\* The clean-up: cancelled, and its URL revoked.
CleanUp ==
  /\ coverOld' = IF coverLive THEN coverOld \cup {coverKey} ELSE coverOld
  /\ coverAlive' = coverAlive \ {coverUrl}

\* Another book: reset while rendering, then the effects.
SetKey(k) ==
  /\ k # coverKey
  /\ coverKey' = k
  /\ coverSrc' = NoCover /\ coverFailed' = FALSE
  /\ CleanUp
  /\ coverUrl' = NoCover /\ coverLive' = (k # NoCover)

CoverAnswered ==
  /\ coverLive
  /\ coverLive' = FALSE
  /\ coverUrl' = coverKey /\ coverAlive' = coverAlive \cup {coverKey}
  /\ coverSrc' = coverKey /\ coverFailed' = FALSE
  /\ UNCHANGED <<coverKey, coverOld>>

CoverFails ==
  /\ coverLive
  /\ coverLive' = FALSE
  /\ coverSrc' = NoCover /\ coverFailed' = TRUE
  /\ UNCHANGED <<coverKey, coverUrl, coverAlive, coverOld>>

\* Image.onError: the picture cannot be decoded.
ImageError ==
  /\ coverSrc # NoCover /\ ~coverFailed
  /\ coverFailed' = TRUE
  /\ UNCHANGED <<coverKey, coverSrc, coverUrl, coverAlive, coverLive, coverOld>>

\* The answer of a cancelled request makes no URL.
OldAnswered(k) ==
  /\ k \in coverOld
  /\ coverOld' = coverOld \ {k}
  /\ UNCHANGED <<coverKey, coverSrc, coverFailed, coverUrl, coverAlive, coverLive>>

CoverNext ==
  \/ \E k \in CoverBooks \cup {NoCover} : SetKey(k)
  \/ \E k \in CoverBooks : OldAnswered(k)
  \/ CoverAnswered \/ CoverFails \/ ImageError

CoverSpec == CoverInit /\ [][CoverNext]_coverVars

CoverTypeOK ==
  /\ {coverKey, coverSrc, coverUrl} \subseteq CoverBooks \cup {NoCover}
  /\ {coverFailed, coverLive} \subseteq BOOLEAN
  /\ coverAlive \subseteq CoverBooks /\ coverOld \subseteq CoverBooks

(***************************************************************************)
(* The picture shown is the book's own, from a URL that is still alive,    *)
(* and no other picture is kept in memory, however fast the books change.  *)
(***************************************************************************)
CoverIsOfItsBook ==
  /\ coverSrc # NoCover => coverSrc = coverKey /\ coverSrc \in coverAlive
  /\ coverAlive \subseteq {coverKey}
=============================================================================
