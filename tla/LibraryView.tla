---------------------------- MODULE LibraryView ----------------------------
(***************************************************************************)
(* The library page (library-view.tsx, library-collection.ts and the page  *)
(* that loads it): the list it shows of the server's books, while books    *)
(* are added from search results, uploaded, fetched by a gateway and       *)
(* deleted, each by a request of its own whose answer changes the list.    *)
(*                                                                         *)
(* The server lists newest first, in pages, each read by a request of its  *)
(* own; only the pages of a load are read in one step here.  A book is an  *)
(* identifier.  A result of a gateway makes another book each time; one of *)
(* a connector is looked up first, and is the book that the library has of *)
(* it, unless two look-ups overlap (services/library.py).                  *)
(***************************************************************************)
EXTENDS Naturals, Sequences, SequencesExt

CONSTANTS LibBooks,     \* identifiers of books
          LibStarts,    \* what the server may list when the page is first loaded
          LibResults,   \* search results
          GatewayResults, \* those a gateway found, the others are a connector's
          LibPageLimit, \* books in a page of the server's list
          NoResult

ASSUME LibAssumption ==
  /\ LibPageLimit \in Nat \ {0} /\ NoResult \notin LibResults
  /\ GatewayResults \subseteq LibResults
  /\ \A s \in LibStarts : s \in Seq(LibBooks) /\ IsInjective(s)

VARIABLES
  libServer,   \* the rows, newest first
  libItems,    \* items: what the page lists
  libNotice,   \* how the load went, until the owner dismisses the notice
  libMode,     \* browseMode
  libWay,      \* per book: how it is coming to the library
  libOf,       \* per book: the result it was added from
  libFound,    \* per book asked for: the book its request found, itself if none
  libAdding,   \* addingId
  libOwned,    \* results that are shown, marked as in the library
  libDelete,   \* per book: its DELETE, not sent, sent, carried out, or left by its view
  libRefresh,  \* per book fetched: the refresh its arrival started
  libLoad,     \* a load of the page that was read and is not rendered yet
  libKey,      \* the key of the view: a summary of the load it was mounted with
  libDoubt,    \* observed: books about which the page has cause to be wrong
  libDouble,   \* observed: books that came in an answer while they were listed
  libRaced     \* observed: since results are asked for, one was while another was

libPage == <<libItems, libNotice, libMode, libKey>>
libAsk  == <<libWay, libOf, libFound, libAdding, libOwned>>
libSeen == <<libDoubt, libDouble, libRaced>>
libReads == <<libRefresh, libLoad>>
libVars == <<libServer, libPage, libAsk, libDelete, libReads, libSeen>>

Listed(b) == b \in ToSet(libItems)
Stored(b) == b \in ToSet(libServer)

\* What is left of a list when only the books of S stay.
Left(s, S) ==
  LET kept[n \in 0..Len(s)] ==
        IF n = 0 THEN <<>>
        ELSE IF s[n] \in S THEN Append(kept[n - 1], s[n]) ELSE kept[n - 1]
  IN kept[Len(s)]

Without(s, b) == Left(s, LibBooks \ {b})

\* A book is in a list, at one place only.
Once(s, b) == \E i \in DOMAIN s : s[i] = b /\ \A j \in DOMAIN s : s[j] = b => j = i

\* A refresh: the pages read so far, whether the list changed meanwhile.
NoRefresh == [page |-> 0, pages |-> 0, acc |-> <<>>, moved |-> {}, cut |-> FALSE]
Refreshing == {b \in LibBooks : libRefresh[b].page > 0}
NoLoad == [items |-> <<>>, notice |-> "loading", moved |-> {}]

LibInit ==
  /\ libServer \in LibStarts
  /\ libItems = <<>> /\ libNotice = "loading" /\ libMode = "mine"
  /\ libWay = [b \in LibBooks |-> IF b \in ToSet(libServer) THEN "here" ELSE "out"]
  /\ libOf = [b \in LibBooks |-> NoResult] /\ libFound = [b \in LibBooks |-> b]
  /\ libAdding = NoResult /\ libOwned = {}
  /\ libDelete = [b \in LibBooks |-> "no"]
  /\ libRefresh = [b \in LibBooks |-> NoRefresh]
  /\ libLoad = NoLoad /\ libKey = <<>>
  /\ libDoubt = {} /\ libDouble = {} /\ libRaced = FALSE

-----------------------------------------------------------------------------
(* Loading.  The first page that fails leaves the library unavailable; a   *)
(* later one leaves the books so far, and the page says so.                *)

UpTo(s, n)   == SubSeq(s, 1, IF n < Len(s) THEN n ELSE Len(s))
PageOf(s, p) == SubSeq(UpTo(s, p * LibPageLimit), (p - 1) * LibPageLimit + 1,
                       Len(UpTo(s, p * LibPageLimit)))
PageCount(s) == IF s = <<>> THEN 1 ELSE (Len(s) + LibPageLimit - 1) \div LibPageLimit

\* mergeLibraryFetch, with k pages that were answered.
mergeLibraryFetch(k) ==
  IF k = 0 THEN [NoLoad EXCEPT !.notice = "unavailable"]
  ELSE [NoLoad EXCEPT !.items  = UpTo(libServer, k * LibPageLimit),
                      !.notice = IF k < PageCount(libServer) THEN "partial" ELSE "fine"]

\* The server renders the page, for the first time or again.
Load(k) ==
  /\ libLoad = NoLoad /\ k <= PageCount(libServer)
  /\ libLoad' = mergeLibraryFetch(k)
  /\ UNCHANGED <<libServer, libPage, libAsk, libDelete, libRefresh, libSeen>>

FirstLoad(k) == libNotice = "loading" /\ Load(k)

\* The key the page gives LibraryView: two loads of one key keep one view.
KeyOf(load) == <<load.notice, Len(load.items)>> \o
               (IF load.items = <<>> THEN <<>> ELSE <<Head(load.items), Last(load.items)>>)

\* The library's books that were added from a result.
OfResult(r) == {b \in LibBooks : Stored(b) /\ libOf[b] = r}

\* Rows of a search: a connector's result is known by its reference, a
\* gateway's by its book's title, which may be another.  The library is read
\* and the rows are shown in one step (BookSearch has the request), and a match
\* with another book's title or ISBN is left out.
SearchMarks ==
  \E S \in SUBSET GatewayResults :
    libOwned' = {r \in LibResults : OfResult(r) # {} /\ (r \in GatewayResults => r \in S)}

\* The sources are searched when they are opened, and have no rows when not.
RowsIn(mode) == IF mode = "sources" THEN SearchMarks ELSE libOwned' = {}

\* A view is mounted: what it adds, reads and deletes from now on is its own.
\* An earlier view's requests go on, and their answers change nothing here.
Mount ==
  /\ libItems' = libLoad.items /\ libNotice' = libLoad.notice
  /\ libWay' = [b \in LibBooks |-> CASE libWay[b] \in {"asked", "looked", "fetching"} -> "givenup"
                                     [] libWay[b] \in {"added", "arrived"} -> "here"
                                     [] libWay[b] = "found" -> "out"
                                     [] OTHER -> libWay[b]]
  /\ libOf' = [b \in LibBooks |-> IF libWay[b] = "found" THEN NoResult ELSE libOf[b]]
  /\ libFound' = [b \in LibBooks |-> b] /\ libAdding' = NoResult
  /\ RowsIn(libMode)
  /\ libDelete' = [b \in LibBooks |-> IF libDelete[b] = "asked" THEN "left" ELSE
                                      IF libDelete[b] = "gone" THEN "no" ELSE libDelete[b]]
  /\ libRefresh' = [b \in LibBooks |-> NoRefresh]
  /\ libDoubt' = IF libNotice' = "fine" THEN libLoad.moved ELSE LibBooks
  /\ libDouble' = {}
  /\ UNCHANGED libRaced

PageRenders ==
  /\ libLoad # NoLoad
  /\ libLoad' = NoLoad /\ libKey' = KeyOf(libLoad)
  /\ IF libKey' = libKey
     THEN UNCHANGED <<libItems, libNotice, libAsk, libDelete, libRefresh, libSeen>>
     ELSE Mount
  /\ UNCHANGED <<libServer, libMode>>

\* What the page renders below its header.
LibPanel ==
  IF libNotice = "unavailable" /\ libItems = <<>> THEN "unavailable"
  ELSE IF libMode = "sources" THEN "sources"
  ELSE IF libItems = <<>> THEN "empty"
  ELSE "collection"

Loaded == libNotice # "loading"

DismissNotice ==
  /\ LibPanel = "unavailable" \/ (libNotice = "partial" /\ libItems # <<>>)
  /\ libNotice' = "dismissed"
  /\ UNCHANGED <<libServer, libKey, libItems, libMode, libAsk, libDelete, libReads, libSeen>>

\* handleRetry: the page is loaded again.
handleRetry(k) ==
  /\ LibPanel = "unavailable" \/ (libNotice = "partial" /\ libItems # <<>>)
  /\ Load(k)

setBrowseMode(mode) == libMode' = mode

\* The header's button, on a wide page and on a narrow one.
HeaderSwitches ==
  /\ Loaded
  /\ setBrowseMode(IF libMode = "mine" THEN "sources" ELSE "mine")
  /\ RowsIn(libMode')
  /\ UNCHANGED <<libServer, libKey, libItems, libNotice, libWay, libOf, libFound, libAdding,
                 libDelete, libReads, libSeen>>

\* The sources are searched again.
SearchAgain ==
  /\ LibPanel = "sources"
  /\ SearchMarks
  /\ UNCHANGED <<libServer, libPage, libWay, libOf, libFound, libAdding, libDelete, libReads, libSeen>>

-----------------------------------------------------------------------------
(* Adding.                                                                 *)

Comings(phases) == {b \in LibBooks : libWay[b] \in phases}

\* A row comes or goes while a refresh or a load is under way.
Moved(b) ==
  /\ libRefresh' = [k \in LibBooks |-> IF k \in Refreshing
                                       THEN [libRefresh[k] EXCEPT !.moved = @ \cup {b}]
                                       ELSE libRefresh[k]]
  /\ libLoad' = IF libLoad = NoLoad THEN NoLoad ELSE [libLoad EXCEPT !.moved = @ \cup {b}]

\* isPending: an entry of pendingJobs.
Fetching(r) == \E b \in LibBooks : libOf[b] = r /\ libWay[b] \in {"fetching", "arrived"}

\* What a result's row says of it; its button is there to press for "add".
SearchResultActions(r) ==
  IF r \in libOwned THEN "inLibrary" ELSE IF Fetching(r) THEN "fetching"
  ELSE IF libAdding = r THEN "adding" ELSE "add"

CanAdd(r) == LibPanel = "sources" /\ SearchResultActions(r) = "add"

\* Faulty variant: the button is not disabled while its request runs.
CanAddAlways(r) == LibPanel = "sources" /\ SearchResultActions(r) \in {"add", "adding"}

\* Asked for, and not answered.
Waiting == {"asked", "looked", "found", "added"}

Waitings == {c \in Comings(Waiting) : libOf[c] # NoResult}

addResult(r, b) ==
  /\ libWay[b] = "out" /\ CanAdd(r)
  /\ libWay' = [libWay EXCEPT ![b] = "asked"]
  /\ libOf' = [libOf EXCEPT ![b] = r]
  /\ libAdding' = r
  /\ libRaced' = (Waitings # {} /\ (libRaced \/ \E c \in Waitings : libOf[c] # r))
  /\ UNCHANGED <<libServer, libPage, libFound, libOwned, libDelete, libReads, libDoubt, libDouble>>

\* UploadDropzone sends a file.
Upload(b) ==
  /\ LibPanel = "sources" /\ libWay[b] = "out"
  /\ libWay' = [libWay EXCEPT ![b] = "asked"]
  /\ UNCHANGED <<libServer, libPage, libOf, libFound, libAdding, libOwned, libDelete, libReads, libSeen>>

\* import_from_connector: the library has a book of the reference, which is the
\* answer, or none.
LookUp(b) ==
  /\ libWay[b] = "asked" /\ libOf[b] \notin GatewayResults \cup {NoResult}
  /\ \/ /\ OfResult(libOf[b]) = {}
        /\ libWay' = [libWay EXCEPT ![b] = "looked"]
        /\ UNCHANGED libFound
     \/ \E c \in LibBooks :
          /\ OfResult(libOf[b]) = {c}
          /\ libWay' = [libWay EXCEPT ![b] = "found"]
          /\ libFound' = [libFound EXCEPT ![b] = c]
  /\ UNCHANGED <<libServer, libPage, libOf, libAdding, libOwned, libDelete, libReads, libSeen>>

\* The server stores the book; the answer is on its way.
StoreBook(b) ==
  /\ libWay[b] = "looked" \/ (libWay[b] = "asked" /\ libOf[b] = NoResult)
  /\ libServer' = <<b>> \o libServer
  /\ libWay' = [libWay EXCEPT ![b] = "added"]
  /\ Moved(b)
  /\ UNCHANGED <<libPage, libOf, libFound, libAdding, libOwned, libDelete, libSeen>>

\* finally: whichever result is being added by now.
DoneAdding(b) == libAdding' = IF libOf[b] = NoResult THEN libAdding ELSE NoResult

\* No book is made.
ComesToNothing(b) ==
  libWay' = [libWay EXCEPT ![b] = "out"] /\ libOf' = [libOf EXCEPT ![b] = NoResult]

\* The request is refused (also when the library has two books of the
\* reference), or its answer is lost.
AddFails(b) ==
  /\ libWay[b] \in Waiting
  /\ \/ libWay[b] = "added" /\ libWay' = [libWay EXCEPT ![b] = "here"] /\ UNCHANGED libOf
     \/ libWay[b] # "added" /\ ComesToNothing(b)
  /\ libFound' = [libFound EXCEPT ![b] = b]
  /\ DoneAdding(b)
  /\ libDoubt' = IF libWay[b] = "added" THEN libDoubt \cup {b} ELSE libDoubt
  /\ UNCHANGED <<libServer, libPage, libOwned, libDelete, libReads, libDouble, libRaced>>

\* An answer puts a book in front of the list, whether it is there or not.
Prepend(c) ==
  /\ libItems' = <<c>> \o libItems
  /\ libDouble' = IF Listed(c) THEN libDouble \cup {c} ELSE libDouble
  /\ libDoubt' = IF Stored(c) THEN libDoubt ELSE libDoubt \cup {c}

\* markOwned: the rows, if there are any.
markOwned(r) == libOwned' = IF libMode = "sources" THEN libOwned \cup {r} ELSE libOwned

\* The answer arrives with the book; a file that was sent is then shown.
BookAnswered(b) ==
  /\ libWay[b] = "added"
  /\ Prepend(b)
  /\ libWay' = [libWay EXCEPT ![b] = "here"]
  /\ \/ libOf[b] = NoResult /\ setBrowseMode("mine") /\ libOwned' = {}
     \/ libOf[b] # NoResult /\ UNCHANGED libMode /\ markOwned(libOf[b])
  /\ DoneAdding(b)
  /\ UNCHANGED <<libServer, libKey, libNotice, libOf, libFound, libDelete, libReads, libRaced>>

\* The answer arrives with a book that the library had.
FoundAnswered(b) ==
  /\ libWay[b] = "found"
  /\ Prepend(libFound[b])
  /\ ComesToNothing(b)
  /\ libFound' = [libFound EXCEPT ![b] = b]
  /\ markOwned(libOf[b])
  /\ DoneAdding(b)
  /\ UNCHANGED <<libServer, libKey, libNotice, libMode, libDelete, libReads, libRaced>>

\* The result comes by a gateway: the answer is a job.
JobAnswered(b) ==
  /\ libWay[b] = "asked" /\ libOf[b] \in GatewayResults
  /\ libWay' = [libWay EXCEPT ![b] = "fetching"]
  /\ DoneAdding(b)
  /\ UNCHANGED <<libServer, libPage, libOf, libFound, libOwned, libDelete, libReads, libSeen>>

-----------------------------------------------------------------------------
(* A fetch, and the refresh its end starts.                                *)

\* Also what an earlier view asked for, and is stored after its time.
GatewayStores(b) ==
  /\ libWay[b] \in {"fetching", "givenup"}
  /\ libServer' = <<b>> \o libServer
  /\ libWay' = [libWay EXCEPT ![b] = IF @ = "fetching" THEN "arrived" ELSE "here"]
  /\ libDoubt' = IF libWay[b] = "givenup" THEN libDoubt \cup {b} ELSE libDoubt
  /\ Moved(b)
  /\ UNCHANGED <<libPage, libOf, libFound, libAdding, libOwned, libDelete,
                 libDouble, libRaced>>

\* handleFetchFailed, handleFetchTimeout: the entry goes; a book that comes
\* after all is not shown.
handleFetchTimeout(b) ==
  /\ libWay[b] \in {"fetching", "arrived"}
  /\ libWay' = [libWay EXCEPT ![b] = IF @ = "fetching" THEN "givenup" ELSE "here"]
  /\ libDoubt' = IF libWay[b] = "arrived" THEN libDoubt \cup {b} ELSE libDoubt
  /\ UNCHANGED <<libServer, libPage, libOf, libFound, libAdding, libOwned,
                 libDelete, libReads, libDouble, libRaced>>

\* handleFetchDone, up to its first request.
handleFetchDone(b) ==
  /\ libWay[b] = "arrived"
  /\ libWay' = [libWay EXCEPT ![b] = "here"]
  /\ markOwned(libOf[b])
  /\ libRefresh' = [libRefresh EXCEPT ![b] = [NoRefresh EXCEPT !.page = 1]]
  /\ UNCHANGED <<libServer, libPage, libOf, libFound, libAdding, libDelete, libSeen, libLoad>>

Unread(b) == libRefresh[b].page > 0 /\ libRefresh[b].page <= (IF libRefresh[b].pages = 0 THEN 1
                                                           ELSE libRefresh[b].pages)

\* A page is read; the number of pages is the first one's.
ReadPage(b) ==
  LET f == libRefresh[b] IN
  /\ Unread(b)
  /\ libRefresh' = [libRefresh EXCEPT ![b] =
       [f EXCEPT !.page = @ + 1, !.acc = @ \o PageOf(libServer, f.page),
                 !.pages = IF f.page = 1 THEN PageCount(libServer) ELSE @,
                 !.moved = IF f.page = 1 THEN {} ELSE @]]
  /\ UNCHANGED <<libServer, libPage, libAsk, libDelete, libSeen, libLoad>>

\* Faulty variant: a refresh that fails empties the list.
FirstPageFailsEmpty(b) ==
  /\ libRefresh[b].page = 1
  /\ libRefresh' = [libRefresh EXCEPT ![b] = NoRefresh]
  /\ libItems' = <<>>
  /\ libDoubt' = libDoubt \cup {b}
  /\ UNCHANGED <<libServer, libKey, libNotice, libMode, libAsk,
                 libDelete, libDouble, libRaced, libLoad>>

\* The first page fails: the page keeps the books it has.
FirstPageFails(b) ==
  /\ libRefresh[b].page = 1
  /\ libRefresh' = [libRefresh EXCEPT ![b] = NoRefresh]
  /\ libDoubt' = libDoubt \cup {b}
  /\ UNCHANGED <<libServer, libPage, libAsk, libDelete, libDouble, libRaced, libLoad>>

\* A later page fails: those read so far are taken for the whole.
LaterPageFails(b) ==
  /\ Unread(b) /\ libRefresh[b].page > 1
  /\ libRefresh' = [libRefresh EXCEPT ![b].page = @ + 1, ![b].pages = libRefresh[b].page - 1,
                                      ![b].cut = TRUE]
  /\ UNCHANGED <<libServer, libPage, libAsk, libDelete, libSeen, libLoad>>

\* The list becomes what was read.  It is in doubt about every book if a page
\* failed, or the list moved between pages, else about those that moved.
ApplyRefresh(b) ==
  LET f == libRefresh[b] IN
  /\ f.page > 1 /\ ~Unread(b)
  /\ libItems' = f.acc
  /\ libDoubt' = IF f.cut \/ (f.pages > 1 /\ f.moved # {}) THEN LibBooks ELSE f.moved
  /\ libDouble' = {}
  /\ libRefresh' = [libRefresh EXCEPT ![b] = NoRefresh]
  /\ UNCHANGED <<libServer, libKey, libNotice, libMode, libAsk,
                 libDelete, libRaced, libLoad>>

-----------------------------------------------------------------------------
(* Deleting a book that is listed.                                         *)

\* Shown in the list or the grid.
Clickable(b) == LibPanel = "collection" /\ Listed(b)

AskDelete(b) ==
  /\ Clickable(b) /\ libDelete[b] = "no"
  /\ libDelete' = [libDelete EXCEPT ![b] = "asked"]
  /\ UNCHANGED <<libServer, libPage, libAsk, libReads, libSeen>>

DeleteRow(b) ==
  /\ libDelete[b] \in {"asked", "left"} /\ Stored(b)
  /\ libServer' = Without(libServer, b)
  /\ libDelete' = [libDelete EXCEPT ![b] = IF @ = "asked" THEN "gone" ELSE "no"]
  /\ libDoubt' = IF libDelete[b] = "left" THEN libDoubt \cup {b} ELSE libDoubt
  /\ Moved(b)
  /\ UNCHANGED <<libPage, libAsk, libDouble, libRaced>>

\* Not found, refused, or the answer is lost.
DeleteFails(b) ==
  /\ libDelete[b] # "no"
  /\ libDelete' = [libDelete EXCEPT ![b] = "no"]
  /\ libDoubt' = IF libDelete[b] = "gone" THEN libDoubt \cup {b} ELSE libDoubt
  /\ UNCHANGED <<libServer, libPage, libAsk, libReads, libDouble, libRaced>>

\* confirmDelete, onDeleted: every entry of that book leaves the list.
DeleteAnswered(b) ==
  /\ libDelete[b] = "gone"
  /\ libItems' = Without(libItems, b)
  /\ libDelete' = [libDelete EXCEPT ![b] = "no"]
  /\ libDouble' = libDouble \ {b}
  /\ UNCHANGED <<libServer, libKey, libNotice, libMode, libAsk, libReads, libDoubt, libRaced>>

-----------------------------------------------------------------------------
LibNext ==
  \/ \E k \in 0..Len(libServer) + 1 : FirstLoad(k) \/ handleRetry(k)
  \/ PageRenders \/ DismissNotice \/ HeaderSwitches \/ SearchAgain
  \/ \E r \in LibResults, b \in LibBooks : addResult(r, b)
  \/ \E b \in LibBooks :
       \/ Upload(b) \/ LookUp(b) \/ StoreBook(b) \/ AddFails(b)
       \/ BookAnswered(b) \/ FoundAnswered(b) \/ JobAnswered(b)
       \/ GatewayStores(b) \/ handleFetchTimeout(b) \/ handleFetchDone(b)
       \/ ReadPage(b) \/ FirstPageFails(b) \/ LaterPageFails(b) \/ ApplyRefresh(b)
       \/ AskDelete(b) \/ DeleteRow(b) \/ DeleteFails(b) \/ DeleteAnswered(b)

LibSpec == LibInit /\ [][LibNext]_libVars

-----------------------------------------------------------------------------
LibTypeOK ==
  /\ libServer \in Seq(LibBooks) /\ libItems \in Seq(LibBooks)
  /\ libNotice \in {"loading", "fine", "partial", "unavailable", "dismissed"}
  /\ libMode \in {"mine", "sources"}
  /\ libWay \in [LibBooks -> {"out", "asked", "looked", "found", "added", "fetching",
                              "arrived", "givenup", "here"}]
  /\ libFound \in [LibBooks -> LibBooks]
  /\ libOf \in [LibBooks -> LibResults \cup {NoResult}]
  /\ libAdding \in LibResults \cup {NoResult} /\ libOwned \subseteq LibResults
  /\ libDelete \in [LibBooks -> {"no", "asked", "gone", "left"}]
  /\ libRefresh \in [LibBooks -> [page : Nat, pages : Nat, acc : Seq(LibBooks),
                                  moved : SUBSET LibBooks, cut : BOOLEAN]]
  /\ libLoad \in [items : Seq(LibBooks), moved : SUBSET LibBooks,
                  notice : {"loading", "fine", "partial", "unavailable"}]
  /\ libDoubt \subseteq LibBooks /\ libDouble \subseteq LibBooks /\ libRaced \in BOOLEAN

AtRest(b) ==
  /\ libWay[b] \notin {"added", "arrived"} /\ libDelete[b] # "gone" /\ b \notin Refreshing

(***************************************************************************)
(* Once nothing about it is under way, the page shows a book exactly once  *)
(* if the server has it and not at all otherwise, unless one of these      *)
(* happened to it: an answer or a page was lost, its row came or went      *)
(* while a refresh or a load was read or before its list was applied,      *)
(* before an answer that brought it arrived, or after the view that asked  *)
(* for it was replaced or gave it up.  It may be shown more than once only *)
(* if an answer brought it while the page had it already (libDouble: a     *)
(* result added again, or read by a refresh first), which the next list or *)
(* its deletion mends.  In particular the library looks empty only when it *)
(* is.                                                                     *)
(***************************************************************************)
ListIsServers ==
  Loaded => \A b \in LibBooks \ libDoubt :
    AtRest(b) => IF Stored(b) THEN Listed(b) /\ (b \notin libDouble => Once(libItems, b))
                 ELSE ~Listed(b)

(***************************************************************************)
(* No two requests for one result are under way, unless another result was *)
(* asked for among them: the page remembers only the result it adds last,  *)
(* and forgets it when any of them is answered.                            *)
(***************************************************************************)
DoubleAddNeedsOverlap ==
  ~libRaced => \A b, c \in Waitings : libOf[b] = libOf[c] => b = c

\* The list of the library page: see ListIsServers and DoubleAddNeedsOverlap.
LibraryIsServers == LibTypeOK /\ ListIsServers /\ DoubleAddNeedsOverlap
=============================================================================
