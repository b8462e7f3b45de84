----------------------------- MODULE Collection -----------------------------
(***************************************************************************)
(* The collection of the library page: the books the page has, filtered,   *)
(* sorted and cut into pages by the criteria of the address                *)
(* (library-collection.ts, library-query.ts), and what the user picks in   *)
(* it (library-view.tsx, book-row.tsx, book-grid-item.tsx).                *)
(*                                                                         *)
(* The list changes under the criteria: a book is added, deleted, or the   *)
(* list read again (LibraryView has how).  The criteria change under the   *)
(* page number, which the user, the address and the browser's history set. *)
(***************************************************************************)
EXTENDS Naturals, Sequences, SequencesExt, FiniteSetsExt

CONSTANTS ByTitle,        \* every book, in the order of the titles
          NewestFirst,    \* every book, in the order of added_at
          LinkedBooks,    \* the books a gateway brought
          ManualBooks,    \* the books with no source_ref: a connector's are neither
          TextBooks,      \* the books the text asked for is in
          ColPageSize,    \* LIBRARY_COLLECTION_PAGE_SIZE
          MaxColPage,     \* bound on the page of an address
          NoColBook       \* not a book

ColBooks == ToSet(ByTitle)

ASSUME CollectionAssumption ==
  /\ ByTitle \in Seq(ColBooks) /\ IsInjective(ByTitle)
  /\ NewestFirst \in Seq(ColBooks) /\ IsInjective(NewestFirst)
  /\ ToSet(NewestFirst) = ColBooks /\ NoColBook \notin ColBooks
  /\ LinkedBooks \cap ManualBooks = {}
  /\ ColPageSize \in Nat \ {0} /\ MaxColPage \in Nat \ {0}

\* What the address asks of the collection; the filters of the format and of
\* the language are like that of the source.
ColCriteria == [text : BOOLEAN, source : {"all", "linked", "manual"},
                sort : {"added", "title"}, page : 1..MaxColPage]
NoCriteria == [text |-> FALSE, source |-> "all", sort |-> "added", page |-> 1]

VARIABLES
  colItems,     \* items: the books the page has
  colAddress,   \* the criteria
  colViewMode,  \* viewMode
  colSelected,  \* selectedId
  colTicked,    \* selection: the books ticked for the actions on several
  colDialog     \* the dialog over the page, and the book it was opened for

colVars == <<colItems, colAddress, colViewMode, colSelected, colTicked, colDialog>>

NoColDialog == [kind |-> "none", of |-> NoColBook]

ColInit ==
  /\ colItems \in SUBSET ColBooks
  /\ colAddress \in {[NoCriteria EXCEPT !.page = p] : p \in 1..MaxColPage}
  /\ colViewMode = "grid" /\ colSelected = NoColBook /\ colTicked = {}
  /\ colDialog = NoColDialog

-----------------------------------------------------------------------------
(* The books displayed, and their pages.                                   *)

matchesLibraryTextQuery(b, c) == c.text => b \in TextBooks
MatchesSource(b, c) ==
  CASE c.source = "linked" -> b \in LinkedBooks
    [] c.source = "manual" -> b \in ManualBooks
    [] OTHER -> TRUE

\* The books of S, in the order of a list.
BooksInOrder(s, S) ==
  LET kept[n \in 0..Len(s)] ==
        IF n = 0 THEN <<>>
        ELSE IF s[n] \in S THEN Append(kept[n - 1], s[n]) ELSE kept[n - 1]
  IN kept[Len(s)]

\* No two books have one place in an order, so to sort what is filtered is to
\* filter what is sorted.
filterAndSort(items, c) ==
  BooksInOrder(IF c.sort = "title" THEN ByTitle ELSE NewestFirst,
          {b \in items : matchesLibraryTextQuery(b, c) /\ MatchesSource(b, c)})

hasActiveFilters(c) == c.text \/ c.source # "all"

Displayed == filterAndSort(colItems, colAddress)

ColLeast(S) == CHOOSE n \in S : \A k \in S : n <= k
ColPageCount(n) == ColLeast({k \in 1..(n + 1) : n <= k * ColPageSize})

\* Faulty variant: an address beyond the last page shows that page, empty.
PageUnclamped(shown, page) ==
  LET first == (page - 1) * ColPageSize
  IN [page |-> page, first |-> first + 1,
      books |-> SubSeq(shown, first + 1, ColLeast({first + ColPageSize, Len(shown)}))]

\* paginateLibraryItems: safePage is the address's page, or the last.
paginate(shown, page) ==
  LET safePage == ColLeast({page, ColPageCount(Len(shown))})
      first == (safePage - 1) * ColPageSize
  IN [page |-> safePage, first |-> first + 1,
      books |-> SubSeq(shown, first + 1, ColLeast({first + ColPageSize, Len(shown)}))]

PageSlice == paginate(Displayed, colAddress.page)
OnPage == ToSet(PageSlice.books)

\* The books and the controls are there for the user.
ColUncovered == colDialog.kind = "none" /\ colItems # {}

-----------------------------------------------------------------------------
(* The criteria.                                                           *)

\* setCollectionQuery, changeFilters: the page goes from the address.
ChangeCriteria ==
  /\ ColUncovered
  /\ \E c \in ColCriteria :
       /\ c.page = 1
       /\ c # colAddress
       /\ colAddress' = c
  /\ UNCHANGED <<colItems, colViewMode, colSelected, colTicked, colDialog>>

ResetCriteria ==
  /\ ColUncovered
  /\ hasActiveFilters(colAddress) \/ colAddress.sort # "added"
  /\ colAddress' = NoCriteria
  /\ UNCHANGED <<colItems, colViewMode, colSelected, colTicked, colDialog>>

\* The browser's history, or an address that is entered: any page.  Bound: of
\* the criteria there are, for ChangeCriteria gets to all of them.
FollowAddress ==
  /\ \E p \in 1..MaxColPage : colAddress' = [colAddress EXCEPT !.page = p]
  /\ UNCHANGED <<colItems, colViewMode, colSelected, colTicked, colDialog>>

\* Faulty variant: the buttons count from the address's page.
TurnedFromAddress(shown, page, way) ==
  IF way = "previous" THEN IF page = 1 THEN 1 ELSE page - 1
  ELSE ColLeast({ColPageCount(Len(shown)), page + 1})

\* setCollectionPage, from the page that is shown.
Turned(shown, page, way) ==
  LET at == paginate(shown, page).page
  IN IF way = "previous" THEN IF at = 1 THEN 1 ELSE at - 1
     ELSE ColLeast({ColPageCount(Len(shown)), at + 1})

\* The two buttons, which stop at the first and the last page.
CanTurn(shown, page, way) ==
  /\ Len(shown) > ColPageSize
  /\ IF way = "previous" THEN paginate(shown, page).page > 1
     ELSE paginate(shown, page).page < ColPageCount(Len(shown))

ColTurnPage(way) ==
  /\ ColUncovered
  /\ CanTurn(Displayed, colAddress.page, way)
  /\ colAddress' = [colAddress EXCEPT !.page = Turned(Displayed, colAddress.page, way)]
  /\ UNCHANGED <<colItems, colViewMode, colSelected, colTicked, colDialog>>

SetViewMode ==
  /\ ColUncovered
  /\ colViewMode' = IF colViewMode = "grid" THEN "list" ELSE "grid"
  /\ UNCHANGED <<colItems, colAddress, colSelected, colTicked, colDialog>>

-----------------------------------------------------------------------------
(* Picking books.                                                          *)

selectBook(b) ==
  /\ ColUncovered /\ b \in OnPage
  /\ colSelected' = IF colSelected = b THEN NoColBook ELSE b
  /\ UNCHANGED <<colItems, colAddress, colViewMode, colTicked, colDialog>>

\* The box of a book.
TickBook(b) ==
  /\ ColUncovered /\ b \in OnPage
  /\ colTicked' = IF b \in colTicked THEN colTicked \ {b} ELSE colTicked \cup {b}
  /\ UNCHANGED <<colItems, colAddress, colViewMode, colSelected, colDialog>>

\* The box of the page.
TickPage ==
  /\ ColUncovered /\ OnPage # {}
  /\ colTicked' = IF OnPage \subseteq colTicked THEN colTicked \ OnPage ELSE colTicked \cup OnPage
  /\ UNCHANGED <<colItems, colAddress, colViewMode, colSelected, colDialog>>

\* A row of the list sends its book and deletes it, and selects it to send;
\* a cell of the grid has neither button.
OpenRowDialog(b) ==
  /\ ColUncovered /\ colViewMode = "list" /\ b \in OnPage
  /\ \/ colDialog' = [kind |-> "send", of |-> b] /\ colSelected' = b
     \/ colDialog' = [kind |-> "delete", of |-> b] /\ UNCHANGED colSelected
  /\ UNCHANGED <<colItems, colAddress, colViewMode, colTicked>>

\* handleHeaderSend: the selected book, wherever it is.
headerSendEnabled == colSelected \in colItems
HeaderSend ==
  /\ ColUncovered /\ headerSendEnabled
  /\ colDialog' = [kind |-> "send", of |-> colSelected]
  /\ UNCHANGED <<colItems, colAddress, colViewMode, colSelected, colTicked>>

CloseColDialog ==
  /\ colDialog.kind # "none"
  /\ colDialog' = NoColDialog
  /\ UNCHANGED <<colItems, colAddress, colViewMode, colSelected, colTicked>>

-----------------------------------------------------------------------------
(* The list.                                                               *)

\* A book is uploaded or added, or the list read again; a list the page reads
\* again mounts the view anew.
ListReplaced ==
  /\ \E S \in SUBSET ColBooks : S # colItems /\ colItems' = S
  /\ \/ UNCHANGED <<colViewMode, colSelected, colTicked, colDialog>>
     \/ /\ colViewMode' = "grid" /\ colSelected' = NoColBook /\ colTicked' = {}
        /\ colDialog' = NoColDialog
  /\ UNCHANGED colAddress

\* confirmDelete has its answer: the book's selection goes, its tick stays.
DeletedFromRow ==
  /\ colDialog.kind = "delete"
  /\ colItems' = colItems \ {colDialog.of}
  /\ colSelected' = IF colSelected = colDialog.of THEN NoColBook ELSE colSelected
  /\ colDialog' = NoColDialog
  /\ UNCHANGED <<colAddress, colViewMode, colTicked>>

\* BulkActions' deletion (its module has how a run goes): the books deleted
\* are no longer ticked; the selected one stays selected.
SelectedBooksTicked == colTicked \cap colItems
BulkDeleted ==
  /\ SelectedBooksTicked # {}
  /\ \E S \in SUBSET SelectedBooksTicked :
       colItems' = colItems \ S /\ colTicked' = colTicked \ S
  /\ UNCHANGED <<colAddress, colViewMode, colSelected, colDialog>>

-----------------------------------------------------------------------------
ColNext ==
  \/ ChangeCriteria \/ ResetCriteria \/ FollowAddress \/ SetViewMode
  \/ \E way \in {"previous", "next"} : ColTurnPage(way)
  \/ \E b \in ColBooks : selectBook(b) \/ TickBook(b) \/ OpenRowDialog(b)
  \/ TickPage \/ HeaderSend \/ CloseColDialog
  \/ ListReplaced \/ DeletedFromRow \/ BulkDeleted

ColSpec == ColInit /\ [][ColNext]_colVars

-----------------------------------------------------------------------------
ColTypeOK ==
  /\ colItems \subseteq ColBooks /\ colTicked \subseteq ColBooks
  /\ colAddress \in [text : BOOLEAN, source : {"all", "linked", "manual"},
                     sort : {"added", "title"}, page : Nat \ {0}]
  /\ colViewMode \in {"grid", "list"} /\ colSelected \in ColBooks \cup {NoColBook}
  /\ colDialog \in [kind : {"send", "delete"}, of : ColBooks] \cup {NoColDialog}

(***************************************************************************)
(* The pages, walked from the first to the last, show every book that      *)
(* matches once and in order, however the list and the criteria have       *)
(* changed under the page number: a page is empty only if nothing matches, *)
(* and a button that is enabled shows the page next to the one shown.      *)
(***************************************************************************)
PagesAreWhole ==
  LET n == ColPageCount(Len(Displayed))
      PageAt(p) == paginate(Displayed, p)
      After(p) == PageAt(p).first + Len(PageAt(p).books) IN
  /\ PageAt(1).first = 1 /\ After(n) = Len(Displayed) + 1
  /\ \A p \in 1..n :
       /\ p < n => PageAt(p + 1).first = After(p)
       /\ \A i \in 1..Len(PageAt(p).books) :
            PageAt(p).books[i] = Displayed[PageAt(p).first + i - 1]
  /\ IsInjective(Displayed)
  /\ ToSet(Displayed) = {b \in colItems : matchesLibraryTextQuery(b, colAddress)
                                            /\ MatchesSource(b, colAddress)}
  /\ (PageSlice.books = <<>>) = (Displayed = <<>>)
  /\ CanTurn(Displayed, colAddress.page, "next") =>
       paginate(Displayed, Turned(Displayed, colAddress.page, "next")).first
         = PageSlice.first + Len(PageSlice.books)
  /\ CanTurn(Displayed, colAddress.page, "previous") =>
       LET before == paginate(Displayed, Turned(Displayed, colAddress.page, "previous"))
       IN before.first + Len(before.books) = PageSlice.first
=============================================================================
