--------------------------- MODULE MC_WebLibrary ---------------------------
\* What the library page does: its list, the collection it cuts into pages, its
\* search, its covers and its dialog of a delivery, the palette over every
\* page and what is around it.  Each has state of its own: a behavior is about one of them.
EXTENDS LibraryView, DeliverDialog, BookSearch, Collection, CommandPalette, Shell, TLC
CONSTANTS b1, b2, b3, r1, r2, d1, d2, m1, m2, q1, q2, blank, u1, u2
ThreeBooks  == {b1, b2, b3}
TwoBooks    == {b1, b2}
OneBook     == {b1}
OtherBook   == {b2}
OneOrTwo    == {<<b1>>, <<b2, b1>>}
TwoResults  == {r1, r2}
OneResult   == {r2}
TwoDevices  == {d1, d2}
OneKindle   == {d1}
TwoMethods  == {m1, m2}
TwoQueries  == {q1, q2}
Titles      == <<b1, b2, b3>>
Newest      == <<b3, b1, b2>>
BooksOfText == {b1, b3}
CommandsOf  == [q \in {q1, q2, blank} |-> CASE q = blank -> 2 [] q = q1 -> 1 [] OTHER -> 0]
FoundFor    == [q \in {q1, q2} |-> IF q = q1 THEN 2 ELSE 1]
TwoUsers    == {u1, u2}

VARIABLE about
vars == <<about, libVars, sendVars, srchVars, coverVars, colVars, palVars, shVars>>

Init ==
  /\ about \in {"list", "delivery", "search", "cover", "collection", "palette", "shell"}
  /\ LibInit /\ SendInit /\ SearchInit /\ CoverInit /\ ColInit /\ PaletteInit /\ ShellInit
  /\ about # "collection" => colItems = {} /\ colAddress = NoCriteria
  /\ about # "shell" => ~shPhone /\ obKept /\ obUser = u1 /\ obHas = [u \in TwoUsers |-> {}]
Next ==
  /\ UNCHANGED about
  /\ \/ about = "list" /\ LibNext
        /\ UNCHANGED <<sendVars, srchVars, coverVars, colVars, palVars, shVars>>
     \/ about = "delivery" /\ SendNext
        /\ UNCHANGED <<libVars, srchVars, coverVars, colVars, palVars, shVars>>
     \/ about = "search" /\ SearchNext
        /\ UNCHANGED <<libVars, sendVars, coverVars, colVars, palVars, shVars>>
     \/ about = "cover" /\ CoverNext
        /\ UNCHANGED <<libVars, sendVars, srchVars, colVars, palVars, shVars>>
     \/ about = "collection" /\ ColNext
        /\ UNCHANGED <<libVars, sendVars, srchVars, coverVars, palVars, shVars>>
     \/ about = "palette" /\ PaletteNext
        /\ UNCHANGED <<libVars, sendVars, srchVars, coverVars, colVars, shVars>>
     \/ about = "shell" /\ ShellNext
        /\ UNCHANGED <<libVars, sendVars, srchVars, coverVars, colVars, palVars>>
Spec == Init /\ [][Next]_vars

\* What the page shows is what is asked for now, whatever was asked before and
\* is answered late: the results of the criteria in the address, the cover of
\* the book, the page of the collection, the books of the palette's text, the
\* navigation of the window.  See SearchIsCurrent, CoverIsOfItsBook,
\* PagesAreWhole, PaletteIsCurrent and NavigationIsThere.
ShownIsAskedFor ==
  /\ about = "delivery"   => SendTypeOK
  /\ about = "search"     => SearchTypeOK /\ SearchIsCurrent
  /\ about = "cover"      => CoverTypeOK /\ CoverIsOfItsBook
  /\ about = "collection" => ColTypeOK /\ PagesAreWhole
  /\ about = "palette"    => PaletteTypeOK /\ PaletteIsCurrent
  /\ about = "shell"      => ShellTypeOK /\ NavigationIsThere
=============================================================================
