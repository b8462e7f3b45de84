--------------------------- MODULE CommandPalette ---------------------------
(***************************************************************************)
(* The command palette (command-palette.tsx): Ctrl-K, a text, the commands *)
(* it matches and the books the server finds for it, and the keys.         *)
(*                                                                         *)
(* A text is asked for 250 ms after it was typed.  Typing again, trying    *)
(* again and closing abort the request: its answer may still come.  The    *)
(* entries are the commands, then the books: a book that comes late comes  *)
(* after what the user has highlighted.                                    *)
(***************************************************************************)
EXTENDS Naturals, FiniteSets

CONSTANTS PalTexts,         \* what may be typed
          NoText,           \* the empty text, or one of spaces
          PalCommands,      \* per text: how many commands it matches
          PalFound          \* per text: how many books the server finds

ASSUME PaletteAssumption ==
  /\ NoText \notin PalTexts
  /\ PalCommands \in [PalTexts \cup {NoText} -> Nat]
  /\ PalFound \in [PalTexts -> Nat]

VARIABLES
  palOpen,     \* open: Commands is mounted
  palQuery,    \* query
  palBooks,    \* the text of which books has the answer, or NoText: none
  palLoading,  \* loading
  palFailed,   \* failed
  palActive,   \* active
  palTimer,    \* the timer of the text runs
  palAsked,    \* the request of the text is in flight
  palLate,     \* the texts of the requests aborted and not yet answered
  palMark      \* observed: the entry highlighted when the user last acted

palKeys == <<palActive, palMark>>
palAsking == <<palTimer, palAsked, palLate>>
palVars == <<palOpen, palQuery, palBooks, palLoading, palFailed, palKeys, palAsking>>

PalSize(query, books) == PalCommands[query] + IF books = NoText THEN 0 ELSE PalFound[books]
entries == PalSize(palQuery, palBooks)

\* selectedIndex, and the entry it names.
PalLeast(m, n) == IF m < n THEN m ELSE n
PalIndex(query, books, active) ==
  LET n == PalSize(query, books) IN PalLeast(active, IF n = 0 THEN 0 ELSE n - 1)
PalEntry(query, books, active) ==
  LET i == PalIndex(query, books, active) IN
  IF i < PalCommands[query] THEN <<"command", i>>
  ELSE IF i < PalSize(query, books) THEN <<"book", i - PalCommands[query]>>
  ELSE <<"nothing", 0>>
Highlighted == PalEntry(palQuery, palBooks, palActive)

\* Commands as it mounts.
PalFresh ==
  /\ palQuery' = NoText /\ palBooks' = NoText /\ palLoading' = FALSE /\ palFailed' = FALSE
  /\ palActive' = 0 /\ palTimer' = FALSE /\ palAsked' = FALSE
  /\ palMark' = PalEntry(NoText, NoText, 0)

PaletteInit ==
  /\ palOpen = FALSE /\ palQuery = NoText /\ palBooks = NoText
  /\ palLoading = FALSE /\ palFailed = FALSE /\ palActive = 0
  /\ palTimer = FALSE /\ palAsked = FALSE /\ palLate = {}
  /\ palMark = PalEntry(NoText, NoText, 0)

\* The effect's cleanup: the timer is cleared, the request aborted.
PalAbort == palLate' = IF palAsked THEN palLate \cup {palQuery} ELSE palLate

-----------------------------------------------------------------------------
\* The button, Ctrl-K or a press outside.
TogglePalette ==
  /\ palOpen' = ~palOpen
  /\ PalAbort /\ PalFresh

\* onChange.
TypeText(q) ==
  /\ palOpen /\ q # palQuery
  /\ PalAbort
  /\ palQuery' = q /\ palBooks' = NoText /\ palLoading' = (q # NoText) /\ palFailed' = FALSE
  /\ palActive' = 0 /\ palMark' = PalEntry(q, NoText, 0)
  /\ palTimer' = (q # NoText) /\ palAsked' = FALSE
  /\ UNCHANGED palOpen

PalTimerFires ==
  /\ palTimer
  /\ palTimer' = FALSE /\ palAsked' = TRUE
  /\ UNCHANGED <<palOpen, palQuery, palBooks, palLoading, palFailed, palKeys, palLate>>

PalAnswered ==
  /\ palAsked
  /\ palBooks' = palQuery /\ palFailed' = FALSE /\ palLoading' = FALSE /\ palAsked' = FALSE
  /\ palMark' = IF palMark[1] = "nothing" THEN PalEntry(palQuery, palQuery, palActive) ELSE palMark
  /\ UNCHANGED <<palOpen, palQuery, palActive, palTimer, palLate>>

PalFails ==
  /\ palAsked
  /\ palFailed' = TRUE /\ palLoading' = FALSE /\ palAsked' = FALSE
  /\ UNCHANGED <<palOpen, palQuery, palBooks, palKeys, palTimer, palLate>>

\* Faulty variant: the answer of an aborted request is applied.
LateApplied ==
  /\ palLate # {} /\ palOpen
  /\ \E q \in palLate : palBooks' = q /\ palLate' = palLate \ {q}
  /\ UNCHANGED <<palOpen, palQuery, palLoading, palFailed, palKeys, palTimer, palAsked>>

\* controller.signal.aborted: it is not.
LateDropped ==
  /\ palLate # {}
  /\ \E q \in palLate : palLate' = palLate \ {q}
  /\ UNCHANGED <<palOpen, palQuery, palBooks, palLoading, palFailed, palKeys, palTimer, palAsked>>

\* The button beside the failure.
RetrySearch ==
  /\ palFailed
  /\ palFailed' = FALSE /\ palLoading' = TRUE /\ palTimer' = TRUE
  /\ UNCHANGED <<palOpen, palQuery, palBooks, palKeys, palAsked, palLate>>

-----------------------------------------------------------------------------
\* An arrow, Home, End, or the pointer over an entry.
Highlight(i) ==
  /\ palOpen /\ i < entries
  /\ palActive' = i
  /\ palMark' = PalEntry(palQuery, palBooks, i)
  /\ UNCHANGED <<palOpen, palQuery, palBooks, palLoading, palFailed, palAsking>>

\* Enter, or a press: the palette closes and the entry's page opens.
ChooseEntry ==
  /\ palOpen /\ entries > 0
  /\ palOpen' = FALSE
  /\ PalAbort /\ PalFresh

-----------------------------------------------------------------------------
PaletteNext ==
  \/ TogglePalette \/ \E q \in PalTexts \cup {NoText} : TypeText(q)
  \/ PalTimerFires \/ PalAnswered \/ PalFails \/ LateDropped \/ RetrySearch
  \/ \E i \in 0..entries : Highlight(i)
  \/ ChooseEntry

PaletteSpec == PaletteInit /\ [][PaletteNext]_palVars

-----------------------------------------------------------------------------
PaletteTypeOK ==
  /\ {palOpen, palLoading, palFailed, palTimer, palAsked} \subseteq BOOLEAN
  /\ {palQuery, palBooks} \subseteq PalTexts \cup {NoText}
  /\ palActive \in Nat /\ palLate \subseteq PalTexts
  /\ palMark \in {"command", "book", "nothing"} \X Nat

(***************************************************************************)
(* The books offered are those of the text that is there now; it is        *)
(* loading exactly while they are asked for, and there is nothing of a     *)
(* palette that is closed.  An answer that comes never changes what Enter  *)
(* opens: the entry highlighted is the one the user saw so.                *)
(***************************************************************************)
PaletteIsCurrent ==
  /\ palBooks \in {NoText, palQuery}
  /\ palLoading = (palTimer \/ palAsked)
  /\ ~palOpen => palQuery = NoText /\ ~palTimer /\ ~palAsked
  /\ Highlighted = palMark
=============================================================================
