---------------------------- MODULE BulkActions ----------------------------
(***************************************************************************)
(* One action on several books of the library page (lib/run-batch.ts,      *)
(* bulk-actions.tsx and the selection of library-view.tsx).  The action    *)
(* takes a snapshot of the books selected, and at most three requests are  *)
(* in flight: workers that share one cursor over the snapshot.  Meanwhile  *)
(* the owner may go on selecting, listing and confirming.                  *)
(***************************************************************************)
EXTENDS Naturals, FiniteSets

CONSTANTS BatchBooks,  \* books of the collection
          BatchPages,  \* as the page lists them: sets of books
          Parallel,    \* concurrency: 3 in the code
          HasDevice    \* the owner has a device

ASSUME BatchAssumption == IsFiniteSet(BatchBooks) /\ Parallel \in Nat \ {0}

Workers == 1..Parallel
Actions == {"delete", "deliver"}
Settled == {"ok", "failed"}
Free    == 0  \* carried by a worker that has ended, or was never started

VARIABLES
  batchListed,   \* items: what the page lists
  batchSelected, \* selection: ids, also of books that are no longer listed
  batchDialog,   \* the confirmation that is open
  batchPhase,    \* idle, or running, or the result of the last run is shown
  batchAction,   \* of the last run
  batchRun,      \* its snapshot, in order
  batchCursor,   \* the next index of the snapshot
  batchCarries,  \* per worker: the index it has asked
  batchOutcome,  \* results: per index
  batchProgress, \* completed
  batchAsks      \* observed, read by no action: per index, the requests made

batchRunVars == <<batchAction, batchRun, batchCursor, batchCarries, batchOutcome,
                  batchProgress, batchAsks>>
batchVars == <<batchListed, batchSelected, batchDialog,
               batchPhase, batchRunVars>>

\* items.filter: the books listed that are selected, in the listing's order.
SelectedBooks == batchListed \cap batchSelected

InOrder(S) ==
  CHOOSE s \in [1..Cardinality(S) -> S] : \A i, j \in DOMAIN s : s[i] = s[j] => i = j

Indices == DOMAIN batchRun
Ended   == \A w \in Workers : batchCarries[w] = Free

BatchInit ==
  /\ batchListed = BatchBooks
  /\ batchSelected = {}
  /\ batchDialog = "none" /\ batchPhase = "idle" /\ batchAction = "none"
  /\ batchRun = <<>> /\ batchCursor = 1
  /\ batchCarries = [w \in Workers |-> Free]
  /\ batchOutcome = <<>> /\ batchProgress = 0 /\ batchAsks = <<>>

-----------------------------------------------------------------------------
(* The selection and the confirmations.                                    *)

SetSelection(S) ==
  /\ batchSelected' = S
  /\ UNCHANGED <<batchListed, batchDialog, batchPhase, batchRunVars>>

toggleSelection(b) ==
  /\ b \in batchListed /\ batchDialog = "none"
  /\ SetSelection(IF b \in batchSelected THEN batchSelected \ {b} ELSE batchSelected \cup {b})

\* The box of the page's books: those of other pages keep their mark.
SelectPage(page) ==
  /\ page # {} /\ page \subseteq batchListed /\ batchDialog = "none"
  /\ SetSelection(IF page \subseteq batchSelected THEN batchSelected \ page
                  ELSE batchSelected \cup page)

\* A book of the list is deleted by its own dialog.
DeleteAlone(b) ==
  /\ b \in batchListed
  /\ batchListed' = batchListed \ {b}
  /\ UNCHANGED <<batchSelected, batchDialog, batchPhase, batchRunVars>>

\* The buttons that open a confirmation are disabled while a run is shown.
OpenDialog(a) ==
  /\ batchDialog = "none" /\ SelectedBooks # {} /\ batchPhase # "running"
  /\ a = "deliver" => HasDevice
  /\ batchDialog' = a
  /\ UNCHANGED <<batchListed, batchSelected, batchPhase, batchRunVars>>

CloseDialog ==
  /\ batchDialog # "none"
  /\ batchDialog' = "none"
  /\ UNCHANGED <<batchListed, batchSelected, batchPhase, batchRunVars>>

-----------------------------------------------------------------------------
(* A run.                                                                  *)

\* execute: with nothing left to act on it returns; else runBatch starts its
\* workers, each of which takes an index and asks before the next one starts.
execute(a) ==
  /\ batchDialog = a /\ batchPhase # "running" /\ SelectedBooks # {}
  /\ LET n == Cardinality(SelectedBooks)
         started == IF n < Parallel THEN n ELSE Parallel
     IN /\ batchRun' = InOrder(SelectedBooks)
        /\ batchCursor' = started + 1
        /\ batchCarries' = [w \in Workers |-> IF w <= started THEN w ELSE Free]
        /\ batchOutcome' = [i \in 1..n |-> "none"]
        /\ batchAsks' = [i \in 1..n |-> IF i <= started THEN 1 ELSE 0]
  /\ batchDialog' = "none" /\ batchPhase' = "running"
  /\ batchAction' = a /\ batchProgress' = 0
  /\ UNCHANGED <<batchListed, batchSelected>>

\* Faulty variant: a worker takes the index after the one it had.
TakeOwnNext(w, i) ==
  LET next == i + 1 IN
  /\ batchCarries' = [batchCarries EXCEPT ![w] = IF next \in Indices THEN next ELSE Free]
  /\ batchCursor' = batchCursor
  /\ batchAsks' = IF next \in Indices THEN [batchAsks EXCEPT ![next] = @ + 1] ELSE batchAsks

\* The worker goes on with the index under the cursor, or ends.
TakeNext(w, i) ==
  IF batchCursor \in Indices
  THEN /\ batchCarries' = [batchCarries EXCEPT ![w] = batchCursor]
       /\ batchCursor' = batchCursor + 1
       /\ batchAsks' = [batchAsks EXCEPT ![batchCursor] = @ + 1]
  ELSE /\ batchCarries' = [batchCarries EXCEPT ![w] = Free]
       /\ UNCHANGED <<batchCursor, batchAsks>>

\* The request is answered, or fails, or creates a delivery that has failed
\* already: the item settles, and the next one is asked at once.
ItemSettles(w, outcome) ==
  LET i == batchCarries[w] IN
  /\ batchPhase = "running" /\ i # Free
  /\ batchOutcome' = [batchOutcome EXCEPT ![i] = outcome]
  /\ batchProgress' = batchProgress + 1
  /\ TakeNext(w, i)
  /\ UNCHANGED <<batchListed, batchSelected, batchDialog, batchPhase,
                 batchAction, batchRun>>

Succeeded == {batchRun[i] : i \in {k \in Indices : batchOutcome[k] = "ok"}}

\* Every worker has ended: what succeeded leaves the list, when it was
\* deleted, and the selection; what failed stays selected.
RunEnds ==
  /\ batchPhase = "running" /\ Ended
  /\ batchListed' = IF batchAction = "delete" THEN batchListed \ Succeeded ELSE batchListed
  /\ batchSelected' = batchSelected \ Succeeded
  /\ batchPhase' = "result"
  /\ UNCHANGED <<batchDialog, batchRunVars>>

-----------------------------------------------------------------------------
BatchNext ==
  \/ \E b \in BatchBooks : toggleSelection(b) \/ DeleteAlone(b)
  \/ \E page \in BatchPages : SelectPage(page \cap batchListed)
  \/ \E a \in Actions : OpenDialog(a) \/ execute(a)
  \/ CloseDialog
  \/ \E w \in Workers, o \in Settled : ItemSettles(w, o)
  \/ RunEnds

BatchSpec == BatchInit /\ [][BatchNext]_batchVars

\* The browser ends every request, and promises are continued.
BatchGoesOn == (\E w \in Workers, o \in Settled : ItemSettles(w, o)) \/ RunEnds
BatchFair == WF_batchVars(BatchGoesOn)

-----------------------------------------------------------------------------
BatchTypeOK ==
  /\ batchListed \subseteq BatchBooks
  /\ batchSelected \subseteq BatchBooks
  /\ batchDialog \in Actions \cup {"none"} /\ batchAction \in Actions \cup {"none"}
  /\ batchPhase \in {"idle", "running", "result"}
  /\ \E n \in 0..Cardinality(BatchBooks) :
       /\ batchRun \in [1..n -> BatchBooks]
       /\ batchOutcome \in [1..n -> {"none", "ok", "failed"}]
       /\ batchAsks \in [1..n -> Nat]
       /\ batchCarries \in [Workers -> 0..n]
       /\ batchCursor \in 1..(n + 1)
  /\ batchProgress \in Nat

(***************************************************************************)
(* Whatever order the answers come in, each book of the snapshot is asked  *)
(* once, no two workers carry the same book, and the result is shown when  *)
(* every book has settled, never with one still in flight.                 *)
(***************************************************************************)
EachBookAskedOnce ==
  /\ \A i \in Indices : batchAsks[i] <= 1
  /\ \A v, w \in Workers : batchCarries[v] = batchCarries[w] => v = w \/ batchCarries[v] = Free
  /\ batchPhase = "result" =>
       \A i \in Indices : batchAsks[i] = 1 /\ batchOutcome[i] # "none"

(***************************************************************************)
(* A run ends, and the buttons work again, however many of its requests    *)
(* fail.                                                                   *)
(***************************************************************************)
BatchEnds == batchPhase = "running" ~> batchPhase = "result"
=============================================================================
