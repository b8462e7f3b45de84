----------------------------- MODULE BookDetail -----------------------------
(***************************************************************************)
(* The dialog that shows one book (book-detail-dialog.tsx,                 *)
(* book-edit-dialog.tsx, and what library-view.tsx does when they call it  *)
(* back): the book's deliveries are asked for when it opens; from it the   *)
(* owner delivers, edits and deletes the book.  Every dialog can be closed *)
(* while its request is in flight, and another book opened: the answer     *)
(* comes back with the book it was asked for.                              *)
(***************************************************************************)
EXTENDS Naturals, FiniteSets

CONSTANTS DetBooks, DetJobs, NoDetBook

VARIABLES
  detRows,    \* the server: books
  detJobsOf,  \* the server: per book, its deliveries
  detItems,   \* items of the page
  detItem,    \* detailItem: the book that is shown
  detDialog,  \* deliverOpen, editOpen, confirmOpen, also with no book shown
  detForm,    \* the edit form: the book it was typed for, if anything was
  detHistory, \* deliveriesState
  detFailed,  \* failedId
  detAsks,    \* requests for deliveries in flight
  detPost,    \* a POST of a delivery in flight: its book, then its job
  detPatch,   \* the PATCH in flight: its book, whether the server served it
  detDelete,  \* the DELETE in flight: its book, whether the row is gone
  detCrossed, \* observed: an answer for another book than the one shown came
  detLate     \* observed: a PATCH was answered after its book was deleted

detServer == <<detRows, detJobsOf>>
detShown  == <<detItems, detItem, detDialog>>
detDeliveries == <<detHistory, detFailed, detAsks>>
detCalls  == <<detPost, detPatch, detDelete>>
detSeen   == <<detCrossed, detLate>>
detVars   == <<detServer, detShown, detForm, detDeliveries, detCalls, detSeen>>

NoJobs    == [book |-> NoDetBook, jobs |-> {}]
NoPatch   == [book |-> NoDetBook, served |-> FALSE]
NoDelete  == [book |-> NoDetBook, gone |-> FALSE]

DetInit ==
  /\ detRows = DetBooks /\ detJobsOf = [b \in DetBooks |-> {}]
  /\ detItems = DetBooks /\ detItem = NoDetBook /\ detDialog = "none"
  /\ detForm = NoDetBook
  /\ detHistory = NoJobs /\ detFailed = NoDetBook /\ detAsks = {}
  /\ detPost = NoJobs /\ detPatch = NoPatch /\ detDelete = NoDelete
  /\ detCrossed = FALSE /\ detLate = FALSE

-----------------------------------------------------------------------------
(* The book shown changes: the effects of the previous one are cleaned up, *)
(* the new one's deliveries are asked for.                                 *)

Stale(asks) == {[a EXCEPT !.live = FALSE] : a \in asks}

AskFor(asks, b) ==
  IF b = NoDetBook THEN Stale(asks) ELSE Stale(asks) \cup {[book |-> b, live |-> TRUE]}

ShowBook(b) ==
  /\ detItem' = b
  /\ IF b = detItem THEN UNCHANGED detAsks
     ELSE detAsks' = AskFor(detAsks, b)

\* The form is mounted anew, as the book has it, when its key changes: the
\* dialog opens or closes, or the book under it changes.
FormKey == IF detDialog = "edit" THEN <<detItem>> ELSE <<>>
Rekeyed == detForm' = IF FormKey' = FormKey THEN detForm ELSE NoDetBook

OpenDetail(b) ==
  /\ detItem = NoDetBook /\ b \in detItems /\ detDialog # "confirm"
  /\ ShowBook(b)
  /\ UNCHANGED <<detServer, detItems, detDialog, detHistory, detFailed, detCalls, detSeen>>
  /\ Rekeyed

CloseDetail ==
  /\ detItem # NoDetBook /\ detDialog = "none"
  /\ ShowBook(NoDetBook)
  /\ UNCHANGED <<detServer, detItems, detDialog, detHistory, detFailed, detCalls, detSeen>>
  /\ Rekeyed

\* A dialog over it opens, or is closed by its buttons or Escape, also while
\* its request is in flight.
OpenOver(d) ==
  /\ detItem # NoDetBook \/ (detDialog = "confirm" /\ d = "none")
  /\ detDialog = "none" \/ d = "none"
  /\ d # detDialog
  /\ detDialog' = d
  /\ UNCHANGED <<detServer, detItems, detItem, detDeliveries, detCalls, detSeen>>
  /\ Rekeyed

-----------------------------------------------------------------------------
(* Its deliveries.                                                         *)

\* The answer, as the server has them when it arrives.
HistoryAnswered(a) ==
  /\ a \in detAsks
  /\ detAsks' = detAsks \ {a}
  /\ detHistory' = IF a.live THEN [book |-> a.book, jobs |-> detJobsOf[a.book]] ELSE detHistory
  /\ UNCHANGED <<detServer, detShown, detForm, detFailed, detCalls, detSeen>>

HistoryFails(a) ==
  /\ a \in detAsks
  /\ detAsks' = detAsks \ {a}
  /\ detFailed' = IF a.live THEN a.book ELSE detFailed
  /\ UNCHANGED <<detServer, detShown, detForm, detHistory, detCalls, detSeen>>

\* Faulty variant: whatever was loaded last is shown.
DeliveriesLast == IF detHistory.book # NoDetBook THEN detHistory.jobs ELSE {}

\* deliveries: those loaded, if they are of the book that is shown.
DeliveriesShown == IF detHistory.book = detItem THEN detHistory.jobs ELSE {}

loadingDeliveries ==
  detItem # NoDetBook /\ detHistory.book # detItem /\ detFailed # detItem

-----------------------------------------------------------------------------
(* Delivering from it: onDelivered is the one of the book it was sent for. *)

PostDelivery ==
  /\ detItem # NoDetBook /\ detDialog = "deliver" /\ detPost = NoJobs
  /\ detPost' = [book |-> detItem, jobs |-> {}]
  /\ UNCHANGED <<detServer, detShown, detForm, detDeliveries, detPatch, detDelete, detSeen>>

CreateJob(j) ==
  /\ detPost.book \in detRows /\ detPost.jobs = {}
  /\ \A b \in DetBooks : j \notin detJobsOf[b]
  /\ detJobsOf' = [detJobsOf EXCEPT ![detPost.book] = @ \cup {j}]
  /\ detPost' = [detPost EXCEPT !.jobs = {j}]
  /\ UNCHANGED <<detRows, detShown, detForm, detDeliveries, detPatch, detDelete, detSeen>>

PostFails ==
  /\ detPost # NoJobs
  /\ detPost' = NoJobs
  /\ UNCHANGED <<detServer, detShown, detForm, detDeliveries, detPatch, detDelete, detSeen>>

\* The job goes in front of what is known of that book; what was known of
\* another one is dropped.
onDelivered ==
  LET b == detPost.book IN
  /\ detPost.jobs # {}
  /\ detFailed' = IF detFailed = b THEN NoDetBook ELSE detFailed
  /\ detHistory' = [book |-> b, jobs |-> detPost.jobs \cup
                      (IF detHistory.book = b THEN detHistory.jobs ELSE {})]
  /\ detCrossed' = (detCrossed \/ detItem # b)
  /\ detPost' = NoJobs
  /\ detDialog' = IF detDialog = "deliver" THEN "none" ELSE detDialog
  /\ UNCHANGED <<detServer, detItems, detItem, detAsks, detPatch, detDelete, detLate>>
  /\ Rekeyed

-----------------------------------------------------------------------------
(* Editing it.                                                             *)

\* A field is typed in, or typed back.
TypeEdit ==
  /\ detItem # NoDetBook /\ detDialog = "edit"
  /\ detForm' \in {detItem, NoDetBook}
  /\ UNCHANGED <<detServer, detShown, detDeliveries, detCalls, detSeen>>

\* Saving what is as the book has it only closes the dialog (OpenOver).
\* Bound: one PATCH at a time.
PatchBook ==
  /\ detItem # NoDetBook /\ detDialog = "edit" /\ detPatch = NoPatch
  /\ detForm # NoDetBook
  /\ detPatch' = [book |-> detItem, served |-> FALSE]
  /\ UNCHANGED <<detServer, detShown, detForm, detDeliveries, detPost, detDelete, detSeen>>

PatchServed ==
  /\ detPatch.book \in detRows /\ ~detPatch.served
  /\ detPatch' = [detPatch EXCEPT !.served = TRUE]
  /\ UNCHANGED <<detServer, detShown, detForm, detDeliveries, detPost, detDelete, detSeen>>

PatchFails ==
  /\ detPatch # NoPatch
  /\ detPatch' = NoPatch
  /\ UNCHANGED <<detServer, detShown, detForm, detDeliveries, detPost, detDelete, detSeen>>

\* onSaved, onUpdated: the list is mapped, and the book is shown, whether or
\* not it was being shown still.
onUpdated ==
  /\ detPatch.served
  /\ detPatch' = NoPatch
  /\ ShowBook(detPatch.book)
  /\ detDialog' = IF detDialog = "edit" THEN "none" ELSE detDialog
  /\ detLate' = (detLate \/ detPatch.book \notin detItems)
  /\ UNCHANGED <<detServer, detItems, detHistory, detFailed, detPost, detDelete, detCrossed>>
  /\ Rekeyed

-----------------------------------------------------------------------------
(* Deleting it.                                                            *)

handleDelete ==
  /\ detItem # NoDetBook /\ detDialog = "confirm" /\ detDelete = NoDelete
  /\ detDelete' = [book |-> detItem, gone |-> FALSE]
  /\ UNCHANGED <<detServer, detShown, detForm, detDeliveries, detPost, detPatch, detSeen>>

DeleteServed ==
  /\ detDelete.book \in detRows
  /\ detRows' = detRows \ {detDelete.book}
  /\ detJobsOf' = [detJobsOf EXCEPT ![detDelete.book] = {}]
  /\ detDelete' = [detDelete EXCEPT !.gone = TRUE]
  /\ UNCHANGED <<detShown, detForm, detDeliveries, detPost, detPatch, detSeen>>

DetDeleteFails ==
  /\ detDelete # NoDelete
  /\ detDelete' = NoDelete
  /\ UNCHANGED <<detServer, detShown, detForm, detDeliveries, detPost, detPatch, detSeen>>

\* Faulty variant: the dialog stays open.
onDeletedStays ==
  /\ detDelete.gone
  /\ detItems' = detItems \ {detDelete.book}
  /\ detDelete' = NoDelete
  /\ detDialog' = IF detDialog = "confirm" THEN "none" ELSE detDialog
  /\ UNCHANGED <<detServer, detItem, detDeliveries, detPost, detPatch, detSeen>>
  /\ Rekeyed

\* onDeleted, and whichever book is shown by now is closed.
onDeleted ==
  /\ detDelete.gone
  /\ detItems' = detItems \ {detDelete.book}
  /\ detDelete' = NoDelete
  /\ detDialog' = IF detDialog = "confirm" THEN "none" ELSE detDialog
  /\ ShowBook(NoDetBook)
  /\ UNCHANGED <<detServer, detHistory, detFailed, detPost, detPatch, detSeen>>
  /\ Rekeyed

-----------------------------------------------------------------------------
DetNext ==
  \/ \E b \in DetBooks : OpenDetail(b)
  \/ \E d \in {"none", "deliver", "edit", "confirm"} : OpenOver(d)
  \/ \E a \in detAsks : HistoryAnswered(a) \/ HistoryFails(a)
  \/ \E j \in DetJobs : CreateJob(j)
  \/ CloseDetail \/ PostDelivery \/ PostFails \/ onDelivered
  \/ TypeEdit \/ PatchBook \/ PatchServed \/ PatchFails \/ onUpdated
  \/ handleDelete \/ DeleteServed \/ DetDeleteFails \/ onDeleted

DetSpec == DetInit /\ [][DetNext]_detVars

-----------------------------------------------------------------------------
BookOrNone == DetBooks \cup {NoDetBook}
AsksType   == [book : DetBooks, live : BOOLEAN]

DetTypeOK ==
  /\ detRows \subseteq DetBooks /\ detJobsOf \in [DetBooks -> SUBSET DetJobs]
  /\ detItems \subseteq DetBooks /\ detItem \in BookOrNone
  /\ detDialog \in {"none", "deliver", "edit", "confirm"} /\ detForm \in BookOrNone
  /\ detHistory \in [book : BookOrNone, jobs : SUBSET DetJobs] /\ detFailed \in BookOrNone
  /\ detAsks \subseteq AsksType
  /\ detPost \in [book : BookOrNone, jobs : SUBSET DetJobs]
  /\ detPatch \in [book : BookOrNone, served : BOOLEAN]
  /\ detDelete \in [book : BookOrNone, gone : BOOLEAN]
  /\ detCrossed \in BOOLEAN /\ detLate \in BOOLEAN

(***************************************************************************)
(* The dialog shows the deliveries of its own book, whichever answers come *)
(* late; and when it says it is loading, a request is in flight, unless a  *)
(* delivery sent for another book was answered: that drops what was        *)
(* loaded, and nothing asks for it again.  What was typed in the edit form *)
(* was typed for the book that it would be sent to.                        *)
(***************************************************************************)
DetailIsOfItsBook ==
  detItem # NoDetBook =>
    /\ detItem \in detRows => DeliveriesShown \subseteq detJobsOf[detItem]
    /\ detForm \in {NoDetBook, detItem}
    /\ loadingDeliveries => detCrossed \/ [book |-> detItem, live |-> TRUE] \in detAsks

(***************************************************************************)
(* A book that has left the list is shown only if its edit was answered    *)
(* after it left: the answer opens the dialog on a book that is gone.      *)
(***************************************************************************)
GoneIsClosed == detItem \notin detItems \cup {NoDetBook} => detLate

\* The dialog is about the book that is shown: see both.
BookIsTheOneShown == DetTypeOK /\ DetailIsOfItsBook /\ GoneIsClosed
=============================================================================
