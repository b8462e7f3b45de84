--------------------------- MODULE MC_WebDialogs ---------------------------
\* Dialogs that answers reach after they have changed: the detail of a book, the
\* detail of a delivery over its page, the link of a device to a cloud.  Each has
\* state of its own: a behavior is about one of them.
EXTENDS BookDetail, DeliveriesView, CloudLink, TLC
CONSTANTS b1, b2, j1
TwoBooks == {b1, b2}
OneJob   == {j1}
Symmetry == Permutations(TwoBooks)

VARIABLE about
vars == <<about, detVars, delVars, lnkVars>>

Init ==
  /\ about \in {"book", "deliveries", "cloud"}
  /\ DetInit /\ DelInit /\ LinkInit
  /\ about # "deliveries" => delServer = [j \in DelJobs |-> 0] /\ delList = delServer
Next ==
  /\ UNCHANGED about
  /\ \/ about = "book"       /\ DetNext  /\ UNCHANGED <<delVars, lnkVars>>
     \/ about = "deliveries" /\ DelNext  /\ UNCHANGED <<detVars, lnkVars>>
     \/ about = "cloud"      /\ LinkNext /\ UNCHANGED <<detVars, delVars>>
Spec == Init /\ [][Next]_vars
=============================================================================
