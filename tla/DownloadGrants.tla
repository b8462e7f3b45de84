--------------------------- MODULE DownloadGrants ---------------------------
(***************************************************************************)
(* What a bounded access to files promises, whatever keeps its counter: a  *)
(* grant is issued with a number of downloads (or without limit), serves   *)
(* no more than that number, and serves nothing once closed.  The OPDS     *)
(* tokens are such grants.                                                 *)
(***************************************************************************)
EXTENDS Naturals

CONSTANTS Grants, Unlimited

VARIABLES limit,  \* downloads granted; 0 until the grant is issued
          served, \* downloads accepted so far
          open    \* not closed

vars == <<limit, served, open>>

Init ==
  /\ limit = [g \in Grants |-> 0]
  /\ served = [g \in Grants |-> 0]
  /\ open = [g \in Grants |-> FALSE]

Issue(g) ==
  /\ limit[g] = 0
  /\ limit'[g] \in (Nat \ {0}) \cup {Unlimited}
  /\ limit' = [limit EXCEPT ![g] = limit'[g]]
  /\ open' = [open EXCEPT ![g] = TRUE]
  /\ UNCHANGED served

Serve(g) ==
  /\ open[g]
  /\ limit[g] # Unlimited => served[g] < limit[g]
  /\ served' = [served EXCEPT ![g] = @ + 1]
  /\ UNCHANGED <<limit, open>>

\* One step may close several grants; none is opened again.
Close ==
  /\ \A g \in Grants : open'[g] => open[g]
  /\ open' = [g \in Grants |-> open'[g]]
  /\ UNCHANGED <<limit, served>>

Next == Close \/ \E g \in Grants : Issue(g) \/ Serve(g)

Spec == Init /\ [][Next]_vars
=============================================================================
