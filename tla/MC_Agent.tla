------------------------------ MODULE MC_Agent ------------------------------
\* What the gateway's agent keeps from start to start and from poll to poll: its
\* pairing and its watched folder.  They share nothing: a behavior is about one.
\* Two owner requests and two generations of credentials; three copies under one
\* name and two interruptions.
EXTENDS GatewayPairing, WatchFolder
CONSTANTS r1, r2
TwoRequests == {r1, r2}

VARIABLE about
vars == <<about, PairVars, WatchVars>>

Init ==
  /\ about \in {"pairing", "folder"} /\ PairInit /\ WatchInit
  /\ about # "folder" => accepts = {}
Next ==
  /\ UNCHANGED about
  /\ \/ about = "pairing" /\ PairNext  /\ UNCHANGED WatchVars
     \/ about = "folder"  /\ WatchNext /\ UNCHANGED PairVars

\* The fairness of the one the behavior is about: PairFair or WatchFair.
Fair ==
  /\ WF_PairVars(about = "pairing" /\ PairGoesOn)
  /\ SF_PairVars(about = "pairing" /\ pair_gateway)
  /\ WF_WatchVars(about = "folder" /\ WatchGoesOn)
Spec == Init /\ [][Next]_vars /\ Fair

\* A book in the folder is imported before the agent removes it, and once, but
\* for what was lost: see RemovedIsImported and CopiesNeedInterruptions.
FolderIsSafe ==
  [](PairTypeOK /\ WatchTypeOK /\ CopiesNeedInterruptions) /\ RemovedIsImported
=============================================================================
