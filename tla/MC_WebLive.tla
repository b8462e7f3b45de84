---------------------------- MODULE MC_WebLive -----------------------------
\* What the web front goes on with by itself: the polls of a book asked from a
\* gateway and of the gateways, the requests of an action on several books, the
\* files of a drop.  Each has state of its own: a behavior is about one of them.
EXTENDS JobPolling, BulkActions, UploadQueue, GatewaysView
AllAtOnce == {BatchBooks}
OneBad == {<<1, 2>>}

VARIABLE about
vars == <<about, fetchVars, batchVars, upVars, gwVars>>

Init ==
  /\ about \in {"fetch", "batch", "upload", "gateways"}
  /\ FetchInit /\ BatchInit /\ UpInit /\ GwInit
  /\ about # "fetch" => ~fetchTracked
  /\ about # "gateways" =>
       gwServer = [g \in Gateways |-> [st |-> "absent", gen |-> 0]]

Next ==
  /\ UNCHANGED about
  /\ \/ about = "fetch"    /\ FetchNext /\ UNCHANGED <<batchVars, upVars, gwVars>>
     \/ about = "batch"    /\ BatchNext /\ UNCHANGED <<fetchVars, upVars, gwVars>>
     \/ about = "upload"   /\ UpNext    /\ UNCHANGED <<fetchVars, batchVars, gwVars>>
     \/ about = "gateways" /\ GwNext    /\ UNCHANGED <<fetchVars, batchVars, upVars>>

\* The fairness of the one the behavior is about: FetchFair, BatchFair, UpFair
\* or GwFair.
Fair ==
  /\ WF_fetchVars(about = "fetch" /\ FetchGoesOn)
  /\ WF_batchVars(about = "batch" /\ BatchGoesOn)
  /\ WF_upVars(about = "upload" /\ UpGoesOn)
  /\ WF_gwVars(about = "gateways" /\ PollTicks)
  /\ SF_gwVars(about = "gateways" /\ GwServerReads)
  /\ SF_gwVars(about = "gateways" /\ ListAnswers)
Spec == Init /\ [][Next]_vars /\ Fair

\* What the front goes on with ends: see FetchIsTold, BatchEnds,
\* DroppedFilesSettle and PairingIsSeen.
WorkEnds ==
  /\ [](FetchTypeOK /\ BatchTypeOK /\ UpTypeOK)
  /\ FetchIsTold /\ BatchEnds /\ DroppedFilesSettle /\ PairingIsSeen
=============================================================================
