-------------------------- MODULE GatewayActivity --------------------------
(***************************************************************************)
(* The panels of the gateways page: which gateway they are about, how its  *)
(* connection is presented as time passes (gateways-state.ts, its rows),   *)
(* and the jobs it had of late (gateway-activity.tsx).                     *)
(*                                                                         *)
(* The page's clock ticks by itself, its list is read now and then, and    *)
(* the jobs are asked for anew with every list that comes and for every    *)
(* other gateway: by a panel mounted for that, which drops what an earlier *)
(* one asked for.  GatewaysView has the page's requests and its dialogs.   *)
(*                                                                         *)
(* Times are ages in ticks of the page's clock (NOW_TICK_MS), up to the    *)
(* age that nothing tells from an older one.                               *)
(***************************************************************************)
EXTENDS Naturals

CONSTANTS ActFirst, ActSecond,   \* two gateways, in the order of the list
          NoneShown,             \* not a gateway
          OnlineWindow,          \* DEFAULT_ONLINE_SECONDS
          CodesWindow            \* how long codes are good for

ActGateways == {ActFirst, ActSecond}

ASSUME ActivityAssumption ==
  NoneShown \notin ActGateways /\ OnlineWindow \in Nat /\ CodesWindow \in Nat

VARIABLES
  actServer,  \* per gateway: its status, and how old what matters of it is: the
              \* codes of a pending one, the last word of a paired one
  actRows,    \* gateways: the page's copy
  actLag,     \* how far the page's now is behind
  actJobs,    \* per gateway: how far its last job is
  actPanel,   \* the panel of the jobs: whose, its request and its outcome
  actLate,    \* the answer to the panel that went last
  actFloor    \* observed: how far the job was when the panel's page last had news

actClocks == <<actServer, actRows, actLag>>
actShown  == <<actPanel, actLate, actFloor>>
actVars   == <<actClocks, actJobs, actShown>>

Oldest == [pending |-> CodesWindow + 1, paired |-> OnlineWindow + 2, revoked |-> 0]
Older(row) == [row EXCEPT !.age = IF @ = Oldest[row.st] THEN @ ELSE @ + 1]

\* How far a job is, and what the server says of it.
JobStages == 0..2
StageStatus(n) == <<"none", "running", "done">>[n + 1]

\* A word that is not known is neither a success nor nothing.
normalizeJobStatus(status) ==
  CASE status \in {"pending", "queued", "running"} -> "active"
    [] status \in {"done", "failed"}              -> status
    [] OTHER                                      -> "uncertain"

NoPanel == [of |-> NoneShown, req |-> "none", got |-> 0, outcome |-> "none"]
NoAnswer == [there |-> FALSE, got |-> 0]

-----------------------------------------------------------------------------
(* How a row is presented, when the page's now is lag behind.              *)

isPairingExpired(row, lag) == row.age >= CodesWindow + lag
isGatewayOnline(row, lag) == row.age <= OnlineWindow + lag

gatewayConnectionPresentation(row, lag) ==
  CASE row.st = "pending" -> IF isPairingExpired(row, lag) THEN "expired" ELSE "pending"
    [] row.st = "paired"  -> IF isGatewayOnline(row, lag) THEN "connected" ELSE "offline"
    [] OTHER              -> "revoked"

\* The first gateway with the best presentation.
PrimaryOrder == <<"connected", "pending", "expired", "offline", "revoked">>
PlaceOf(presentation) == CHOOSE i \in 1..5 : PrimaryOrder[i] = presentation
pickPrimaryGateway(rows, lag) ==
  LET Place(g) == PlaceOf(gatewayConnectionPresentation(rows[g], lag))
  IN IF Place(ActFirst) <= Place(ActSecond) THEN ActFirst ELSE ActSecond

\* What a row says of it: since when, if the gateway is offline.
connectionLabel(row, lag) ==
  LET p == gatewayConnectionPresentation(row, lag)
  IN [says |-> p, since |-> IF p = "offline" THEN row.age - lag ELSE 0]

\* The jobs shown are the primary gateway's, if it is paired.
JobsShownFor(rows, lag) ==
  LET g == pickPrimaryGateway(rows, lag) IN IF rows[g].st = "paired" THEN g ELSE NoneShown

NewPanel(g) == IF g = NoneShown THEN NoPanel
               ELSE [of |-> g, req |-> "sent", got |-> 0, outcome |-> "loading"]
FloorOf(g) == IF g = NoneShown THEN 0 ELSE actJobs[g]

ActInit ==
  /\ \E st \in [ActGateways -> {"pending", "paired"}] :
       actServer = [g \in ActGateways |-> [st |-> st[g], age |-> 0]]
  /\ actRows = actServer /\ actLag = 0
  /\ actJobs = [g \in ActGateways |-> 0]
  /\ actPanel = NewPanel(JobsShownFor(actRows, 0))
  /\ actLate = NoAnswer /\ actFloor = 0

-----------------------------------------------------------------------------
(* The panel of the jobs.                                                  *)

\* What it shows: the count in its title, and a row with the word for the job.
PanelShows ==
  IF actPanel.outcome = "ready"
  THEN [count |-> 1, says |-> normalizeJobStatus(StageStatus(actPanel.got))]
  ELSE [count |-> 0, says |-> actPanel.outcome]

\* Its key changes: another is mounted, and the request of the first is
\* cancelled: the answer it had, or gets now, goes nowhere.
Mounted(g) ==
  /\ actPanel' = NewPanel(g)
  /\ actLate' = CASE actPanel.req = "sent" -> [there |-> TRUE, got |-> actJobs[actPanel.of]]
                  [] actPanel.req = "read" -> [there |-> TRUE, got |-> actPanel.got]
                  [] OTHER -> actLate
  /\ actFloor' = FloorOf(g)

\* Faulty variant: the key is the gateway alone.
RenderedByGateway(news) ==
  LET g == JobsShownFor(actRows', actLag') IN
  IF g # actPanel.of THEN Mounted(g)
  ELSE /\ UNCHANGED <<actPanel, actLate>>
       /\ actFloor' = IF news THEN FloorOf(g) ELSE actFloor

\* GatewayRecentActivity: its key is the gateway and the count of the lists.
Rendered(news) ==
  LET g == JobsShownFor(actRows', actLag') IN
  IF news \/ g # actPanel.of THEN Mounted(g) ELSE UNCHANGED actShown

\* The server reads the jobs for the request.
JobsRead ==
  /\ actPanel.req = "sent"
  /\ actPanel' = [actPanel EXCEPT !.req = "read", !.got = actJobs[actPanel.of]]
  /\ UNCHANGED <<actClocks, actJobs, actLate, actFloor>>

\* Faulty variant: a request that failed brought nothing.
FetchResultOrNothing(answered, got) == IF got = 0 THEN "empty" ELSE "ready"

\* No list is not an empty one.
applyActivityFetchResult(answered, got) ==
  IF ~answered THEN "unavailable" ELSE IF got = 0 THEN "empty" ELSE "ready"

JobsCome ==
  /\ actPanel.req = "read"
  /\ actPanel' = [actPanel EXCEPT !.req = "none",
                                  !.outcome = applyActivityFetchResult(TRUE, actPanel.got)]
  /\ UNCHANGED <<actClocks, actJobs, actLate, actFloor>>

JobsFail ==
  /\ actPanel.req # "none"
  /\ actPanel' = [actPanel EXCEPT !.req = "none", !.got = 0,
                                  !.outcome = applyActivityFetchResult(FALSE, 0)]
  /\ UNCHANGED <<actClocks, actJobs, actLate, actFloor>>

\* Faulty variant: the answer of a panel that is gone is shown.
LateJobsShown ==
  /\ actLate # NoAnswer
  /\ actLate' = NoAnswer
  /\ actPanel' = IF actPanel.of = NoneShown THEN actPanel
                 ELSE [actPanel EXCEPT !.got = actLate.got,
                                       !.outcome = applyActivityFetchResult(TRUE, actLate.got)]
  /\ UNCHANGED <<actClocks, actJobs, actFloor>>

LateJobsDropped ==
  /\ actLate # NoAnswer
  /\ actLate' = NoAnswer
  /\ UNCHANGED <<actClocks, actJobs, actPanel, actFloor>>

-----------------------------------------------------------------------------
(* Time, the page's clock and its list.                                    *)

\* Faulty variant: the clock runs only for codes that run out.
NeedsClockPending == \E g \in ActGateways : actRows[g].st = "pending"

\* The clock runs while a gateway is pending or paired.  Its ticks are not
\* later than the next.
needsClock == \E g \in ActGateways : actRows[g].st \in {"pending", "paired"}

ActTimePasses ==
  /\ needsClock => actLag = 0
  /\ actServer' = [g \in ActGateways |-> Older(actServer[g])]
  /\ actRows' = [g \in ActGateways |-> Older(actRows[g])]
  /\ actLag' = 1
  /\ UNCHANGED <<actJobs, actShown>>

ClockTicks ==
  /\ needsClock
  /\ actLag = 1 /\ actLag' = 0
  /\ UNCHANGED <<actServer, actRows, actJobs>>
  /\ Rendered(FALSE)

\* setGateways, setNow and setActivityRefreshKey.
ListComes ==
  /\ actRows' = actServer /\ actLag' = 0
  /\ UNCHANGED <<actServer, actJobs>>
  /\ Rendered(TRUE)

\* What the page itself did to a gateway, and shows without reading the list.
PageRevokes(g) ==
  /\ actRows[g].st = "paired" /\ actServer[g].st # "pending"
  /\ actServer' = [actServer EXCEPT ![g] = [st |-> "revoked", age |-> 0]]
  /\ actRows' = [actRows EXCEPT ![g] = [st |-> "revoked", age |-> 0]]
  /\ UNCHANGED <<actLag, actJobs>>
  /\ Rendered(FALSE)

PageRecreates(g) ==
  /\ actRows[g].st \in {"pending", "revoked"}
  /\ actServer' = [actServer EXCEPT ![g] = [st |-> "pending", age |-> 0]]
  /\ actRows' = [actRows EXCEPT ![g] = [st |-> "pending", age |-> 0]]
  /\ UNCHANGED <<actLag, actJobs>>
  /\ Rendered(FALSE)

-----------------------------------------------------------------------------
(* The agent, which the page hears of by the list alone.                   *)

AgentHeard(g) ==
  /\ actServer[g].st \in {"pending", "paired"}
  /\ actServer[g].st = "pending" => actServer[g].age < CodesWindow
  /\ actServer' = [actServer EXCEPT ![g] = [st |-> "paired", age |-> 0]]
  /\ UNCHANGED <<actRows, actLag, actJobs, actShown>>

\* A job is queued, and done.
JobMoves(g) ==
  /\ actServer[g].st = "paired"
  /\ actJobs[g] < 2
  /\ actJobs' = [actJobs EXCEPT ![g] = @ + 1]
  /\ UNCHANGED <<actClocks, actShown>>

-----------------------------------------------------------------------------
ActNext ==
  \/ JobsRead \/ JobsCome \/ JobsFail \/ LateJobsDropped
  \/ ActTimePasses \/ ClockTicks \/ ListComes
  \/ \E g \in ActGateways : PageRevokes(g) \/ PageRecreates(g) \/ AgentHeard(g) \/ JobMoves(g)

ActSpec == ActInit /\ [][ActNext]_actVars

-----------------------------------------------------------------------------
ActTypeOK ==
  /\ {actServer, actRows} \subseteq
       [ActGateways -> [st : DOMAIN Oldest, age : Nat]]
  /\ actLag \in {0, 1} /\ actJobs \in [ActGateways -> JobStages] /\ actFloor \in JobStages
  /\ actPanel \in [of : ActGateways \cup {NoneShown}, req : {"none", "sent", "read"},
                   got : JobStages, outcome : {"none", "loading", "unavailable", "empty", "ready"}]
  /\ actLate \in [there : BOOLEAN, got : JobStages]

(***************************************************************************)
(* The jobs shown are of the gateway the page is about, and as far as they *)
(* were when the list last came or further, never further than they are:   *)
(* a job is not shown done that runs, no answer to an earlier panel is     *)
(* taken, and a failure never looks like a gateway without jobs.  No       *)
(* gateway is presented as connected that was not heard of for longer than *)
(* the window and a tick, though every reading of the list may fail; none  *)
(* is said to be quiet for longer than the list has it, or for less        *)
(* than the window; and no codes as good for a tick after they ran out.    *)
(***************************************************************************)
PanelsAreTrue ==
  /\ actPanel.of = JobsShownFor(actRows, actLag)
  /\ actPanel.outcome \in {"empty", "ready"} =>
       actFloor <= actPanel.got /\ actPanel.got <= actJobs[actPanel.of]
  /\ actPanel.outcome = "empty" => actPanel.got = 0 /\ actFloor = 0
  /\ PanelShows.says = "done" => StageStatus(actJobs[actPanel.of]) = "done"
  /\ \A g \in ActGateways :
       LET label == connectionLabel(actRows[g], actLag) IN
       /\ label.says = "connected" /\ actServer[g].st = "paired" =>
            actServer[g].age <= OnlineWindow + 1
       /\ label.says = "offline" => OnlineWindow < label.since /\ label.since <= actRows[g].age
       /\ label.says = "pending" => actRows[g].age <= CodesWindow
=============================================================================
