--------------------------- MODULE DeliveriesView ---------------------------
(***************************************************************************)
(* The deliveries page (deliveries-view.tsx, deliveries-state.ts, its page) *)
(* and the detail of one delivery (delivery-detail-dialog.tsx).            *)
(*                                                                         *)
(* Four kinds of answers write the same list: refreshes, numbered so that  *)
(* only the last one sent is applied; the answers of retry and cancel; the *)
(* first load of the detail, cancelled when it closes; and its polls,      *)
(* which nothing cancels.  A row of the server only moves on, so it is its *)
(* number of moves: an answer is older than another when it is less.       *)
(***************************************************************************)
EXTENDS Naturals

CONSTANTS DelJobs,   \* the owner's deliveries
          NoDelivery \* not a delivery

\* Failed, queued again, then ended: delivered, failed or cancelled.  Bound:
\* a delivery is retried once.
Ages == 0..2
DelStatus(age) == <<"failed", "queued", "ended">>[age + 1]
Absent == 4
InFlight == 5
Lost == 6

\* The address's filter; the page, the search and the device are like it.
DelFilters == {"all", "queued"}
Asked == [j \in DelJobs |-> InFlight]
NoRows == [j \in DelJobs |-> Absent]
NoDelRequest == [of |-> "none", got |-> Asked]

VARIABLES
  delServer,   \* per job: the server's row
  delFilter,   \* the endpoint of the page
  delTimer,    \* the 250 ms before a changed filter is asked for
  delLive,     \* the request whose number is the last one
  delList,     \* per job: its row of deliveries, or Absent
  delListOf,   \* observed: the filter whose answer the list was last set to
  delSpin,     \* refreshing
  delError,    \* refreshError
  delGone,     \* unavailable
  delPollsOver,\* five minutes of polls have passed
  delActing,   \* acting: the job, and its answer
  delDetail,   \* detailId
  delLoad,     \* the detail's first request: the row it answers
  delPoll,     \* a poll of the detail, also of one since closed
  delFetched,  \* fetchedJob
  delLoadFailed,
  delHeedless, \* observed: a failed refresh's notice was dismissed
  delKnown,    \* observed: per job, the newest row an answer brought
  delActLost   \* observed: the answer of a retry or cancel was lost

delRefresh == <<delTimer, delLive, delSpin>>
delNotice  == <<delError, delGone, delHeedless>>
delRows    == <<delList, delListOf, delPollsOver, delKnown>>
delAction  == <<delActing, delActLost>>
delDialog  == <<delDetail, delLoad, delPoll, delFetched, delLoadFailed>>
delVars    == <<delServer, delFilter, delRefresh, delNotice, delRows, delAction, delDialog>>

Idle == [job |-> NoDelivery, got |-> Absent]
NotActing == [job |-> NoDelivery, on |-> "none", got |-> Absent]

Terminal(age) == DelStatus(age) \in {"failed", "ended"}
Matches(f, age) == f = "queued" => DelStatus(age) = "queued"
RowsFor(f, rows) == [j \in DelJobs |-> IF rows[j] \in Ages /\ Matches(f, rows[j]) THEN rows[j] ELSE Absent]
hasActiveDeliveries(rows) == \E j \in DelJobs : rows[j] \in Ages /\ ~Terminal(rows[j])

\* The page is served with the first rows, or none if the server failed.
DelInit ==
  /\ delServer \in [DelJobs -> 0..1]
  /\ delFilter = "all" /\ delTimer = FALSE /\ delLive = NoDelRequest /\ delSpin = FALSE
  /\ delList \in {delServer, NoRows}
  /\ delListOf = "all" /\ delPollsOver = FALSE /\ delKnown = [j \in DelJobs |-> 0]
  /\ delError = FALSE /\ delGone = (delList # delServer) /\ delHeedless = FALSE
  /\ delActing = NotActing /\ delActLost = FALSE
  /\ delDetail = NoDelivery /\ delLoad = Absent /\ delPoll = Idle /\ delFetched = Absent
  /\ delLoadFailed = FALSE

-----------------------------------------------------------------------------
(* The page.                                                               *)

\* unavailable hides the rest of the page.
DelPanel ==
  IF delGone /\ delList = NoRows THEN "unavailable"
  ELSE IF delList = NoRows /\ delFilter = "all" THEN "empty"
  ELSE IF RowsFor(delFilter, delList) = NoRows THEN "noMatch" ELSE "rows"

\* The rows the page shows: the filter is applied to the list once more.
DelShown == IF DelPanel = "rows" THEN RowsFor(delFilter, delList) ELSE NoRows

DelNoticeShown == delError /\ delList # NoRows

\* The detail covers the page.
Uncovered == delDetail = NoDelivery

\* setDeliveries, and the effect that sees no row left to poll for.
SetRows(rows) ==
  /\ delList' = rows
  /\ delPollsOver' = (delPollsOver /\ hasActiveDeliveries(rows))
  /\ delKnown' = [j \in DelJobs |-> IF rows[j] \in Ages /\ rows[j] > delKnown[j] THEN rows[j] ELSE delKnown[j]]

SendRefresh == delLive' = [of |-> delFilter, got |-> Asked]

\* The buttons, which are disabled while refreshing.
Refresh ==
  /\ Uncovered /\ ~delSpin
  /\ delSpin' = TRUE /\ SendRefresh
  /\ UNCHANGED <<delServer, delFilter, delTimer, delNotice, delRows, delAction, delDialog>>

\* Faulty variant: the first filter is the one the page was served with.
ChangeFilterServed(f) ==
  /\ Uncovered /\ f # delFilter
  /\ delFilter' = f
  /\ delTimer' = (f # "all") /\ delLive' = NoDelRequest
  /\ UNCHANGED <<delServer, delSpin, delNotice, delRows, delAction, delDialog>>

\* Another filter: the request in flight no longer counts.  A reset of the
\* filters is one, from the panel that finds no match too.
ChangeFilter(f) ==
  /\ Uncovered /\ f # delFilter
  /\ delFilter' = f
  /\ delTimer' = TRUE /\ delLive' = NoDelRequest
  /\ UNCHANGED <<delServer, delSpin, delNotice, delRows, delAction, delDialog>>

TimerFires ==
  /\ delTimer
  /\ delTimer' = FALSE /\ delSpin' = TRUE /\ SendRefresh
  /\ UNCHANGED <<delServer, delFilter, delNotice, delRows, delAction, delDialog>>

\* Every five seconds, over whatever is in flight.
DelPollTick ==
  /\ hasActiveDeliveries(delList) /\ ~delPollsOver
  /\ SendRefresh
  /\ UNCHANGED <<delServer, delFilter, delTimer, delSpin, delNotice, delRows, delAction, delDialog>>

FiveMinutesPass ==
  /\ hasActiveDeliveries(delList) /\ ~delPollsOver
  /\ delPollsOver' = TRUE
  /\ UNCHANGED <<delServer, delFilter, delRefresh, delNotice, delList, delListOf, delKnown, delAction, delDialog>>

\* An answer of the last request; those of the others are dropped.
RefreshAnswers ==
  /\ delLive.of # "none" /\ delLive.got # Asked
  /\ SetRows(delLive.got) /\ delListOf' = delLive.of
  /\ delGone' = FALSE /\ delError' = FALSE /\ delHeedless' = FALSE
  /\ delLive' = NoDelRequest /\ delSpin' = FALSE
  /\ UNCHANGED <<delServer, delFilter, delTimer, delAction, delDialog>>

\* applyDeliveryFetchResult: a failure keeps the list.
RefreshFails ==
  /\ delLive.of # "none"
  /\ IF delList = NoRows
     THEN delGone' = TRUE /\ UNCHANGED delError
     ELSE delError' = TRUE /\ UNCHANGED delGone
  /\ delHeedless' = FALSE
  /\ delLive' = NoDelRequest /\ delSpin' = FALSE
  /\ UNCHANGED <<delServer, delFilter, delTimer, delRows, delAction, delDialog>>

IgnoreNotice ==
  /\ Uncovered /\ DelNoticeShown
  /\ delError' = FALSE /\ delHeedless' = TRUE
  /\ UNCHANGED <<delServer, delFilter, delRefresh, delGone, delRows, delAction, delDialog>>

-----------------------------------------------------------------------------
(* Retry and cancel.                                                       *)

\* act: one at a time.
act(j) ==
  /\ Uncovered /\ delActing = NotActing
  /\ DelShown[j] \in Ages /\ DelStatus(DelShown[j]) \in {"failed", "queued"}
  /\ delActing' = [job |-> j, on |-> DelStatus(delList[j]), got |-> InFlight]
  /\ UNCHANGED <<delServer, delFilter, delRefresh, delNotice, delRows, delActLost, delDialog>>

\* The server retries a job that failed and cancels one that is queued: it
\* refuses the button of a row that has moved on.
ServerActs ==
  LET j == delActing.job IN
  /\ delActing # NotActing /\ delActing.got = InFlight
  /\ \/ /\ DelStatus(delServer[j]) = delActing.on /\ delServer[j] \in 0..1
        /\ delServer' = [delServer EXCEPT ![j] = IF @ = 0 THEN 1 ELSE 2]
        /\ delActing' = [delActing EXCEPT !.got = delServer'[j]]
     \/ delActing' = [delActing EXCEPT !.got = Lost] /\ UNCHANGED delServer
  /\ UNCHANGED <<delFilter, delRefresh, delNotice, delRows, delActLost, delDialog>>

\* Faulty variant: the row is left as it is for the next refresh.
ActAnsweredKept ==
  /\ delActing.got \in Ages
  /\ delActing' = NotActing
  /\ UNCHANGED <<delServer, delFilter, delRefresh, delNotice, delRows, delActLost, delDialog>>

ActAnswered ==
  LET j == delActing.job IN
  /\ delActing.got \in Ages
  /\ delList' = [delList EXCEPT ![j] = IF @ = Absent THEN Absent ELSE delActing.got]
  /\ delPollsOver' = (delPollsOver /\ hasActiveDeliveries(delList'))
  /\ delKnown' = [delKnown EXCEPT ![j] = IF @ > delActing.got THEN @ ELSE delActing.got]
  /\ delActing' = NotActing
  /\ UNCHANGED <<delServer, delFilter, delRefresh, delNotice, delListOf, delActLost, delDialog>>

\* A refusal, or an answer that is lost once the server has acted.
ActFails ==
  /\ delActing # NotActing /\ delActing.got # InFlight
  /\ delActLost' = (delActLost \/ delActing.got \in Ages)
  /\ delActing' = NotActing
  /\ UNCHANGED <<delServer, delFilter, delRefresh, delNotice, delRows, delDialog>>

-----------------------------------------------------------------------------
(* The detail of a delivery.                                               *)

\* displayJob: what was fetched, else the row of the list.
Displayed == IF delFetched \in Ages THEN delFetched
             ELSE IF delDetail = NoDelivery THEN Absent ELSE delList[delDetail]

DetailPanel ==
  IF delDetail = NoDelivery THEN "closed"
  ELSE IF Displayed # Absent THEN DelStatus(Displayed)
  ELSE IF delLoadFailed THEN "failed" ELSE "loading"

\* The dialog's key is the job: each opening starts from nothing.
Track(j) ==
  /\ Uncovered /\ DelShown[j] # Absent
  /\ delDetail' = j /\ delLoad' = InFlight /\ delFetched' = Absent /\ delLoadFailed' = FALSE
  /\ UNCHANGED <<delServer, delFilter, delRefresh, delNotice, delRows, delAction, delPoll>>

DelCloseDetail ==
  /\ delDetail # NoDelivery
  /\ delDetail' = NoDelivery /\ delLoad' = Absent /\ delFetched' = Absent /\ delLoadFailed' = FALSE
  /\ UNCHANGED <<delServer, delFilter, delRefresh, delNotice, delRows, delAction, delPoll>>

RetryDetail ==
  /\ DetailPanel = "failed"
  /\ delLoad' = InFlight /\ delLoadFailed' = FALSE
  /\ UNCHANGED <<delServer, delFilter, delRefresh, delNotice, delRows, delAction, delDetail, delPoll, delFetched>>

\* onJobUpdated: a job that the list has not is put before its rows.
JobUpdated(j, age) == SetRows([delList EXCEPT ![j] = age])

DetailLoads ==
  /\ delLoad \in Ages
  /\ delFetched' = delLoad /\ delLoad' = Absent /\ delLoadFailed' = FALSE
  /\ JobUpdated(delDetail, delLoad)
  /\ UNCHANGED <<delServer, delFilter, delRefresh, delNotice, delListOf, delAction, delDetail, delPoll>>

DetailLoadFails ==
  /\ delLoad \notin {Absent}
  /\ delLoad' = Absent /\ delLoadFailed' = TRUE
  /\ UNCHANGED <<delServer, delFilter, delRefresh, delNotice, delRows, delAction, delDetail, delPoll, delFetched>>

\* Every five seconds; bound: one poll in flight, none over the first load.
DetailPollTick ==
  /\ delDetail # NoDelivery /\ delLoad = Absent /\ Displayed \in Ages /\ ~Terminal(Displayed) /\ delPoll = Idle
  /\ delPoll' = [job |-> delDetail, got |-> InFlight]
  /\ UNCHANGED <<delServer, delFilter, delRefresh, delNotice, delRows, delAction, delDetail, delLoad, delFetched, delLoadFailed>>

\* The page is told of it also when the detail is closed, or of another job.
DetailPollAnswers ==
  /\ delPoll.got \in Ages
  /\ delPoll' = Idle
  /\ JobUpdated(delPoll.job, delPoll.got)
  /\ IF delDetail = delPoll.job THEN delFetched' = delPoll.got /\ delLoadFailed' = FALSE
     ELSE UNCHANGED <<delFetched, delLoadFailed>>
  /\ UNCHANGED <<delServer, delFilter, delRefresh, delNotice, delListOf, delAction, delDetail, delLoad>>

DetailPollFails ==
  /\ delPoll # Idle
  /\ delPoll' = Idle
  /\ UNCHANGED <<delServer, delFilter, delRefresh, delNotice, delRows, delAction, delDetail, delLoad, delFetched, delLoadFailed>>

-----------------------------------------------------------------------------
(* The server.                                                             *)

DeliveryMoves(j) ==
  /\ delServer[j] = 1
  /\ delServer' = [delServer EXCEPT ![j] = 2]
  /\ UNCHANGED <<delFilter, delRefresh, delNotice, delRows, delAction, delDialog>>

\* The server reads its rows for a request in flight.
ServerReads ==
  /\ \/ /\ delLive.of # "none" /\ delLive.got = Asked
        /\ delLive' = [delLive EXCEPT !.got = RowsFor(delLive.of, delServer)]
        /\ UNCHANGED <<delLoad, delPoll>>
     \/ /\ delLoad = InFlight
        /\ delLoad' = delServer[delDetail]
        /\ UNCHANGED <<delLive, delPoll>>
     \/ /\ delPoll.got = InFlight
        /\ delPoll' = [delPoll EXCEPT !.got = delServer[delPoll.job]]
        /\ UNCHANGED <<delLive, delLoad>>
  /\ UNCHANGED <<delServer, delFilter, delTimer, delSpin, delNotice, delRows, delAction, delDetail, delFetched, delLoadFailed>>

-----------------------------------------------------------------------------
DelNext ==
  \/ \E j \in DelJobs : DeliveryMoves(j) \/ act(j) \/ Track(j)
  \/ \E f \in DelFilters : ChangeFilter(f)
  \/ Refresh \/ TimerFires \/ DelPollTick \/ FiveMinutesPass
  \/ RefreshAnswers \/ RefreshFails \/ IgnoreNotice
  \/ ServerActs \/ ActAnswered \/ ActFails
  \/ DelCloseDetail \/ RetryDetail \/ DetailLoads \/ DetailLoadFails
  \/ DetailPollTick \/ DetailPollAnswers \/ DetailPollFails
  \/ ServerReads

DelSpec == DelInit /\ [][DelNext]_delVars

-----------------------------------------------------------------------------
DelTypeOK ==
  /\ delServer \in [DelJobs -> Ages]
  /\ delFilter \in DelFilters /\ delListOf \in DelFilters
  /\ delLive \in [of : DelFilters, got : {Asked} \cup [DelJobs -> Ages \cup {Absent}]] \cup {NoDelRequest}
  /\ delList \in [DelJobs -> Ages \cup {Absent}]
  /\ {delTimer, delSpin, delError, delGone, delPollsOver, delLoadFailed} \subseteq BOOLEAN
  /\ delKnown \in [DelJobs -> Ages]
  /\ {delHeedless, delActLost} \subseteq BOOLEAN
  /\ delActing \in [job : DelJobs, on : {"queued", "failed"}, got : Ages \cup {InFlight, Lost}] \cup {NotActing}
  /\ delPoll \in [job : DelJobs, got : Ages \cup {InFlight}] \cup {Idle}
  /\ delDetail \in DelJobs \cup {NoDelivery}
  /\ delLoad \in Ages \cup {Absent, InFlight} /\ delFetched \in Ages \cup {Absent}

(***************************************************************************)
(* The rows are those of the filter the address has, or a request for them *)
(* is under way, or its failure is told and not dismissed: also when a     *)
(* poll is sent over the request, when the filter changes before the 250   *)
(* ms are over, and when it goes back to the one the page was served with. *)
(***************************************************************************)
RowsAreOfTheFilter ==
  \/ delListOf = delFilter \/ delTimer \/ delLive.of = delFilter
  \/ delError \/ delGone \/ delHeedless

(***************************************************************************)
(* A delivery that the page shows as failed or ended, and therefore no     *)
(* longer asks for, is so on the server, unless the answer of its retry is *)
(* under way, the row is older than one the page has been answered         *)
(* (nothing orders the detail's polls, the list's and those of a retry),   *)
(* or the answer of a retry was lost after the server had acted.           *)
(***************************************************************************)
ActedOn(j) == delActing.job = j /\ delActing.got \in Ages

SettledRowsAreTrue ==
  \/ delActLost
  \/ \A j \in DelJobs :
       \/ delList[j] = Absent \/ ~Terminal(delList[j]) \/ delServer[j] = delList[j]
       \/ delList[j] < delKnown[j] \/ ActedOn(j)

\* The page shows the rows of its filter, and settled ones as the server has
\* them: see both.
DeliveriesAreTrue == DelTypeOK /\ RowsAreOfTheFilter /\ SettledRowsAreTrue
=============================================================================
