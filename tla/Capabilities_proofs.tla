------------------------ MODULE Capabilities_proofs ------------------------
(***************************************************************************)
(* What is proved of what lets in a bearer who holds it: the short codes,  *)
(* the states of a cloud link and the catalog tokens, for any numbers of   *)
(* them and of concurrent requests; then of all three at once.             *)
(***************************************************************************)
EXTENDS MC_Capabilities, FiniteSetTheorems, TLAPS

(***************************************************************************)
(* The short codes.  A request that converts read a code with one download *)
(* left, so the row it writes has none.                                    *)
(***************************************************************************)
CodeHasJob ==
  \A c \in Codes :
    /\ state[c] = "unissued" => served[c] = 0
    /\ state[c] = "live" => job[c] \in Jobs /\ status[job[c]] # "deleted"

ReadWhenValid ==
  \A r \in CodeRequests : pc[r] = "converting" => code[r] \in Codes /\ snap[r] = 1

ServedIsSpent == \A c \in Codes : served[c] > 0 => left[c] = 0

CodeInv ==
  CodeTypeOK /\ CodeHasJob /\ ReadWhenValid /\ ServedIsSpent /\ LaterRequestsRefused

LEMMA CodeInitInv == CodeInit => CodeInv
<1> SUFFICES ASSUME CodeInit PROVE CodeInv
  OBVIOUS
<1> USE DEF CodeInit, DEFAULT_DOWNLOADS_LEFT
<1>1. CodeTypeOK
  BY DEF CodeTypeOK
<1>2. CodeHasJob /\ ReadWhenValid /\ ServedIsSpent /\ LaterRequestsRefused
  BY DEF CodeHasJob, ReadWhenValid, ServedIsSpent, LaterRequestsRefused
<1> QED
  BY <1>1, <1>2 DEF CodeInv

LEMMA Create_download_sessionKeeps ==
  ASSUME CodeInv, NEW c \in Codes, NEW j \in Jobs, create_download_session(c, j)
  PROVE  CodeInv'
<1> USE DEF DEFAULT_DOWNLOADS_LEFT, CodeInv, create_download_session, codes,
      requests, observed
<1>1. CodeTypeOK'
  <2>1. state' \in [Codes -> {"unissued", "live", "deleted"}]
    BY DEF CodeTypeOK
  <2>2. job' \in [Codes -> Jobs \cup {NoJob}]
    BY DEF CodeTypeOK
  <2>3. left' \in [Codes -> 0..DEFAULT_DOWNLOADS_LEFT]
    BY DEF CodeTypeOK, ReadWhenValid
  <2> QED
    BY <2>1, <2>2, <2>3 DEF CodeTypeOK
<1>2. CodeHasJob'
  BY DEF CodeHasJob, CodeTypeOK
<1>3. ServedIsSpent'
  BY DEF ServedIsSpent, CodeTypeOK, CodeHasJob, ReadWhenValid
<1>4. ReadWhenValid' /\ LaterRequestsRefused'
  BY DEF ReadWhenValid, LaterRequestsRefused
<1> QED
  BY <1>1, <1>2, <1>3, <1>4 DEF CodeInv

LEMMA MarkSentKeeps ==
  ASSUME CodeInv, NEW j \in Jobs, MarkSent(j)
  PROVE  CodeInv'
<1> USE DEF DEFAULT_DOWNLOADS_LEFT, CodeInv, MarkSent, codes, requests, observed
<1>1. CodeTypeOK'
  <2>1. status' \in [Jobs -> {"queued", "sent", "delivered", "deleted"}]
    BY DEF CodeTypeOK, CodeHasJob, ReadWhenValid
  <2> QED
    BY <2>1 DEF CodeTypeOK
<1>2. CodeHasJob'
  BY DEF CodeHasJob, CodeTypeOK
<1>3. ReadWhenValid' /\ ServedIsSpent' /\ LaterRequestsRefused'
  BY DEF ReadWhenValid, ServedIsSpent, LaterRequestsRefused
<1> QED
  BY <1>1, <1>2, <1>3 DEF CodeInv

LEMMA RequeueKeeps ==
  ASSUME CodeInv, NEW j \in Jobs, Requeue(j)
  PROVE  CodeInv'
<1> USE DEF DEFAULT_DOWNLOADS_LEFT, CodeInv, Requeue, codes, requests, observed
<1>1. CodeTypeOK'
  <2>1. status' \in [Jobs -> {"queued", "sent", "delivered", "deleted"}]
    BY DEF CodeTypeOK, CodeHasJob, ReadWhenValid
  <2> QED
    BY <2>1 DEF CodeTypeOK
<1>2. CodeHasJob'
  BY DEF CodeHasJob, CodeTypeOK
<1>3. ReadWhenValid' /\ ServedIsSpent' /\ LaterRequestsRefused'
  BY DEF ReadWhenValid, ServedIsSpent, LaterRequestsRefused
<1> QED
  BY <1>1, <1>2, <1>3 DEF CodeInv

LEMMA CodeExpireKeeps ==
  ASSUME CodeInv, NEW c \in Codes, CodeExpire(c)
  PROVE  CodeInv'
<1> USE DEF DEFAULT_DOWNLOADS_LEFT, CodeInv, CodeExpire, codes, requests, observed
<1>1. CodeTypeOK'
  <2>1. expired' \in SUBSET Codes
    BY DEF CodeTypeOK
  <2> QED
    BY <2>1 DEF CodeTypeOK
<1>2. CodeHasJob' /\ ReadWhenValid' /\ ServedIsSpent' /\ LaterRequestsRefused'
  BY DEF CodeHasJob, ReadWhenValid, ServedIsSpent, LaterRequestsRefused
<1> QED
  BY <1>1, <1>2 DEF CodeInv

LEMMA PurgeExpiredKeeps ==
  ASSUME CodeInv, PurgeExpired
  PROVE  CodeInv'
<1> USE DEF DEFAULT_DOWNLOADS_LEFT, CodeInv, PurgeExpired, codes, requests, observed
<1>1. CodeTypeOK'
  <2>1. state' \in [Codes -> {"unissued", "live", "deleted"}]
    BY DEF CodeTypeOK
  <2> QED
    BY <2>1 DEF CodeTypeOK
<1>2. CodeHasJob'
  BY DEF CodeHasJob, CodeTypeOK
<1>3. ReadWhenValid' /\ ServedIsSpent' /\ LaterRequestsRefused'
  BY DEF ReadWhenValid, ServedIsSpent, LaterRequestsRefused
<1> QED
  BY <1>1, <1>2, <1>3 DEF CodeInv

LEMMA DeleteJobKeeps ==
  ASSUME CodeInv, NEW j \in Jobs, DeleteJob(j)
  PROVE  CodeInv'
<1> USE DEF DEFAULT_DOWNLOADS_LEFT, CodeInv, DeleteJob, codes, requests, observed
<1>1. CodeTypeOK'
  <2>1. state' \in [Codes -> {"unissued", "live", "deleted"}]
    BY DEF CodeTypeOK
  <2>2. status' \in [Jobs -> {"queued", "sent", "delivered", "deleted"}]
    BY DEF CodeTypeOK, CodeHasJob, ReadWhenValid
  <2> QED
    BY <2>1, <2>2 DEF CodeTypeOK
<1>2. CodeHasJob'
  BY DEF CodeHasJob, CodeTypeOK
<1>3. ReadWhenValid' /\ ServedIsSpent' /\ LaterRequestsRefused'
  BY DEF ReadWhenValid, ServedIsSpent, LaterRequestsRefused
<1> QED
  BY <1>1, <1>2, <1>3 DEF CodeInv

LEMMA AskKeeps ==
  ASSUME CodeInv, NEW r \in CodeRequests, NEW c \in Codes, Ask(r, c)
  PROVE  CodeInv'
<1> USE DEF DEFAULT_DOWNLOADS_LEFT, CodeInv, Ask, Valid, codes, requests, observed
<1>1. CodeTypeOK'
  <2>1. pc' \in [CodeRequests -> {"idle", "converting"}]
    BY DEF CodeTypeOK
  <2>2. code' \in [CodeRequests -> Codes \cup {NoCode}]
    BY DEF CodeTypeOK
  <2>3. snap' \in [CodeRequests -> 0..DEFAULT_DOWNLOADS_LEFT]
    BY DEF CodeTypeOK
  <2>4. was' \in [CodeRequests -> {"queued", "sent", "delivered"}]
    <3>1. status[job[c]] \in {"queued", "sent", "delivered"}
      BY DEF CodeTypeOK, CodeHasJob
    <3> QED
      BY <3>1 DEF CodeTypeOK
  <2>5. late' \in SUBSET CodeRequests
    BY DEF CodeTypeOK
  <2> QED
    BY <2>1, <2>2, <2>3, <2>4, <2>5 DEF CodeTypeOK
<1>2. ReadWhenValid'
  BY DEF ReadWhenValid, CodeTypeOK
<1>3. LaterRequestsRefused'
  BY DEF LaterRequestsRefused, CodeTypeOK, ServedIsSpent
<1>4. CodeHasJob' /\ ServedIsSpent'
  BY DEF CodeHasJob, ServedIsSpent
<1> QED
  BY <1>1, <1>2, <1>3, <1>4 DEF CodeInv

LEMMA NotServedKeeps ==
  ASSUME CodeInv, NEW r \in CodeRequests, NotServed(r)
  PROVE  CodeInv'
<1> USE DEF DEFAULT_DOWNLOADS_LEFT, CodeInv, NotServed, EndRequest, codes,
      requests, observed
<1>1. CodeTypeOK'
  <2>1. pc' \in [CodeRequests -> {"idle", "converting"}]
    BY DEF CodeTypeOK
  <2>2. code' \in [CodeRequests -> Codes \cup {NoCode}]
    BY DEF CodeTypeOK
  <2>3. snap' \in [CodeRequests -> 0..DEFAULT_DOWNLOADS_LEFT]
    BY DEF CodeTypeOK
  <2>4. was' \in [CodeRequests -> {"queued", "sent", "delivered"}]
    BY DEF CodeTypeOK
  <2>5. late' \in SUBSET CodeRequests
    BY DEF CodeTypeOK
  <2> QED
    BY <2>1, <2>2, <2>3, <2>4, <2>5 DEF CodeTypeOK
<1>2. ReadWhenValid'
  BY DEF ReadWhenValid, CodeTypeOK
<1>3. LaterRequestsRefused'
  BY DEF LaterRequestsRefused, CodeTypeOK, ServedIsSpent
<1>4. CodeHasJob' /\ ServedIsSpent'
  BY DEF CodeHasJob, ServedIsSpent
<1> QED
  BY <1>1, <1>2, <1>3, <1>4 DEF CodeInv

LEMMA ServeKeeps ==
  ASSUME CodeInv, NEW r \in CodeRequests, Serve(r)
  PROVE  CodeInv'
<1> USE DEF DEFAULT_DOWNLOADS_LEFT, CodeInv, Serve, EndRequest, WriteDelivered,
      codes, requests, observed
<1>1. CodeTypeOK'
  <2>1. left' \in [Codes -> 0..DEFAULT_DOWNLOADS_LEFT]
    BY DEF CodeTypeOK, ReadWhenValid
  <2>2. status' \in [Jobs -> {"queued", "sent", "delivered", "deleted"}]
    BY DEF CodeTypeOK, CodeHasJob, ReadWhenValid
  <2>3. pc' \in [CodeRequests -> {"idle", "converting"}]
    BY DEF CodeTypeOK
  <2>4. code' \in [CodeRequests -> Codes \cup {NoCode}]
    BY DEF CodeTypeOK
  <2>5. snap' \in [CodeRequests -> 0..DEFAULT_DOWNLOADS_LEFT]
    BY DEF CodeTypeOK
  <2>6. was' \in [CodeRequests -> {"queued", "sent", "delivered"}]
    BY DEF CodeTypeOK
  <2>7. served' \in [Codes -> Nat]
    BY DEF CodeTypeOK, ReadWhenValid
  <2>8. late' \in SUBSET CodeRequests
    BY DEF CodeTypeOK
  <2> QED
    BY <2>1, <2>2, <2>3, <2>4, <2>5, <2>6, <2>7, <2>8 DEF CodeTypeOK
<1>2. CodeHasJob'
  BY DEF CodeHasJob, CodeTypeOK
<1>3. ReadWhenValid'
  BY DEF ReadWhenValid, CodeTypeOK
<1>4. ServedIsSpent'
  BY DEF ServedIsSpent, CodeTypeOK, CodeHasJob, ReadWhenValid
<1>5. LaterRequestsRefused'
  BY DEF LaterRequestsRefused, CodeTypeOK, ServedIsSpent
<1> QED
  BY <1>1, <1>2, <1>3, <1>4, <1>5 DEF CodeInv

LEMMA RowGoneKeeps ==
  ASSUME CodeInv, NEW r \in CodeRequests, RowGone(r)
  PROVE  CodeInv'
<1> USE DEF DEFAULT_DOWNLOADS_LEFT, CodeInv, RowGone, EndRequest, codes,
      requests, observed
<1>1. CodeTypeOK'
  <2>1. pc' \in [CodeRequests -> {"idle", "converting"}]
    BY DEF CodeTypeOK
  <2>2. code' \in [CodeRequests -> Codes \cup {NoCode}]
    BY DEF CodeTypeOK
  <2>3. snap' \in [CodeRequests -> 0..DEFAULT_DOWNLOADS_LEFT]
    BY DEF CodeTypeOK
  <2>4. was' \in [CodeRequests -> {"queued", "sent", "delivered"}]
    BY DEF CodeTypeOK
  <2>5. late' \in SUBSET CodeRequests
    BY DEF CodeTypeOK
  <2> QED
    BY <2>1, <2>2, <2>3, <2>4, <2>5 DEF CodeTypeOK
<1>2. ReadWhenValid'
  BY DEF ReadWhenValid, CodeTypeOK
<1>3. LaterRequestsRefused'
  BY DEF LaterRequestsRefused, CodeTypeOK, ServedIsSpent
<1>4. CodeHasJob' /\ ServedIsSpent'
  BY DEF CodeHasJob, ServedIsSpent
<1> QED
  BY <1>1, <1>2, <1>3, <1>4 DEF CodeInv

LEMMA CodeStepInv == CodeInv /\ [CodeNext]_CodeVars => CodeInv'
<1> SUFFICES ASSUME CodeInv, [CodeNext]_CodeVars PROVE CodeInv'
  OBVIOUS
<1>1. CASE UNCHANGED CodeVars
  BY <1>1 DEF CodeVars, codes, requests, observed, CodeInv, CodeTypeOK,
     CodeHasJob, ReadWhenValid, ServedIsSpent, LaterRequestsRefused
<1>2. CASE CodeNext
  BY <1>2, Create_download_sessionKeeps, MarkSentKeeps, RequeueKeeps,
     CodeExpireKeeps, PurgeExpiredKeeps, DeleteJobKeeps, AskKeeps,
     NotServedKeeps, ServeKeeps, RowGoneKeeps
     DEF CodeNext
<1> QED
  BY <1>1, <1>2

\* The parts of the invariant hold of every reachable state of the codes, for
\* any numbers of codes, jobs and requests (services/tierc.py, api/tierc.py).
THEOREM CodeInvariance == CodeSpec => []CodeInv
  BY CodeInitInv, CodeStepInv, PTL DEF CodeSpec

\* A code that has sent its file sends no other to a request that comes after,
\* for any numbers of codes, jobs and requests (get_valid_short_code and the
\* download of api/tierc.py).
THEOREM CodesAreSpent == CodeSpec => []LaterRequestsRefused
<1>1. CodeInv => LaterRequestsRefused
  BY DEF CodeInv
<1> QED
  BY <1>1, CodeInvariance, PTL

-----------------------------------------------------------------------------
(***************************************************************************)
(* The states of a cloud link.  A state is in one place: unissued, pending *)
(* with the process, held by one callback, or used.                        *)
(***************************************************************************)
OnePlace ==
  \A s \in States :
    /\ about[s] # Unissued => about[s].device # NoDevice
    /\ about[s] = Unissued => s \notin pending
    /\ s \in pending \/ about[s] = Unissued => uses[s] = 0 /\ \A c \in Callbacks : cstate[c] # s
    /\ \A c, b \in Callbacks : cstate[c] = s /\ cstate[b] = s => c = b
    /\ \A c \in Callbacks : cstate[c] = s => uses[s] = 0
    /\ uses[s] <= 1

\* Past the look-up of its device, a callback came by the route of the provider
\* that its state was asked for.
RightRoute ==
  \A c \in Callbacks : cpc[c] = "exchanging" =>
    expects[c] \in {AnyRoute, about[cstate[c]].provider}

LinkInv == OAuthTypeOK /\ OnePlace /\ RightRoute

LEMMA OAuthInitInv == OAuthInit => LinkInv
<1> SUFFICES ASSUME OAuthInit PROVE LinkInv
  OBVIOUS
<1> USE NoStateIsNone DEF OAuthInit, Unissued
<1>1. OAuthTypeOK
  BY DEF OAuthTypeOK
<1>2. OnePlace /\ RightRoute
  BY DEF OnePlace, RightRoute
<1> QED
  BY <1>1, <1>2 DEF LinkInv

LEMMA Issue_oauth_stateKeeps ==
  ASSUME LinkInv, NEW s \in States, NEW d \in Devices, NEW p \in Providers,
        issue_oauth_state(s, d, p)
  PROVE  LinkInv'
<1> USE NoStateIsNone, NoDeviceIsNone
    DEF LinkInv, issue_oauth_state, server, callback
<1>1. OAuthTypeOK'
  <2>1. about' \in [States -> [device : Devices \cup {NoDevice}, provider : Providers \cup {None}]]
    BY DEF OAuthTypeOK
  <2>2. pending' \subseteq {t \in States : about'[t] # Unissued}
    BY DEF OAuthTypeOK, OnePlace, Unissued
  <2> QED
    BY <2>1, <2>2 DEF OAuthTypeOK
<1>2. OnePlace'
  BY DEF OnePlace, OAuthTypeOK, Unissued
<1>3. RightRoute'
  BY DEF RightRoute, OAuthTypeOK, OnePlace, Unissued
<1> QED
  BY <1>1, <1>2, <1>3 DEF LinkInv

LEMMA OAuthExpireKeeps ==
  ASSUME LinkInv, NEW s \in States, OAuthExpire(s)
  PROVE  LinkInv'
<1> USE NoStateIsNone, NoDeviceIsNone
    DEF LinkInv, OAuthExpire, server, callback
<1>1. OAuthTypeOK'
  <2>1. stateExpired' \in SUBSET States
    BY DEF OAuthTypeOK
  <2> QED
    BY <2>1 DEF OAuthTypeOK
<1>2. OnePlace' /\ RightRoute'
  BY DEF OnePlace, RightRoute
<1> QED
  BY <1>1, <1>2 DEF LinkInv

LEMMA Delete_deviceKeeps ==
  ASSUME LinkInv, NEW d \in Devices, delete_device(d)
  PROVE  LinkInv'
<1> USE NoStateIsNone, NoDeviceIsNone
    DEF LinkInv, delete_device, server, callback
<1>1. OAuthTypeOK'
  <2>1. device' \in SUBSET Devices
    BY DEF OAuthTypeOK
  <2>2. link' \in [Devices -> States \cup {None, Owner}]
    BY DEF OAuthTypeOK
  <2> QED
    BY <2>1, <2>2 DEF OAuthTypeOK
<1>2. OnePlace' /\ RightRoute'
  BY DEF OnePlace, RightRoute
<1> QED
  BY <1>1, <1>2 DEF LinkInv

LEMMA RestartKeeps ==
  ASSUME LinkInv, Restart
  PROVE  LinkInv'
<1> USE NoStateIsNone, NoDeviceIsNone
    DEF LinkInv, Restart, server, callback
<1>1. OAuthTypeOK'
  <2>1. cpc' \in [Callbacks -> {"idle", "consumed", "exchanging"}]
    BY DEF OAuthTypeOK
  <2>2. cstate' \in [Callbacks -> States \cup {NoState}]
    BY DEF OAuthTypeOK
  <2>3. expects' \in [Callbacks -> Providers \cup {None, AnyRoute}]
    BY DEF OAuthTypeOK
  <2>4. pending' \subseteq {t \in States : about'[t] # Unissued}
    BY DEF OAuthTypeOK, OnePlace, Unissued
  <2>5. \A b \in Callbacks : cpc'[b] = "idle" <=> cstate'[b] = NoState
    BY DEF OAuthTypeOK, OnePlace, Unissued
  <2> QED
    BY <2>1, <2>2, <2>3, <2>4, <2>5 DEF OAuthTypeOK
<1>2. OnePlace'
  BY DEF OnePlace, OAuthTypeOK, Unissued
<1>3. RightRoute'
  BY DEF RightRoute, OAuthTypeOK, OnePlace, Unissued
<1> QED
  BY <1>1, <1>2, <1>3 DEF LinkInv

LEMMA Link_callbackKeeps ==
  ASSUME LinkInv, NEW d \in Devices, link_callback(d)
  PROVE  LinkInv'
<1> USE NoStateIsNone, NoDeviceIsNone
    DEF LinkInv, link_callback, server, callback
<1>1. OAuthTypeOK'
  <2>1. link' \in [Devices -> States \cup {None, Owner}]
    BY DEF OAuthTypeOK
  <2> QED
    BY <2>1 DEF OAuthTypeOK
<1>2. OnePlace' /\ RightRoute'
  BY DEF OnePlace, RightRoute
<1> QED
  BY <1>1, <1>2 DEF LinkInv

LEMMA ProviderRefusedKeeps ==
  ASSUME LinkInv, NEW s \in States, ProviderRefused(s)
  PROVE  LinkInv'
<1> USE NoStateIsNone, NoDeviceIsNone
    DEF LinkInv, ProviderRefused, server, callback
<1>1. OAuthTypeOK'
  <2>1. pending' \subseteq {t \in States : about'[t] # Unissued}
    BY DEF OAuthTypeOK, OnePlace, Unissued
  <2> QED
    BY <2>1 DEF OAuthTypeOK
<1>2. OnePlace'
  BY DEF OnePlace, OAuthTypeOK, Unissued
<1>3. RightRoute'
  BY DEF RightRoute
<1> QED
  BY <1>1, <1>2, <1>3 DEF LinkInv

LEMMA ConsumeKeeps ==
  ASSUME LinkInv, NEW c \in Callbacks, NEW s \in States, NEW p \in Providers
        \cup {AnyRoute}, Consume(c, s, p)
  PROVE  LinkInv'
<1> USE NoStateIsNone, NoDeviceIsNone
    DEF LinkInv, Consume, server, callback
<1>1. OAuthTypeOK'
  <2>1. cpc' \in [Callbacks -> {"idle", "consumed", "exchanging"}]
    BY DEF OAuthTypeOK
  <2>2. cstate' \in [Callbacks -> States \cup {NoState}]
    BY DEF OAuthTypeOK
  <2>3. expects' \in [Callbacks -> Providers \cup {None, AnyRoute}]
    BY DEF OAuthTypeOK
  <2>4. pending' \subseteq {t \in States : about'[t] # Unissued}
    BY DEF OAuthTypeOK, OnePlace, Unissued
  <2>5. \A b \in Callbacks : cpc'[b] = "idle" <=> cstate'[b] = NoState
    BY DEF OAuthTypeOK, OnePlace, Unissued
  <2> QED
    BY <2>1, <2>2, <2>3, <2>4, <2>5 DEF OAuthTypeOK
<1>2. OnePlace'
  BY DEF OnePlace, OAuthTypeOK, Unissued
<1>3. RightRoute'
  BY DEF RightRoute, OAuthTypeOK, OnePlace, Unissued
<1> QED
  BY <1>1, <1>2, <1>3 DEF LinkInv

LEMMA UnknownStateKeeps ==
  ASSUME LinkInv, NEW s \in States, UnknownState(s)
  PROVE  LinkInv'
<1> USE NoStateIsNone, NoDeviceIsNone
    DEF LinkInv, UnknownState, server, callback
<1>1. OAuthTypeOK'
  <2>1. pending' \subseteq {t \in States : about'[t] # Unissued}
    BY DEF OAuthTypeOK, OnePlace, Unissued
  <2> QED
    BY <2>1 DEF OAuthTypeOK
<1>2. OnePlace'
  BY DEF OnePlace, OAuthTypeOK, Unissued
<1>3. RightRoute'
  BY DEF RightRoute
<1> QED
  BY <1>1, <1>2, <1>3 DEF LinkInv

LEMMA CannotLinkKeeps ==
  ASSUME LinkInv, NEW c \in Callbacks, CannotLink(c)
  PROVE  LinkInv'
<1> USE NoStateIsNone, NoDeviceIsNone
    DEF LinkInv, CannotLink, EndCallback, server, callback
<1>1. OAuthTypeOK'
  <2>1. cpc' \in [Callbacks -> {"idle", "consumed", "exchanging"}]
    BY DEF OAuthTypeOK
  <2>2. cstate' \in [Callbacks -> States \cup {NoState}]
    BY DEF OAuthTypeOK
  <2>3. expects' \in [Callbacks -> Providers \cup {None, AnyRoute}]
    BY DEF OAuthTypeOK
  <2>4. \A b \in Callbacks : cpc'[b] = "idle" <=> cstate'[b] = NoState
    BY DEF OAuthTypeOK, OnePlace, Unissued
  <2> QED
    BY <2>1, <2>2, <2>3, <2>4 DEF OAuthTypeOK
<1>2. OnePlace'
  BY DEF OnePlace, OAuthTypeOK, Unissued
<1>3. RightRoute'
  BY DEF RightRoute, OAuthTypeOK, OnePlace, Unissued
<1> QED
  BY <1>1, <1>2, <1>3 DEF LinkInv

LEMMA LoadDeviceKeeps ==
  ASSUME LinkInv, NEW c \in Callbacks, LoadDevice(c)
  PROVE  LinkInv'
<1> USE NoStateIsNone, NoDeviceIsNone
    DEF LinkInv, LoadDevice, server, callback
<1>1. OAuthTypeOK'
  <2>1. cpc' \in [Callbacks -> {"idle", "consumed", "exchanging"}]
    BY DEF OAuthTypeOK
  <2>2. \A b \in Callbacks : cpc'[b] = "idle" <=> cstate'[b] = NoState
    BY DEF OAuthTypeOK, OnePlace, Unissued
  <2> QED
    BY <2>1, <2>2 DEF OAuthTypeOK
<1>2. RightRoute'
  BY DEF RightRoute, OAuthTypeOK, OnePlace, Unissued
<1>3. OnePlace'
  BY DEF OnePlace
<1> QED
  BY <1>1, <1>2, <1>3 DEF LinkInv

LEMMA ExchangeFailsKeeps ==
  ASSUME LinkInv, NEW c \in Callbacks, ExchangeFails(c)
  PROVE  LinkInv'
<1> USE NoStateIsNone, NoDeviceIsNone
    DEF LinkInv, ExchangeFails, EndCallback, server, callback
<1>1. OAuthTypeOK'
  <2>1. cpc' \in [Callbacks -> {"idle", "consumed", "exchanging"}]
    BY DEF OAuthTypeOK
  <2>2. cstate' \in [Callbacks -> States \cup {NoState}]
    BY DEF OAuthTypeOK
  <2>3. expects' \in [Callbacks -> Providers \cup {None, AnyRoute}]
    BY DEF OAuthTypeOK
  <2>4. \A b \in Callbacks : cpc'[b] = "idle" <=> cstate'[b] = NoState
    BY DEF OAuthTypeOK, OnePlace, Unissued
  <2> QED
    BY <2>1, <2>2, <2>3, <2>4 DEF OAuthTypeOK
<1>2. OnePlace'
  BY DEF OnePlace, OAuthTypeOK, Unissued
<1>3. RightRoute'
  BY DEF RightRoute, OAuthTypeOK, OnePlace, Unissued
<1> QED
  BY <1>1, <1>2, <1>3 DEF LinkInv

LEMMA StoreLinkKeeps ==
  ASSUME LinkInv, NEW c \in Callbacks, StoreLink(c)
  PROVE  LinkInv'
<1> USE NoStateIsNone, NoDeviceIsNone
    DEF LinkInv, StoreLink, EndCallback, Linked, server, callback
<1>1. OAuthTypeOK'
  <2>1. link' \in [Devices -> States \cup {None, Owner}]
    BY DEF OAuthTypeOK
  <2>2. cpc' \in [Callbacks -> {"idle", "consumed", "exchanging"}]
    BY DEF OAuthTypeOK
  <2>3. cstate' \in [Callbacks -> States \cup {NoState}]
    BY DEF OAuthTypeOK
  <2>4. expects' \in [Callbacks -> Providers \cup {None, AnyRoute}]
    BY DEF OAuthTypeOK
  <2>5. uses' \in [States -> Nat]
    BY DEF OAuthTypeOK
  <2>6. \A b \in Callbacks : cpc'[b] = "idle" <=> cstate'[b] = NoState
    BY DEF OAuthTypeOK, OnePlace, Unissued
  <2> QED
    BY <2>1, <2>2, <2>3, <2>4, <2>5, <2>6 DEF OAuthTypeOK
<1>2. OnePlace'
  BY DEF OnePlace, OAuthTypeOK, Unissued
<1>3. RightRoute'
  BY DEF RightRoute, OAuthTypeOK, OnePlace, Unissued
<1> QED
  BY <1>1, <1>2, <1>3 DEF LinkInv

LEMMA StoreFindsNothingKeeps ==
  ASSUME LinkInv, NEW c \in Callbacks, StoreFindsNothing(c)
  PROVE  LinkInv'
<1> USE NoStateIsNone, NoDeviceIsNone
    DEF LinkInv, StoreFindsNothing, EndCallback, server, callback
<1>1. OAuthTypeOK'
  <2>1. cpc' \in [Callbacks -> {"idle", "consumed", "exchanging"}]
    BY DEF OAuthTypeOK
  <2>2. cstate' \in [Callbacks -> States \cup {NoState}]
    BY DEF OAuthTypeOK
  <2>3. expects' \in [Callbacks -> Providers \cup {None, AnyRoute}]
    BY DEF OAuthTypeOK
  <2>4. \A b \in Callbacks : cpc'[b] = "idle" <=> cstate'[b] = NoState
    BY DEF OAuthTypeOK, OnePlace, Unissued
  <2> QED
    BY <2>1, <2>2, <2>3, <2>4 DEF OAuthTypeOK
<1>2. OnePlace'
  BY DEF OnePlace, OAuthTypeOK, Unissued
<1>3. RightRoute'
  BY DEF RightRoute, OAuthTypeOK, OnePlace, Unissued
<1> QED
  BY <1>1, <1>2, <1>3 DEF LinkInv

LEMMA OAuthStepInv == LinkInv /\ [OAuthNext]_OAuthVars => LinkInv'
<1> SUFFICES ASSUME LinkInv, [OAuthNext]_OAuthVars PROVE LinkInv'
  OBVIOUS
<1>1. CASE UNCHANGED OAuthVars
  BY <1>1 DEF OAuthVars, server, callback, LinkInv, OAuthTypeOK, OnePlace,
     RightRoute
<1>2. CASE OAuthNext
  BY <1>2, Issue_oauth_stateKeeps, OAuthExpireKeeps, Delete_deviceKeeps,
     RestartKeeps, Link_callbackKeeps, ProviderRefusedKeeps, ConsumeKeeps,
     UnknownStateKeeps, CannotLinkKeeps, LoadDeviceKeeps, ExchangeFailsKeeps,
     StoreLinkKeeps, StoreFindsNothingKeeps
     DEF OAuthNext
<1> QED
  BY <1>1, <1>2

\* The parts of the invariant hold of every reachable state of the links, for any
\* numbers of states, devices, providers and callbacks (api/devices.py).
THEOREM LinkInvariance == OAuthSpec => []LinkInv
  BY OAuthInitInv, OAuthStepInv, PTL DEF OAuthSpec

\* A state serves once: it is pending, or held by one callback, or used by one
\* (consume_oauth_state).
THEOREM StatesServeOnce == OAuthSpec => []SingleUse
<1>1. LinkInv => SingleUse
  <2> SUFFICES ASSUME LinkInv, NEW s \in States
               PROVE  uses[s] + Cardinality(HeldBy(s)) + (IF s \in pending THEN 1 ELSE 0) <= 1
    BY DEF SingleUse
  <2>1. uses[s] \in Nat /\ uses[s] <= 1
    BY DEF LinkInv, OAuthTypeOK, OnePlace
  <2>2. CASE HeldBy(s) = {}
    <3>1. Cardinality(HeldBy(s)) = 0
      BY <2>2, FS_EmptySet
    <3>2. s \in pending => uses[s] = 0
      BY DEF LinkInv, OnePlace
    <3> QED
      BY <2>1, <3>1, <3>2
  <2>3. CASE HeldBy(s) # {}
    <3>1. PICK c \in Callbacks : cstate[c] = s
      BY <2>3 DEF HeldBy
    <3>2. HeldBy(s) = {c}
      BY <3>1 DEF HeldBy, LinkInv, OnePlace
    <3>3. Cardinality(HeldBy(s)) = 1
      BY <3>2, FS_Singleton
    <3>4. uses[s] = 0 /\ s \notin pending
      BY <3>1 DEF LinkInv, OnePlace
    <3> QED
      BY <3>3, <3>4
  <2> QED
    BY <2>2, <2>3
<1> QED
  BY <1>1, LinkInvariance, PTL

\* A link is stored for the device, and by the route of the provider, that the
\* owner asked for (dropbox_callback and the others, _finish_link).
THEOREM LinksAreAsAsked == OAuthSpec => LinkAsAsked
<1> DEFINE AsAsked ==
      \A d \in Devices : link'[d] \notin {link[d], None, Owner} =>
        \E c \in Callbacks :
          /\ cstate[c] = link'[d] /\ about[cstate[c]].device = d
          /\ expects[c] \in {AnyRoute, about[cstate[c]].provider}
<1>1. LinkInv /\ [OAuthNext]_OAuthVars => [AsAsked]_OAuthVars
  <2> SUFFICES ASSUME LinkInv, OAuthNext, NEW d \in Devices,
                      link'[d] \notin {link[d], None, Owner}
               PROVE  \E c \in Callbacks :
                        /\ cstate[c] = link'[d] /\ about[cstate[c]].device = d
                        /\ expects[c] \in {AnyRoute, about[cstate[c]].provider}
    OBVIOUS
  <2>1. ASSUME NEW e \in Devices, delete_device(e) PROVE FALSE
    BY <2>1 DEF delete_device, LinkInv, OAuthTypeOK
  <2>2. ASSUME NEW e \in Devices, link_callback(e) PROVE FALSE
    BY <2>2 DEF link_callback, LinkInv, OAuthTypeOK
  <2>3. PICK c \in Callbacks : StoreLink(c)
    BY <2>1, <2>2 DEF OAuthNext, issue_oauth_state, OAuthExpire, ProviderRefused,
           UnknownState, Restart, Consume, CannotLink, LoadDevice, ExchangeFails,
           StoreFindsNothing, server
  <2>4. cstate[c] = link'[d] /\ about[cstate[c]].device = d
    BY <2>3 DEF StoreLink, Linked, LinkInv, OAuthTypeOK
  <2>5. expects[c] \in {AnyRoute, about[cstate[c]].provider}
    BY <2>3 DEF StoreLink, LinkInv, RightRoute
  <2> QED
    BY <2>4, <2>5
<1> QED
  BY <1>1, LinkInvariance, PTL DEF OAuthSpec, LinkAsAsked

-----------------------------------------------------------------------------
(***************************************************************************)
(* The catalog tokens of a user: a reader is given one working link at     *)
(* most by its deliveries (ADR 0017), and each token is a grant of         *)
(* downloads.                                                              *)
(*                                                                         *)
(* A delivery reads that a reader has no active token in one step and      *)
(* creates one in another. What carries the fact from the first to the     *)
(* second is the lock: a token becomes active only when it is created, and *)
(* whoever creates one holds the user's row or waits for it.               *)
(***************************************************************************)

TokenRow == [label : Labels \cup {"none"}, max : Limits \cup {0, Unlimited},
             count : 0..MaxCount, revoked : BOOLEAN, expired : BOOLEAN,
             encrypted : BOOLEAN, byDelivery : BOOLEAN]

\* TokenTypeOK in two parts: the table, and the handlers, which know of the table
\* only how many rows it has.  A handler without a token has 0, not a number that
\* the next token could be given.
RowsOK == tok \in [Tokens -> TokenRow] /\ created \in 0..LastToken

HandlersOK ==
  /\ holder \in Deliveries \cup {NoDelivery}
  /\ dpc \in [Deliveries -> {"idle", "locked", "creating", "linked", "sent", "failed"}]
  /\ dlabel \in [Deliveries -> Labels \cup {"none"}]
  /\ dtok \in [Deliveries -> 0..LastToken]
  /\ rpc \in [Downloads -> {"idle", "resolved"}] /\ rtok \in [Downloads -> 0..LastToken]
  /\ qpc \in [TokenRequests -> {"idle", "loaded"}] /\ qtok \in [TokenRequests -> 0..LastToken]
  /\ \A d \in Deliveries : dpc[d] \in {"locked", "creating"} => holder = d
  /\ \A x \in Downloads : rtok[x] \in (IF rpc[x] = "resolved" THEN Issued ELSE {0})
  /\ \A q \in TokenRequests : qtok[q] \in (IF qpc[q] = "loaded" THEN Issued ELSE {0})

\* The rows that are not created are blank.
RowsInOrder == \A t \in Tokens : t > created => tok[t] = NoRow

\* The delivery that is about to create a token: its reader has none, still.
NoneWasFound == \A d \in Deliveries : dpc[d] = "creating" => ActiveFor(dlabel[d]) = {}

TokenInv == RowsOK /\ HandlersOK /\ RowsInOrder /\ NoneWasFound

-----------------------------------------------------------------------------
LEMMA IssuedAreTokens == RowsOK => Issued \subseteq Tokens /\ 0 \notin Issued
BY BoundsAreNat DEF RowsOK, Issued, Tokens

LEMMA TokenInvIsTyped == TokenInv => TokenTypeOK
BY IssuedAreTokens DEF TokenInv, RowsOK, HandlersOK, TokenRow, TokenTypeOK

LEMMA TokenInitInv == TokenInit => TokenInv
<1> SUFFICES ASSUME TokenInit PROVE TokenInv
  OBVIOUS
<1>1. NoRow \in TokenRow
  BY BoundsAreNat DEF NoRow, TokenRow
<1>2. RowsOK /\ RowsInOrder
  BY <1>1, BoundsAreNat DEF TokenInit, RowsOK, RowsInOrder
<1>3. 0 \notin Issued
  BY <1>2, IssuedAreTokens
<1>4. HandlersOK /\ NoneWasFound
  BY <1>3, BoundsAreNat DEF TokenInit, HandlersOK, NoneWasFound
<1> QED
  BY <1>2, <1>4 DEF TokenInv

(***************************************************************************)
(* A new row is the next number's; the others stay as they are.            *)
(***************************************************************************)
LEMMA NewToken ==
  ASSUME RowsOK, RowsInOrder, NEW l \in Labels \cup {"none"}, NEW max \in Limits
        \cup {Unlimited},
         NEW e \in BOOLEAN, NEW b \in BOOLEAN, create_token(l, max, e, b)
  PROVE  /\ created \in Nat /\ created' = created + 1 /\ created' \in Tokens
         /\ tok[created'] = NoRow
         /\ tok'[created'].label = l /\ tok'[created'].max = max /\ tok'[created'].count = 0
         /\ ~tok'[created'].revoked /\ ~tok'[created'].expired /\ tok'[created'].byDelivery = b
         /\ \A t \in Tokens : t # created' => tok'[t] = tok[t]
         /\ RowsOK' /\ RowsInOrder' /\ Issued' = Issued \cup {created'}
<1>1. created \in Nat /\ created' = created + 1 /\ created' \in Tokens /\ created' \in 0..LastToken
  BY BoundsAreNat DEF create_token, RowsOK, Tokens
<1> DEFINE row == [label |-> l, max |-> max, count |-> 0, revoked |-> FALSE,
                   expired |-> FALSE, encrypted |-> e, byDelivery |-> b]
<1>2. row \in TokenRow
  BY BoundsAreNat DEF TokenRow
<1>3. /\ row.label = l /\ row.max = max /\ row.count = 0
      /\ ~row.revoked /\ ~row.expired /\ row.byDelivery = b
  OBVIOUS
<1>4. tok' = [tok EXCEPT ![created'] = row]
  BY DEF create_token
<1> HIDE DEF row
<1>5. /\ tok'[created'] = row /\ \A t \in Tokens : t # created' => tok'[t] = tok[t]
      /\ tok[created'] = NoRow
  BY <1>1, <1>4 DEF RowsOK, RowsInOrder
<1>6. RowsInOrder'
  BY <1>1, <1>5 DEF RowsInOrder, Tokens
<1>7. RowsOK'
  BY <1>1, <1>2, <1>4 DEF RowsOK
<1>8. Issued' = Issued \cup {created'}
  BY <1>1 DEF Issued
<1> QED
  BY <1>1, <1>3, <1>5, <1>6, <1>7, <1>8

(***************************************************************************)
(* A row changes.  Unless that makes its token active again, what a        *)
(* delivery found is still so.                                             *)
(***************************************************************************)
LEMMA RowChanges ==
  ASSUME RowsOK, RowsInOrder, NoneWasFound, UNCHANGED <<created, dpc, dlabel>>,
         NEW t \in Issued, NEW r \in TokenRow, tok' = [tok EXCEPT ![t] = r],
         r.label = tok[t].label, Active(t)' => Active(t)
  PROVE  RowsOK' /\ RowsInOrder' /\ NoneWasFound'
<1>1. t \in Tokens /\ ~(t > created) /\ Issued \subseteq Tokens
  BY IssuedAreTokens DEF Issued, RowsOK
<1>2. tok'[t] = r /\ \A u \in Tokens : u # t => tok'[u] = tok[u]
  BY <1>1 DEF RowsOK
<1>3. RowsOK' /\ RowsInOrder'
  BY <1>1, <1>2 DEF RowsOK, RowsInOrder
<1>4. \A u \in Issued : tok'[u].label = tok[u].label /\ (Active(u)' => Active(u))
  BY <1>1, <1>2 DEF Active
<1>5. Issued' = Issued
  BY DEF Issued
<1> QED
  BY <1>3, <1>4, <1>5 DEF NoneWasFound, ActiveFor

(***************************************************************************)
(* A step that leaves the table alone and brings no delivery to create     *)
(* disturbs nothing but the handlers.                                      *)
(***************************************************************************)
LEMMA TableStays ==
  ASSUME RowsOK, RowsInOrder, NoneWasFound, UNCHANGED rows,
         \A d \in Deliveries : dpc'[d] = "creating" => dpc[d] = "creating" /\ dlabel'[d] = dlabel[d]
  PROVE  RowsOK' /\ RowsInOrder' /\ NoneWasFound' /\ Issued' = Issued
BY DEF rows, RowsOK, RowsInOrder, NoneWasFound, ActiveFor, Active, Issued

(***************************************************************************)
(* A delivery that lets the user's row go, or keeps it, goes on.           *)
(***************************************************************************)
LEMMA DeliveryGoesOn ==
  ASSUME HandlersOK, Issued' = Issued, UNCHANGED <<download, request>>,
         NEW d \in Deliveries, NEW s \in {"idle", "linked", "sent", "failed"},
         dpc' = [dpc EXCEPT ![d] = s],
         dlabel' \in [Deliveries -> Labels \cup {"none"}], dtok' \in [Deliveries -> 0..LastToken],
         UNCHANGED holder \/ ReleaseOwner(d)
  PROVE  HandlersOK'
BY DEF HandlersOK, ReleaseOwner, download, request

LEMMA TokenStepInv == TokenInv /\ [TokenNext]_TokenVars => TokenInv'
<1> SUFFICES ASSUME TokenInv, [TokenNext]_TokenVars PROVE TokenInv'
  OBVIOUS
<1> USE DEF TokenInv
<1>0. Issued \subseteq Tokens /\ 0 \notin Issued /\ 0 \in 0..LastToken /\ Tokens \subseteq 0..LastToken
  BY IssuedAreTokens, BoundsAreNat DEF Tokens
<1>1. ASSUME create_opds_token PROVE TokenInv'
  <2>1. PICK l \in Labels, max \in Limits, e \in BOOLEAN : create_token(l, max, e, FALSE)
    BY <1>1 DEF create_opds_token
  <2>2. holder = NoDelivery /\ UNCHANGED <<delivery, download, request>>
    BY <1>1 DEF create_opds_token
  <2>3. /\ RowsOK' /\ RowsInOrder' /\ Issued' = Issued \cup {created'}
        /\ created' = created + 1 /\ created \in Nat /\ created' \in Tokens
    BY <2>1, NewToken
  <2>4. \A d \in Deliveries : dpc[d] # "creating"
    BY <2>2, NobodyIsNoDelivery DEF HandlersOK
  <2>5. NoneWasFound'
    BY <2>2, <2>4 DEF NoneWasFound, delivery
  <2>6. HandlersOK'
    BY <2>2, <2>3 DEF HandlersOK, delivery, download, request
  <2> QED
    BY <2>3, <2>5, <2>6
<1>2. ASSUME NEW q \in TokenRequests, NEW t \in Tokens, LoadForRevoke(q, t) PROVE TokenInv'
  <2>1. RowsOK' /\ RowsInOrder' /\ NoneWasFound' /\ Issued' = Issued
    BY <1>2, TableStays DEF LoadForRevoke, delivery
  <2>2. HandlersOK'
    BY <1>2, <2>1, <1>0 DEF LoadForRevoke, HandlersOK, delivery, download
  <2> QED
    BY <2>1, <2>2
<1>3. ASSUME NEW q \in TokenRequests, revoke_token(q) PROVE TokenInv'
  <2> PICK t \in Issued : t = qtok[q]
    BY <1>3 DEF revoke_token, HandlersOK
  <2> DEFINE r == [tok[t] EXCEPT !.revoked = TRUE]
  <2>1. tok[t] \in TokenRow
    BY <1>0 DEF RowsOK
  <2>2. r \in TokenRow /\ r.label = tok[t].label /\ r.revoked
    BY <2>1 DEF TokenRow
  <2>3. tok' = [tok EXCEPT ![t] = r] /\ UNCHANGED <<created, delivery, download>>
    BY <1>3 DEF revoke_token
  <2>4. tok'[t] = r
    BY <1>0, <2>1, <2>3 DEF RowsOK
  <2> HIDE DEF r
  <2>5. ~Active(t)'
    BY <2>2, <2>4 DEF Active
  <2>6. RowsOK' /\ RowsInOrder' /\ NoneWasFound'
    BY <2>1, <2>2, <2>3, <2>5, RowChanges DEF delivery
  <2>7. HandlersOK'
    BY <1>0, <1>3, <2>3 DEF revoke_token, HandlersOK, delivery, download, Issued
  <2> QED
    BY <2>6, <2>7
<1>4. ASSUME NEW t \in Tokens, TokenExpire(t) PROVE TokenInv'
  <2> DEFINE r == [tok[t] EXCEPT !.expired = TRUE]
  <2>1. t \in Issued /\ tok[t] \in TokenRow
    BY <1>0, <1>4 DEF TokenExpire, RowsOK
  <2>2. r \in TokenRow /\ r.label = tok[t].label /\ r.expired
    BY <2>1 DEF TokenRow
  <2>3. tok' = [tok EXCEPT ![t] = r] /\ UNCHANGED <<created, delivery, download, request>>
    BY <1>4 DEF TokenExpire
  <2>4. tok'[t] = r
    BY <1>0, <2>1, <2>3 DEF RowsOK
  <2> HIDE DEF r
  <2>5. ~Active(t)'
    BY <2>2, <2>4 DEF Active
  <2>6. RowsOK' /\ RowsInOrder' /\ NoneWasFound'
    BY <2>1, <2>2, <2>3, <2>5, RowChanges DEF delivery
  <2>7. HandlersOK'
    BY <2>3 DEF HandlersOK, delivery, download, request, Issued
  <2> QED
    BY <2>6, <2>7
<1>5. ASSUME NEW d \in Deliveries, NEW l \in Labels, LockOwner(d, l) PROVE TokenInv'
  <2>1. /\ holder = NoDelivery /\ holder' = d
        /\ dpc' = [dpc EXCEPT ![d] = "locked"] /\ dlabel' = [dlabel EXCEPT ![d] = l]
        /\ UNCHANGED <<rows, dtok, download, request>>
    BY <1>5 DEF LockOwner
  <2>2. \A c \in Deliveries : dpc[c] \notin {"locked", "creating"}
    BY <2>1, NobodyIsNoDelivery DEF HandlersOK
  <2>3. \A c \in Deliveries : dpc'[c] # "creating"
    BY <2>1, <2>2 DEF HandlersOK
  <2>4. RowsOK' /\ RowsInOrder' /\ NoneWasFound' /\ Issued' = Issued
    BY <2>1, <2>3, TableStays
  <2>5. HandlersOK'
    BY <2>1, <2>2, <2>4 DEF HandlersOK, download, request
  <2> QED
    BY <2>4, <2>5
<1>6. ASSUME NEW d \in Deliveries, Reuse(d) PROVE TokenInv'
  <2>1. UNCHANGED <<rows, dlabel, download, request>>
    BY <1>6 DEF Reuse
  <2>2. PICK t \in Issued :
          /\ \E s \in {"linked", "failed"} : dpc' = [dpc EXCEPT ![d] = s]
          /\ dtok' = dtok \/ dtok' = [dtok EXCEPT ![d] = t]
          /\ UNCHANGED holder \/ ReleaseOwner(d)
    BY <1>6 DEF Reuse
  <2>3. t \in 0..LastToken
    BY <1>0
  <2>6. RowsOK' /\ RowsInOrder' /\ NoneWasFound' /\ Issued' = Issued
    BY <2>1, <2>2, TableStays DEF HandlersOK
  <2>7. dtok' \in [Deliveries -> 0..LastToken] /\ dlabel' \in [Deliveries -> Labels \cup {"none"}]
    BY <2>1, <2>2, <2>3 DEF HandlersOK
  <2>8. HandlersOK'
    BY <2>1, <2>2, <2>6, <2>7, DeliveryGoesOn
  <2> QED
    BY <2>6, <2>8
<1>7. ASSUME NEW d \in Deliveries, FindNone(d) PROVE TokenInv'
  <2>1. RowsOK' /\ RowsInOrder' /\ Issued' = Issued
    BY <1>7 DEF FindNone, rows, RowsOK, RowsInOrder, Issued
  <2>2. HandlersOK'
    BY <1>7, <2>1 DEF FindNone, HandlersOK, download, request
  <2>3. NoneWasFound'
    BY <1>7 DEF FindNone, NoneWasFound, ActiveFor, Active, Issued, rows, HandlersOK
  <2> QED
    BY <2>1, <2>2, <2>3
<1>8. ASSUME NEW d \in Deliveries, CreateCatalog(d) PROVE TokenInv'
  <2>1. /\ dpc[d] = "creating" /\ dlabel[d] \in Labels \cup {"none"}
        /\ create_token(dlabel[d], Unlimited, TRUE, TRUE)
        /\ dpc' = [dpc EXCEPT ![d] = "linked"] /\ dtok' = [dtok EXCEPT ![d] = created']
        /\ ReleaseOwner(d) /\ UNCHANGED <<dlabel, download, request>>
    BY <1>8 DEF CreateCatalog, HandlersOK
  <2>2. /\ RowsOK' /\ RowsInOrder' /\ Issued' = Issued \cup {created'} /\ created' \in Tokens
    BY <2>1, NewToken
  <2>3. \A c \in Deliveries : dpc'[c] \notin {"locked", "creating"}
    BY <2>1 DEF HandlersOK
  <2>4. HandlersOK'
    BY <1>0, <2>1, <2>2, <2>3 DEF HandlersOK, ReleaseOwner, download, request
  <2> QED
    BY <2>2, <2>3, <2>4 DEF NoneWasFound
<1>9. ASSUME NEW d \in Deliveries, Publish(d) \/ Interrupt(d) \/ Again(d) PROVE TokenInv'
  <2>1. PICK s \in {"idle", "sent", "failed"} : dpc' = [dpc EXCEPT ![d] = s]
    BY <1>9 DEF Publish, Interrupt, Again
  <2>2. /\ UNCHANGED holder \/ ReleaseOwner(d)
        /\ dlabel' = dlabel \/ dlabel' = [dlabel EXCEPT ![d] = "none"]
        /\ dtok' = dtok \/ dtok' = [dtok EXCEPT ![d] = 0]
        /\ UNCHANGED <<rows, download, request>>
    BY <1>9 DEF Publish, Interrupt, Again
  <2>3. RowsOK' /\ RowsInOrder' /\ NoneWasFound' /\ Issued' = Issued
    BY <2>1, <2>2, TableStays DEF HandlersOK
  <2>4. dtok' \in [Deliveries -> 0..LastToken] /\ dlabel' \in [Deliveries -> Labels \cup {"none"}]
    BY <1>0, <2>2 DEF HandlersOK
  <2>5. HandlersOK'
    BY <2>1, <2>2, <2>3, <2>4, DeliveryGoesOn
  <2> QED
    BY <2>3, <2>5
<1>10. ASSUME NEW x \in Downloads, NEW t \in Tokens, resolve_token(x, t) PROVE TokenInv'
  <2>1. RowsOK' /\ RowsInOrder' /\ NoneWasFound' /\ Issued' = Issued
    BY <1>10, TableStays DEF resolve_token, delivery
  <2>2. HandlersOK'
    BY <1>0, <1>10, <2>1 DEF resolve_token, HandlersOK, delivery, request
  <2> QED
    BY <2>1, <2>2
<1>11. ASSUME NEW x \in Downloads, BookMissing(x) PROVE TokenInv'
  <2>1. RowsOK' /\ RowsInOrder' /\ NoneWasFound' /\ Issued' = Issued
    BY <1>11, TableStays DEF BookMissing, delivery
  <2>2. HandlersOK'
    BY <1>0, <1>11, <2>1 DEF BookMissing, EndDownload, HandlersOK, delivery, request
  <2> QED
    BY <2>1, <2>2
<1>12. ASSUME NEW x \in Downloads, consume_download(x) PROVE TokenInv'
  <2> PICK t \in Issued : t = rtok[x]
    BY <1>12 DEF consume_download, HandlersOK
  <2> DEFINE r == [tok[t] EXCEPT !.count = @ + 1]
  <2>1. tok[t] \in TokenRow /\ tok[t].count < MaxCount
    BY <1>0, <1>12 DEF consume_download, HandlersOK, RowsOK
  <2>2. r \in TokenRow /\ r.label = tok[t].label
    BY <2>1, BoundsAreNat DEF TokenRow
  <2>3. /\ tok' = IF Active(t) THEN [tok EXCEPT ![t] = r] ELSE tok
        /\ EndDownload(x) /\ UNCHANGED <<created, delivery, request>>
    BY <1>12 DEF consume_download
  <2> HIDE DEF r
  <2>4. RowsOK' /\ RowsInOrder' /\ NoneWasFound'
    <3>1. CASE Active(t)
      BY <2>1, <2>2, <2>3, <3>1, RowChanges DEF delivery
    <3>2. CASE ~Active(t)
      BY <2>3, <3>2, TableStays DEF delivery, rows
    <3> QED
      BY <3>1, <3>2
  <2>5. HandlersOK'
    BY <1>0, <2>3 DEF EndDownload, HandlersOK, delivery, request, Issued
  <2> QED
    BY <2>4, <2>5
<1>13. ASSUME UNCHANGED TokenVars PROVE TokenInv'
  BY <1>13, TableStays DEF TokenVars, rows, delivery, download, request, HandlersOK
<1> QED
  BY <1>1, <1>2, <1>3, <1>4, <1>5, <1>6, <1>7, <1>8, <1>9, <1>10, <1>11, <1>12, <1>13 DEF TokenNext

(***************************************************************************)
(* ADR 0017 at one step: the only tokens a delivery adds are those of      *)
(* CreateCatalog, which finds none still where FindNone did.               *)
(***************************************************************************)
LEMMA TokenStepKeepsOne ==
  TokenInv /\ [TokenNext]_TokenVars =>
    [\A t \in Tokens :
       (t = created' /\ created' # created /\ tok'[t].byDelivery)
         => \A u \in Issued \ {t} : tok[u].label = tok'[t].label => ~Active(u)]_TokenVars
<1> SUFFICES ASSUME TokenInv, [TokenNext]_TokenVars, created' # created, created' \in Tokens,
                    tok'[created'].byDelivery,
                    NEW u \in Issued, tok[u].label = tok'[created'].label
             PROVE  ~Active(u)
  OBVIOUS
<1> USE DEF TokenInv
<1>1. \/ create_opds_token
      \/ \E d \in Deliveries : CreateCatalog(d)
  BY DEF TokenNext, TokenVars, rows, LoadForRevoke, revoke_token, TokenExpire, LockOwner, Reuse, FindNone,
         Publish, Interrupt, Again, resolve_token, BookMissing, consume_download
<1>2. ASSUME create_opds_token PROVE FALSE
  <2>1. PICK l \in Labels, max \in Limits, e \in BOOLEAN : create_token(l, max, e, FALSE)
    BY <1>2 DEF create_opds_token
  <2> QED
    BY <2>1, NewToken
<1>3. ASSUME NEW d \in Deliveries, CreateCatalog(d) PROVE ~Active(u)
  <2>1. dlabel[d] \in Labels \cup {"none"} /\ create_token(dlabel[d], Unlimited, TRUE, TRUE)
        /\ dpc[d] = "creating"
    BY <1>3 DEF CreateCatalog, HandlersOK
  <2>2. tok'[created'].label = dlabel[d]
    BY <2>1, NewToken
  <2> QED
    BY <2>1, <2>2 DEF NoneWasFound, ActiveFor
<1> QED
  BY <1>1, <1>2, <1>3

-----------------------------------------------------------------------------
(* Each token is a grant of downloads.                                     *)

LEMMA TokenInitIsGrant == TokenInit => Grant!Init
<1> SUFFICES ASSUME TokenInit PROVE Grant!Init
  OBVIOUS
<1>1. \A t \in Tokens : tok[t].max = 0 /\ tok[t].count = 0
  BY DEF TokenInit, NoRow
<1>2. Issued = {}
  BY DEF TokenInit, Issued
<1> QED
  BY <1>1, <1>2 DEF Grant!Init

LEMMA IssuingIsGrant ==
  ASSUME RowsOK, RowsInOrder, NEW l \in Labels \cup {"none"}, NEW max \in Limits
        \cup {Unlimited},
         NEW e \in BOOLEAN, NEW b \in BOOLEAN, create_token(l, max, e, b)
  PROVE  Grant!Next
<1>1. PICK n \in Tokens : n = created'
  BY NewToken
<1>2. tok[n].max = 0 /\ tok[n].count = 0
  <2>1. tok[n] = NoRow
    BY <1>1, NewToken
  <2> QED
    BY <2>1 DEF NoRow
<1>3. tok'[n].max = max /\ tok'[n].count = 0 /\ ~tok'[n].revoked /\ ~tok'[n].expired
  BY <1>1, NewToken
<1>4. Issued' = Issued \cup {n} /\ \A t \in Tokens : t # n => tok'[t] = tok[t]
  BY <1>1, NewToken
<1>5. max \in (Nat \ {0}) \cup {Unlimited}
  BY LimitsArePositive
<1>6. Grant!Issue(n)
  BY <1>2, <1>3, <1>4, <1>5 DEF Grant!Issue
<1> QED
  BY <1>6 DEF Grant!Next

LEMMA TokenStepIsGrant == TokenInv /\ [TokenNext]_TokenVars => [Grant!Next]_(Grant!vars)
<1> SUFFICES ASSUME TokenInv, [TokenNext]_TokenVars PROVE Grant!Next \/ UNCHANGED Grant!vars
  OBVIOUS
<1> USE DEF TokenInv
<1>1. ASSUME NEW t \in Tokens, tok' = [tok EXCEPT ![t].revoked = TRUE] \/ tok' = [tok EXCEPT ![t].expired = TRUE],
             UNCHANGED created
      PROVE  Grant!Next
  <2>1. \A u \in Tokens : /\ tok'[u].max = tok[u].max /\ tok'[u].count = tok[u].count
                          /\ ~tok'[u].revoked /\ ~tok'[u].expired => ~tok[u].revoked /\ ~tok[u].expired
    BY <1>1 DEF RowsOK, TokenRow
  <2>2. Issued' = Issued
    BY <1>1 DEF Issued
  <2>3. Grant!Close
    BY <2>1, <2>2 DEF Grant!Close
  <2> QED
    BY <2>3 DEF Grant!Next
<1>2. ASSUME create_opds_token PROVE Grant!Next
  <2>1. PICK l \in Labels, max \in Limits, e \in BOOLEAN : create_token(l, max, e, FALSE)
    BY <1>2 DEF create_opds_token
  <2> QED
    BY <2>1, IssuingIsGrant
<1>3. ASSUME NEW d \in Deliveries, CreateCatalog(d) PROVE Grant!Next
  <2>1. dlabel[d] \in Labels \cup {"none"} /\ create_token(dlabel[d], Unlimited, TRUE, TRUE)
    BY <1>3 DEF CreateCatalog, HandlersOK
  <2> QED
    BY <2>1, IssuingIsGrant
<1>4. ASSUME NEW x \in Downloads, consume_download(x), tok' # tok PROVE Grant!Next
  <2> PICK t \in Issued : t = rtok[x]
    BY <1>4 DEF consume_download, HandlersOK
  <2>1. t \in Tokens /\ Active(t) /\ tok' = [tok EXCEPT ![t].count = @ + 1] /\ created' = created
    BY <1>4, IssuedAreTokens DEF consume_download
  <2>2. /\ tok'[t].count = tok[t].count + 1 /\ \A u \in Tokens : u # t => tok'[u].count = tok[u].count
        /\ \A u \in Tokens : /\ tok'[u].max = tok[u].max
                             /\ tok'[u].revoked = tok[u].revoked /\ tok'[u].expired = tok[u].expired
    BY <2>1 DEF RowsOK, TokenRow
  <2>3. Issued' = Issued
    BY <2>1 DEF Issued
  <2>4. Grant!Serve(t)
    BY <2>1, <2>2, <2>3 DEF Grant!Serve, Active
  <2> QED
    BY <2>1, <2>4 DEF Grant!Next
<1>5. ASSUME UNCHANGED rows PROVE UNCHANGED Grant!vars
  BY <1>5 DEF rows, Grant!vars, Issued
<1>6. ASSUME NEW q \in TokenRequests, revoke_token(q) PROVE Grant!Next
  <2>1. PICK t \in Tokens : t = qtok[q]
    BY <1>6, IssuedAreTokens DEF revoke_token, HandlersOK
  <2> QED
    BY <1>1, <1>6, <2>1 DEF revoke_token
<1>7. ASSUME NEW t \in Tokens, TokenExpire(t) PROVE Grant!Next
  BY <1>1, <1>7 DEF TokenExpire
<1>8. ASSUME NEW x \in Downloads, consume_download(x) PROVE Grant!Next \/ UNCHANGED rows
  BY <1>4, <1>8 DEF consume_download, rows
<1> QED
  BY <1>2, <1>3, <1>5, <1>6, <1>7, <1>8
  DEF TokenNext, TokenVars, LoadForRevoke, LockOwner, Reuse, FindNone, Publish, Interrupt, Again,
      resolve_token, BookMissing

-----------------------------------------------------------------------------
(***************************************************************************)
(* The invariant holds of the catalog's tokens; the types are part of it.  *)
(***************************************************************************)
THEOREM TokenInvariance == TokenSpec => []TokenInv
BY TokenInitInv, TokenStepInv, PTL DEF TokenSpec

(***************************************************************************)
(* The tokens and the handlers have their types.                           *)
(***************************************************************************)
THEOREM TokenTypes == TokenSpec => []TokenTypeOK
BY TokenInvariance, TokenInvIsTyped, PTL

(***************************************************************************)
(* However the deliveries overlap, a reader never gets a second working    *)
(* link from them.                                                         *)
(***************************************************************************)
THEOREM OneCatalog == TokenSpec => OneCatalogPerReader
BY TokenInvariance, TokenStepKeepsOne, PTL DEF TokenSpec, OneCatalogPerReader

(***************************************************************************)
(* Every token is a grant: it serves no more than its limit, and nothing   *)
(* once it is revoked or has expired.                                      *)
(***************************************************************************)
THEOREM TokensAreGrants == TokenSpec => IsGrant
BY TokenInvariance, TokenInitIsGrant, TokenStepIsGrant, PTL DEF TokenSpec, IsGrant, Grant!Spec

-----------------------------------------------------------------------------
(***************************************************************************)
(* What lets in a bearer, together.                                        *)
(***************************************************************************)

\* A behavior about one kind of bearer is one of each: the others stutter.
LEMMA BearersAreAll == Spec => CodeSpec /\ TokenSpec /\ OAuthSpec
<1>1. Init => CodeInit /\ TokenInit /\ OAuthInit
  BY DEF Init
<1>2. [Next]_vars =>
        [CodeNext]_CodeVars /\ [TokenNext]_TokenVars /\ [OAuthNext]_OAuthVars
  BY DEF Next, vars
<1> QED
  BY <1>1, <1>2, PTL DEF Spec, CodeSpec, TokenSpec, OAuthSpec

\* A code whose file was sent, and a state that came back, let nobody in again,
\* and what is kept of codes, tokens and links is of its type: what the run of
\* the capabilities checks of two or three of each, for any numbers.
THEOREM BearersUseOnce == Spec => []UsedOnce
<1>1. CodeInv => CodeTypeOK
  BY DEF CodeInv
<1>2. LinkInv => OAuthTypeOK
  BY DEF LinkInv
<1> QED
  BY <1>1, <1>2, BearersAreAll, CodeInvariance, CodesAreSpent, TokenTypes,
     LinkInvariance, StatesServeOnce, PTL DEF UsedOnce
=============================================================================
