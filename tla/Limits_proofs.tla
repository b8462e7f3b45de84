--------------------------- MODULE Limits_proofs ---------------------------
(***************************************************************************)
(* What is proved of the limits: the quotas of the mail relay, the quota   *)
(* and the files of a user's library, both at once, and the entry of the   *)
(* conversion cache, for any numbers of users, books and concurrent        *)
(* handlers.                                                               *)
(***************************************************************************)
EXTENDS MC_Limits, FiniteSetTheorems, TLAPS

(***************************************************************************)
(* The quotas of the mail relay.  A check is a count apart from the commit *)
(* it allows; what carries it to the commit differs: a run's own row is    *)
(* among those that it counts, and a test message holds the lock, so that  *)
(* no other test uses the room that its check found.                       *)
(***************************************************************************)
OneTest ==
  \A s, r \in Sends : state[s] = "testing" /\ state[r] = "testing" => s = r

RelayedAreRecorded ==
  \A s \in Sends : relayed[s] # "none" => state[s] \in Recorded \union {"erased"}

TestHasRoom ==
  \A s \in Sends : state[s] = "testing" =>
    /\ \A u \in Users : owner[s] = u =>
         Cardinality(RelayedInHour(u) \intersect LastHour(u)) < HourlyQuota
    /\ Cardinality(RelayedInDay \intersect LastDay) < DailyQuota

MailInv ==
  MailTypeOK /\ OneTest /\ RelayedAreRecorded /\ TestHasRoom /\ QuotasHold

\* A part of a set of sends is no larger than the set.
LEMMA SendsCount ==
  ASSUME NEW S \in SUBSET Sends, NEW T \in SUBSET S
  PROVE  /\ Cardinality(S) \in Nat /\ Cardinality(T) \in Nat
         /\ Cardinality(T) <= Cardinality(S)
<1>1. IsFiniteSet(S)
  BY SendsAssumption, FS_Subset
<1>2. IsFiniteSet(T)
  BY <1>1, FS_Subset
<1> QED
  BY <1>1, <1>2, FS_Subset, FS_CardinalityType

LEMMA MailInitInv == MailInit => MailInv
<1> SUFFICES ASSUME MailInit PROVE MailInv
  OBVIOUS
<1> USE DEF MailInit
<1>1. MailTypeOK
  BY DEF MailTypeOK, Recorded, Unrecorded, Ages
<1>2. OneTest /\ RelayedAreRecorded /\ TestHasRoom
  BY DEF OneTest, RelayedAreRecorded, TestHasRoom
<1>3. Cardinality({}) = 0
  BY FS_EmptySet
<1>4. RelayedInDay = {} /\ \A u : RelayedInHour(u) = {}
  BY DEF RelayedInDay, RelayedInHour
<1>5. QuotasHold
  BY <1>3, <1>4, QuotaAssumption DEF QuotasHold
<1> QED
  BY <1>1, <1>2, <1>5 DEF MailInv

\* A step adds the send to no window of those that went to the relay in it and
\* are recorded in it.
StaysOut(s) ==
  /\ relayed'[s] = "hour" /\ age'[s] = "hour" =>
       relayed[s] = "hour" /\ age[s] = "hour" /\ owner'[s] = owner[s]
  /\ relayed'[s] \in {"hour", "day"} /\ age'[s] \in {"hour", "day"} =>
       relayed[s] \in {"hour", "day"} /\ age[s] \in {"hour", "day"}

\* Such a step keeps the room there was and the quotas.
LEMMA NothingNewCounts ==
  ASSUME MailTypeOK, QuotasHold, TestHasRoom, MailTypeOK',
         \A s \in Sends : StaysOut(s)
  PROVE  /\ QuotasHold'
         /\ \A s \in Sends :
              state[s] = "testing" /\ state'[s] = "testing" /\ owner'[s] = owner[s] =>
                /\ \A u \in Users : owner'[s] = u =>
                     Cardinality(RelayedInHour(u)' \intersect LastHour(u)') < HourlyQuota
                /\ Cardinality(RelayedInDay' \intersect LastDay') < DailyQuota
<1> DEFINE Hour(u) == RelayedInHour(u) \intersect LastHour(u)
           HourNext(u) == RelayedInHour(u)' \intersect LastHour(u)'
           Day == RelayedInDay \intersect LastDay
           DayNext == RelayedInDay' \intersect LastDay'
<1>1. ASSUME NEW u \in Users
      PROVE  Hour(u) \in SUBSET Sends /\ HourNext(u) \in SUBSET Hour(u)
  BY DEF LastHour, RelayedInHour, StaysOut
<1>2. Day \in SUBSET Sends /\ DayNext \in SUBSET Day
  BY DEF LastDay, RelayedInDay, StaysOut
<1>3. ASSUME NEW u \in Users
      PROVE  /\ Cardinality(Hour(u)) \in Nat /\ Cardinality(HourNext(u)) \in Nat
             /\ Cardinality(HourNext(u)) <= Cardinality(Hour(u))
  <2> HIDE DEF Hour, HourNext
  <2> QED
    BY <1>1, SendsCount
<1>4. /\ Cardinality(Day) \in Nat /\ Cardinality(DayNext) \in Nat
      /\ Cardinality(DayNext) <= Cardinality(Day)
  <2> HIDE DEF Day, DayNext
  <2> QED
    BY <1>2, SendsCount
<1>5. ASSUME NEW u \in Users
      PROVE  /\ Cardinality(Hour(u)) <= HourlyQuota
             /\ Cardinality(HourNext(u)) <= HourlyQuota
  <2>1. Cardinality(Hour(u)) <= HourlyQuota
    BY DEF QuotasHold
  <2> HIDE DEF Hour, HourNext
  <2> QED
    BY <2>1, <1>3, QuotaAssumption
<1>6. Cardinality(DayNext) <= DailyQuota
  <2>1. Cardinality(Day) <= DailyQuota
    BY DEF QuotasHold
  <2> HIDE DEF Day, DayNext
  <2> QED
    BY <2>1, <1>4, QuotaAssumption
<1>7. QuotasHold'
  BY <1>5, <1>6 DEF QuotasHold
<1>8. ASSUME NEW s \in Sends, state[s] = "testing"
      PROVE  Cardinality(DayNext) < DailyQuota
  <2>1. Cardinality(Day) < DailyQuota
    BY <1>8 DEF TestHasRoom
  <2> HIDE DEF Day, DayNext
  <2> QED
    BY <2>1, <1>4, QuotaAssumption
<1>9. ASSUME NEW s \in Sends, state[s] = "testing", NEW u \in Users, owner[s] = u
      PROVE  Cardinality(HourNext(u)) < HourlyQuota
  <2>1. Cardinality(Hour(u)) < HourlyQuota
    BY <1>9 DEF TestHasRoom
  <2> HIDE DEF Hour, HourNext
  <2> QED
    BY <2>1, <1>3, QuotaAssumption
<1> QED
  BY <1>7, <1>8, <1>9

\* The steps by which nothing goes to the relay, a test's admission apart.
MovesOnly(s) ==
  \/ \E u \in Users : AdmitDelivery(s, u)
  \/ InsertDelivery(s) \/ RunRefused(s)
  \/ RunFails(s) \/ AdmitRetry(s) \/ Requeue(s)
  \/ EraseRow(s) \/ Grow(s) \/ RelayGrows(s)

LEMMA MovesKeep ==
  ASSUME MailInv, NEW s \in Sends, MovesOnly(s)
  PROVE  MailInv'
<1>1. /\ MailTypeOK'
      /\ \A r \in Sends : StaysOut(r)
      /\ \A r \in Sends :
           relayed'[r] # "none" => state'[r] \in Recorded \union {"erased"}
      /\ \A r \in Sends :
           state'[r] = "testing" => state[r] = "testing" /\ owner'[r] = owner[r]
  <2> USE DEF MailInv, MailTypeOK, RelayedAreRecorded, StaysOut, Move, Recorded, Unrecorded, Ages
  <2>1. CASE \E u \in Users : AdmitDelivery(s, u)
    BY <2>1 DEF AdmitDelivery
  <2>2. CASE InsertDelivery(s)
    BY <2>2 DEF InsertDelivery
  <2>3. CASE RunRefused(s)
    BY <2>3 DEF RunRefused
  <2>4. CASE RunFails(s)
    BY <2>4 DEF RunFails
  <2>5. CASE AdmitRetry(s)
    BY <2>5 DEF AdmitRetry
  <2>6. CASE Requeue(s)
    BY <2>6 DEF Requeue
  <2>7. CASE Grow(s)
    BY <2>7 DEF Grow
  <2>8. CASE RelayGrows(s)
    BY <2>8 DEF RelayGrows
  <2>9. CASE EraseRow(s)
    BY <2>9 DEF EraseRow
  <2> QED
    BY <2>1, <2>2, <2>3, <2>4, <2>5, <2>6, <2>7, <2>8, <2>9 DEF MovesOnly
<1>2. OneTest'
  BY <1>1 DEF MailInv, OneTest
<1>3. RelayedAreRecorded'
  BY <1>1 DEF RelayedAreRecorded
<1>4. /\ QuotasHold'
      /\ \A r \in Sends :
           state[r] = "testing" /\ state'[r] = "testing" /\ owner'[r] = owner[r] =>
             /\ \A u \in Users : owner'[r] = u =>
                  Cardinality(RelayedInHour(u)' \intersect LastHour(u)') < HourlyQuota
             /\ Cardinality(RelayedInDay' \intersect LastDay') < DailyQuota
  BY <1>1, NothingNewCounts DEF MailInv
<1>5. TestHasRoom'
  BY <1>1, <1>4 DEF TestHasRoom
<1> QED
  BY <1>1, <1>2, <1>3, <1>4, <1>5 DEF MailInv

\* A test message is admitted under the lock, where there is room for it.
LEMMA AdmitTestKeeps ==
  ASSUME MailInv, NEW s \in Sends, NEW v \in Users, AdmitTest(s, v)
  PROVE  MailInv'
<1>1. /\ MailTypeOK'
      /\ \A r \in Sends : StaysOut(r)
      /\ \A r \in Sends :
           relayed'[r] # "none" => state'[r] \in Recorded \union {"erased"}
      /\ \A r \in Sends : state'[r] = "testing" => r = s
      /\ owner'[s] = v
      /\ RelayedInHour(v)' \intersect LastHour(v)' = RelayedInHour(v) \intersect LastHour(v)
      /\ RelayedInDay' = RelayedInDay /\ LastDay' = LastDay
  BY DEF MailInv, MailTypeOK, RelayedAreRecorded, StaysOut, AdmitTest, Move, Recorded,
         Unrecorded, Ages, LastHour, LastDay, RelayedInHour, RelayedInDay
<1>2. OneTest'
  BY <1>1 DEF OneTest
<1>3. RelayedAreRecorded'
  BY <1>1 DEF RelayedAreRecorded
<1>4. QuotasHold'
  BY <1>1, NothingNewCounts DEF MailInv
<1>5. /\ Cardinality(LastHour(v)) < HourlyQuota
      /\ Cardinality(LastDay) < DailyQuota
  BY DEF AdmitTest, BelowQuota
<1>6. /\ LastHour(v) \in SUBSET Sends /\ LastDay \in SUBSET Sends
      /\ RelayedInHour(v) \intersect LastHour(v) \in SUBSET LastHour(v)
      /\ RelayedInDay \intersect LastDay \in SUBSET LastDay
  BY DEF LastHour, LastDay
<1>7. /\ Cardinality(LastHour(v)) \in Nat
      /\ Cardinality(RelayedInHour(v) \intersect LastHour(v)) \in Nat
      /\ Cardinality(RelayedInHour(v) \intersect LastHour(v)) <= Cardinality(LastHour(v))
  BY <1>6, SendsCount
<1>8. /\ Cardinality(LastDay) \in Nat
      /\ Cardinality(RelayedInDay \intersect LastDay) \in Nat
      /\ Cardinality(RelayedInDay \intersect LastDay) <= Cardinality(LastDay)
  BY <1>6, SendsCount
<1>9. RelayedInHour(v)' \intersect LastHour(v)' = RelayedInHour(v) \intersect LastHour(v)
      /\ RelayedInDay' \intersect LastDay' = RelayedInDay \intersect LastDay
  BY <1>1
<1>10. /\ Cardinality(RelayedInHour(v)' \intersect LastHour(v)') < HourlyQuota
       /\ Cardinality(RelayedInDay' \intersect LastDay') < DailyQuota
  <2> HourlyQuota \in Nat /\ DailyQuota \in Nat
    BY QuotaAssumption
  <2>1. Cardinality(RelayedInHour(v) \intersect LastHour(v)) < HourlyQuota
    BY <1>5, <1>7
  <2>2. Cardinality(RelayedInDay \intersect LastDay) < DailyQuota
    BY <1>5, <1>8
  <2> QED
    BY <2>1, <2>2, <1>9
<1>11. TestHasRoom'
  BY <1>1, <1>10 DEF TestHasRoom
<1> QED
  BY <1>1, <1>2, <1>3, <1>4, <1>11 DEF MailInv

\* A run passes where the rows counted, its own among them, are fewer than the
\* quota: those let through, it included, are some of them.
LEMMA RunPassesKeeps ==
  ASSUME MailInv, NEW s \in Sends, RunPasses(s)
  PROVE  MailInv'
<1>1. PICK v : v = owner[s]
  OBVIOUS
<1>2. /\ MailTypeOK'
      /\ owner' = owner /\ age' = age
      /\ \A r \in Sends \ {s} : relayed'[r] = relayed[r]
      /\ \A r \in Sends : state'[r] = "testing" => state[r] = "testing"
      /\ \A r \in Sends :
           relayed'[r] # "none" => state'[r] \in Recorded \union {"erased"}
      /\ Cardinality(LastHour(v)) < HourlyQuota
      /\ Cardinality(LastDay) < DailyQuota
  BY <1>1 DEF MailInv, MailTypeOK, RelayedAreRecorded, RunPasses, BelowQuota, Move,
         Relay, Recorded, Unrecorded, Ages
<1>3. OneTest'
  BY <1>2 DEF MailInv, OneTest
<1>4. RelayedAreRecorded'
  BY <1>2 DEF RelayedAreRecorded
<1>5. LastDay' = LastDay /\ \A u : LastHour(u)' = LastHour(u)
  BY <1>2 DEF LastDay, LastHour
<1>6. Cardinality(RelayedInHour(v)' \intersect LastHour(v)) < HourlyQuota
  <2>1. LastHour(v) \in SUBSET Sends
        /\ RelayedInHour(v)' \intersect LastHour(v) \in SUBSET LastHour(v)
    BY DEF LastHour
  <2> QED
    BY <2>1, <1>2, SendsCount, QuotaAssumption
<1>7. Cardinality(RelayedInDay' \intersect LastDay) < DailyQuota
  <2>1. LastDay \in SUBSET Sends /\ RelayedInDay' \intersect LastDay \in SUBSET LastDay
    BY DEF LastDay
  <2> QED
    BY <2>1, <1>2, SendsCount, QuotaAssumption
<1>8. ASSUME NEW u \in Users, u # v
      PROVE  RelayedInHour(u)' \intersect LastHour(u) = RelayedInHour(u) \intersect LastHour(u)
  BY <1>1, <1>2, <1>8 DEF LastHour, RelayedInHour
<1>9. QuotasHold'
  <2>1. ASSUME NEW u \in Users
        PROVE  Cardinality(RelayedInHour(u)' \intersect LastHour(u)) <= HourlyQuota
    <3>1. CASE u = v
      <4>1. RelayedInHour(v)' \intersect LastHour(v) \in SUBSET Sends
        BY DEF LastHour
      <4>2. Cardinality(RelayedInHour(v)' \intersect LastHour(v)) \in Nat
        BY <4>1, SendsCount
      <4> QED
        BY <3>1, <4>2, <1>6, QuotaAssumption
    <3>2. CASE u # v
      BY <3>2, <1>8 DEF MailInv, QuotasHold
    <3> QED
      BY <3>1, <3>2
  <2>2. Cardinality(RelayedInDay' \intersect LastDay) <= DailyQuota
    <3>1. RelayedInDay' \intersect LastDay \in SUBSET Sends
      BY DEF LastDay
    <3>2. Cardinality(RelayedInDay' \intersect LastDay) \in Nat
      BY <3>1, SendsCount
    <3> QED
      BY <3>2, <1>7, QuotaAssumption
  <2> QED
    BY <2>1, <2>2, <1>5 DEF QuotasHold
<1>10. TestHasRoom'
  <2>1. ASSUME NEW r \in Sends, state'[r] = "testing", NEW u \in Users, owner[r] = u
        PROVE  Cardinality(RelayedInHour(u)' \intersect LastHour(u)) < HourlyQuota
    <3>1. CASE u = v
      BY <3>1, <1>6
    <3>2. CASE u # v
      BY <3>2, <2>1, <1>2, <1>8 DEF MailInv, TestHasRoom
    <3> QED
      BY <3>1, <3>2
  <2> QED
    BY <2>1, <1>2, <1>5, <1>7 DEF TestHasRoom
<1> QED
  BY <1>2, <1>3, <1>4, <1>9, <1>10 DEF MailInv

\* A test message is recorded where its check found room, and no other test
\* took it.
LEMMA RecordTestKeeps ==
  ASSUME MailInv, NEW s \in Sends, RecordTest(s)
  PROVE  MailInv'
<1>1. PICK v : v = owner[s]
  OBVIOUS
<1>2. /\ MailTypeOK'
      /\ owner' = owner /\ state[s] = "testing"
      /\ \A r \in Sends \ {s} : relayed'[r] = relayed[r]
      /\ \A r \in Sends : state'[r] # "testing"
      /\ \A r \in Sends :
           relayed'[r] # "none" => state'[r] \in Recorded \union {"erased"}
      /\ \A r \in Sends \ {s} : age'[r] = age[r]
  BY DEF MailInv, MailTypeOK, RelayedAreRecorded, OneTest, RecordTest, Move,
         Relay, Recorded, Unrecorded, Ages
<1>3. OneTest' /\ TestHasRoom'
  BY <1>2 DEF OneTest, TestHasRoom
<1>4. RelayedAreRecorded'
  BY <1>2 DEF RelayedAreRecorded
<1>5. ASSUME NEW S \in SUBSET Sends, NEW T \in SUBSET (S \union {s}), NEW n \in Nat,
             Cardinality(S) < n
      PROVE  Cardinality(T) <= n
  <2>1. S \union {s} \in SUBSET Sends
    OBVIOUS
  <2>2. IsFiniteSet(S)
    BY SendsAssumption, FS_Subset
  <2>3. /\ Cardinality(S) \in Nat
        /\ Cardinality(S \union {s}) \in {Cardinality(S), Cardinality(S) + 1}
    BY <2>2, FS_AddElement, FS_CardinalityType
  <2>4. Cardinality(T) \in Nat /\ Cardinality(T) <= Cardinality(S \union {s})
    BY <2>1, SendsCount
  <2> QED
    BY <1>5, <2>3, <2>4
<1>6. ASSUME NEW u \in Users
      PROVE  Cardinality(RelayedInHour(u)' \intersect LastHour(u)') <= HourlyQuota
  <2> DEFINE S == RelayedInHour(u) \intersect LastHour(u)
             T == RelayedInHour(u)' \intersect LastHour(u)'
  <2> SUFFICES Cardinality(T) <= HourlyQuota
    OBVIOUS
  <2>1. S \in SUBSET Sends
    BY DEF LastHour
  <2>2. CASE u = v
    <3>1. T \in SUBSET (S \union {s})
      BY <1>2 DEF LastHour, RelayedInHour
    <3>2. Cardinality(S) < HourlyQuota
      BY <2>2, <1>1, <1>2 DEF MailInv, TestHasRoom
    <3> HIDE DEF S, T
    <3> QED
      BY <2>1, <3>1, <3>2, <1>5, QuotaAssumption
  <2>3. CASE u # v
    <3>1. T = S
      BY <2>3, <1>1, <1>2 DEF LastHour, RelayedInHour
    <3>2. Cardinality(S) <= HourlyQuota
      BY DEF MailInv, QuotasHold
    <3> HIDE DEF S, T
    <3> QED
      BY <3>1, <3>2
  <2> QED
    BY <2>2, <2>3
<1>7. Cardinality(RelayedInDay' \intersect LastDay') <= DailyQuota
  <2> DEFINE S == RelayedInDay \intersect LastDay
             T == RelayedInDay' \intersect LastDay'
  <2> SUFFICES Cardinality(T) <= DailyQuota
    OBVIOUS
  <2>1. S \in SUBSET Sends /\ T \in SUBSET (S \union {s})
    BY <1>2 DEF LastDay, RelayedInDay
  <2>2. Cardinality(S) < DailyQuota
    BY <1>2 DEF MailInv, TestHasRoom
  <2> HIDE DEF S, T
  <2> QED
    BY <2>1, <2>2, <1>5, QuotaAssumption
<1> QED
  BY <1>2, <1>3, <1>4, <1>6, <1>7 DEF MailInv, QuotasHold

LEMMA MailStepInv == MailInv /\ [MailNext]_MailVars => MailInv'
<1> SUFFICES ASSUME MailInv, [MailNext]_MailVars PROVE MailInv'
  OBVIOUS
<1>1. CASE UNCHANGED MailVars
  BY <1>1 DEF MailVars, MailInv, MailTypeOK, OneTest, RelayedAreRecorded,
         TestHasRoom, QuotasHold, LastHour, LastDay, RelayedInHour, RelayedInDay
<1>2. CASE MailNext
  <2>1. PICK s \in Sends :
          \/ MovesOnly(s)
          \/ \E u \in Users : AdmitTest(s, u)
          \/ RunPasses(s) \/ RecordTest(s)
    BY <1>2 DEF MailNext, MovesOnly
  <2> QED
    BY <2>1, MovesKeep, AdmitTestKeeps, RunPassesKeeps, RecordTestKeeps
<1> QED
  BY <1>1, <1>2

\* The parts of the invariant hold of every reachable state of the relay's
\* counts, for any numbers of users and sends (services/mail_policy.py).
THEOREM MailInvariance == MailSpec => []MailInv
  BY MailInitInv, MailStepInv, PTL DEF MailSpec

\* Of the sends recorded in the last hour, and in the last day, no more go to
\* the relay in it than the quotas allow, for any numbers of users and sends,
\* any quotas and any crossing of requests, runs, retries, test messages and
\* deletions of devices (services/mail_policy.py).
THEOREM QuotasAreKept == MailSpec => []QuotasHold
<1>1. MailInv => QuotasHold
  BY DEF MailInv
<1> QED
  BY <1>1, MailInvariance, PTL

-----------------------------------------------------------------------------
(***************************************************************************)
(* One user's library.  The quota may be passed, because its check and the *)
(* row are apart, but only by the imports under way; files and rows differ *)
(* only by what a handler holds, or left behind.                           *)
(***************************************************************************)

\* The row of a source is held by the import that inserts it, of that kind.
SourceHeld ==
  \A h \in Importers, k \in Kinds : source[k] = h => ipc[h] = "sourced" /\ k = Kind(iref[h])

\* Names are never used again: what is listed, written or deleted was.
WrittenBefore ==
  /\ \A i \in rows : i <= written
  /\ \A h \in Importers : item[h] <= written
  /\ \A d \in Deleters : target[d] <= written

\* An import has its file to itself, until its row is committed.
OwnItem ==
  /\ \A h \in Importers : item[h] # 0 => item[h] \in files /\ item[h] \notin rows
  /\ \A h, g \in Importers : item[h] # 0 /\ item[h] = item[g] => h = g
  /\ \A h \in Importers, d \in Deleters : item[h] # 0 => target[d] # item[h]

\* A deletion that reached the row has removed the file.
FileFirst ==
  \A d \in Deleters :
    /\ dpc[d] = "idle" <=> target[d] = 0
    /\ dpc[d] = "unlinked" => target[d] \notin files

\* RowsHaveFiles, item by item.
Matched ==
  /\ \A i \in rows :
       i \in files \/ i \in halved \/ \E d \in Deleters : dpc[d] = "unlinked" /\ target[d] = i
  /\ \A i \in files : i \in rows \/ i \in orphans \/ \E h \in Importers : item[h] = i

StoreInv ==
  /\ StoreTypeOK /\ SourceHeld /\ WrittenBefore /\ OwnItem /\ FileFirst
  /\ OverrunIsBounded /\ Matched


\* The rows are some of the items, which are finitely many.
LEMMA RowsAreFinite ==
  ASSUME NEW S \in SUBSET Items
  PROVE  IsFiniteSet(S) /\ Cardinality(S) \in Nat
<1>1. IsFiniteSet(Items)
  BY BoundIsNat, FS_Interval DEF Items
<1> QED
  BY <1>1, FS_Subset, FS_CardinalityType

\* A step that adds no row and lets no import past the check keeps the bound.
LEMMA OverrunShrinks ==
  ASSUME StoreTypeOK, StoreTypeOK', OverrunIsBounded, rows' \subseteq rows,
         \A h \in Importers : Past(h)' => Past(h)
  PROVE  OverrunIsBounded'
<1> DEFINE P == {g \in Importers : Past(g)}
<1>1. P \in SUBSET Importers /\ P' \in SUBSET P
  OBVIOUS
<1>2. Cardinality(rows) + Cardinality(P) <= Quota - 1 + Cardinality(Importers)
  BY DEF OverrunIsBounded
<1> HIDE DEF P
<1>3. IsFiniteSet(P)
  BY <1>1, ImportersAssumption, FS_Subset
<1>4. /\ Cardinality(P) \in Nat /\ Cardinality(P') \in Nat
      /\ Cardinality(P') <= Cardinality(P)
  BY <1>1, <1>3, FS_Subset, FS_CardinalityType
<1>5. IsFiniteSet(rows) /\ rows' \in SUBSET rows
  BY RowsAreFinite DEF StoreTypeOK
<1>6. /\ Cardinality(rows) \in Nat /\ Cardinality(rows') \in Nat
      /\ Cardinality(rows') <= Cardinality(rows)
  BY <1>5, FS_Subset, FS_CardinalityType
<1>7. Cardinality(Importers) \in Nat
  BY ImportersAssumption, FS_CardinalityType
<1>8. Cardinality(rows') + Cardinality(P') <= Quota - 1 + Cardinality(Importers)
  BY <1>2, <1>4, <1>6, <1>7, QuotaIsPositive
<1> QED
  BY <1>8 DEF OverrunIsBounded, P

LEMMA StoreInitInv == StoreInit => StoreInv
<1> SUFFICES ASSUME StoreInit PROVE StoreInv
  OBVIOUS
<1> USE BoundIsNat, NoRefIsNone, ImportersAssumption DEF StoreInit, Kinds, Items
<1>1. StoreTypeOK
  BY DEF StoreTypeOK
<1>2. SourceHeld /\ WrittenBefore /\ OwnItem /\ FileFirst /\ Matched
  BY DEF SourceHeld, WrittenBefore, OwnItem, FileFirst, Matched
<1>3. rows = {} /\ {h \in Importers : Past(h)} = {}
  BY DEF Past
<1>4. Cardinality({}) = 0 /\ Cardinality(Importers) \in Nat
  BY FS_EmptySet, FS_CardinalityType
<1>5. OverrunIsBounded
  <2>1. 0 + 0 <= Quota - 1 + Cardinality(Importers)
    BY <1>4, QuotaIsPositive
  <2>2. Cardinality(rows) = 0 /\ Cardinality({h \in Importers : Past(h)}) = 0
    BY <1>3, <1>4
  <2> QED
    BY <2>1, <2>2 DEF OverrunIsBounded
<1> QED
  BY <1>1, <1>2, <1>5 DEF StoreInv

LEMMA LookupKeeps ==
  ASSUME StoreInv, NEW h \in Importers, NEW r \in Refs \cup {NoRef}, Lookup(h, r)
  PROVE  StoreInv'
<1> USE BoundIsNat, NoRefIsNone, ImportersAssumption
    DEF StoreInv, Lookup, library, importer, deleter,
        storeSeen, Items, Kinds
<1>1. StoreTypeOK'
  <2>1. ipc' \in [Importers -> {"idle", "fetching", "checked", "written", "sourceless", "sourced"}]
    BY DEF StoreTypeOK
  <2>2. iref' \in [Importers -> Refs \cup {NoRef}]
    BY DEF StoreTypeOK
  <2>3. \A g \in Importers : ipc'[g] \in {"written", "sourceless", "sourced"} <=> item'[g] # 0
    BY DEF StoreTypeOK
  <2>4. \A g \in Importers, k \in Kinds : source'[k] = g => ipc'[g] = "sourced"
    BY DEF StoreTypeOK, SourceHeld, Kind
  <2> QED
    BY <2>1, <2>2, <2>3, <2>4 DEF StoreTypeOK
<1>2. SourceHeld'
  BY DEF SourceHeld, StoreTypeOK, Kind
<1>3. OverrunIsBounded'
  BY <1>1, OverrunShrinks DEF Past, StoreTypeOK
<1>4. WrittenBefore' /\ OwnItem' /\ FileFirst' /\ Matched'
  BY DEF WrittenBefore, OwnItem, FileFirst, Matched
<1> QED
  BY <1>1, <1>2, <1>3, <1>4 DEF StoreInv

LEMMA FetchFailsKeeps ==
  ASSUME StoreInv, NEW h \in Importers, FetchFails(h)
  PROVE  StoreInv'
<1> USE BoundIsNat, NoRefIsNone, ImportersAssumption
    DEF StoreInv, FetchFails, EndImport, library, importer, deleter,
        storeSeen, Items, Kinds
<1>1. StoreTypeOK'
  <2>1. ipc' \in [Importers -> {"idle", "fetching", "checked", "written", "sourceless", "sourced"}]
    BY DEF StoreTypeOK
  <2>2. iref' \in [Importers -> Refs \cup {NoRef}]
    BY DEF StoreTypeOK
  <2>3. item' \in [Importers -> 0..LastItem]
    BY DEF StoreTypeOK
  <2>4. \A g \in Importers : ipc'[g] \in {"written", "sourceless", "sourced"} <=> item'[g] # 0
    BY DEF StoreTypeOK
  <2>5. \A g \in Importers, k \in Kinds : source'[k] = g => ipc'[g] = "sourced"
    BY DEF StoreTypeOK, SourceHeld, Kind
  <2> QED
    BY <2>1, <2>2, <2>3, <2>4, <2>5 DEF StoreTypeOK
<1>2. SourceHeld'
  BY DEF SourceHeld, StoreTypeOK, Kind
<1>3. WrittenBefore'
  BY DEF WrittenBefore, StoreTypeOK
<1>4. OwnItem'
  BY DEF OwnItem, StoreTypeOK, WrittenBefore, FileFirst
<1>5. OverrunIsBounded'
  BY <1>1, OverrunShrinks DEF Past, StoreTypeOK
<1>6. Matched'
  BY DEF Matched, StoreTypeOK, OwnItem, FileFirst
<1>7. FileFirst'
  BY DEF FileFirst
<1> QED
  BY <1>1, <1>2, <1>3, <1>4, <1>5, <1>6, <1>7 DEF StoreInv

LEMMA CheckQuotaKeeps ==
  ASSUME StoreInv, NEW h \in Importers, CheckQuota(h)
  PROVE  StoreInv'
<1> USE BoundIsNat, NoRefIsNone, ImportersAssumption
    DEF StoreInv, CheckQuota, library, importer, deleter,
        storeSeen, Items, Kinds
<1>1. StoreTypeOK'
  <2>1. ipc' \in [Importers -> {"idle", "fetching", "checked", "written", "sourceless", "sourced"}]
    BY DEF StoreTypeOK
  <2>2. \A g \in Importers : ipc'[g] \in {"written", "sourceless", "sourced"} <=> item'[g] # 0
    BY DEF StoreTypeOK
  <2>3. \A g \in Importers, k \in Kinds : source'[k] = g => ipc'[g] = "sourced"
    BY DEF StoreTypeOK, SourceHeld, Kind
  <2> QED
    BY <2>1, <2>2, <2>3 DEF StoreTypeOK
<1>2. SourceHeld'
  BY DEF SourceHeld, StoreTypeOK, Kind
<1>3. OverrunIsBounded'
  <2> DEFINE P == {g \in Importers : Past(g)}
  <2>1. P' = P \cup {h} /\ h \notin P /\ P \cup {h} \in SUBSET Importers
    BY <1>1 DEF Past, StoreTypeOK
  <2>2. IsFiniteSet(P) /\ IsFiniteSet(P \cup {h})
    BY <2>1, FS_Subset
  <2> HIDE DEF P
  <2>3. Cardinality(P') \in Nat /\ Cardinality(P') <= Cardinality(Importers)
    BY <2>1, <2>2, FS_Subset, FS_CardinalityType
  <2>4. Cardinality(rows) \in Nat
    BY RowsAreFinite DEF StoreTypeOK
  <2>5. Cardinality(Importers) \in Nat
    BY FS_CardinalityType
  <2>6. Cardinality(rows') + 1 <= Quota
    BY DEF HasRoom
  <2>7. rows' = rows
    OBVIOUS
  <2>8. Cardinality(rows') + Cardinality(P') <= Quota - 1 + Cardinality(Importers)
    BY <2>3, <2>4, <2>5, <2>6, <2>7, QuotaIsPositive
  <2> QED
    BY <2>8 DEF OverrunIsBounded, P
<1>4. WrittenBefore' /\ OwnItem' /\ FileFirst' /\ Matched'
  BY DEF WrittenBefore, OwnItem, FileFirst, Matched
<1> QED
  BY <1>1, <1>2, <1>3, <1>4 DEF StoreInv

LEMMA QuotaExceededKeeps ==
  ASSUME StoreInv, NEW h \in Importers, QuotaExceeded(h)
  PROVE  StoreInv'
<1> USE BoundIsNat, NoRefIsNone, ImportersAssumption
    DEF StoreInv, QuotaExceeded, EndImport, library, importer, deleter,
        storeSeen, Items, Kinds
<1>1. StoreTypeOK'
  <2>1. ipc' \in [Importers -> {"idle", "fetching", "checked", "written", "sourceless", "sourced"}]
    BY DEF StoreTypeOK
  <2>2. iref' \in [Importers -> Refs \cup {NoRef}]
    BY DEF StoreTypeOK
  <2>3. item' \in [Importers -> 0..LastItem]
    BY DEF StoreTypeOK
  <2>4. \A g \in Importers : ipc'[g] \in {"written", "sourceless", "sourced"} <=> item'[g] # 0
    BY DEF StoreTypeOK
  <2>5. \A g \in Importers, k \in Kinds : source'[k] = g => ipc'[g] = "sourced"
    BY DEF StoreTypeOK, SourceHeld, Kind
  <2> QED
    BY <2>1, <2>2, <2>3, <2>4, <2>5 DEF StoreTypeOK
<1>2. SourceHeld'
  BY DEF SourceHeld, StoreTypeOK, Kind
<1>3. WrittenBefore'
  BY DEF WrittenBefore, StoreTypeOK
<1>4. OwnItem'
  BY DEF OwnItem, StoreTypeOK, WrittenBefore, FileFirst
<1>5. OverrunIsBounded'
  BY <1>1, OverrunShrinks DEF Past, StoreTypeOK
<1>6. Matched'
  BY DEF Matched, StoreTypeOK, OwnItem, FileFirst
<1>7. FileFirst'
  BY DEF FileFirst
<1> QED
  BY <1>1, <1>2, <1>3, <1>4, <1>5, <1>6, <1>7 DEF StoreInv

LEMMA MaliciousKeeps ==
  ASSUME StoreInv, NEW h \in Importers, Malicious(h)
  PROVE  StoreInv'
<1> USE BoundIsNat, NoRefIsNone, ImportersAssumption
    DEF StoreInv, Malicious, EndImport, library, importer, deleter,
        storeSeen, Items, Kinds
<1>1. StoreTypeOK'
  <2>1. ipc' \in [Importers -> {"idle", "fetching", "checked", "written", "sourceless", "sourced"}]
    BY DEF StoreTypeOK
  <2>2. iref' \in [Importers -> Refs \cup {NoRef}]
    BY DEF StoreTypeOK
  <2>3. item' \in [Importers -> 0..LastItem]
    BY DEF StoreTypeOK
  <2>4. \A g \in Importers : ipc'[g] \in {"written", "sourceless", "sourced"} <=> item'[g] # 0
    BY DEF StoreTypeOK
  <2>5. \A g \in Importers, k \in Kinds : source'[k] = g => ipc'[g] = "sourced"
    BY DEF StoreTypeOK, SourceHeld, Kind
  <2> QED
    BY <2>1, <2>2, <2>3, <2>4, <2>5 DEF StoreTypeOK
<1>2. SourceHeld'
  BY DEF SourceHeld, StoreTypeOK, Kind
<1>3. WrittenBefore'
  BY DEF WrittenBefore, StoreTypeOK
<1>4. OwnItem'
  BY DEF OwnItem, StoreTypeOK, WrittenBefore, FileFirst
<1>5. OverrunIsBounded'
  BY <1>1, OverrunShrinks DEF Past, StoreTypeOK
<1>6. Matched'
  BY DEF Matched, StoreTypeOK, OwnItem, FileFirst
<1>7. FileFirst'
  BY DEF FileFirst
<1> QED
  BY <1>1, <1>2, <1>3, <1>4, <1>5, <1>6, <1>7 DEF StoreInv

LEMMA WriteFileKeeps ==
  ASSUME StoreInv, NEW h \in Importers, WriteFile(h)
  PROVE  StoreInv'
<1> USE BoundIsNat, NoRefIsNone, ImportersAssumption
    DEF StoreInv, WriteFile, library, importer, deleter,
        storeSeen, Items, Kinds
<1>1. StoreTypeOK'
  <2>1. files' \in SUBSET Items
    BY DEF StoreTypeOK
  <2>2. ref' \in [Items -> Refs \cup {NoRef}]
    BY DEF StoreTypeOK
  <2>3. written' \in 0..LastItem
    BY DEF StoreTypeOK
  <2>4. ipc' \in [Importers -> {"idle", "fetching", "checked", "written", "sourceless", "sourced"}]
    BY DEF StoreTypeOK
  <2>5. item' \in [Importers -> 0..LastItem]
    BY DEF StoreTypeOK
  <2>6. \A g \in Importers : ipc'[g] \in {"written", "sourceless", "sourced"} <=> item'[g] # 0
    BY DEF StoreTypeOK
  <2>7. \A g \in Importers, k \in Kinds : source'[k] = g => ipc'[g] = "sourced"
    BY DEF StoreTypeOK, SourceHeld, Kind
  <2> QED
    BY <2>1, <2>2, <2>3, <2>4, <2>5, <2>6, <2>7 DEF StoreTypeOK
<1>2. SourceHeld'
  BY DEF SourceHeld, StoreTypeOK, Kind
<1>3. WrittenBefore'
  BY DEF WrittenBefore, StoreTypeOK
<1>4. OwnItem'
  BY DEF OwnItem, StoreTypeOK, WrittenBefore, FileFirst
<1>5. FileFirst'
  BY DEF FileFirst, StoreTypeOK, WrittenBefore, OwnItem
<1>6. OverrunIsBounded'
  BY <1>1, OverrunShrinks DEF Past, StoreTypeOK
<1>7. Matched'
  BY DEF Matched, StoreTypeOK, OwnItem, FileFirst
<1> QED
  BY <1>1, <1>2, <1>3, <1>4, <1>5, <1>6, <1>7 DEF StoreInv

LEMMA FindSourceKeeps ==
  ASSUME StoreInv, NEW h \in Importers, FindSource(h)
  PROVE  StoreInv'
<1> USE BoundIsNat, NoRefIsNone, ImportersAssumption
    DEF StoreInv, FindSource, library, importer, deleter,
        storeSeen, Items, Kinds
<1>1. StoreTypeOK'
  <2>1. ipc' \in [Importers -> {"idle", "fetching", "checked", "written", "sourceless", "sourced"}]
    BY DEF StoreTypeOK
  <2>2. \A g \in Importers : ipc'[g] \in {"written", "sourceless", "sourced"} <=> item'[g] # 0
    BY DEF StoreTypeOK
  <2>3. \A g \in Importers, k \in Kinds : source'[k] = g => ipc'[g] = "sourced"
    BY DEF StoreTypeOK, SourceHeld, Kind
  <2> QED
    BY <2>1, <2>2, <2>3 DEF StoreTypeOK
<1>2. SourceHeld'
  BY DEF SourceHeld, StoreTypeOK, Kind
<1>3. OverrunIsBounded'
  BY <1>1, OverrunShrinks DEF Past, StoreTypeOK
<1>4. WrittenBefore' /\ OwnItem' /\ FileFirst' /\ Matched'
  BY DEF WrittenBefore, OwnItem, FileFirst, Matched
<1> QED
  BY <1>1, <1>2, <1>3, <1>4 DEF StoreInv

LEMMA InsertSourceKeeps ==
  ASSUME StoreInv, NEW h \in Importers, InsertSource(h)
  PROVE  StoreInv'
<1> USE BoundIsNat, NoRefIsNone, ImportersAssumption
    DEF StoreInv, InsertSource, library, importer, deleter,
        storeSeen, Items, Kinds
<1>1. StoreTypeOK'
  <2>1. source' \in [Kinds -> {"absent", "present"} \cup Importers]
    BY DEF StoreTypeOK, Kind
  <2>2. ipc' \in [Importers -> {"idle", "fetching", "checked", "written", "sourceless", "sourced"}]
    BY DEF StoreTypeOK
  <2>3. \A g \in Importers : ipc'[g] \in {"written", "sourceless", "sourced"} <=> item'[g] # 0
    BY DEF StoreTypeOK
  <2>4. \A g \in Importers, k \in Kinds : source'[k] = g => ipc'[g] = "sourced"
    BY DEF StoreTypeOK, SourceHeld, Kind
  <2> QED
    BY <2>1, <2>2, <2>3, <2>4 DEF StoreTypeOK
<1>2. SourceHeld'
  BY DEF SourceHeld, StoreTypeOK, Kind
<1>3. OverrunIsBounded'
  BY <1>1, OverrunShrinks DEF Past, StoreTypeOK
<1>4. WrittenBefore' /\ OwnItem' /\ FileFirst' /\ Matched'
  BY DEF WrittenBefore, OwnItem, FileFirst, Matched
<1> QED
  BY <1>1, <1>2, <1>3, <1>4 DEF StoreInv

LEMMA SourceExistsKeeps ==
  ASSUME StoreInv, NEW h \in Importers, SourceExists(h)
  PROVE  StoreInv'
<1> USE BoundIsNat, NoRefIsNone, ImportersAssumption
    DEF StoreInv, SourceExists, EndImport, library, importer, deleter,
        storeSeen, Items, Kinds
<1>1. StoreTypeOK'
  <2>1. ipc' \in [Importers -> {"idle", "fetching", "checked", "written", "sourceless", "sourced"}]
    BY DEF StoreTypeOK
  <2>2. iref' \in [Importers -> Refs \cup {NoRef}]
    BY DEF StoreTypeOK
  <2>3. item' \in [Importers -> 0..LastItem]
    BY DEF StoreTypeOK
  <2>4. orphans' \in SUBSET Items
    <3>1. PICK i : i = item[h]
      OBVIOUS
    <3>2. i \in 0..LastItem /\ i # 0
      BY <3>1 DEF StoreTypeOK, FileFirst
    <3>3. i \in Items
      BY <3>2
    <3> QED
      BY <3>1, <3>3 DEF StoreTypeOK
  <2>5. \A g \in Importers : ipc'[g] \in {"written", "sourceless", "sourced"} <=> item'[g] # 0
    BY DEF StoreTypeOK
  <2>6. \A g \in Importers, k \in Kinds : source'[k] = g => ipc'[g] = "sourced"
    BY DEF StoreTypeOK, SourceHeld, Kind
  <2> QED
    BY <2>1, <2>2, <2>3, <2>4, <2>5, <2>6 DEF StoreTypeOK
<1>2. SourceHeld'
  BY DEF SourceHeld, StoreTypeOK, Kind
<1>3. WrittenBefore'
  BY DEF WrittenBefore, StoreTypeOK
<1>4. OwnItem'
  BY DEF OwnItem, StoreTypeOK, WrittenBefore, FileFirst
<1>5. OverrunIsBounded'
  BY <1>1, OverrunShrinks DEF Past, StoreTypeOK
<1>6. Matched'
  BY DEF Matched, StoreTypeOK, OwnItem, FileFirst
<1>7. FileFirst'
  BY DEF FileFirst
<1> QED
  BY <1>1, <1>2, <1>3, <1>4, <1>5, <1>6, <1>7 DEF StoreInv

LEMMA CommitKeeps ==
  ASSUME StoreInv, NEW h \in Importers, Commit(h)
  PROVE  StoreInv'
<1> USE BoundIsNat, NoRefIsNone, ImportersAssumption
    DEF StoreInv, Commit, EndImport, library, importer, deleter,
        storeSeen, Items, Kinds
<1>1. StoreTypeOK'
  <2>1. rows' \in SUBSET Items
    <3>1. PICK i : i = item[h]
      OBVIOUS
    <3>2. i \in 0..LastItem /\ i # 0
      BY <3>1 DEF StoreTypeOK, FileFirst
    <3>3. i \in Items
      BY <3>2
    <3> QED
      BY <3>1, <3>3 DEF StoreTypeOK
  <2>2. source' \in [Kinds -> {"absent", "present"} \cup Importers]
    BY DEF StoreTypeOK, Kind
  <2>3. ipc' \in [Importers -> {"idle", "fetching", "checked", "written", "sourceless", "sourced"}]
    BY DEF StoreTypeOK
  <2>4. iref' \in [Importers -> Refs \cup {NoRef}]
    BY DEF StoreTypeOK
  <2>5. item' \in [Importers -> 0..LastItem]
    BY DEF StoreTypeOK
  <2>6. \A g \in Importers : ipc'[g] \in {"written", "sourceless", "sourced"} <=> item'[g] # 0
    BY DEF StoreTypeOK
  <2>7. \A g \in Importers, k \in Kinds : source'[k] = g => ipc'[g] = "sourced"
    BY DEF StoreTypeOK, SourceHeld, Kind
  <2> QED
    BY <2>1, <2>2, <2>3, <2>4, <2>5, <2>6, <2>7 DEF StoreTypeOK
<1>2. SourceHeld'
  BY DEF SourceHeld, StoreTypeOK, Kind
<1>3. WrittenBefore'
  BY DEF WrittenBefore, StoreTypeOK
<1>4. OwnItem'
  BY DEF OwnItem, StoreTypeOK, WrittenBefore, FileFirst
<1>5. OverrunIsBounded'
  <2> DEFINE P == {g \in Importers : Past(g)}
  <2>1. P' = P \ {h} /\ h \in P /\ P \in SUBSET Importers
    BY <1>1 DEF Past, StoreTypeOK
  <2>2. IsFiniteSet(P)
    BY <2>1, FS_Subset
  <2>3. Cardinality(rows) + Cardinality(P) <= Quota - 1 + Cardinality(Importers)
    BY DEF OverrunIsBounded
  <2> HIDE DEF P
  <2>4. Cardinality(P) \in Nat /\ Cardinality(P') = Cardinality(P) - 1
    BY <2>1, <2>2, FS_RemoveElement, FS_CardinalityType
  <2>5. PICK i : i = item[h]
    OBVIOUS
  <2>6. IsFiniteSet(rows) /\ Cardinality(rows) \in Nat /\ rows' = rows \cup {i}
    BY <2>5, RowsAreFinite DEF StoreTypeOK
  <2>7. Cardinality(rows') \in {Cardinality(rows), Cardinality(rows) + 1}
    BY <2>6, FS_AddElement
  <2>8. Cardinality(Importers) \in Nat
    BY FS_CardinalityType
  <2>9. Cardinality(rows') + Cardinality(P') <= Quota - 1 + Cardinality(Importers)
    BY <2>3, <2>4, <2>6, <2>7, <2>8, QuotaIsPositive
  <2> QED
    BY <2>9 DEF OverrunIsBounded, P
<1>6. Matched'
  BY DEF Matched, StoreTypeOK, OwnItem, FileFirst
<1>7. FileFirst'
  BY DEF FileFirst
<1> QED
  BY <1>1, <1>2, <1>3, <1>4, <1>5, <1>6, <1>7 DEF StoreInv

LEMMA ImportBreaksKeeps ==
  ASSUME StoreInv, NEW h \in Importers, ImportBreaks(h)
  PROVE  StoreInv'
<1> USE BoundIsNat, NoRefIsNone, ImportersAssumption
    DEF StoreInv, ImportBreaks, EndImport, library, importer, deleter,
        storeSeen, Items, Kinds
<1>1. StoreTypeOK'
  <2>1. source' \in [Kinds -> {"absent", "present"} \cup Importers]
    BY DEF StoreTypeOK, Kind
  <2>2. ipc' \in [Importers -> {"idle", "fetching", "checked", "written", "sourceless", "sourced"}]
    BY DEF StoreTypeOK
  <2>3. iref' \in [Importers -> Refs \cup {NoRef}]
    BY DEF StoreTypeOK
  <2>4. item' \in [Importers -> 0..LastItem]
    BY DEF StoreTypeOK
  <2>5. orphans' \in SUBSET Items
    <3>1. PICK i : i = item[h]
      OBVIOUS
    <3>2. i \in 0..LastItem /\ i # 0
      BY <3>1 DEF StoreTypeOK, FileFirst
    <3>3. i \in Items
      BY <3>2
    <3> QED
      BY <3>1, <3>3 DEF StoreTypeOK
  <2>6. \A g \in Importers : ipc'[g] \in {"written", "sourceless", "sourced"} <=> item'[g] # 0
    BY DEF StoreTypeOK
  <2>7. \A g \in Importers, k \in Kinds : source'[k] = g => ipc'[g] = "sourced"
    BY DEF StoreTypeOK, SourceHeld, Kind
  <2> QED
    BY <2>1, <2>2, <2>3, <2>4, <2>5, <2>6, <2>7 DEF StoreTypeOK
<1>2. SourceHeld'
  BY DEF SourceHeld, StoreTypeOK, Kind
<1>3. WrittenBefore'
  BY DEF WrittenBefore, StoreTypeOK
<1>4. OwnItem'
  BY DEF OwnItem, StoreTypeOK, WrittenBefore, FileFirst
<1>5. OverrunIsBounded'
  BY <1>1, OverrunShrinks DEF Past, StoreTypeOK
<1>6. Matched'
  BY DEF Matched, StoreTypeOK, OwnItem, FileFirst
<1>7. FileFirst'
  BY DEF FileFirst
<1> QED
  BY <1>1, <1>2, <1>3, <1>4, <1>5, <1>6, <1>7 DEF StoreInv

LEMMA LoadItemKeeps ==
  ASSUME StoreInv, NEW d \in Deleters, NEW i \in Items, LoadItem(d, i)
  PROVE  StoreInv'
<1> USE BoundIsNat, NoRefIsNone, ImportersAssumption
    DEF StoreInv, LoadItem, library, importer, deleter,
        storeSeen, Items, Kinds
<1>1. StoreTypeOK'
  <2>1. dpc' \in [Deleters -> {"idle", "loaded", "unlinked"}]
    BY DEF StoreTypeOK
  <2>2. target' \in [Deleters -> 0..LastItem]
    BY DEF StoreTypeOK
  <2> QED
    BY <2>1, <2>2 DEF StoreTypeOK
<1>2. WrittenBefore'
  BY DEF WrittenBefore, StoreTypeOK
<1>3. OwnItem'
  BY DEF OwnItem, StoreTypeOK, WrittenBefore, FileFirst
<1>4. FileFirst'
  BY DEF FileFirst, StoreTypeOK, WrittenBefore, OwnItem
<1>5. Matched'
  BY DEF Matched, StoreTypeOK, OwnItem, FileFirst
<1>6. SourceHeld' /\ OverrunIsBounded'
  BY DEF SourceHeld, OverrunIsBounded, Past, Kind
<1> QED
  BY <1>1, <1>2, <1>3, <1>4, <1>5, <1>6 DEF StoreInv

LEMMA UnlinkFileKeeps ==
  ASSUME StoreInv, NEW d \in Deleters, UnlinkFile(d)
  PROVE  StoreInv'
<1> USE BoundIsNat, NoRefIsNone, ImportersAssumption
    DEF StoreInv, UnlinkFile, library, importer, deleter,
        storeSeen, Items, Kinds
<1>1. StoreTypeOK'
  <2>1. files' \in SUBSET Items
    BY DEF StoreTypeOK
  <2>2. dpc' \in [Deleters -> {"idle", "loaded", "unlinked"}]
    BY DEF StoreTypeOK
  <2> QED
    BY <2>1, <2>2 DEF StoreTypeOK
<1>2. OwnItem'
  BY DEF OwnItem, StoreTypeOK, WrittenBefore, FileFirst
<1>3. FileFirst'
  BY DEF FileFirst, StoreTypeOK, WrittenBefore, OwnItem
<1>4. Matched'
  BY DEF Matched, StoreTypeOK, OwnItem, FileFirst
<1>5. SourceHeld' /\ WrittenBefore' /\ OverrunIsBounded'
  BY DEF SourceHeld, WrittenBefore, OverrunIsBounded, Past, Kind
<1> QED
  BY <1>1, <1>2, <1>3, <1>4, <1>5 DEF StoreInv

LEMMA DeleteRowKeeps ==
  ASSUME StoreInv, NEW d \in Deleters, DeleteRow(d)
  PROVE  StoreInv'
<1> USE BoundIsNat, NoRefIsNone, ImportersAssumption
    DEF StoreInv, DeleteRow, EndDelete, library, importer, deleter,
        storeSeen, Items, Kinds
<1>1. StoreTypeOK'
  <2>1. rows' \in SUBSET Items
    BY DEF StoreTypeOK
  <2>2. dpc' \in [Deleters -> {"idle", "loaded", "unlinked"}]
    BY DEF StoreTypeOK
  <2>3. target' \in [Deleters -> 0..LastItem]
    BY DEF StoreTypeOK
  <2> QED
    BY <2>1, <2>2, <2>3 DEF StoreTypeOK
<1>2. WrittenBefore'
  BY DEF WrittenBefore, StoreTypeOK
<1>3. OwnItem'
  BY DEF OwnItem, StoreTypeOK, WrittenBefore, FileFirst
<1>4. FileFirst'
  BY DEF FileFirst, StoreTypeOK, WrittenBefore, OwnItem
<1>5. OverrunIsBounded'
  BY <1>1, OverrunShrinks DEF Past, StoreTypeOK
<1>6. Matched'
  BY DEF Matched, StoreTypeOK, OwnItem, FileFirst
<1>7. SourceHeld'
  BY DEF SourceHeld, Kind
<1> QED
  BY <1>1, <1>2, <1>3, <1>4, <1>5, <1>6, <1>7 DEF StoreInv

LEMMA DeleteBreaksKeeps ==
  ASSUME StoreInv, NEW d \in Deleters, DeleteBreaks(d)
  PROVE  StoreInv'
<1> USE BoundIsNat, NoRefIsNone, ImportersAssumption
    DEF StoreInv, DeleteBreaks, EndDelete, library, importer, deleter,
        storeSeen, Items, Kinds
<1>1. StoreTypeOK'
  <2>1. dpc' \in [Deleters -> {"idle", "loaded", "unlinked"}]
    BY DEF StoreTypeOK
  <2>2. target' \in [Deleters -> 0..LastItem]
    BY DEF StoreTypeOK
  <2>3. halved' \in SUBSET Items
    <3>1. PICK i : i = target[d]
      OBVIOUS
    <3>2. i \in 0..LastItem /\ i # 0
      BY <3>1 DEF StoreTypeOK, FileFirst
    <3>3. i \in Items
      BY <3>2
    <3> QED
      BY <3>1, <3>3 DEF StoreTypeOK
  <2> QED
    BY <2>1, <2>2, <2>3 DEF StoreTypeOK
<1>2. WrittenBefore'
  BY DEF WrittenBefore, StoreTypeOK
<1>3. OwnItem'
  BY DEF OwnItem, StoreTypeOK, WrittenBefore, FileFirst
<1>4. FileFirst'
  BY DEF FileFirst, StoreTypeOK, WrittenBefore, OwnItem
<1>5. Matched'
  BY DEF Matched, StoreTypeOK, OwnItem, FileFirst
<1>6. SourceHeld' /\ OverrunIsBounded'
  BY DEF SourceHeld, OverrunIsBounded, Past, Kind
<1> QED
  BY <1>1, <1>2, <1>3, <1>4, <1>5, <1>6 DEF StoreInv

LEMMA StoreStepInv == StoreInv /\ [StoreNext]_StoreVars => StoreInv'
<1> SUFFICES ASSUME StoreInv, [StoreNext]_StoreVars PROVE StoreInv'
  OBVIOUS
<1>1. CASE UNCHANGED StoreVars
  BY <1>1 DEF StoreVars, library, importer, deleter, storeSeen, StoreInv,
         StoreTypeOK, SourceHeld, WrittenBefore, OwnItem, FileFirst,
         OverrunIsBounded, Matched, Past
<1>2. CASE StoreNext
  BY <1>2, LookupKeeps, FetchFailsKeeps, CheckQuotaKeeps, QuotaExceededKeeps,
     MaliciousKeeps, WriteFileKeeps, FindSourceKeeps, InsertSourceKeeps,
     SourceExistsKeeps, CommitKeeps, ImportBreaksKeeps, LoadItemKeeps,
     UnlinkFileKeeps, DeleteRowKeeps, DeleteBreaksKeeps
     DEF StoreNext
<1> QED
  BY <1>1, <1>2

\* The parts of the invariant hold of every reachable library, for any numbers
\* of imports, deletions and books and any quota (services/library.py).
THEOREM LibraryInvariance == StoreSpec => []StoreInv
  BY StoreInitInv, StoreStepInv, PTL DEF StoreSpec

\* However many imports pass the check of the quota at once, the library passes
\* its quota by fewer books than there are imports (ensure_storage_quota).
THEOREM OverrunBounded == StoreSpec => []OverrunIsBounded
<1>1. StoreInv => OverrunIsBounded
  BY DEF StoreInv
<1> QED
  BY <1>1, LibraryInvariance, PTL

\* A listed book has its file and a kept file its book, but for what a handler
\* is at work on or left half done (delete_library_item, add_item).
THEOREM FilesMatchRows == StoreSpec => []RowsHaveFiles
<1>1. StoreInv => RowsHaveFiles
  BY DEF StoreInv, Matched, RowsHaveFiles, Deleting
<1> QED
  BY <1>1, LibraryInvariance, PTL

\* A behavior about one of the limits is one of each: the others stutter.
LEMMA PartsAreAll == Spec => MailSpec /\ StoreSpec /\ CacheSpec
<1>1. Init => MailInit /\ StoreInit /\ CacheInit
  BY DEF Init
<1>2. [Next]_vars => [MailNext]_MailVars /\ [StoreNext]_StoreVars /\ [CacheNext]_CacheVars
  BY DEF Next, vars
<1> QED
  BY <1>1, <1>2, PTL DEF Spec, MailSpec, StoreSpec, CacheSpec

\* Imports pass the storage quota by a bounded amount, and a row is without its
\* file only while it is deleted, or after a deletion that broke: what the run
\* of the limits checks of one library, for any (services/library.py).
THEOREM StorageIsKept == Spec => []StorageHolds
<1>1. MailInv /\ StoreInv => MailTypeOK /\ StoreTypeOK
  BY DEF MailInv, StoreInv
<1> QED
  BY <1>1, PartsAreAll, MailInvariance, LibraryInvariance, OverrunBounded,
     FilesMatchRows, PTL DEF StorageHolds

-----------------------------------------------------------------------------
(***************************************************************************)
(* The entry of the conversion cache. IInv is inductive; its preservation  *)
(* is proved action by action.                                             *)
(***************************************************************************)

\* The invariant holds of a cache without the entry.
LEMMA InitIInv == CacheInit => IInv
  BY DEF CacheInit, IInv, CacheTypeOK, OpenInv, PartialInv, SmallInv, OverlapInv,
      BrokenNeedsCause, Busy

LEMMA HitKeeps ==
  ASSUME IInv, NEW r \in Requests, Hit(r)
  PROVE  IInv'
<1> USE DEF Hit, entry, observed, Busy, Underway, IInv, CacheTypeOK
<1>1. CacheTypeOK'
  OBVIOUS
<1>2. OpenInv'
  BY DEF OpenInv
<1>3. PartialInv'
  BY DEF PartialInv
<1>4. SmallInv'
  BY DEF SmallInv
<1>5. OverlapInv'
  BY DEF OverlapInv
<1>6. BrokenNeedsCause'
  BY DEF BrokenNeedsCause, PartialInv, SmallInv
<1> QED BY <1>1, <1>2, <1>3, <1>4, <1>5, <1>6

LEMMA MissKeeps ==
  ASSUME IInv, NEW r \in Requests, Miss(r)
  PROVE  IInv'
<1> USE DEF Miss, entry, observed, Busy, Underway, IInv, CacheTypeOK
<1>1. CacheTypeOK'
  OBVIOUS
<1>2. OpenInv'
  BY DEF OpenInv
<1>3. PartialInv'
  BY DEF PartialInv
<1>4. SmallInv'
  BY DEF SmallInv
<1>5. OverlapInv'
  BY DEF OverlapInv, OpenInv
<1>6. BrokenNeedsCause'
  BY DEF BrokenNeedsCause
<1> QED BY <1>1, <1>2, <1>3, <1>4, <1>5, <1>6

LEMMA OpenKeeps ==
  ASSUME IInv, NEW r \in Requests, Open(r)
  PROVE  IInv'
<1> USE DEF Open, entry, observed, Busy, Underway, IInv, CacheTypeOK
<1>1. CacheTypeOK'
  OBVIOUS
<1>2. OpenInv'
  BY DEF OpenInv
<1>3. PartialInv'
  BY DEF PartialInv
<1>4. SmallInv'
  BY DEF SmallInv
<1>5. OverlapInv'
  BY DEF OverlapInv
<1>6. BrokenNeedsCause'
  BY DEF BrokenNeedsCause
<1> QED BY <1>1, <1>2, <1>3, <1>4, <1>5, <1>6

LEMMA FinishKeeps ==
  ASSUME IInv, NEW r \in Requests, Finish(r)
  PROVE  IInv'
<1> USE DEF Finish, entry, observed, Busy, Underway, IInv, CacheTypeOK, Left
<1>1. CacheTypeOK'
  OBVIOUS
<1>2. OpenInv'
  BY DEF OpenInv
<1>3. PartialInv'
  BY DEF PartialInv
<1>4. SmallInv'
  BY DEF SmallInv
<1>5. OverlapInv'
  BY DEF OverlapInv
<1>6. BrokenNeedsCause'
  BY DEF BrokenNeedsCause, OverlapInv
<1> QED BY <1>1, <1>2, <1>3, <1>4, <1>5, <1>6

LEMMA BreakKeeps ==
  ASSUME IInv, NEW r \in Requests, Break(r)
  PROVE  IInv'
<1> USE DEF Break, entry, observed, Busy, Underway, IInv, CacheTypeOK
<1>1. CacheTypeOK'
  OBVIOUS
<1>2. OpenInv'
  BY DEF OpenInv
<1>3. PartialInv'
  BY DEF PartialInv
<1>4. SmallInv'
  BY DEF SmallInv
<1>5. OverlapInv'
  BY DEF OverlapInv
<1>6. BrokenNeedsCause'
  BY DEF BrokenNeedsCause
<1> QED BY <1>1, <1>2, <1>3, <1>4, <1>5, <1>6

LEMMA CheckKeeps ==
  ASSUME IInv, NEW r \in Requests, Check(r)
  PROVE  IInv'
<1> USE DEF Check, entry, observed, Busy, Underway, IInv, CacheTypeOK
<1>1. CacheTypeOK'
  OBVIOUS
<1>2. OpenInv'
  BY DEF OpenInv
<1>3. PartialInv'
  BY DEF PartialInv
<1>4. SmallInv'
  BY DEF SmallInv
<1>5. OverlapInv'
  BY DEF OverlapInv
<1>6. BrokenNeedsCause'
  BY DEF BrokenNeedsCause, PartialInv, OverlapInv
<1> QED BY <1>1, <1>2, <1>3, <1>4, <1>5, <1>6

LEMMA UseKeeps ==
  ASSUME IInv, NEW r \in Requests, Use(r)
  PROVE  IInv'
<1> USE DEF Use, entry, observed, Busy, Underway, IInv, CacheTypeOK
<1>1. CacheTypeOK'
  OBVIOUS
<1>2. OpenInv'
  BY DEF OpenInv
<1>3. PartialInv'
  BY DEF PartialInv
<1>4. SmallInv'
  BY DEF SmallInv
<1>5. OverlapInv'
  BY DEF OverlapInv
<1>6. BrokenNeedsCause'
  BY DEF BrokenNeedsCause
<1> QED BY <1>1, <1>2, <1>3, <1>4, <1>5, <1>6

LEMMA AgeKeeps ==
  ASSUME IInv, Age
  PROVE  IInv'
<1> USE DEF Age, entry, observed, Busy, Underway, IInv, CacheTypeOK
<1>1. CacheTypeOK'
  OBVIOUS
<1>2. OpenInv'
  BY DEF OpenInv
<1>3. PartialInv'
  BY DEF PartialInv
<1>4. SmallInv'
  BY DEF SmallInv
<1>5. OverlapInv'
  BY DEF OverlapInv
<1>6. BrokenNeedsCause'
  BY DEF BrokenNeedsCause
<1> QED BY <1>1, <1>2, <1>3, <1>4, <1>5, <1>6

LEMMA CrashKeeps ==
  ASSUME IInv, Crash
  PROVE  IInv'
<1> USE DEF Crash, entry, observed, Busy, Underway, IInv, CacheTypeOK
<1>1. CacheTypeOK'
  OBVIOUS
<1>2. OpenInv'
  BY DEF OpenInv
<1>3. PartialInv'
  BY DEF PartialInv
<1>4. SmallInv'
  BY DEF SmallInv
<1>5. OverlapInv'
  BY DEF OverlapInv
<1>6. BrokenNeedsCause'
  BY DEF BrokenNeedsCause
<1> QED BY <1>1, <1>2, <1>3, <1>4, <1>5, <1>6

-----------------------------------------------------------------------------
\* IInv holds in every reachable state of the cache entry, whatever the
\* callers, their failures and the stops of the process.
THEOREM CacheInvariance == CacheSpec => []IInv
<1>1. IInv /\ [CacheNext]_CacheVars => IInv'
  <2> SUFFICES ASSUME IInv, [CacheNext]_CacheVars PROVE IInv'
    OBVIOUS
  <2>1. CASE UNCHANGED CacheVars
    BY <2>1 DEF CacheVars, entry, observed, IInv, CacheTypeOK, OpenInv, PartialInv,
        SmallInv, OverlapInv, BrokenNeedsCause, Busy
  <2>2. ASSUME NEW r \in Requests,
               Hit(r) \/ Miss(r) \/ Open(r) \/ Finish(r) \/ Break(r)
                 \/ Check(r) \/ Use(r)
        PROVE  IInv'
    BY <2>2, HitKeeps, MissKeeps, OpenKeeps, FinishKeeps, BreakKeeps,
        CheckKeeps, UseKeeps
  <2>3. CASE Age
    BY <2>3, AgeKeeps
  <2>4. CASE Crash
    BY <2>4, CrashKeeps
  <2> QED BY <2>1, <2>2, <2>3, <2>4 DEF CacheNext
<1> QED BY InitIInv, <1>1, PTL DEF CacheSpec

\* Every variable of the cache entry keeps its type.
THEOREM CacheTypeCorrect == CacheSpec => []CacheTypeOK
<1>1. IInv => CacheTypeOK
  BY DEF IInv
<1> QED BY <1>1, CacheInvariance, PTL

\* materialize_target_format hands a broken file to a caller only after a
\* failed conversion of that entry, or while another caller converts it.
THEOREM BrokenHasCause == CacheSpec => []BrokenNeedsCause
<1>1. IInv => BrokenNeedsCause
  BY DEF IInv
<1> QED BY <1>1, CacheInvariance, PTL

\* What get_cached finds once no converter runs is whole, unless a
\* conversion failed or its caller has still to refuse the output.
THEOREM WholeWhenAtRest == CacheSpec => []WholeAtRest
<1>1. IInv => WholeAtRest
  BY DEF IInv, PartialInv, SmallInv, WholeAtRest
<1> QED BY <1>1, CacheInvariance, PTL
=============================================================================
