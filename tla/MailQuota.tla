------------------------------ MODULE MailQuota ------------------------------
(***************************************************************************)
(* The quotas of the mail relay (services/mail_policy.py): per user and    *)
(* hour, and per platform and day.  A quota is a SELECT count, apart from  *)
(* the INSERT it allows: by the delivery request, again by the run, by a   *)
(* retry, and by the test message (api/mail.py), which alone takes a lock. *)
(*                                                                         *)
(* What is counted is the ledger: the rows, by their created_at, and the   *)
(* time stamps of tests.  A retry sends again under the row it has, and a  *)
(* device takes its rows with it when it is deleted (models.py, CASCADE),  *)
(* so that when a send goes to the relay is a state of its own here.       *)
(***************************************************************************)
EXTENDS Naturals, FiniteSets

CONSTANTS
  Users, NoUser,
  Sends,        \* bound: the deliveries and test messages that are made
  HourlyQuota,  \* settings.email_send_hourly_quota
  DailyQuota    \* settings.email_send_daily_quota

ASSUME UsersAssumption == NoUser \notin Users
ASSUME SendsAssumption == IsFiniteSet(Sends)
ASSUME QuotaAssumption == HourlyQuota \in Nat \ {0} /\ DailyQuota \in Nat \ {0}

VARIABLES
  state,   \* where each delivery or test message stands
  owner,
  age,     \* of its created_at or time stamp: see Ages
  relayed  \* observed: the age of its last going to the relay, "none" after a day

MailVars == <<state, owner, age, relayed>>

\* A send is recorded once its row or time stamp is committed.
\* "sent" is one that a run sends, or has sent.
Recorded == {"queued", "sent", "failed", "requeueing", "tested"}
Unrecorded == {"none", "admitted", "testing", "erased"}
Ages == {"none", "hour", "day", "older"}

MailInit ==
  /\ state = [s \in Sends |-> "none"]
  /\ owner = [s \in Sends |-> NoUser]
  /\ age = [s \in Sends |-> "none"]
  /\ relayed = [s \in Sends |-> "none"]

-----------------------------------------------------------------------------
\* count_recent_email_sends, with and without a user.
LastHour(u) == {s \in Sends : owner[s] = u /\ age[s] = "hour"}
LastDay == {s \in Sends : age[s] \in {"hour", "day"}}

\* enforce_send_quota; its two counts are read in turn, here at once.
BelowQuota(u) ==
  Cardinality(LastHour(u)) < HourlyQuota /\ Cardinality(LastDay) < DailyQuota

Move(s, to) == state' = [state EXCEPT ![s] = to]
Relay(s) == relayed' = [relayed EXCEPT ![s] = "hour"]

-----------------------------------------------------------------------------
\* create_delivery: the check, then the row.
AdmitDelivery(s, u) ==
  /\ state[s] = "none" /\ BelowQuota(u)
  /\ Move(s, "admitted")
  /\ owner' = [owner EXCEPT ![s] = u]
  /\ UNCHANGED <<age, relayed>>

InsertDelivery(s) ==
  /\ state[s] = "admitted"
  /\ Move(s, "queued")
  /\ age' = [age EXCEPT ![s] = "hour"]
  /\ UNCHANGED <<owner, relayed>>

\* Faulty variant: the run trusts the request's check.
RunPassesUnchecked(s) ==
  /\ state[s] = "queued"
  /\ Move(s, "sent")
  /\ Relay(s)
  /\ UNCHANGED <<owner, age>>

\* deliver_tier_a checks again; the job's own row is among those it counts.
RunPasses(s) ==
  /\ state[s] = "queued" /\ BelowQuota(owner[s])
  /\ Move(s, "sent")
  /\ Relay(s)
  /\ UNCHANGED <<owner, age>>

RunRefused(s) ==
  /\ state[s] = "queued" /\ ~BelowQuota(owner[s])
  /\ Move(s, "failed")
  /\ UNCHANGED <<owner, age, relayed>>

\* The relay refuses it, or a step of the run fails.
RunFails(s) ==
  /\ state[s] = "sent"
  /\ Move(s, "failed")
  /\ UNCHANGED <<owner, age, relayed>>

\* retry_delivery: the check, then the commit; created_at stays.
AdmitRetry(s) ==
  /\ state[s] = "failed" /\ BelowQuota(owner[s])
  /\ Move(s, "requeueing")
  /\ UNCHANGED <<owner, age, relayed>>

Requeue(s) ==
  /\ state[s] = "requeueing"
  /\ Move(s, "queued")
  /\ UNCHANGED <<owner, age, relayed>>

-----------------------------------------------------------------------------
\* POST /mail/test: pg_advisory_xact_lock from the check to the commit of the
\* time stamp.
AdmitTest(s, u) ==
  /\ state[s] = "none" /\ BelowQuota(u)
  /\ \A r \in Sends : state[r] # "testing"
  /\ Move(s, "testing")
  /\ owner' = [owner EXCEPT ![s] = u]
  /\ UNCHANGED <<age, relayed>>

RecordTest(s) ==
  /\ state[s] = "testing"
  /\ Move(s, "tested")
  /\ age' = [age EXCEPT ![s] = "hour"]
  /\ Relay(s)
  /\ UNCHANGED owner

\* delete_device: the rows of its deliveries go too; a run then writes nothing.
EraseRow(s) ==
  /\ state[s] \in Recorded \ {"tested"}
  /\ Move(s, "erased")
  /\ age' = [age EXCEPT ![s] = "none"]
  /\ UNCHANGED <<owner, relayed>>

\* An hour, a day has passed since the send was recorded, and since it went to
\* the relay, unless that was at a later retry.
Grow(s) ==
  /\ \/ /\ age[s] = "hour" /\ age' = [age EXCEPT ![s] = "day"]
        /\ relayed' = [relayed EXCEPT ![s] = IF @ = "hour" THEN "day" ELSE @]
     \/ /\ age[s] = "day" /\ age' = [age EXCEPT ![s] = "older"]
        /\ relayed' = [relayed EXCEPT ![s] = IF @ = "day" THEN "none" ELSE @]
  /\ UNCHANGED <<state, owner>>

\* And since that retry, or since the send whose row is gone.
RelayGrows(s) ==
  /\ relayed[s] # age[s]
  /\ \/ relayed[s] = "hour" /\ relayed' = [relayed EXCEPT ![s] = "day"]
     \/ relayed[s] = "day" /\ relayed' = [relayed EXCEPT ![s] = "none"]
  /\ UNCHANGED <<state, owner, age>>

MailNext ==
  \E s \in Sends :
    \/ \E u \in Users : AdmitDelivery(s, u) \/ AdmitTest(s, u)
    \/ InsertDelivery(s) \/ RunPasses(s) \/ RunRefused(s) \/ RunFails(s)
    \/ AdmitRetry(s) \/ Requeue(s)
    \/ RecordTest(s) \/ EraseRow(s) \/ Grow(s) \/ RelayGrows(s)

MailSpec == MailInit /\ [][MailNext]_MailVars

-----------------------------------------------------------------------------
MailTypeOK ==
  /\ state \in [Sends -> Recorded \union Unrecorded]
  /\ owner \in [Sends -> Users \union {NoUser}]
  /\ age \in [Sends -> Ages]
  /\ relayed \in [Sends -> {"none", "hour", "day"}]
  /\ \A s \in Sends : age[s] = "none" <=> state[s] \in Unrecorded

RelayedInHour(u) == {s \in Sends : owner[s] = u /\ relayed[s] = "hour"}
RelayedInDay     == {s \in Sends : relayed[s] \in {"hour", "day"}}

(***************************************************************************)
(* However requests, runs, retries and tests interleave, a user's sends    *)
(* that went to the relay in the last hour and are recorded in it stay     *)
(* within the hourly quota, and those of the last day within the daily     *)
(* one.  What goes to the relay beyond the quotas is therefore either the  *)
(* retry of a row made before that hour or day, or a delivery whose row    *)
(* went with its device; and a row is one send, retried or not.            *)
(***************************************************************************)
QuotasHold ==
  /\ \A u \in Users : Cardinality(RelayedInHour(u) \intersect LastHour(u)) <= HourlyQuota
  /\ Cardinality(RelayedInDay \intersect LastDay) <= DailyQuota

(***************************************************************************)
(* What config.py says of the quotas, that they are of sends by email: in  *)
(* an hour, of a user, and in a day, of all, no more go to the relay.  It  *)
(* is not so: see QuotasHold.                                              *)
(***************************************************************************)
SendsStayWithinQuotas ==
  /\ \A u \in Users : Cardinality(RelayedInHour(u)) <= HourlyQuota
  /\ Cardinality(RelayedInDay) <= DailyQuota
=============================================================================
