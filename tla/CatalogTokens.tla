---------------------------- MODULE CatalogTokens ----------------------------
(***************************************************************************)
(* The access tokens of one user's OPDS catalog (services/opds.py,         *)
(* api/opds.py): created by the owner or by a delivery to a reader that    *)
(* needs a catalog, used by downloads, revoked, expired, exhausted.        *)
(*                                                                         *)
(* Tokens are numbered in their order of creation.  A delivery holds a     *)
(* FOR UPDATE lock on the user's row from its search for a token to its    *)
(* next commit; an INSERT of a token checks its foreign key to that row    *)
(* and therefore waits for the lock too.                                   *)
(***************************************************************************)
EXTENDS Naturals

CONSTANTS LastToken,  \* bound: tokens ever created
          MaxCount,   \* bound: downloads followed on one token
          Limits,     \* the max_downloads the owner may choose
          Unlimited,  \* no max_downloads
          Labels,     \* names of readers
          Deliveries, Downloads, TokenRequests, \* concurrent handlers
          NoDelivery

ASSUME BoundsAreNat == LastToken \in Nat /\ MaxCount \in Nat
ASSUME NobodyIsNoDelivery == NoDelivery \notin Deliveries
ASSUME LimitsArePositive == Limits \subseteq (Nat \ {0}) \cup {Unlimited}

Tokens == 1..LastToken

VARIABLES
  tok,          \* the opds_tokens rows
  created,      \* number of rows
  holder,       \* the delivery that holds the lock of the user's row
  dpc, dlabel, dtok, \* deliveries: progress, reader, token found or created
  rpc, rtok,    \* downloads: progress, token resolved
  qpc, qtok     \* revocation requests: progress, token loaded

rows      == <<tok, created>>
delivery  == <<holder, dpc, dlabel, dtok>>
download  == <<rpc, rtok>>
request   == <<qpc, qtok>>
TokenVars      == <<rows, delivery, download, request>>

NoRow == [label |-> "none", max |-> 0, count |-> 0, revoked |-> FALSE,
          expired |-> FALSE, encrypted |-> FALSE, byDelivery |-> FALSE]

TokenInit ==
  /\ tok = [t \in Tokens |-> NoRow] /\ created = 0
  /\ holder = NoDelivery
  /\ dpc = [d \in Deliveries |-> "idle"]
  /\ dlabel = [d \in Deliveries |-> "none"] /\ dtok = [d \in Deliveries |-> 0]
  /\ rpc = [x \in Downloads |-> "idle"] /\ rtok = [x \in Downloads |-> 0]
  /\ qpc = [q \in TokenRequests |-> "idle"] /\ qtok = [q \in TokenRequests |-> 0]

Issued == 1..created

\* _active_token_conditions
Active(t) ==
  /\ ~tok[t].revoked /\ ~tok[t].expired
  /\ tok[t].max # Unlimited => tok[t].count < tok[t].max

ActiveFor(l) == {t \in Issued : tok[t].label = l /\ Active(t)}

\* The oldest active token with the label: ORDER BY created_at, id LIMIT 1.
OldestFor(l, t) == t \in ActiveFor(l) /\ \A u \in ActiveFor(l) : t <= u

create_token(l, max, encrypted, byDelivery) ==
  /\ created < LastToken
  /\ created' = created + 1
  /\ tok' = [tok EXCEPT ![created'] =
               [label |-> l, max |-> max, count |-> 0, revoked |-> FALSE,
                expired |-> FALSE, encrypted |-> encrypted, byDelivery |-> byDelivery]]

-----------------------------------------------------------------------------
(* The owner.                                                              *)

\* The link is kept only when the platform has an encryption key: tokens
\* from before it was configured have none.
create_opds_token ==
  /\ holder = NoDelivery
  /\ \E l \in Labels, max \in Limits, encrypted \in BOOLEAN :
       create_token(l, max, encrypted, FALSE)
  /\ UNCHANGED <<delivery, download, request>>

LoadForRevoke(q, t) ==
  /\ qpc[q] = "idle" /\ t \in Issued /\ ~tok[t].revoked
  /\ qpc' = [qpc EXCEPT ![q] = "loaded"] /\ qtok' = [qtok EXCEPT ![q] = t]
  /\ UNCHANGED <<rows, delivery, download>>

revoke_token(q) ==
  /\ qpc[q] = "loaded"
  /\ tok' = [tok EXCEPT ![qtok[q]].revoked = TRUE]
  /\ qpc' = [qpc EXCEPT ![q] = "idle"] /\ qtok' = [qtok EXCEPT ![q] = 0]
  /\ UNCHANGED <<created, delivery, download>>

\* Only a token of the owner has an expiry.
TokenExpire(t) ==
  /\ t \in Issued /\ ~tok[t].expired /\ ~tok[t].byDelivery
  /\ tok' = [tok EXCEPT ![t].expired = TRUE]
  /\ UNCHANGED <<created, delivery, download, request>>

-----------------------------------------------------------------------------
(* A delivery by catalog: device_catalog, then the job is committed sent.  *)

\* Faulty variant: the user's row is read without FOR UPDATE.
LockOwnerShared(d, l) ==
  /\ dpc[d] = "idle"
  /\ holder' = NoDelivery
  /\ dpc' = [dpc EXCEPT ![d] = "locked"] /\ dlabel' = [dlabel EXCEPT ![d] = l]
  /\ UNCHANGED <<rows, dtok, download, request>>

LockOwner(d, l) ==
  /\ dpc[d] = "idle" /\ holder = NoDelivery
  /\ holder' = d
  /\ dpc' = [dpc EXCEPT ![d] = "locked"] /\ dlabel' = [dlabel EXCEPT ![d] = l]
  /\ UNCHANGED <<rows, dtok, download, request>>

\* A commit, or the rollback of a failed or interrupted delivery.
ReleaseOwner(d) == holder' = IF holder = d THEN NoDelivery ELSE holder

Reuse(d) ==
  /\ dpc[d] = "locked"
  /\ \E t \in Issued :
       /\ OldestFor(dlabel[d], t)
       /\ IF tok[t].encrypted
          THEN /\ dpc' = [dpc EXCEPT ![d] = "linked"] /\ dtok' = [dtok EXCEPT ![d] = t]
               /\ UNCHANGED holder
          ELSE /\ dpc' = [dpc EXCEPT ![d] = "failed"] /\ UNCHANGED dtok
               /\ ReleaseOwner(d)
  /\ UNCHANGED <<rows, dlabel, download, request>>

FindNone(d) ==
  /\ dpc[d] = "locked" /\ ActiveFor(dlabel[d]) = {}
  /\ dpc' = [dpc EXCEPT ![d] = "creating"]
  /\ UNCHANGED <<rows, holder, dlabel, dtok, download, request>>

CreateCatalog(d) ==
  /\ dpc[d] = "creating"
  /\ create_token(dlabel[d], Unlimited, TRUE, TRUE)
  /\ ReleaseOwner(d)
  /\ dpc' = [dpc EXCEPT ![d] = "linked"] /\ dtok' = [dtok EXCEPT ![d] = created']
  /\ UNCHANGED <<dlabel, download, request>>

\* catalog_token_hash and the status sent are committed.
Publish(d) ==
  /\ dpc[d] = "linked"
  /\ dpc' = [dpc EXCEPT ![d] = "sent"]
  /\ ReleaseOwner(d)
  /\ UNCHANGED <<rows, dlabel, dtok, download, request>>

\* The process stops, or a query fails: what was not committed is undone.
Interrupt(d) ==
  /\ dpc[d] \in {"locked", "creating", "linked"}
  /\ dpc' = [dpc EXCEPT ![d] = "failed"]
  /\ ReleaseOwner(d)
  /\ UNCHANGED <<rows, dlabel, dtok, download, request>>

\* The reader's next delivery.
Again(d) ==
  /\ dpc[d] \in {"sent", "failed"}
  /\ dpc' = [dpc EXCEPT ![d] = "idle"]
  /\ dlabel' = [dlabel EXCEPT ![d] = "none"] /\ dtok' = [dtok EXCEPT ![d] = 0]
  /\ UNCHANGED <<rows, holder, download, request>>

-----------------------------------------------------------------------------
(* A download: the token is resolved, the book looked up, the download     *)
(* counted by a conditional UPDATE, and the file sent if a row matched.    *)

resolve_token(x, t) ==
  /\ rpc[x] = "idle" /\ t \in Issued /\ Active(t)
  /\ rpc' = [rpc EXCEPT ![x] = "resolved"] /\ rtok' = [rtok EXCEPT ![x] = t]
  /\ UNCHANGED <<rows, delivery, request>>

EndDownload(x) ==
  /\ rpc' = [rpc EXCEPT ![x] = "idle"] /\ rtok' = [rtok EXCEPT ![x] = 0]

BookMissing(x) ==
  /\ rpc[x] = "resolved"
  /\ EndDownload(x)
  /\ UNCHANGED <<rows, delivery, request>>

\* Faulty variant: what resolve_token found is not tested again.
consume_downloadUnchecked(x) ==
  /\ rpc[x] = "resolved" /\ tok[rtok[x]].count < MaxCount
  /\ tok' = [tok EXCEPT ![rtok[x]].count = @ + 1]
  /\ EndDownload(x)
  /\ UNCHANGED <<created, delivery, request>>

\* A download that finds the token no longer active changes nothing (404).
consume_download(x) ==
  /\ rpc[x] = "resolved" /\ tok[rtok[x]].count < MaxCount
  /\ tok' = IF Active(rtok[x]) THEN [tok EXCEPT ![rtok[x]].count = @ + 1] ELSE tok
  /\ EndDownload(x)
  /\ UNCHANGED <<created, delivery, request>>

-----------------------------------------------------------------------------
TokenNext ==
  \/ create_opds_token
  \/ \E q \in TokenRequests : revoke_token(q) \/ \E t \in Tokens : LoadForRevoke(q, t)
  \/ \E t \in Tokens : TokenExpire(t)
  \/ \E d \in Deliveries :
       \/ \E l \in Labels : LockOwner(d, l)
       \/ Reuse(d)
       \/ FindNone(d)
       \/ CreateCatalog(d)
       \/ Publish(d)
       \/ Interrupt(d)
       \/ Again(d)
  \/ \E x \in Downloads :
       \/ \E t \in Tokens : resolve_token(x, t)
       \/ BookMissing(x)
       \/ consume_download(x)

TokenSpec == TokenInit /\ [][TokenNext]_TokenVars

-----------------------------------------------------------------------------
TokenTypeOK ==
  /\ tok \in [Tokens -> [label : Labels \cup {"none"}, max : Limits \cup {0, Unlimited},
                         count : 0..MaxCount, revoked : BOOLEAN, expired : BOOLEAN,
                         encrypted : BOOLEAN, byDelivery : BOOLEAN]]
  /\ created \in 0..LastToken
  /\ holder \in Deliveries \cup {NoDelivery}
  /\ dpc \in [Deliveries -> {"idle", "locked", "creating", "linked", "sent", "failed"}]
  /\ dlabel \in [Deliveries -> Labels \cup {"none"}]
  /\ dtok \in [Deliveries -> 0..LastToken]
  /\ rpc \in [Downloads -> {"idle", "resolved"}] /\ rtok \in [Downloads -> 0..LastToken]
  /\ qpc \in [TokenRequests -> {"idle", "loaded"}] /\ qtok \in [TokenRequests -> 0..LastToken]
  /\ \A d \in Deliveries : dpc[d] \in {"locked", "creating"} => holder = d
  /\ \A x \in Downloads : rpc[x] = "resolved" <=> rtok[x] \in Issued
  /\ \A q \in TokenRequests : qpc[q] = "loaded" <=> qtok[q] \in Issued

\* However its deliveries overlap with each other, with the owner's requests
\* and with crashes, a reader never gets a second working catalog link: a
\* delivery adds a token only when no token of that name is active (ADR 0017).
OneCatalogPerReader ==
  [][\A t \in Tokens :
       (t = created' /\ created' # created /\ tok'[t].byDelivery)
         => \A u \in Issued \ {t} : tok[u].label = tok'[t].label => ~Active(u)]_TokenVars

\* Every token is a grant: no download is accepted beyond max_downloads, nor
\* after a revocation or the expiry, whatever was resolved before.
Grant == INSTANCE DownloadGrants WITH
  Grants <- Tokens, Unlimited <- Unlimited,
  limit  <- [t \in Tokens |-> tok[t].max],
  served <- [t \in Tokens |-> tok[t].count],
  open   <- [t \in Tokens |-> t \in Issued /\ ~tok[t].revoked /\ ~tok[t].expired]
IsGrant == Grant!Spec
=============================================================================
