--------------------------- MODULE GatewayPairing ---------------------------
(***************************************************************************)
(* How one gateway is given credentials and how its agent connects:        *)
(* create, recreate, revoke and delete on the platform                     *)
(* (services/gateways.py, api/gateways.py), the pairing request and the    *)
(* key check (api/deps.py), and the agent's start, with what it keeps in   *)
(* its state file (worker.py).                                             *)
(*                                                                         *)
(* Credentials come in generations: generation g is a pairing code and a   *)
(* gateway key shown once to the owner.  A handler that loads the row      *)
(* without a lock and writes it at its commit sends the columns it         *)
(* changed, compared with what it loaded (Flush).                          *)
(***************************************************************************)
EXTENDS Naturals

CONSTANTS LastGen,     \* bound: generations of credentials
          MaxLaunches, \* bound: starts of the agent's container
          Requests     \* concurrent recreate or revoke requests of the owner

ASSUME PairingBoundsAreNat == LastGen \in Nat /\ MaxLaunches \in Nat

Gens   == 1..LastGen
NoGen  == 0
AnyGen == Gens \cup {NoGen}
Rows   == [status : {"absent", "pending", "paired", "revoked"},
           key : AnyGen, code : AnyGen, until : AnyGen, used : BOOLEAN]

VARIABLES
  row,       \* the gateways row: api_key_hash, pairing_token_hash, ...
  issued,    \* generations issued so far
  expired,   \* generations whose pairing code is past its TTL
  op, snap,  \* per request: its handler and the row it loaded
  env,       \* generation in the container's environment (PAIRING_TOKEN, GATEWAY_KEY)
  saved,     \* state.json: is gateway_id saved, and with which key
  mem,       \* the agent's gateway_id and gateway_key
  apc,       \* where the agent is
  launches,
  \* observed, read by no action:
  pairedBy,  \* generations whose code has paired the gateway
  revoked,   \* generations a revocation found when it loaded the row
  clashed,   \* generations written over a row that changed since it was loaded,
             \* or issued while a revocation was under way
  admitted,  \* generations whose key has been accepted
  unanswered \* generations whose pairing was granted in an answer the agent never got

platform == <<row, issued, expired, op, snap>>
agent    == <<env, saved, mem, apc, launches>>
observed == <<pairedBy, revoked, clashed, admitted, unanswered>>
PairVars == <<platform, agent, observed>>

Absent == [status |-> "absent", key |-> NoGen, code |-> NoGen,
           until |-> NoGen, used |-> FALSE]
\* Faulty variant: new credentials that keep the old flag.
FreshUsed(g) == [status |-> "pending", key |-> g, code |-> g, until |-> g, used |-> row.used]

Fresh(g) == [status |-> "pending", key |-> g, code |-> g, until |-> g, used |-> FALSE]

PairInit ==
  /\ row = Absent /\ issued = 0 /\ expired = {}
  /\ op = [r \in Requests |-> "idle"] /\ snap = [r \in Requests |-> Absent]
  /\ env = NoGen /\ apc = "off" /\ launches = 0
  /\ saved = [id |-> FALSE, key |-> NoGen] /\ mem = saved
  /\ pairedBy = {} /\ revoked = {} /\ clashed = {} /\ admitted = {} /\ unanswered = {}

-----------------------------------------------------------------------------
(* The owner's requests.                                                   *)

create_gateway ==
  /\ issued = 0 /\ LastGen > 0
  /\ row' = Fresh(1) /\ issued' = 1
  /\ UNCHANGED <<expired, op, snap, agent, observed>>

\* The row as the session's UPDATE leaves it: a column set to the value that
\* was loaded is not sent.
Flush(loaded, written) ==
  [c \in DOMAIN row |-> IF written[c] = loaded[c] THEN row[c] ELSE written[c]]

\* A paired gateway is refused with 409, on the row as it was loaded.
LoadForRecreate(r) ==
  /\ op[r] = "idle" /\ row.status \in {"pending", "revoked"}
  /\ op' = [op EXCEPT ![r] = "recreate"] /\ snap' = [snap EXCEPT ![r] = row]
  /\ UNCHANGED <<row, issued, expired, agent, observed>>

LoadForRevoke(r) ==
  /\ op[r] = "idle" /\ row.status # "absent"
  /\ op' = [op EXCEPT ![r] = "revoke"] /\ snap' = [snap EXCEPT ![r] = row]
  /\ UNCHANGED <<row, issued, expired, agent, observed>>

EndRequest(r) ==
  /\ op' = [op EXCEPT ![r] = "idle"] /\ snap' = [snap EXCEPT ![r] = Absent]

recreate_gateway_credentials(r) ==
  /\ op[r] = "recreate" /\ row.status # "absent" /\ issued < LastGen
  /\ issued' = issued + 1
  /\ row' = Flush(snap[r], Fresh(issued'))
  /\ clashed' = IF row = snap[r] THEN clashed ELSE clashed \cup {issued'}
  /\ EndRequest(r)
  /\ UNCHANGED <<expired, agent, pairedBy, revoked, admitted, unanswered>>

\* Faulty variant: a revocation written only if the row is still as loaded.
revoke_gatewayIfUnchanged(r) ==
  /\ op[r] = "revoke" /\ row.status # "absent"
  /\ row' = IF row = snap[r] THEN [row EXCEPT !.key = NoGen, !.code = NoGen,
                                              !.used = TRUE, !.status = "revoked"]
                             ELSE row
  /\ revoked' = revoked \cup 1..snap[r].until
  /\ clashed' = clashed \cup (snap[r].until + 1)..issued
  /\ EndRequest(r)
  /\ UNCHANGED <<issued, expired, agent, pairedBy, admitted, unanswered>>

revoke_gateway(r) ==
  /\ op[r] = "revoke" /\ row.status # "absent"
  /\ row' = Flush(snap[r], [snap[r] EXCEPT !.key = NoGen, !.code = NoGen,
                                           !.used = TRUE, !.status = "revoked"])
  /\ revoked' = revoked \cup 1..snap[r].until
  /\ clashed' = clashed \cup (snap[r].until + 1)..issued
  /\ EndRequest(r)
  /\ UNCHANGED <<issued, expired, agent, pairedBy, admitted, unanswered>>

\* The row is gone: the UPDATE matches nothing and the request ends in an error.
UpdateFindsNothing(r) ==
  /\ op[r] # "idle" /\ row.status = "absent"
  /\ EndRequest(r)
  /\ UNCHANGED <<row, issued, expired, agent, observed>>

delete_gateway ==
  /\ row.status # "absent"
  /\ row' = Absent
  /\ UNCHANGED <<issued, expired, op, snap, agent, observed>>

Expire(g) ==
  /\ g \in 1..issued \ expired
  /\ expired' = expired \cup {g}
  /\ UNCHANGED <<row, issued, op, snap, agent, observed>>

-----------------------------------------------------------------------------
(* The agent.                                                              *)

Pairable(g) ==
  /\ g # NoGen /\ row.code = g
  /\ ~row.used /\ row.status = "pending" /\ row.until \notin expired

\* The answer the agent waits for does not reach it.
LosesGrant == unanswered' = IF apc = "granted" THEN unanswered \cup {env} ELSE unanswered

\* The owner starts the container with credentials that were shown, or with
\* none when the state volume holds some; the volume may be a new one.  One
\* that runs is stopped, with what it waits for.
Launch(g, kept) ==
  /\ launches < MaxLaunches
  /\ g \in 1..issued \/ (g = NoGen /\ kept /\ saved.id)
  /\ launches' = launches + 1
  /\ saved' = IF kept THEN saved ELSE [id |-> FALSE, key |-> NoGen]
  /\ env' = g
  /\ mem' = [id |-> saved'.id, key |-> IF g # NoGen THEN g ELSE saved'.key]
  /\ apc' = "boot"
  /\ LosesGrant
  /\ UNCHANGED <<platform, pairedBy, revoked, clashed, admitted>>

\* run() asks for no pairing when a gateway_id is known, whatever the code, and
\* saves nothing: the key of the environment is kept in memory only.
Resume ==
  /\ apc = "boot" /\ mem.id
  /\ apc' = "ready"
  /\ UNCHANGED <<platform, env, saved, mem, launches, observed>>

AskToPair ==
  /\ apc = "boot" /\ ~mem.id
  /\ apc' = "asked"
  /\ UNCHANGED <<platform, env, saved, mem, launches, observed>>

\* The handler holds the row's lock from its SELECT to its commit.
pair_gateway ==
  /\ apc = "asked" /\ Pairable(env)
  /\ row' = [row EXCEPT !.used = TRUE, !.code = NoGen, !.status = "paired"]
  /\ pairedBy' = pairedBy \cup {env}
  /\ apc' = "granted"
  /\ UNCHANGED <<issued, expired, op, snap, env, saved, mem, launches,
                 revoked, clashed, admitted, unanswered>>

\* Faulty variant: an agent that gives up after a lost pairing request.
AnswerLostForGood ==
  /\ apc \in {"asked", "granted"}
  /\ apc' = "off"
  /\ LosesGrant
  /\ UNCHANGED <<platform, env, saved, mem, launches, pairedBy, revoked, clashed, admitted>>

PairingRefused ==
  /\ apc = "asked" /\ ~Pairable(env)
  /\ apc' = "boot"
  /\ UNCHANGED <<platform, env, saved, mem, launches, observed>>

AnswerLost ==
  /\ apc \in {"asked", "granted"}
  /\ apc' = "boot"
  /\ LosesGrant
  /\ UNCHANGED <<platform, env, saved, mem, launches, pairedBy, revoked, clashed, admitted>>

KeepCredentials ==
  /\ apc = "granted"
  /\ mem' = [mem EXCEPT !.id = TRUE]
  /\ saved' = mem'
  /\ apc' = "ready"
  /\ UNCHANGED <<platform, env, launches, observed>>

\* An authenticated call; a refused one (401) is retried at the next poll.
get_gateway ==
  /\ apc = "ready"
  /\ row.status = "paired" /\ row.key = mem.key
  /\ admitted' = admitted \cup {mem.key}
  /\ UNCHANGED <<platform, agent, pairedBy, revoked, clashed, unanswered>>

-----------------------------------------------------------------------------
PairNext ==
  \/ create_gateway
  \/ \E r \in Requests :
       \/ LoadForRecreate(r)
       \/ LoadForRevoke(r)
       \/ recreate_gateway_credentials(r)
       \/ revoke_gateway(r)
       \/ UpdateFindsNothing(r)
  \/ delete_gateway
  \/ \E g \in Gens : Expire(g)
  \/ \E g \in AnyGen, kept \in BOOLEAN : Launch(g, kept)
  \/ Resume
  \/ AskToPair
  \/ pair_gateway
  \/ PairingRefused
  \/ AnswerLost
  \/ KeepCredentials
  \/ get_gateway

PairSpec == PairInit /\ [][PairNext]_PairVars

\* The agent's loop runs, and a request repeated for ever gets through.
PairGoesOn == Resume \/ AskToPair \/ PairingRefused \/ KeepCredentials
PairFair == WF_PairVars(PairGoesOn) /\ SF_PairVars(pair_gateway)

-----------------------------------------------------------------------------
PairTypeOK ==
  /\ row \in Rows
  /\ issued \in 0..LastGen /\ expired \subseteq Gens
  /\ op \in [Requests -> {"idle", "recreate", "revoke"}]
  /\ snap \in [Requests -> Rows]
  /\ env \in AnyGen
  /\ saved \in [id : BOOLEAN, key : AnyGen] /\ mem \in [id : BOOLEAN, key : AnyGen]
  /\ apc \in {"off", "boot", "asked", "granted", "ready"}
  /\ launches \in 0..MaxLaunches
  /\ pairedBy \subseteq Gens /\ revoked \subseteq Gens
  /\ clashed \subseteq Gens /\ admitted \subseteq Gens /\ unanswered \subseteq AnyGen

\* The last credentials shown to the owner can pair the gateway, or have,
\* until they expire or are revoked -- unless they were written over a row
\* that another request changed after it was loaded.
LastCodesWork ==
  (row.status # "absent" /\ issued \notin revoked \cup clashed \cup expired)
    => Pairable(issued) \/ issued \in pairedBy

\* Whatever recreations, pairings and revocations overlap: a key is accepted
\* only after the code of its generation paired the gateway (the exception is
\* a generation written over a pairing), and no more once a completed
\* revocation found it.
KeysAreEarned ==
  /\ admitted \subseteq pairedBy \cup clashed
  /\ row.status = "paired" => row.key \notin revoked

\* An agent that starts without a saved identity, with a code that can pair,
\* becomes paired, unless the owner takes the code away meanwhile (revokes,
\* deletes, recreates, starts the agent with another one) or lets it expire, or
\* the platform grants the pairing in an answer that is lost.  The code is spent
\* then, and the agent is refused until the owner recreates it (worker.py:140).
FirstStartPairs ==
  \A g \in Gens :
    (apc = "boot" /\ ~mem.id /\ env = g /\ Pairable(g))
      ~> \/ mem.id
         \/ g # issued \/ row.status \in {"absent", "revoked"} \/ env # g
         \/ g \in expired \cup unanswered
=============================================================================
