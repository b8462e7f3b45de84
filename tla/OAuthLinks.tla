----------------------------- MODULE OAuthLinks -----------------------------
(***************************************************************************)
(* Linking a reader to its owner's cloud (services/crypto.py,              *)
(* api/devices.py): the owner asks for an authorisation address, which     *)
(* carries a state; the browser comes back with it to a public callback,   *)
(* which consumes the state, exchanges the code with the provider and      *)
(* stores the link.                                                        *)
(*                                                                         *)
(* A state is signed, so what it says of its device and provider cannot    *)
(* be changed; that it may be used is kept in the memory of the process.   *)
(***************************************************************************)
EXTENDS Naturals, FiniteSets

CONSTANTS States,    \* states that are issued
          Devices, Providers,
          Callbacks, \* concurrent callback requests
          NoState, NoDevice

ASSUME NoStateIsNone == NoState \notin States
ASSUME NoDeviceIsNone == NoDevice \notin Devices

None  == "none"
Owner == "owner"

VARIABLES
  about,    \* per state: the device and provider it is signed for
  stateExpired,  \* states past exp
  pending,  \* _pending_nonces
  device,   \* rows of devices
  link,     \* per device: the state (or owner's call) its link_ref comes from
  cpc, cstate, expects, \* callbacks: progress, state, provider of the route
  uses      \* observed, read by no action: per state, links stored from it

server   == <<about, stateExpired, pending, device, link>>
callback == <<cpc, cstate, expects>>
OAuthVars     == <<server, callback, uses>>

Unissued == [device |-> NoDevice, provider |-> None]

OAuthInit ==
  /\ about = [s \in States |-> Unissued] /\ stateExpired = {} /\ pending = {}
  /\ device = Devices /\ link = [d \in Devices |-> None]
  /\ cpc = [c \in Callbacks |-> "idle"] /\ cstate = [c \in Callbacks |-> NoState]
  /\ expects = [c \in Callbacks |-> None]
  /\ uses = [s \in States |-> 0]

-----------------------------------------------------------------------------
(* The owner and the passing of time.                                      *)

\* get_link_url: issuing a state also drops the expired ones.
issue_oauth_state(s, d, p) ==
  /\ about[s] = Unissued /\ d \in device
  /\ about' = [about EXCEPT ![s] = [device |-> d, provider |-> p]]
  /\ pending' = (pending \ stateExpired) \cup {s}
  /\ UNCHANGED <<stateExpired, device, link, callback, uses>>

OAuthExpire(s) ==
  /\ about[s] # Unissued /\ s \notin stateExpired
  /\ stateExpired' = stateExpired \cup {s}
  /\ UNCHANGED <<about, pending, device, link, callback, uses>>

delete_device(d) ==
  /\ d \in device
  /\ device' = device \ {d} /\ link' = [link EXCEPT ![d] = None]
  /\ UNCHANGED <<about, stateExpired, pending, callback, uses>>

\* The process stops: its requests end, and the states it had are unknown to
\* the next one.
Restart ==
  /\ pending' = {}
  /\ cpc' = [c \in Callbacks |-> "idle"] /\ cstate' = [c \in Callbacks |-> NoState]
  /\ expects' = [c \in Callbacks |-> None]
  /\ UNCHANGED <<about, stateExpired, device, link, uses>>

\* link_callback: the owner's client posts a code, without a state.
link_callback(d) ==
  /\ d \in device
  /\ link' = [link EXCEPT ![d] = Owner]
  /\ UNCHANGED <<about, stateExpired, pending, device, callback, uses>>

-----------------------------------------------------------------------------
(* A callback.  A state may come back any number of times, and to any of   *)
(* the three routes; AnyRoute is the one that names a device.              *)

AnyRoute == "any"

EndCallback(c) ==
  /\ cpc' = [cpc EXCEPT ![c] = "idle"] /\ cstate' = [cstate EXCEPT ![c] = NoState]
  /\ expects' = [expects EXCEPT ![c] = None]

\* The provider reports a refusal: the state is consumed all the same.
ProviderRefused(s) ==
  /\ about[s] # Unissued /\ s \notin stateExpired
  /\ pending' = pending \ (stateExpired \cup {s})
  /\ UNCHANGED <<about, stateExpired, device, link, callback, uses>>

\* Faulty variant: the nonce is looked up and not removed.
ConsumeKept(c, s, p) ==
  /\ cpc[c] = "idle" /\ s \in pending \ stateExpired
  /\ pending' = pending \ stateExpired
  /\ cpc' = [cpc EXCEPT ![c] = "consumed"] /\ cstate' = [cstate EXCEPT ![c] = s]
  /\ expects' = [expects EXCEPT ![c] = p]
  /\ UNCHANGED <<about, stateExpired, device, link, uses>>

\* consume_oauth_state: the nonce is popped, and the expired ones dropped.
Consume(c, s, p) ==
  /\ cpc[c] = "idle" /\ s \in pending \ stateExpired
  /\ pending' = pending \ (stateExpired \cup {s})
  /\ cpc' = [cpc EXCEPT ![c] = "consumed"] /\ cstate' = [cstate EXCEPT ![c] = s]
  /\ expects' = [expects EXCEPT ![c] = p]
  /\ UNCHANGED <<about, stateExpired, device, link, uses>>

\* Unknown or used, unless it is expired already by what it says itself.
UnknownState(s) ==
  /\ about[s] # Unissued /\ s \notin pending \ stateExpired
  /\ pending' = IF s \in stateExpired THEN pending ELSE pending \ stateExpired
  /\ UNCHANGED <<about, stateExpired, device, link, callback, uses>>

Linked(c) == about[cstate[c]].device

\* Another provider's route, or a device that is gone when it is looked up.
CannotLink(c) ==
  /\ cpc[c] = "consumed"
  /\ expects[c] \notin {AnyRoute, about[cstate[c]].provider} \/ Linked(c) \notin device
  /\ EndCallback(c)
  /\ UNCHANGED <<server, uses>>

\* Faulty variant: the provider of the route is not compared.
LoadDeviceAnyRoute(c) ==
  /\ cpc[c] = "consumed" /\ Linked(c) \in device
  /\ cpc' = [cpc EXCEPT ![c] = "exchanging"]
  /\ UNCHANGED <<server, cstate, expects, uses>>

LoadDevice(c) ==
  /\ cpc[c] = "consumed"
  /\ expects[c] \in {AnyRoute, about[cstate[c]].provider} /\ Linked(c) \in device
  /\ cpc' = [cpc EXCEPT ![c] = "exchanging"]
  /\ UNCHANGED <<server, cstate, expects, uses>>

\* A code the provider refuses, an answer without a token, or a provider
\* that is not reached: httpx.HTTPError, which the route does not catch.
ExchangeFails(c) ==
  /\ cpc[c] = "exchanging"
  /\ EndCallback(c)
  /\ UNCHANGED <<server, uses>>

StoreLink(c) ==
  /\ cpc[c] = "exchanging" /\ Linked(c) \in device
  /\ link' = [link EXCEPT ![Linked(c)] = cstate[c]]
  /\ uses' = [uses EXCEPT ![cstate[c]] = @ + 1]
  /\ EndCallback(c)
  /\ UNCHANGED <<about, stateExpired, pending, device>>

\* The device was deleted during the exchange: the UPDATE matches nothing.
StoreFindsNothing(c) ==
  /\ cpc[c] = "exchanging" /\ Linked(c) \notin device
  /\ EndCallback(c)
  /\ UNCHANGED <<server, uses>>

-----------------------------------------------------------------------------
OAuthNext ==
  \/ \E s \in States, d \in Devices, p \in Providers : issue_oauth_state(s, d, p)
  \/ \E s \in States : OAuthExpire(s) \/ ProviderRefused(s) \/ UnknownState(s)
  \/ \E d \in Devices : delete_device(d) \/ link_callback(d)
  \/ Restart
  \/ \E c \in Callbacks :
       \/ \E s \in States, p \in Providers \cup {AnyRoute} : Consume(c, s, p)
       \/ CannotLink(c)
       \/ LoadDevice(c)
       \/ ExchangeFails(c)
       \/ StoreLink(c)
       \/ StoreFindsNothing(c)

OAuthSpec == OAuthInit /\ [][OAuthNext]_OAuthVars

-----------------------------------------------------------------------------
HeldBy(s) == {c \in Callbacks : cstate[c] = s}

OAuthTypeOK ==
  /\ about \in [States -> [device : Devices \cup {NoDevice}, provider : Providers \cup {None}]]
  /\ stateExpired \subseteq States /\ pending \subseteq {s \in States : about[s] # Unissued}
  /\ device \subseteq Devices
  /\ link \in [Devices -> States \cup {None, Owner}]
  /\ cpc \in [Callbacks -> {"idle", "consumed", "exchanging"}]
  /\ cstate \in [Callbacks -> States \cup {NoState}]
  /\ \A c \in Callbacks : cpc[c] = "idle" <=> cstate[c] = NoState
  /\ expects \in [Callbacks -> Providers \cup {None, AnyRoute}]
  /\ uses \in [States -> Nat]

\* A state serves once: in any order of callbacks that come back twice,
\* refusals, expiry and restarts, it is pending, or held by one callback, or
\* has been used by one.
SingleUse ==
  \A s \in States :
    uses[s] + Cardinality(HeldBy(s)) + (IF s \in pending THEN 1 ELSE 0) <= 1

\* A link is stored only for the device and by the route of the provider
\* for which the owner asked.
LinkAsAsked ==
  [][\A d \in Devices : link'[d] \notin {link[d], None, Owner} =>
       \E c \in Callbacks :
         /\ cstate[c] = link'[d] /\ about[cstate[c]].device = d
         /\ expects[c] \in {AnyRoute, about[cstate[c]].provider}]_OAuthVars
=============================================================================
