--------------------------- MODULE Agent_proofs ----------------------------
(***************************************************************************)
(* What is proved of what a gateway's agent keeps: its pairing and its     *)
(* watched folder, for any numbers of generations, requests and copies.    *)
(***************************************************************************)
EXTENDS MC_Agent, TLAPS

(***************************************************************************)
(* The pairing of a gateway.  Handlers write a row that they loaded        *)
(* earlier, column by column; what keeps the row sound is that a column of *)
(* a generation is never set back within that generation.                  *)
(***************************************************************************)

\* A row carries the last generation, or none where it was taken away.
RowIsLatest ==
  row.status # "absent" =>
    /\ issued # NoGen /\ row.until = issued
    /\ row.key \in {NoGen, issued} /\ row.code \in {NoGen, issued}

\* What a request loaded was a row, of this generation or of an earlier one; a
\* revocation is undone by a new generation only.
SnapsAreEarlier ==
  \A r \in Requests : op[r] # "idle" =>
    /\ snap[r].status # "absent"
    /\ snap[r].until \in 1..issued
    /\ snap[r].key \in 0..issued /\ snap[r].code \in 0..issued
    /\ op[r] = "recreate" => snap[r].status \in {"pending", "revoked"}
    /\ snap[r].until = issued /\ snap[r].status = "revoked"
         => row.status \in {"absent", "revoked"}

RevokedWereIssued ==
  /\ revoked \subseteq 1..issued /\ expired \subseteq 1..issued
  /\ row.status \in {"pending", "paired"} => row.key \notin revoked

PairedIsEarned ==
  /\ row.status = "paired" /\ row.key # NoGen => row.key \in pairedBy \cup clashed
  /\ admitted \subseteq pairedBy \cup clashed

\* An agent that was started has a key, and so has the state it saves.
AgentHasKey ==
  /\ apc # "off" => mem.key # NoGen
  /\ saved.id => saved.key # NoGen

PairInv ==
  /\ PairTypeOK /\ RowIsLatest /\ SnapsAreEarlier /\ RevokedWereIssued
  /\ PairedIsEarned /\ AgentHasKey /\ LastCodesWork


\* What the UPDATE of a row leaves, column by column.
LEMMA FlushWrites ==
  ASSUME row \in Rows, NEW l \in Rows, NEW w \in Rows
  PROVE  /\ Flush(l, w) \in Rows
         /\ Flush(l, w).status = IF w.status = l.status THEN row.status ELSE w.status
         /\ Flush(l, w).key = IF w.key = l.key THEN row.key ELSE w.key
         /\ Flush(l, w).code = IF w.code = l.code THEN row.code ELSE w.code
         /\ Flush(l, w).until = IF w.until = l.until THEN row.until ELSE w.until
         /\ Flush(l, w).used = IF w.used = l.used THEN row.used ELSE w.used
<1>1. DOMAIN row = {"status", "key", "code", "until", "used"}
  BY DEF Rows
<1>2. Flush(l, w) =
        [status |-> IF w.status = l.status THEN row.status ELSE w.status,
         key    |-> IF w.key = l.key THEN row.key ELSE w.key,
         code   |-> IF w.code = l.code THEN row.code ELSE w.code,
         until  |-> IF w.until = l.until THEN row.until ELSE w.until,
         used   |-> IF w.used = l.used THEN row.used ELSE w.used]
  BY <1>1 DEF Flush, Rows
<1> QED
  BY <1>2 DEF Rows

LEMMA PairInitInv == PairInit => PairInv
  BY PairingBoundsAreNat
  DEF PairInit, PairInv, PairTypeOK, RowIsLatest, SnapsAreEarlier,
      RevokedWereIssued, PairedIsEarned, AgentHasKey, LastCodesWork, Absent,
      Rows, Gens, AnyGen, NoGen

LEMMA CreateGatewayKeeps ==
  ASSUME PairInv, create_gateway
  PROVE  PairInv'
<1> USE PairingBoundsAreNat
    DEF PairInv, create_gateway, Fresh, platform, agent, observed,
        Gens, NoGen, AnyGen
<1>1. PairTypeOK'
  <2>1. row' \in Rows
    BY DEF PairTypeOK, RevokedWereIssued, Rows
  <2>2. issued' \in 0..LastGen
    BY DEF PairTypeOK, RevokedWereIssued
  <2> QED
    BY <2>1, <2>2 DEF PairTypeOK
<1>2. RowIsLatest'
  BY DEF RowIsLatest, PairTypeOK, Rows
<1>3. SnapsAreEarlier'
  BY DEF SnapsAreEarlier, PairTypeOK, RowIsLatest, Rows
<1>4. RevokedWereIssued'
  BY DEF RevokedWereIssued, PairTypeOK, RowIsLatest, SnapsAreEarlier, Rows
<1>5. PairedIsEarned'
  BY DEF PairedIsEarned, PairTypeOK, RowIsLatest, AgentHasKey, Rows
<1>6. LastCodesWork'
  BY DEF LastCodesWork, PairTypeOK, RowIsLatest, RevokedWereIssued, Pairable,
     Rows
<1>7. AgentHasKey'
  BY DEF AgentHasKey
<1> QED
  BY <1>1, <1>2, <1>3, <1>4, <1>5, <1>6, <1>7 DEF PairInv

LEMMA LoadForRecreateKeeps ==
  ASSUME PairInv, NEW r \in Requests, LoadForRecreate(r)
  PROVE  PairInv'
<1> USE PairingBoundsAreNat
    DEF PairInv, LoadForRecreate, platform, agent, observed,
        Gens, NoGen, AnyGen
<1>1. PairTypeOK'
  <2>1. op' \in [Requests -> {"idle", "recreate", "revoke"}]
    BY DEF PairTypeOK, RevokedWereIssued
  <2>2. snap' \in [Requests -> Rows]
    BY DEF PairTypeOK, RevokedWereIssued, Rows, Absent
  <2> QED
    BY <2>1, <2>2 DEF PairTypeOK
<1>2. SnapsAreEarlier'
  BY DEF SnapsAreEarlier, PairTypeOK, RowIsLatest, Rows
<1>3. RowIsLatest' /\ RevokedWereIssued' /\ PairedIsEarned' /\ AgentHasKey' /\
   LastCodesWork'
  BY DEF RowIsLatest, RevokedWereIssued, PairedIsEarned, AgentHasKey,
     LastCodesWork, Pairable
<1> QED
  BY <1>1, <1>2, <1>3 DEF PairInv

LEMMA LoadForRevokeKeeps ==
  ASSUME PairInv, NEW r \in Requests, LoadForRevoke(r)
  PROVE  PairInv'
<1> USE PairingBoundsAreNat
    DEF PairInv, LoadForRevoke, platform, agent, observed,
        Gens, NoGen, AnyGen
<1>1. PairTypeOK'
  <2>1. op' \in [Requests -> {"idle", "recreate", "revoke"}]
    BY DEF PairTypeOK, RevokedWereIssued
  <2>2. snap' \in [Requests -> Rows]
    BY DEF PairTypeOK, RevokedWereIssued, Rows, Absent
  <2> QED
    BY <2>1, <2>2 DEF PairTypeOK
<1>2. SnapsAreEarlier'
  BY DEF SnapsAreEarlier, PairTypeOK, RowIsLatest, Rows
<1>3. RowIsLatest' /\ RevokedWereIssued' /\ PairedIsEarned' /\ AgentHasKey' /\
   LastCodesWork'
  BY DEF RowIsLatest, RevokedWereIssued, PairedIsEarned, AgentHasKey,
     LastCodesWork, Pairable
<1> QED
  BY <1>1, <1>2, <1>3 DEF PairInv

LEMMA RecreateGatewayCredentialsKeeps ==
  ASSUME PairInv, NEW r \in Requests, recreate_gateway_credentials(r)
  PROVE  PairInv'
<1> USE PairingBoundsAreNat DEF Gens, NoGen, AnyGen
<1>1. PICK l, g : l = snap[r] /\ g = issued + 1
  OBVIOUS
<1>2. /\ PairTypeOK /\ op[r] = "recreate" /\ issued < LastGen /\ issued' = g
      /\ row.status # "absent" /\ row' = Flush(l, Fresh(g))
      /\ clashed' = IF row = l THEN clashed ELSE clashed \cup {g}
      /\ UNCHANGED <<expired, env, saved, mem, apc, launches, pairedBy, revoked, admitted, unanswered>>
      /\ op' = [op EXCEPT ![r] = "idle"] /\ snap' = [snap EXCEPT ![r] = Absent]
  BY <1>1 DEF PairInv, recreate_gateway_credentials, EndRequest, agent
<1>3. /\ l \in Rows /\ row \in Rows /\ issued \in Nat /\ g \in Gens /\ g > issued
      /\ l.status \in {"pending", "revoked"}
      /\ l.key \in 0..issued /\ l.code \in 0..issued /\ l.until \in 1..issued
  BY <1>1, <1>2 DEF PairInv, PairTypeOK, SnapsAreEarlier
<1>4. /\ Fresh(g) \in Rows /\ Fresh(g).status = "pending" /\ Fresh(g).used = FALSE
      /\ Fresh(g).key = g /\ Fresh(g).code = g /\ Fresh(g).until = g
  BY <1>3 DEF Fresh, Rows
<1>5. /\ row' \in Rows
      /\ row'.key = g /\ row'.code = g /\ row'.until = g
      /\ row'.status = IF l.status = "pending" THEN row.status ELSE "pending"
      /\ row'.used = IF l.used = FALSE THEN row.used ELSE FALSE
  <2>1. g # l.key /\ g # l.code /\ g # l.until
    BY <1>3
  <2>2. row' \in Rows /\ row'.key = g /\ row'.code = g /\ row'.until = g
    BY <2>1, <1>2, <1>3, <1>4, FlushWrites
  <2>3. row'.status = IF l.status = "pending" THEN row.status ELSE "pending"
    BY <1>2, <1>3, <1>4, FlushWrites
  <2>4. row'.used = IF l.used = FALSE THEN row.used ELSE FALSE
    <3>1. PICK w : w = Fresh(g)
      OBVIOUS
    <3>2. w \in Rows /\ w.used = FALSE /\ row' = Flush(l, w)
      BY <3>1, <1>2, <1>4
    <3>3. row'.used = IF w.used = l.used THEN row.used ELSE w.used
      BY <3>2, <1>3, FlushWrites, Zenon
    <3>4. CASE l.used = FALSE
      <4>1. w.used = l.used
        BY <3>4, <3>2, Zenon
      <4> QED
        BY <3>4, <4>1, <3>3, Zenon
    <3>5. CASE l.used # FALSE
      <4>1. w.used # l.used
        BY <3>5, <3>2, Zenon
      <4> QED
        BY <3>5, <4>1, <3>3, <3>2, Zenon
    <3> QED
      BY <3>4, <3>5
  <2> QED
    BY <2>2, <2>3, <2>4
<1>6. row = l => row'.status = "pending" /\ row'.used = FALSE
  BY <1>3, <1>5 DEF Rows
<1>7. PairTypeOK'
  <2>1. snap' \in [Requests -> Rows] /\ op' \in [Requests -> {"idle", "recreate", "revoke"}]
    BY <1>2 DEF PairTypeOK, Absent, Rows
  <2> QED
    BY <1>2, <1>3, <1>5, <2>1 DEF PairTypeOK
<1>8. RowIsLatest'
  BY <1>2, <1>3, <1>5 DEF RowIsLatest
<1>9. SnapsAreEarlier'
  <2> SUFFICES ASSUME NEW q \in Requests, op'[q] # "idle"
               PROVE  /\ snap'[q] = snap[q] /\ op'[q] = op[q] /\ op[q] # "idle"
                      /\ snap[q].until < issued' /\ issued < issued' /\ issued' \in Nat
    BY <1>3 DEF PairInv, SnapsAreEarlier
  <2> QED
    BY <1>2, <1>3 DEF PairInv, PairTypeOK, SnapsAreEarlier
<1>10. RevokedWereIssued'
  BY <1>2, <1>3, <1>5 DEF PairInv, RevokedWereIssued
<1>11. PairedIsEarned'
  BY <1>2, <1>5, <1>6 DEF PairInv, PairedIsEarned
<1>12. AgentHasKey'
  BY <1>2 DEF PairInv, AgentHasKey
<1>13. LastCodesWork'
  BY <1>2, <1>3, <1>5, <1>6 DEF PairInv, RevokedWereIssued, LastCodesWork, Pairable
<1> QED
  BY <1>7, <1>8, <1>9, <1>10, <1>11, <1>12, <1>13 DEF PairInv

LEMMA RevokeGatewayKeeps ==
  ASSUME PairInv, NEW r \in Requests, revoke_gateway(r)
  PROVE  PairInv'
<1> USE PairingBoundsAreNat DEF Gens, NoGen, AnyGen
<1>1. PICK l, w : /\ l = snap[r]
                  /\ w = [l EXCEPT !.key = NoGen, !.code = NoGen, !.used = TRUE,
                                   !.status = "revoked"]
  OBVIOUS
<1>2. /\ PairTypeOK /\ op[r] = "revoke" /\ row.status # "absent"
      /\ row' = Flush(l, w)
      /\ revoked' = revoked \cup 1..l.until
      /\ clashed' = clashed \cup (l.until + 1)..issued
      /\ UNCHANGED <<issued, expired, env, saved, mem, apc, launches, pairedBy, admitted, unanswered>>
      /\ op' = [op EXCEPT ![r] = "idle"] /\ snap' = [snap EXCEPT ![r] = Absent]
  BY <1>1 DEF PairInv, revoke_gateway, EndRequest, agent
<1>3. /\ l \in Rows /\ row \in Rows /\ issued \in Nat /\ issued <= LastGen
      /\ l.until \in 1..issued
      /\ l.until = issued /\ l.status = "revoked" => row.status = "revoked"
  BY <1>1, <1>2 DEF PairInv, PairTypeOK, SnapsAreEarlier
<1>4. /\ w \in Rows /\ w.status = "revoked" /\ w.key = NoGen /\ w.code = NoGen
      /\ w.until = l.until /\ w.used = TRUE
  BY <1>1, <1>3 DEF Rows
<1>5. /\ row' \in Rows /\ row'.until = row.until
      /\ row'.key \in {NoGen, row.key} /\ row'.code \in {NoGen, row.code}
      /\ row'.status = IF l.status = "revoked" THEN row.status ELSE "revoked"
  BY <1>2, <1>3, <1>4, FlushWrites
<1>6. /\ row.until = issued
      /\ row.key \in {NoGen, issued} /\ row.code \in {NoGen, issued} /\ issued # NoGen
  BY <1>2 DEF PairInv, RowIsLatest
<1>7. l.until = issued => row'.status = "revoked"
  BY <1>3, <1>5
<1>8. PairTypeOK'
  <2>1. snap' \in [Requests -> Rows] /\ op' \in [Requests -> {"idle", "recreate", "revoke"}]
    BY <1>2 DEF PairTypeOK, Absent, Rows
  <2>2. revoked' \in SUBSET Gens /\ clashed' \in SUBSET Gens
    <3>1. \A i \in 1..l.until : i \in Gens
      BY <1>3
    <3>2. \A i \in (l.until + 1)..issued : i \in Gens
      BY <1>3
    <3> HIDE DEF Gens
    <3> QED
      BY <1>2, <3>1, <3>2 DEF PairTypeOK
  <2> QED
    BY <1>2, <1>5, <2>1, <2>2 DEF PairTypeOK
<1>9. RowIsLatest'
  BY <1>2, <1>5, <1>6 DEF RowIsLatest
<1>10. SnapsAreEarlier'
  BY <1>2, <1>5 DEF PairInv, PairTypeOK, SnapsAreEarlier
<1>11. RevokedWereIssued'
  <2>1. \A i \in 1..l.until : i \in 1..issued
    BY <1>3
  <2>2. revoked' \subseteq 1..issued' /\ expired' \subseteq 1..issued'
    BY <1>2, <2>1 DEF PairInv, RevokedWereIssued
  <2>3. ASSUME row'.status \in {"pending", "paired"} PROVE row'.key \notin revoked'
    <3>1. l.status = "revoked" /\ l.until # issued /\ row'.status = row.status
      BY <2>3, <1>3, <1>5, <1>7
    <3>2. \A i \in 1..l.until : i # issued /\ i # NoGen
      BY <3>1, <1>3
    <3>3. NoGen \notin revoked
      BY <1>3 DEF PairInv, RevokedWereIssued
    <3>4. row.key \notin revoked
      BY <2>3, <3>1 DEF PairInv, RevokedWereIssued
    <3> QED
      BY <3>2, <3>3, <3>4, <1>2, <1>5, <1>6
  <2> QED
    BY <2>2, <2>3 DEF RevokedWereIssued
<1>12. PairedIsEarned'
  BY <1>2, <1>5 DEF PairInv, PairedIsEarned
<1>13. AgentHasKey'
  BY <1>2 DEF PairInv, AgentHasKey
<1>14. LastCodesWork'
  <2>1. issued' \in revoked' \cup clashed'
    BY <1>2, <1>3
  <2> QED
    BY <2>1 DEF LastCodesWork
<1> QED
  BY <1>8, <1>9, <1>10, <1>11, <1>12, <1>13, <1>14 DEF PairInv

LEMMA UpdateFindsNothingKeeps ==
  ASSUME PairInv, NEW r \in Requests, UpdateFindsNothing(r)
  PROVE  PairInv'
<1> USE PairingBoundsAreNat
    DEF PairInv, UpdateFindsNothing, EndRequest, platform, agent, observed,
        Gens, NoGen, AnyGen
<1>1. PairTypeOK'
  <2>1. op' \in [Requests -> {"idle", "recreate", "revoke"}]
    BY DEF PairTypeOK, RevokedWereIssued
  <2>2. snap' \in [Requests -> Rows]
    BY DEF PairTypeOK, RevokedWereIssued, Rows, Absent
  <2> QED
    BY <2>1, <2>2 DEF PairTypeOK
<1>2. SnapsAreEarlier'
  BY DEF SnapsAreEarlier, PairTypeOK, RowIsLatest, Rows
<1>3. RowIsLatest' /\ RevokedWereIssued' /\ PairedIsEarned' /\ AgentHasKey' /\
   LastCodesWork'
  BY DEF RowIsLatest, RevokedWereIssued, PairedIsEarned, AgentHasKey,
     LastCodesWork, Pairable
<1> QED
  BY <1>1, <1>2, <1>3 DEF PairInv

LEMMA DeleteGatewayKeeps ==
  ASSUME PairInv, delete_gateway
  PROVE  PairInv'
<1> USE PairingBoundsAreNat
    DEF PairInv, delete_gateway, Absent, platform, agent, observed,
        Gens, NoGen, AnyGen
<1>1. PairTypeOK'
  <2>1. row' \in Rows
    BY DEF PairTypeOK, RevokedWereIssued, Rows
  <2> QED
    BY <2>1 DEF PairTypeOK
<1>2. RowIsLatest'
  BY DEF RowIsLatest, PairTypeOK, Rows
<1>3. SnapsAreEarlier'
  BY DEF SnapsAreEarlier, PairTypeOK, RowIsLatest, Rows
<1>4. RevokedWereIssued'
  BY DEF RevokedWereIssued, PairTypeOK, RowIsLatest, SnapsAreEarlier, Rows
<1>5. PairedIsEarned'
  BY DEF PairedIsEarned, PairTypeOK, RowIsLatest, AgentHasKey, Rows
<1>6. LastCodesWork'
  BY DEF LastCodesWork, PairTypeOK, RowIsLatest, RevokedWereIssued, Pairable,
     Rows
<1>7. AgentHasKey'
  BY DEF AgentHasKey
<1> QED
  BY <1>1, <1>2, <1>3, <1>4, <1>5, <1>6, <1>7 DEF PairInv

LEMMA ExpireKeeps ==
  ASSUME PairInv, NEW g \in Gens, Expire(g)
  PROVE  PairInv'
<1> USE PairingBoundsAreNat
    DEF PairInv, Expire, platform, agent, observed,
        Gens, NoGen, AnyGen
<1>1. PairTypeOK'
  <2>1. expired' \in SUBSET Gens
    BY DEF PairTypeOK, RevokedWereIssued
  <2> QED
    BY <2>1 DEF PairTypeOK
<1>2. RevokedWereIssued'
  BY DEF RevokedWereIssued, PairTypeOK, RowIsLatest, SnapsAreEarlier, Rows
<1>3. LastCodesWork'
  BY DEF LastCodesWork, PairTypeOK, RowIsLatest, RevokedWereIssued, Pairable,
     Rows
<1>4. RowIsLatest' /\ SnapsAreEarlier' /\ PairedIsEarned' /\ AgentHasKey'
  BY DEF RowIsLatest, SnapsAreEarlier, PairedIsEarned, AgentHasKey
<1> QED
  BY <1>1, <1>2, <1>3, <1>4 DEF PairInv

LEMMA LaunchKeeps ==
  ASSUME PairInv, NEW g \in AnyGen, NEW kept \in BOOLEAN, Launch(g, kept)
  PROVE  PairInv'
<1> USE PairingBoundsAreNat
    DEF PairInv, Launch, platform, agent, observed,
        Gens, NoGen, AnyGen
<1>1. PairTypeOK'
  <2>1. env' \in AnyGen
    BY DEF PairTypeOK, RevokedWereIssued
  <2>2. saved' \in [id : BOOLEAN, key : AnyGen]
    BY DEF PairTypeOK, RevokedWereIssued
  <2>3. mem' \in [id : BOOLEAN, key : AnyGen]
    BY DEF PairTypeOK, RevokedWereIssued
  <2>4. apc' \in {"off", "boot", "asked", "granted", "ready"}
    BY DEF PairTypeOK, RevokedWereIssued
  <2>5. launches' \in 0..MaxLaunches
    BY DEF PairTypeOK, RevokedWereIssued
  <2>6. unanswered' \subseteq AnyGen
    BY DEF PairTypeOK, LosesGrant
  <2> QED
    BY <2>1, <2>2, <2>3, <2>4, <2>5, <2>6 DEF PairTypeOK
<1>2. AgentHasKey'
  BY DEF AgentHasKey, PairTypeOK
<1>3. RowIsLatest' /\ SnapsAreEarlier' /\ RevokedWereIssued' /\
   PairedIsEarned' /\ LastCodesWork'
  BY DEF RowIsLatest, SnapsAreEarlier, RevokedWereIssued, PairedIsEarned,
     LastCodesWork, Pairable
<1> QED
  BY <1>1, <1>2, <1>3 DEF PairInv

LEMMA ResumeKeeps ==
  ASSUME PairInv, Resume
  PROVE  PairInv'
<1> USE PairingBoundsAreNat
    DEF PairInv, Resume, platform, agent, observed,
        Gens, NoGen, AnyGen
<1>1. PairTypeOK'
  <2>1. saved' \in [id : BOOLEAN, key : AnyGen]
    BY DEF PairTypeOK, RevokedWereIssued
  <2>2. apc' \in {"off", "boot", "asked", "granted", "ready"}
    BY DEF PairTypeOK, RevokedWereIssued
  <2> QED
    BY <2>1, <2>2 DEF PairTypeOK
<1>2. AgentHasKey'
  BY DEF AgentHasKey, PairTypeOK
<1>3. RowIsLatest' /\ SnapsAreEarlier' /\ RevokedWereIssued' /\
   PairedIsEarned' /\ LastCodesWork'
  BY DEF RowIsLatest, SnapsAreEarlier, RevokedWereIssued, PairedIsEarned,
     LastCodesWork, Pairable
<1> QED
  BY <1>1, <1>2, <1>3 DEF PairInv

LEMMA AskToPairKeeps ==
  ASSUME PairInv, AskToPair
  PROVE  PairInv'
<1> USE PairingBoundsAreNat
    DEF PairInv, AskToPair, platform, agent, observed,
        Gens, NoGen, AnyGen
<1>1. PairTypeOK'
  <2>1. apc' \in {"off", "boot", "asked", "granted", "ready"}
    BY DEF PairTypeOK, RevokedWereIssued
  <2> QED
    BY <2>1 DEF PairTypeOK
<1>2. AgentHasKey'
  BY DEF AgentHasKey, PairTypeOK
<1>3. RowIsLatest' /\ SnapsAreEarlier' /\ RevokedWereIssued' /\
   PairedIsEarned' /\ LastCodesWork'
  BY DEF RowIsLatest, SnapsAreEarlier, RevokedWereIssued, PairedIsEarned,
     LastCodesWork, Pairable
<1> QED
  BY <1>1, <1>2, <1>3 DEF PairInv

LEMMA PairGatewayKeeps ==
  ASSUME PairInv, pair_gateway
  PROVE  PairInv'
<1> USE PairingBoundsAreNat
    DEF PairInv, pair_gateway, Pairable, platform, agent, observed,
        Gens, NoGen, AnyGen
<1>1. PairTypeOK'
  <2>1. row' \in Rows
    BY DEF PairTypeOK, RevokedWereIssued, Rows
  <2>2. apc' \in {"off", "boot", "asked", "granted", "ready"}
    BY DEF PairTypeOK, RevokedWereIssued
  <2>3. pairedBy' \in SUBSET Gens
    BY DEF PairTypeOK, RevokedWereIssued, Rows
  <2> QED
    BY <2>1, <2>2, <2>3 DEF PairTypeOK
<1>2. RowIsLatest'
  BY DEF RowIsLatest, PairTypeOK, Rows
<1>3. SnapsAreEarlier'
  BY DEF SnapsAreEarlier, PairTypeOK, RowIsLatest, Rows
<1>4. RevokedWereIssued'
  BY DEF RevokedWereIssued, PairTypeOK, RowIsLatest, SnapsAreEarlier, Rows
<1>5. PairedIsEarned'
  BY DEF PairedIsEarned, PairTypeOK, RowIsLatest, AgentHasKey, Rows
<1>6. AgentHasKey'
  BY DEF AgentHasKey, PairTypeOK
<1>7. LastCodesWork'
  BY DEF LastCodesWork, PairTypeOK, RowIsLatest, RevokedWereIssued, Pairable,
     Rows
<1> QED
  BY <1>1, <1>2, <1>3, <1>4, <1>5, <1>6, <1>7 DEF PairInv

LEMMA PairingRefusedKeeps ==
  ASSUME PairInv, PairingRefused
  PROVE  PairInv'
<1> USE PairingBoundsAreNat
    DEF PairInv, PairingRefused, platform, agent, observed,
        Gens, NoGen, AnyGen
<1>1. PairTypeOK'
  <2>1. apc' \in {"off", "boot", "asked", "granted", "ready"}
    BY DEF PairTypeOK, RevokedWereIssued
  <2> QED
    BY <2>1 DEF PairTypeOK
<1>2. AgentHasKey'
  BY DEF AgentHasKey, PairTypeOK
<1>3. RowIsLatest' /\ SnapsAreEarlier' /\ RevokedWereIssued' /\
   PairedIsEarned' /\ LastCodesWork'
  BY DEF RowIsLatest, SnapsAreEarlier, RevokedWereIssued, PairedIsEarned,
     LastCodesWork, Pairable
<1> QED
  BY <1>1, <1>2, <1>3 DEF PairInv

LEMMA AnswerLostKeeps ==
  ASSUME PairInv, AnswerLost
  PROVE  PairInv'
<1> USE PairingBoundsAreNat
    DEF PairInv, AnswerLost, platform, agent, observed,
        Gens, NoGen, AnyGen
<1>1. PairTypeOK'
  <2>1. apc' \in {"off", "boot", "asked", "granted", "ready"}
    BY DEF PairTypeOK, RevokedWereIssued
  <2>2. unanswered' \subseteq AnyGen
    BY DEF PairTypeOK, LosesGrant
  <2> QED
    BY <2>1, <2>2 DEF PairTypeOK
<1>2. AgentHasKey'
  BY DEF AgentHasKey, PairTypeOK
<1>3. RowIsLatest' /\ SnapsAreEarlier' /\ RevokedWereIssued' /\
   PairedIsEarned' /\ LastCodesWork'
  BY DEF RowIsLatest, SnapsAreEarlier, RevokedWereIssued, PairedIsEarned,
     LastCodesWork, Pairable
<1> QED
  BY <1>1, <1>2, <1>3 DEF PairInv

LEMMA KeepCredentialsKeeps ==
  ASSUME PairInv, KeepCredentials
  PROVE  PairInv'
<1> USE PairingBoundsAreNat
    DEF PairInv, KeepCredentials, platform, agent, observed,
        Gens, NoGen, AnyGen
<1>1. PairTypeOK'
  <2>1. saved' \in [id : BOOLEAN, key : AnyGen]
    BY DEF PairTypeOK, RevokedWereIssued
  <2>2. mem' \in [id : BOOLEAN, key : AnyGen]
    BY DEF PairTypeOK, RevokedWereIssued
  <2>3. apc' \in {"off", "boot", "asked", "granted", "ready"}
    BY DEF PairTypeOK, RevokedWereIssued
  <2> QED
    BY <2>1, <2>2, <2>3 DEF PairTypeOK
<1>2. AgentHasKey'
  BY DEF AgentHasKey, PairTypeOK
<1>3. RowIsLatest' /\ SnapsAreEarlier' /\ RevokedWereIssued' /\
   PairedIsEarned' /\ LastCodesWork'
  BY DEF RowIsLatest, SnapsAreEarlier, RevokedWereIssued, PairedIsEarned,
     LastCodesWork, Pairable
<1> QED
  BY <1>1, <1>2, <1>3 DEF PairInv

LEMMA GetGatewayKeeps ==
  ASSUME PairInv, get_gateway
  PROVE  PairInv'
<1> USE PairingBoundsAreNat
    DEF PairInv, get_gateway, platform, agent, observed,
        Gens, NoGen, AnyGen
<1>1. PairTypeOK'
  <2>1. admitted' \in SUBSET Gens
    BY DEF PairTypeOK, RevokedWereIssued, AgentHasKey, Rows
  <2> QED
    BY <2>1 DEF PairTypeOK
<1>2. PairedIsEarned'
  BY DEF PairedIsEarned, PairTypeOK, RowIsLatest, AgentHasKey, Rows
<1>3. RowIsLatest' /\ SnapsAreEarlier' /\ RevokedWereIssued' /\ AgentHasKey'
   /\ LastCodesWork'
  BY DEF RowIsLatest, SnapsAreEarlier, RevokedWereIssued, AgentHasKey,
     LastCodesWork, Pairable
<1> QED
  BY <1>1, <1>2, <1>3 DEF PairInv

LEMMA PairStepInv == PairInv /\ [PairNext]_PairVars => PairInv'
<1> SUFFICES ASSUME PairInv, [PairNext]_PairVars PROVE PairInv'
  OBVIOUS
<1>1. CASE UNCHANGED PairVars
  BY <1>1 DEF PairVars, platform, agent, observed, PairInv, PairTypeOK,
         RowIsLatest, SnapsAreEarlier, RevokedWereIssued, PairedIsEarned,
         AgentHasKey, LastCodesWork, Pairable
<1>2. CASE PairNext
  BY <1>2, CreateGatewayKeeps, LoadForRecreateKeeps, LoadForRevokeKeeps,
     RecreateGatewayCredentialsKeeps, RevokeGatewayKeeps,
     UpdateFindsNothingKeeps, DeleteGatewayKeeps, ExpireKeeps, LaunchKeeps,
     ResumeKeeps, AskToPairKeeps, PairGatewayKeeps, PairingRefusedKeeps,
     AnswerLostKeeps, KeepCredentialsKeeps, GetGatewayKeeps
     DEF PairNext
<1> QED
  BY <1>1, <1>2

\* The parts of the invariant hold of every reachable gateway, for any numbers
\* of generations, starts and requests (services/gateways.py, worker.py).
THEOREM PairingInvariance == PairSpec => []PairInv
<1>1. PairSpec => PairInit /\ [][PairNext]_PairVars
  BY DEF PairSpec
<1> QED
  BY <1>1, PairInitInv, PairStepInv, PTL

\* The credentials that were shown last pair the gateway, or have, until they
\* expire or are revoked, but for those written over a row that had changed
\* (recreate_gateway_credentials, revoke_gateway, pair_gateway).
THEOREM LastCodesPair == PairSpec => []LastCodesWork
<1>1. PairInv => LastCodesWork
  BY DEF PairInv
<1> QED
  BY <1>1, PairingInvariance, PTL

\* A key is accepted only if its generation was paired or written over a
\* pairing, and not once a revocation that found it is complete
\* (get_gateway in api/deps.py, revoke_gateway).
THEOREM KeysAreAlwaysEarned == PairSpec => []KeysAreEarned
<1>1. PairInv => KeysAreEarned
  BY DEF PairInv, PairedIsEarned, RevokedWereIssued, KeysAreEarned
<1> QED
  BY <1>1, PairingInvariance, PTL

-----------------------------------------------------------------------------
(***************************************************************************)
(* The watched folder.  A copy begun, ended or removed during an upload is *)
(* noted in overwritten; the file on the disk is otherwise the one that    *)
(* was opened, and every second import of a version was paid for by an     *)
(* interruption.                                                           *)
(***************************************************************************)

\* What is on the disk or under way was copied there; what was not copied yet
\* was not imported.
KnownVersions ==
  /\ disk.v <= copied /\ sending.v <= copied
  /\ disk.whole => disk.v # 0
  /\ \A v \in Versions : v > copied => imports[v] = 0

\* A version that the owner left alone during its upload is the one opened.
OpenedIsThere ==
  pc \in {"sending", "answered"} /\ disk.v # 0 /\ disk.v \notin overwritten
    => disk = sending

AnsweredIsImported ==
  pc = "answered" /\ sending.whole => imports[sending.v] > 0

\* A version imported more often than there were interruptions is not sent
\* again without another one: it is neither under way, nor left on the disk.
NextNeedsInterruption ==
  \A v \in Versions : imports[v] > interrupted =>
    /\ pc = "sending" => sending.v # v
    /\ disk.v = v => pc = "answered"

WatchInv ==
  /\ WatchTypeOK /\ KnownVersions /\ OpenedIsThere /\ AnsweredIsImported
  /\ CopiesNeedInterruptions /\ NextNeedsInterruption

LEMMA WatchInitInv == WatchInit => WatchInv
<1> SUFFICES ASSUME WatchInit PROVE WatchInv
  OBVIOUS
<1> USE WatchBoundsAreNat DEF WatchInit, Nothing, Files, Versions
<1>1. Nothing \in Files /\ Nothing.v = 0 /\ Nothing.whole = FALSE
  OBVIOUS
<1>2. WatchTypeOK
  <2>1. /\ disk \in Files /\ seen \in Files /\ sending \in Files
        /\ copied \in 0..LastVersion /\ interrupted \in 0..MaxInterruptions
    BY <1>1
  <2>2. /\ stable = FALSE /\ inflight = FALSE /\ pc = "idle" /\ sending = Nothing
        /\ accepts \in SUBSET Versions /\ overwritten = {}
        /\ imports \in [Versions -> Nat]
    OBVIOUS
  <2> HIDE DEF WatchInit, Nothing, Files, Versions
  <2> QED
    BY <2>1, <2>2 DEF WatchTypeOK
<1>3. KnownVersions
  BY <1>1 DEF KnownVersions
<1>4. OpenedIsThere /\ AnsweredIsImported
  BY DEF OpenedIsThere, AnsweredIsImported
<1>5. CopiesNeedInterruptions /\ NextNeedsInterruption
  BY <1>1 DEF CopiesNeedInterruptions, NextNeedsInterruption
<1> QED
  BY <1>2, <1>3, <1>4, <1>5 DEF WatchInv

LEMMA BeginCopyKeeps ==
  ASSUME WatchInv, BeginCopy
  PROVE  WatchInv'
<1> USE WatchBoundsAreNat
    DEF WatchInv, BeginCopy, watcher, watchSeen, Versions
<1>1. WatchTypeOK'
  <2>1. disk' \in Files
    BY DEF WatchTypeOK, Files, Nothing
  <2>2. copied' \in 0..LastVersion
    BY DEF WatchTypeOK
  <2>3. overwritten' \in SUBSET (0..LastVersion)
    <3>1. disk.v \in 0..LastVersion /\ copied' \in 0..LastVersion
      BY DEF WatchTypeOK, Files
    <3>2. overwritten' \subseteq overwritten \cup {disk.v, copied'}
      OBVIOUS
    <3>3. overwritten \subseteq 0..LastVersion
      BY DEF WatchTypeOK
    <3> QED
      BY <3>1, <3>2, <3>3
  <2> QED
    BY <2>1, <2>2, <2>3 DEF WatchTypeOK
<1>2. KnownVersions'
  BY DEF KnownVersions, WatchTypeOK, Files, Nothing
<1>3. OpenedIsThere'
  BY DEF OpenedIsThere, WatchTypeOK, KnownVersions, Files, Nothing
<1>4. NextNeedsInterruption'
  BY DEF NextNeedsInterruption, WatchTypeOK, KnownVersions,
     CopiesNeedInterruptions, Files, Nothing
<1>5. AnsweredIsImported' /\ CopiesNeedInterruptions'
  BY DEF AnsweredIsImported, CopiesNeedInterruptions
<1> QED
  BY <1>1, <1>2, <1>3, <1>4, <1>5 DEF WatchInv

LEMMA EndCopyKeeps ==
  ASSUME WatchInv, EndCopy
  PROVE  WatchInv'
<1> USE WatchBoundsAreNat
    DEF WatchInv, EndCopy, watcher, watchSeen, Versions
<1>1. WatchTypeOK'
  <2>1. disk' \in Files
    BY DEF WatchTypeOK, Files, Nothing
  <2>2. overwritten' \in SUBSET (0..LastVersion)
    BY DEF WatchTypeOK, Files, Nothing
  <2> QED
    BY <2>1, <2>2 DEF WatchTypeOK
<1>2. KnownVersions'
  BY DEF KnownVersions, WatchTypeOK, Files, Nothing
<1>3. OpenedIsThere'
  BY DEF OpenedIsThere, WatchTypeOK, KnownVersions, Files, Nothing
<1>4. NextNeedsInterruption'
  BY DEF NextNeedsInterruption, WatchTypeOK, KnownVersions,
     CopiesNeedInterruptions, Files, Nothing
<1>5. AnsweredIsImported' /\ CopiesNeedInterruptions'
  BY DEF AnsweredIsImported, CopiesNeedInterruptions
<1> QED
  BY <1>1, <1>2, <1>3, <1>4, <1>5 DEF WatchInv

LEMMA RemoveKeeps ==
  ASSUME WatchInv, Remove
  PROVE  WatchInv'
<1> USE WatchBoundsAreNat
    DEF WatchInv, Remove, watcher, watchSeen, Versions
<1>1. WatchTypeOK'
  <2>1. disk' \in Files
    BY DEF WatchTypeOK, Files, Nothing
  <2>2. overwritten' \in SUBSET (0..LastVersion)
    BY DEF WatchTypeOK, Files, Nothing
  <2> QED
    BY <2>1, <2>2 DEF WatchTypeOK
<1>2. KnownVersions'
  BY DEF KnownVersions, WatchTypeOK, Files, Nothing
<1>3. OpenedIsThere'
  BY DEF OpenedIsThere, WatchTypeOK, KnownVersions, Files, Nothing
<1>4. NextNeedsInterruption'
  BY DEF NextNeedsInterruption, WatchTypeOK, KnownVersions,
     CopiesNeedInterruptions, Files, Nothing
<1>5. AnsweredIsImported' /\ CopiesNeedInterruptions'
  BY DEF AnsweredIsImported, CopiesNeedInterruptions
<1> QED
  BY <1>1, <1>2, <1>3, <1>4, <1>5 DEF WatchInv

LEMMA WaitKeeps ==
  ASSUME WatchInv, Wait
  PROVE  WatchInv'
<1> USE WatchBoundsAreNat
    DEF WatchInv, Wait, watcher, watchSeen, Versions
<1>1. WatchTypeOK'
  <2>1. stable' \in BOOLEAN
    BY DEF WatchTypeOK
  <2> QED
    BY <2>1 DEF WatchTypeOK
<1>2. KnownVersions' /\ OpenedIsThere' /\ AnsweredIsImported' /\
   CopiesNeedInterruptions' /\ NextNeedsInterruption'
  BY DEF KnownVersions, OpenedIsThere, AnsweredIsImported,
     CopiesNeedInterruptions, NextNeedsInterruption
<1> QED
  BY <1>1, <1>2 DEF WatchInv

LEMMA NoteKeeps ==
  ASSUME WatchInv, Note
  PROVE  WatchInv'
<1> USE WatchBoundsAreNat
    DEF WatchInv, Note, watcher, watchSeen, Versions
<1>1. WatchTypeOK'
  <2>1. seen' \in Files
    BY DEF WatchTypeOK, Files, Nothing
  <2>2. stable' \in BOOLEAN
    BY DEF WatchTypeOK
  <2> QED
    BY <2>1, <2>2 DEF WatchTypeOK
<1>2. KnownVersions' /\ OpenedIsThere' /\ AnsweredIsImported' /\
   CopiesNeedInterruptions' /\ NextNeedsInterruption'
  BY DEF KnownVersions, OpenedIsThere, AnsweredIsImported,
     CopiesNeedInterruptions, NextNeedsInterruption
<1> QED
  BY <1>1, <1>2 DEF WatchInv

LEMMA ListKeeps ==
  ASSUME WatchInv, List
  PROVE  WatchInv'
<1> USE WatchBoundsAreNat
    DEF WatchInv, List, watcher, watchSeen, Versions
<1>1. WatchTypeOK'
  <2>1. inflight' \in BOOLEAN
    BY DEF WatchTypeOK
  <2>2. pc' \in {"idle", "listed", "sending", "answered"}
    BY DEF WatchTypeOK
  <2>3. (inflight' <=> pc' # "idle") /\ (sending' # Nothing <=> pc' \in {"sending", "answered"})
    BY DEF WatchTypeOK, Nothing
  <2> QED
    BY <2>1, <2>2, <2>3 DEF WatchTypeOK
<1>2. OpenedIsThere'
  BY DEF OpenedIsThere, WatchTypeOK, KnownVersions, Files, Nothing
<1>3. AnsweredIsImported'
  BY DEF AnsweredIsImported, WatchTypeOK, KnownVersions, Files, Nothing
<1>4. NextNeedsInterruption'
  BY DEF NextNeedsInterruption, WatchTypeOK, KnownVersions,
     CopiesNeedInterruptions, Files, Nothing
<1>5. KnownVersions' /\ CopiesNeedInterruptions'
  BY DEF KnownVersions, CopiesNeedInterruptions
<1> QED
  BY <1>1, <1>2, <1>3, <1>4, <1>5 DEF WatchInv

LEMMA OpenFileKeeps ==
  ASSUME WatchInv, OpenFile
  PROVE  WatchInv'
<1> USE WatchBoundsAreNat
    DEF WatchInv, OpenFile, watcher, watchSeen, Versions
<1>1. WatchTypeOK'
  <2>1. pc' \in {"idle", "listed", "sending", "answered"}
    BY DEF WatchTypeOK
  <2>2. sending' \in Files
    BY DEF WatchTypeOK, Files, Nothing
  <2>3. (inflight' <=> pc' # "idle") /\ (sending' # Nothing <=> pc' \in {"sending", "answered"})
    BY DEF WatchTypeOK, Nothing
  <2> QED
    BY <2>1, <2>2, <2>3 DEF WatchTypeOK
<1>2. KnownVersions'
  BY DEF KnownVersions, WatchTypeOK, Files, Nothing
<1>3. OpenedIsThere'
  BY DEF OpenedIsThere, WatchTypeOK, KnownVersions, Files, Nothing
<1>4. AnsweredIsImported'
  BY DEF AnsweredIsImported, WatchTypeOK, KnownVersions, Files, Nothing
<1>5. NextNeedsInterruption'
  BY DEF NextNeedsInterruption, WatchTypeOK, KnownVersions,
     CopiesNeedInterruptions, Files, Nothing
<1>6. CopiesNeedInterruptions'
  BY DEF CopiesNeedInterruptions
<1> QED
  BY <1>1, <1>2, <1>3, <1>4, <1>5, <1>6 DEF WatchInv

LEMMA OpenFailsKeeps ==
  ASSUME WatchInv, OpenFails
  PROVE  WatchInv'
<1> USE WatchBoundsAreNat
    DEF WatchInv, OpenFails, Leave, watcher, watchSeen, Versions
<1>1. WatchTypeOK'
  <2>1. inflight' \in BOOLEAN
    BY DEF WatchTypeOK
  <2>2. pc' \in {"idle", "listed", "sending", "answered"}
    BY DEF WatchTypeOK
  <2>3. sending' \in Files
    BY DEF WatchTypeOK, Files, Nothing
  <2>4. (inflight' <=> pc' # "idle") /\ (sending' # Nothing <=> pc' \in {"sending", "answered"})
    BY DEF WatchTypeOK, Nothing
  <2> QED
    BY <2>1, <2>2, <2>3, <2>4 DEF WatchTypeOK
<1>2. KnownVersions'
  BY DEF KnownVersions, WatchTypeOK, Files, Nothing
<1>3. OpenedIsThere'
  BY DEF OpenedIsThere, WatchTypeOK, KnownVersions, Files, Nothing
<1>4. AnsweredIsImported'
  BY DEF AnsweredIsImported, WatchTypeOK, KnownVersions, Files, Nothing
<1>5. NextNeedsInterruption'
  BY DEF NextNeedsInterruption, WatchTypeOK, KnownVersions,
     CopiesNeedInterruptions, Files, Nothing
<1>6. CopiesNeedInterruptions'
  BY DEF CopiesNeedInterruptions
<1> QED
  BY <1>1, <1>2, <1>3, <1>4, <1>5, <1>6 DEF WatchInv

LEMMA ImportKeeps ==
  ASSUME WatchInv, Import
  PROVE  WatchInv'
<1> USE WatchBoundsAreNat
    DEF WatchInv, Import, Imported, watcher, watchSeen, Versions
<1>0. PICK v : v = sending.v /\ v \in Versions
                /\ imports' \in {imports, [imports EXCEPT ![v] = @ + 1]}
  BY DEF WatchTypeOK
<1>1. WatchTypeOK'
  <2>1. pc' \in {"idle", "listed", "sending", "answered"}
    BY DEF WatchTypeOK
  <2>2. imports' \in [Versions -> Nat]
    <3>1. imports \in [Versions -> Nat] /\ v \in Versions
      BY <1>0 DEF WatchTypeOK
    <3>2. [imports EXCEPT ![v] = @ + 1] \in [Versions -> Nat]
      BY <3>1
    <3> QED
      BY <3>1, <3>2, <1>0
  <2>3. (inflight' <=> pc' # "idle") /\ (sending' # Nothing <=> pc' \in {"sending", "answered"})
    BY DEF WatchTypeOK, Nothing
  <2> QED
    BY <2>1, <2>2, <2>3 DEF WatchTypeOK
<1>2. KnownVersions'
  BY DEF KnownVersions, WatchTypeOK, Files, Nothing
<1>3. OpenedIsThere'
  BY DEF OpenedIsThere, WatchTypeOK, KnownVersions, Files, Nothing
<1>4. AnsweredIsImported'
  BY DEF AnsweredIsImported, WatchTypeOK, KnownVersions, Files, Nothing
<1>5. CopiesNeedInterruptions'
  <2>1. /\ imports[v] \in Nat /\ interrupted \in Nat /\ interrupted' = interrupted
        /\ imports[v] <= interrupted
    BY <1>0 DEF WatchTypeOK, NextNeedsInterruption
  <2>2. imports'[v] <= imports[v] + 1
    BY <2>1, <1>0 DEF WatchTypeOK
  <2>3. \A w \in Versions : w # v => imports'[w] = imports[w]
    BY <1>0 DEF WatchTypeOK
  <2>4. imports'[v] \in Nat
    BY <1>0, <1>1 DEF WatchTypeOK
  <2> QED
    BY <2>1, <2>2, <2>3, <2>4 DEF CopiesNeedInterruptions
<1>6. NextNeedsInterruption'
  BY DEF NextNeedsInterruption, WatchTypeOK, KnownVersions,
     CopiesNeedInterruptions, Files, Nothing
<1> QED
  BY <1>1, <1>2, <1>3, <1>4, <1>5, <1>6 DEF WatchInv

LEMMA RefusedKeeps ==
  ASSUME WatchInv, Refused
  PROVE  WatchInv'
<1> USE WatchBoundsAreNat
    DEF WatchInv, Refused, Leave, watcher, watchSeen, Versions
<1>1. WatchTypeOK'
  <2>1. inflight' \in BOOLEAN
    BY DEF WatchTypeOK
  <2>2. pc' \in {"idle", "listed", "sending", "answered"}
    BY DEF WatchTypeOK
  <2>3. sending' \in Files
    BY DEF WatchTypeOK, Files, Nothing
  <2>4. (inflight' <=> pc' # "idle") /\ (sending' # Nothing <=> pc' \in {"sending", "answered"})
    BY DEF WatchTypeOK, Nothing
  <2> QED
    BY <2>1, <2>2, <2>3, <2>4 DEF WatchTypeOK
<1>2. KnownVersions'
  BY DEF KnownVersions, WatchTypeOK, Files, Nothing
<1>3. OpenedIsThere'
  BY DEF OpenedIsThere, WatchTypeOK, KnownVersions, Files, Nothing
<1>4. AnsweredIsImported'
  BY DEF AnsweredIsImported, WatchTypeOK, KnownVersions, Files, Nothing
<1>5. NextNeedsInterruption'
  BY DEF NextNeedsInterruption, WatchTypeOK, KnownVersions,
     CopiesNeedInterruptions, Files, Nothing
<1>6. CopiesNeedInterruptions'
  BY DEF CopiesNeedInterruptions
<1> QED
  BY <1>1, <1>2, <1>3, <1>4, <1>5, <1>6 DEF WatchInv

LEMMA ConnectionLostKeeps ==
  ASSUME WatchInv, ConnectionLost
  PROVE  WatchInv'
<1> USE WatchBoundsAreNat
    DEF WatchInv, ConnectionLost, Leave, watcher, watchSeen, Versions
<1>1. WatchTypeOK'
  <2>1. inflight' \in BOOLEAN
    BY DEF WatchTypeOK
  <2>2. pc' \in {"idle", "listed", "sending", "answered"}
    BY DEF WatchTypeOK
  <2>3. sending' \in Files
    BY DEF WatchTypeOK, Files, Nothing
  <2>4. interrupted' \in 0..MaxInterruptions
    BY DEF WatchTypeOK
  <2>5. (inflight' <=> pc' # "idle") /\ (sending' # Nothing <=> pc' \in {"sending", "answered"})
    BY DEF WatchTypeOK, Nothing
  <2> QED
    BY <2>1, <2>2, <2>3, <2>4, <2>5 DEF WatchTypeOK
<1>2. KnownVersions'
  BY DEF KnownVersions, WatchTypeOK, Files, Nothing
<1>3. OpenedIsThere'
  BY DEF OpenedIsThere, WatchTypeOK, KnownVersions, Files, Nothing
<1>4. AnsweredIsImported'
  BY DEF AnsweredIsImported, WatchTypeOK, KnownVersions, Files, Nothing
<1>5. CopiesNeedInterruptions'
  BY DEF CopiesNeedInterruptions, WatchTypeOK, KnownVersions,
     NextNeedsInterruption, Files, Nothing
<1>6. NextNeedsInterruption'
  BY DEF NextNeedsInterruption, WatchTypeOK, KnownVersions,
     CopiesNeedInterruptions, Files, Nothing
<1> QED
  BY <1>1, <1>2, <1>3, <1>4, <1>5, <1>6 DEF WatchInv

LEMMA UnlinkKeeps ==
  ASSUME WatchInv, Unlink
  PROVE  WatchInv'
<1> USE WatchBoundsAreNat
    DEF WatchInv, Unlink, Leave, watcher, watchSeen, Versions
<1>1. WatchTypeOK'
  <2>1. disk' \in Files
    BY DEF WatchTypeOK, Files, Nothing
  <2>2. seen' \in Files
    BY DEF WatchTypeOK, Files, Nothing
  <2>3. stable' \in BOOLEAN
    BY DEF WatchTypeOK
  <2>4. inflight' \in BOOLEAN
    BY DEF WatchTypeOK
  <2>5. pc' \in {"idle", "listed", "sending", "answered"}
    BY DEF WatchTypeOK
  <2>6. sending' \in Files
    BY DEF WatchTypeOK, Files, Nothing
  <2>7. (inflight' <=> pc' # "idle") /\ (sending' # Nothing <=> pc' \in {"sending", "answered"})
    BY DEF WatchTypeOK, Nothing
  <2> QED
    BY <2>1, <2>2, <2>3, <2>4, <2>5, <2>6, <2>7 DEF WatchTypeOK
<1>2. KnownVersions'
  BY DEF KnownVersions, WatchTypeOK, Files, Nothing
<1>3. OpenedIsThere'
  BY DEF OpenedIsThere, WatchTypeOK, KnownVersions, Files, Nothing
<1>4. AnsweredIsImported'
  BY DEF AnsweredIsImported, WatchTypeOK, KnownVersions, Files, Nothing
<1>5. NextNeedsInterruption'
  BY DEF NextNeedsInterruption, WatchTypeOK, KnownVersions,
     CopiesNeedInterruptions, Files, Nothing
<1>6. CopiesNeedInterruptions'
  BY DEF CopiesNeedInterruptions
<1> QED
  BY <1>1, <1>2, <1>3, <1>4, <1>5, <1>6 DEF WatchInv

LEMMA UnlinkFailsKeeps ==
  ASSUME WatchInv, UnlinkFails
  PROVE  WatchInv'
<1> USE WatchBoundsAreNat
    DEF WatchInv, UnlinkFails, Leave, watcher, watchSeen, Versions
<1>1. WatchTypeOK'
  <2>1. seen' \in Files
    BY DEF WatchTypeOK, Files, Nothing
  <2>2. stable' \in BOOLEAN
    BY DEF WatchTypeOK
  <2>3. inflight' \in BOOLEAN
    BY DEF WatchTypeOK
  <2>4. pc' \in {"idle", "listed", "sending", "answered"}
    BY DEF WatchTypeOK
  <2>5. sending' \in Files
    BY DEF WatchTypeOK, Files, Nothing
  <2>6. interrupted' \in 0..MaxInterruptions
    BY DEF WatchTypeOK
  <2>7. (inflight' <=> pc' # "idle") /\ (sending' # Nothing <=> pc' \in {"sending", "answered"})
    BY DEF WatchTypeOK, Nothing
  <2> QED
    BY <2>1, <2>2, <2>3, <2>4, <2>5, <2>6, <2>7 DEF WatchTypeOK
<1>2. KnownVersions'
  BY DEF KnownVersions, WatchTypeOK, Files, Nothing
<1>3. OpenedIsThere'
  BY DEF OpenedIsThere, WatchTypeOK, KnownVersions, Files, Nothing
<1>4. AnsweredIsImported'
  BY DEF AnsweredIsImported, WatchTypeOK, KnownVersions, Files, Nothing
<1>5. CopiesNeedInterruptions'
  BY DEF CopiesNeedInterruptions, WatchTypeOK, KnownVersions,
     NextNeedsInterruption, Files, Nothing
<1>6. NextNeedsInterruption'
  BY DEF NextNeedsInterruption, WatchTypeOK, KnownVersions,
     CopiesNeedInterruptions, Files, Nothing
<1> QED
  BY <1>1, <1>2, <1>3, <1>4, <1>5, <1>6 DEF WatchInv

LEMMA RestartKeeps ==
  ASSUME WatchInv, Restart
  PROVE  WatchInv'
<1> USE WatchBoundsAreNat
    DEF WatchInv, Restart, Leave, watcher, watchSeen, Versions
<1>1. WatchTypeOK'
  <2>1. seen' \in Files
    BY DEF WatchTypeOK, Files, Nothing
  <2>2. stable' \in BOOLEAN
    BY DEF WatchTypeOK
  <2>3. inflight' \in BOOLEAN
    BY DEF WatchTypeOK
  <2>4. pc' \in {"idle", "listed", "sending", "answered"}
    BY DEF WatchTypeOK
  <2>5. sending' \in Files
    BY DEF WatchTypeOK, Files, Nothing
  <2>6. interrupted' \in 0..MaxInterruptions
    BY DEF WatchTypeOK
  <2>7. (inflight' <=> pc' # "idle") /\ (sending' # Nothing <=> pc' \in {"sending", "answered"})
    BY DEF WatchTypeOK, Nothing
  <2> QED
    BY <2>1, <2>2, <2>3, <2>4, <2>5, <2>6, <2>7 DEF WatchTypeOK
<1>2. KnownVersions'
  BY DEF KnownVersions, WatchTypeOK, Files, Nothing
<1>3. OpenedIsThere'
  BY DEF OpenedIsThere, WatchTypeOK, KnownVersions, Files, Nothing
<1>4. AnsweredIsImported'
  BY DEF AnsweredIsImported, WatchTypeOK, KnownVersions, Files, Nothing
<1>5. CopiesNeedInterruptions'
  BY DEF CopiesNeedInterruptions, WatchTypeOK, KnownVersions,
     NextNeedsInterruption, Files, Nothing
<1>6. NextNeedsInterruption'
  BY DEF NextNeedsInterruption, WatchTypeOK, KnownVersions,
     CopiesNeedInterruptions, Files, Nothing
<1> QED
  BY <1>1, <1>2, <1>3, <1>4, <1>5, <1>6 DEF WatchInv

LEMMA WatchStepInv == WatchInv /\ [WatchNext]_WatchVars => WatchInv'
<1> SUFFICES ASSUME WatchInv, [WatchNext]_WatchVars PROVE WatchInv'
  OBVIOUS
<1>1. CASE UNCHANGED WatchVars
  BY <1>1 DEF WatchVars, watcher, watchSeen, WatchInv, WatchTypeOK, KnownVersions,
         OpenedIsThere, AnsweredIsImported, CopiesNeedInterruptions,
         NextNeedsInterruption
<1>2. CASE WatchNext
  BY <1>2, BeginCopyKeeps, EndCopyKeeps, RemoveKeeps, WaitKeeps, NoteKeeps,
     ListKeeps, OpenFileKeeps, OpenFailsKeeps, ImportKeeps, RefusedKeeps,
     ConnectionLostKeeps, UnlinkKeeps, UnlinkFailsKeeps, RestartKeeps
     DEF WatchNext
<1> QED
  BY <1>1, <1>2

\* The parts of the invariant hold of every reachable folder, for any number of
\* copies and of interruptions (ferry_gateway_agent/watcher.py).
THEOREM FolderInvariance == WatchSpec => []WatchInv
<1>1. WatchSpec => WatchInit /\ [][WatchNext]_WatchVars
  BY DEF WatchSpec
<1> QED
  BY <1>1, WatchInitInv, WatchStepInv, PTL

\* A version is imported once, and once more at most for each answer, removal
\* or snapshot that was lost (upload_file, _stable_files).
THEOREM CopiesAreInterruptions == WatchSpec => []CopiesNeedInterruptions
<1>1. WatchInv => CopiesNeedInterruptions
  BY DEF WatchInv
<1> QED
  BY <1>1, FolderInvariance, PTL

\* The agent removes a whole book from the folder only once it is in the
\* library, unless it changed during an upload (upload_file's unlink).
THEOREM RemovedWasImported == WatchSpec => RemovedIsImported
<1> DEFINE Kept == (disk.whole /\ disk' = Nothing /\ disk.v \notin overwritten')
                     => imports[disk.v] > 0
<1>1. WatchInv /\ [WatchNext]_WatchVars => [Kept]_WatchVars
  <2> SUFFICES ASSUME WatchInv, WatchNext, disk.whole, disk' = Nothing,
                      disk.v \notin overwritten'
               PROVE  imports[disk.v] > 0
    BY DEF WatchVars
  <2> USE DEF WatchInv, WatchTypeOK, KnownVersions
  <2>1. disk' # disk
    BY DEF Nothing, Files
  <2>2. BeginCopy \/ EndCopy \/ Remove \/ Unlink
    BY <2>1 DEF WatchNext, Wait, Note, List, OpenFile, OpenFails, Import, Refused,
           ConnectionLost, UnlinkFails, Restart
  <2>3. CASE BeginCopy
    BY <2>3, WatchBoundsAreNat DEF BeginCopy, Nothing
  <2>4. CASE EndCopy
    BY <2>4 DEF EndCopy, Nothing, Files
  <2>5. CASE Remove
    BY <2>5 DEF Remove
  <2>6. CASE Unlink
    <3>1. pc = "answered" /\ overwritten' = overwritten
      BY <2>6 DEF Unlink, watchSeen
    <3>2. disk = sending
      BY <3>1 DEF OpenedIsThere
    <3> QED
      BY <3>1, <3>2 DEF AnsweredIsImported
  <2> QED
    BY <2>2, <2>3, <2>4, <2>5, <2>6
<1>2. WatchSpec => [][WatchNext]_WatchVars
  BY DEF WatchSpec
<1> QED
  BY <1>1, <1>2, FolderInvariance, PTL DEF RemovedIsImported

-----------------------------------------------------------------------------
(***************************************************************************)
(* What an agent keeps, as a whole: a step is of the pairing or of the     *)
(* folder, and leaves the other alone.                                     *)
(***************************************************************************)
LEMMA KeepsBoth == Spec => PairSpec /\ WatchSpec
<1>1. Spec => Init /\ [][Next]_vars
  BY DEF Spec
<1>2. Init => PairInit /\ WatchInit
  BY DEF Init
<1>3. [Next]_vars => [PairNext]_PairVars /\ [WatchNext]_WatchVars
  BY DEF Next, vars
<1> QED
  BY <1>1, <1>2, <1>3, PTL DEF PairSpec, WatchSpec

\* A book in the folder is imported before the agent removes it, and once but
\* for what was lost, whatever the pairing does (watcher.py's poll_once and
\* upload_file).
THEOREM FolderIsAlwaysSafe == Spec => FolderIsSafe
<1>1. PairInv => PairTypeOK
  BY DEF PairInv
<1>2. WatchInv => WatchTypeOK /\ CopiesNeedInterruptions
  BY DEF WatchInv
<1> QED
  BY <1>1, <1>2, KeepsBoth, PairingInvariance, FolderInvariance, RemovedWasImported, PTL
  DEF FolderIsSafe
=============================================================================
