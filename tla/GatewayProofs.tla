---------------------------- MODULE GatewayProofs ----------------------------
(***************************************************************************)
(* Proofs about Access and Gateway, for any replicas, merchants, calls,    *)
(* keys and lifetimes of tokens: the bootstrap merchant is created once,   *)
(* JWTs admit until they expire, a revoked API key serves only calls that  *)
(* were admitted before, and an Idempotency-Key runs its operation once,   *)
(* but for overlaps and failures.  And about Routes, for any merchants,    *)
(* requests, calls and failures: whose answer a repeated request gets,     *)
(* what it creates, and what becomes of a link archived meanwhile.         *)
(***************************************************************************)
EXTENDS Gateway, Routes, FiniteSetTheorems, TLAPS

USE AccessAssumption, GatewayAssumption

KeyRows == [status : {"absent", "live", "revoked"}, owner : SUBSET Merchants]

CallRows == [stage : {"idle", "user", "api_key", "run", "store"}, merchant : SUBSET Merchants,
             header : SUBSET IdemKeys, key : SUBSET ApiKeys]

Booting == {r \in AuthReplicas : replica[r] = "bootstrapping"}

\* Replicas bootstrap only while there is no merchant, so that what is being
\* and what has been bootstrapped is bounded together.
BootOK ==
  /\ IsFiniteSet(merchants)
  /\ Cardinality(merchants) + Cardinality(Booting) <= Cardinality(AuthReplicas)
  /\ ~contended => Cardinality(merchants) + Cardinality(Booting) <= 1

\* Access tokens outlive the last pair issued by AccessTTL at most.
FreshOK == \A t \in tokens : t.type = "access" => t.expires <= issued + AccessTTL

AccessInv == AccessTypeOK /\ apiKey \in [ApiKeys -> KeyRows] /\ BootOK /\ FreshOK

\* What GatewayTypeOK says of a call x when M are the merchants and A the keys.
Proper(x, M, A) ==
  /\ x.stage # "idle" => \E m \in M : x.merchant = {m}
  /\ x.stage \in {"run", "store"} => \E i \in IdemKeys : x.header = {i}
  /\ x.stage \in {"api_key", "store"} => \E k \in ApiKeys : x.key = {k} /\ A[k].owner = x.merchant

\* What it says of the answer v stored for merchant m.
ProperAnswer(v, m, A) == v # {} => \E k \in ApiKeys : v = {k} /\ A[k].owner = {m}

\* The calls of an Idempotency-Key that have neither failed nor overlapped: the
\* one that runs or the one whose answer is stored.
EffectOK ==
  \A s \in Scopes :
    runs[s] <= overlaps[s] + faults + (IF stored[s] # {} \/ Running(s) # {} THEN 1 ELSE 0)

\* The calls admitted with an API key and not served yet.
Admitted(k) == {c \in Callers : call[c].stage = "api_key" /\ call[c].key = {k}}

\* After a revocation every call admitted before it is served once at most.
LateOK ==
  \A k \in ApiKeys : lateUses[k] + (IF apiKey[k].status = "revoked" THEN Cardinality(Admitted(k)) ELSE 0)
                       <= (IF apiKey[k].status = "revoked" THEN Cardinality(Callers) ELSE 0)

CallsOK ==
  /\ call \in [Callers -> CallRows]
  /\ stored \in [Scopes -> SUBSET ApiKeys]
  /\ runs \in [Scopes -> Nat] /\ overlaps \in [Scopes -> Nat] /\ lateUses \in [ApiKeys -> Nat]
  /\ \A c \in Callers : Proper(call[c], merchants, apiKey)
  /\ \A s \in Scopes : ProperAnswer(stored[s], s[1], apiKey)

GatewayInv == AccessInv /\ CallsOK /\ EffectOK /\ LateOK

-----------------------------------------------------------------------------
(* Merchants, tokens and keys *)

\* What a step of the gateway can do to the state of auth-service.
AccessStep ==
  \/ AccessNext
  \/ \E m \in merchants : \/ \E k \in ApiKeys : CreateApiKey(m, k) \/ RevokeApiKey(m, k)
                          \/ UpdateMerchantSettings(m)
  \/ Fault /\ UNCHANGED <<bootVars, tokenVars, keyVars>>
  \/ UNCHANGED accessVars

\* Merchants and owners stay, failures add up, and revocation is final.
Grown ==
  /\ merchants \subseteq merchants'
  /\ faults' \in Nat /\ faults <= faults'
  /\ \A k \in ApiKeys : /\ apiKey[k].owner # {} => apiKey'[k].owner = apiKey[k].owner
                        /\ apiKey[k].status = "revoked" => apiKey'[k].status = "revoked"

\* What a step of an API key's life leaves: its owner, and its revocation.
KeysFollow ==
  /\ apiKey' \in [ApiKeys -> KeyRows]
  /\ \A k \in ApiKeys :
       /\ \/ apiKey'[k] = NoKey
          \/ \E o \in merchants : apiKey'[k] \in [status : {"live", "revoked"}, owner : {{o}}]
       /\ apiKey[k].owner # {} => apiKey'[k].owner = apiKey[k].owner
       /\ apiKey[k].status = "revoked" => apiKey'[k].status = "revoked"

\* The sets that are counted are finite.
LEMMA Counted ==
  ASSUME IsFiniteSet(merchants)
  PROVE  /\ IsFiniteSet(Booting) /\ Cardinality(Booting) \in Nat
         /\ Cardinality(Booting) <= Cardinality(AuthReplicas)
         /\ Cardinality(merchants) \in Nat /\ Cardinality(AuthReplicas) \in Nat
  <1>1. Booting \subseteq AuthReplicas
    BY DEF Booting
  <1>2. QED
    BY <1>1, FS_Subset, FS_CardinalityType DEF AccessAssumption

\* A step that starts or stops no replica and adds no merchant.
LEMMA SameBoot ==
  ASSUME BootOK, UNCHANGED bootVars PROVE BootOK'
  BY DEF BootOK, bootVars, Booting

\* A step that issues no token.
LEMMA SameTokens ==
  ASSUME FreshOK, UNCHANGED tokenVars PROVE FreshOK'
  BY DEF FreshOK, tokenVars

\* A replica counts the users.
LEMMA CountUsersKeeps ==
  ASSUME AccessInv, NEW r \in AuthReplicas, CountUsers(r) PROVE AccessInv' /\ Grown
  <1>1. /\ replica[r] = "down"
        /\ replica' = [replica EXCEPT ![r] = IF merchants = {} THEN "bootstrapping" ELSE "up"]
        /\ contended' = (contended \/ /\ merchants = {}
                                      /\ \E q \in AuthReplicas \ {r} : replica[q] = "bootstrapping")
        /\ UNCHANGED <<merchants, tokenVars, keyVars, faults>>
    BY DEF CountUsers
  <1>2. AccessTypeOK' /\ (apiKey \in [ApiKeys -> KeyRows])' /\ Grown
    BY <1>1 DEF AccessInv, AccessTypeOK, tokenVars, keyVars, Grown
  <1>3. IsFiniteSet(merchants) /\ IsFiniteSet(merchants') /\ merchants' = merchants
    BY <1>1 DEF AccessInv, BootOK
  <1>4. BootOK'
    <2>1. CASE merchants # {}
      <3>1. Booting' = Booting
        BY <1>1, <2>1 DEF AccessInv, AccessTypeOK, Booting
      <3>2. QED
        BY <1>1, <2>1, <3>1 DEF AccessInv, BootOK
    <2>2. CASE merchants = {}
      <3>1. Cardinality(merchants') = 0
        BY <1>3, <2>2, FS_EmptySet
      <3>2. Cardinality(Booting)' \in Nat /\ Cardinality(Booting)' <= Cardinality(AuthReplicas)
        <4>1. Booting' \subseteq AuthReplicas
          BY DEF Booting
        <4>2. QED
          BY <4>1, FS_Subset, FS_CardinalityType DEF AccessAssumption
      <3>3. ~contended' => Booting' = {r}
        BY <1>1, <2>2 DEF AccessInv, AccessTypeOK, Booting
      <3>4. Cardinality({r}) = 1
        BY FS_Singleton
      <3>5. Cardinality(AuthReplicas) \in Nat
        BY FS_CardinalityType DEF AccessAssumption
      <3>6. QED
        BY <1>3, <3>1, <3>2, <3>3, <3>4, <3>5 DEF BootOK
    <2>3. QED
      BY <2>1, <2>2
  <1>5. FreshOK'
    BY <1>1, SameTokens DEF AccessInv
  <1>6. QED
    BY <1>2, <1>4, <1>5 DEF AccessInv

\* A replica commits its merchant and leaves the ones that bootstrap.
LEMMA CommitBootstrapKeeps ==
  ASSUME AccessInv, NEW r \in AuthReplicas, CommitBootstrap(r) PROVE AccessInv' /\ Grown
  <1>1. PICK m \in Merchants \ merchants : merchants' = merchants \cup {m}
    BY DEF CommitBootstrap
  <1>2. /\ replica[r] = "bootstrapping" /\ replica' = [replica EXCEPT ![r] = "up"]
        /\ UNCHANGED <<contended, tokenVars, apiKey, settlement, faults>>
    BY DEF CommitBootstrap
  <1>3. AccessTypeOK' /\ (apiKey \in [ApiKeys -> KeyRows])' /\ Grown
    BY <1>1, <1>2 DEF AccessInv, AccessTypeOK, tokenVars, Grown
  <1>4. BootOK'
    <2>1. Booting = Booting' \union {r} /\ r \notin Booting'
      BY <1>2 DEF AccessInv, AccessTypeOK, Booting
    <2>2. IsFiniteSet(Booting')
      <3>1. Booting' \subseteq AuthReplicas
        BY DEF Booting
      <3>2. QED
        BY <3>1, FS_Subset DEF AccessAssumption
    <2>3. Cardinality(Booting) = Cardinality(Booting') + 1 /\ Cardinality(Booting') \in Nat
      BY <2>1, <2>2, FS_AddElement, FS_CardinalityType
    <2>4. /\ IsFiniteSet(merchants') /\ Cardinality(merchants') = Cardinality(merchants) + 1
          /\ Cardinality(merchants) \in Nat
      BY <1>1, FS_AddElement, FS_CardinalityType DEF AccessInv, BootOK
    <2>5. QED
      BY <1>2, <2>3, <2>4 DEF AccessInv, BootOK
  <1>5. FreshOK'
    BY <1>2, SameTokens DEF AccessInv
  <1>6. QED
    BY <1>3, <1>4, <1>5 DEF AccessInv

\* A replica stops.
LEMMA StopReplicaKeeps ==
  ASSUME AccessInv, NEW r \in AuthReplicas, StopReplica(r) PROVE AccessInv' /\ Grown
  <1>1. /\ replica' = [replica EXCEPT ![r] = "down"]
        /\ Fault /\ UNCHANGED <<merchants, contended, tokenVars, keyVars>>
    BY DEF StopReplica
  <1>2. AccessTypeOK' /\ (apiKey \in [ApiKeys -> KeyRows])' /\ Grown
    BY <1>1 DEF AccessInv, AccessTypeOK, tokenVars, keyVars, Grown, Fault
  <1>3. BootOK'
    <2>1. Booting' \subseteq Booting
      BY <1>1 DEF AccessInv, AccessTypeOK, Booting
    <2>2. IsFiniteSet(Booting) /\ Cardinality(Booting) \in Nat /\ Cardinality(merchants) \in Nat
          /\ Cardinality(AuthReplicas) \in Nat
      BY Counted DEF AccessInv, BootOK
    <2>3. Cardinality(Booting') <= Cardinality(Booting) /\ Cardinality(Booting') \in Nat
      BY <2>1, <2>2, FS_Subset, FS_CardinalityType
    <2>4. QED
      BY <1>1, <2>2, <2>3 DEF AccessInv, BootOK
  <1>4. FreshOK'
    BY <1>1, SameTokens DEF AccessInv
  <1>5. QED
    BY <1>2, <1>3, <1>4 DEF AccessInv

\* A pair of tokens is issued to a merchant that exists.
LEMMA IssueKeeps ==
  ASSUME AccessInv, NEW m \in merchants, Issue(m) PROVE AccessInv' /\ Grown
  <1>1. /\ tokens' = tokens \cup
             {[type |-> "access", merchant |-> m, expires |-> clock + AccessTTL],
              [type |-> "refresh", merchant |-> m, expires |-> clock + RefreshTTL]}
        /\ issued' = clock
        /\ UNCHANGED <<bootVars, clock, keyVars, faults>>
    BY DEF Issue
  <1>2. m \in Merchants /\ clock \in 0 .. MaxClock /\ issued \in 0 .. clock
    BY DEF AccessInv, AccessTypeOK
  <1>3. /\ clock + AccessTTL \in 0 .. MaxClock + AccessTTL + RefreshTTL
        /\ clock + RefreshTTL \in 0 .. MaxClock + AccessTTL + RefreshTTL
    BY <1>2 DEF AccessAssumption
  <1>4. tokens' \subseteq Jwts /\ \A t \in tokens' : t.merchant \in merchants
    BY <1>1, <1>2, <1>3 DEF AccessInv, AccessTypeOK, Jwts
  <1>5. AccessTypeOK' /\ (apiKey \in [ApiKeys -> KeyRows])' /\ Grown
    BY <1>1, <1>2, <1>4 DEF AccessInv, AccessTypeOK, bootVars, keyVars, Grown
  <1>6. FreshOK'
    <2>1. \A t \in tokens : t.type = "access" => t.expires <= clock + AccessTTL
      BY <1>2 DEF AccessInv, FreshOK, AccessTypeOK, Jwts, AccessAssumption
    <2>2. QED
      BY <1>1, <1>2, <2>1 DEF FreshOK, AccessAssumption
  <1>7. QED
    BY <1>1, <1>5, <1>6, SameBoot DEF AccessInv

\* A key is made or revoked, or settings are updated, for a merchant.
LEMMA KeyStepKeeps ==
  ASSUME AccessInv, NEW m \in merchants,
         \/ \E k \in ApiKeys : CreateApiKey(m, k) \/ RevokeApiKey(m, k)
         \/ UpdateMerchantSettings(m)
  PROVE  AccessInv' /\ Grown
  <1>1. UNCHANGED <<bootVars, tokenVars>>
    BY DEF CreateApiKey, RevokeApiKey, UpdateMerchantSettings
  <1>2. faults' \in 0 .. MaxFaults /\ faults <= faults' /\ faults' \in Nat
    <2>1. faults' = faults \/ Fault
      BY DEF CreateApiKey, RevokeApiKey, UpdateMerchantSettings, Announce
    <2>2. QED
      BY <2>1 DEF Fault, AccessInv, AccessTypeOK, AccessAssumption
  <1>3. settlement' \subseteq merchants
    BY DEF CreateApiKey, RevokeApiKey, UpdateMerchantSettings, AccessInv, AccessTypeOK
  <1>4. KeysFollow
    <2>1. ASSUME NEW k \in ApiKeys, CreateApiKey(m, k) PROVE KeysFollow
      <3>1. /\ apiKey' = [apiKey EXCEPT ![k] = [status |-> "live", owner |-> {m}]]
            /\ apiKey[k] = NoKey /\ {m} \in SUBSET Merchants
            /\ apiKey \in [ApiKeys -> KeyRows]
        BY <2>1 DEF CreateApiKey, AccessInv, AccessTypeOK
      <3>2. /\ apiKey'[k] = [status |-> "live", owner |-> {m}] /\ apiKey'[k] \in KeyRows
            /\ apiKey[k].owner = {} /\ apiKey[k].status = "absent"
        BY <3>1 DEF NoKey, KeyRows
      <3>3. \A j \in ApiKeys : j # k => apiKey'[j] = apiKey[j]
        BY <3>1
      <3>4. apiKey' \in [ApiKeys -> KeyRows]
        BY <3>1, <3>2
      <3>5. \A j \in ApiKeys : j # k =>
              \/ apiKey'[j] = NoKey
              \/ \E o \in merchants : apiKey'[j] \in [status : {"live", "revoked"}, owner : {{o}}]
        BY <3>3 DEF AccessInv, AccessTypeOK
      <3>6. apiKey'[k] \in [status : {"live", "revoked"}, owner : {{m}}]
        BY <3>2
      <3>7. QED
        BY <3>2, <3>3, <3>4, <3>5, <3>6 DEF KeysFollow
    <2>2. ASSUME NEW k \in ApiKeys, RevokeApiKey(m, k) PROVE KeysFollow
      <3>1. /\ apiKey' = [apiKey EXCEPT ![k].status = "revoked"]
            /\ apiKey[k] = [status |-> "live", owner |-> {m}] /\ {m} \in SUBSET Merchants
        BY <2>2 DEF RevokeApiKey, AccessInv, AccessTypeOK
      <3>2. apiKey'[k] = [status |-> "revoked", owner |-> {m}]
        BY <3>1 DEF AccessInv
      <3>3. QED
        BY <3>1, <3>2 DEF AccessInv, AccessTypeOK, NoKey, KeyRows, KeysFollow
    <2>3. CASE UpdateMerchantSettings(m)
      BY <2>3 DEF UpdateMerchantSettings, AccessInv, AccessTypeOK, KeysFollow
    <2>4. QED
      BY <2>1, <2>2, <2>3
  <1>5. AccessTypeOK'
    BY <1>1, <1>2, <1>3, <1>4 DEF AccessInv, AccessTypeOK, bootVars, tokenVars, KeysFollow
  <1>6. QED
    BY <1>1, <1>2, <1>4, <1>5, SameBoot, SameTokens DEF AccessInv, Grown, bootVars, KeysFollow

\* Whatever a step does to the state of auth-service keeps its invariant.
LEMMA AccessKeeps ==
  ASSUME AccessInv, AccessStep PROVE AccessInv' /\ Grown
  <1>1. ASSUME UNCHANGED <<bootVars, tokenVars, keyVars>>, Fault \/ UNCHANGED faults
        PROVE  AccessInv' /\ Grown
    <2>1. faults' \in 0 .. MaxFaults /\ faults <= faults' /\ faults' \in Nat
      BY <1>1 DEF Fault, AccessInv, AccessTypeOK, AccessAssumption
    <2>2. AccessTypeOK' /\ (apiKey \in [ApiKeys -> KeyRows])' /\ Grown
      BY <1>1, <2>1 DEF AccessInv, AccessTypeOK, bootVars, tokenVars, keyVars, Grown
    <2>3. QED
      BY <1>1, <2>2, SameBoot, SameTokens DEF AccessInv
  <1>2. ASSUME AccessNext PROVE AccessInv' /\ Grown
    <2>1. ASSUME NEW r \in AuthReplicas, CountUsers(r) \/ CommitBootstrap(r) \/ StopReplica(r)
          PROVE  AccessInv' /\ Grown
      BY <2>1, CountUsersKeeps, CommitBootstrapKeeps, StopReplicaKeeps
    <2>2. CASE TimePasses
      <3>1. AccessTypeOK' /\ (apiKey \in [ApiKeys -> KeyRows])' /\ Grown
        BY <2>2 DEF TimePasses, AccessInv, AccessTypeOK, bootVars, keyVars, Grown
      <3>2. FreshOK'
        BY <2>2 DEF TimePasses, AccessInv, FreshOK
      <3>3. QED
        BY <2>2, <3>1, <3>2, SameBoot DEF TimePasses, AccessInv
    <2>3. CASE Login \/ Refresh
      BY <2>3, IssueKeeps DEF Login, Refresh, AccessInv, AccessTypeOK
    <2>4. QED
      BY <1>2, <2>1, <2>2, <2>3 DEF AccessNext
  <1>3. QED
    BY <1>1, <1>2, KeyStepKeeps DEF AccessStep, accessVars

-----------------------------------------------------------------------------
(* Calls *)

\* Calls and answers stay proper when merchants and keys only grow.
LEMMA StillProper ==
  ASSUME AccessInv, CallsOK, Grown
  PROVE  /\ \A c \in Callers : Proper(call[c], merchants', apiKey')
         /\ \A s \in Scopes : ProperAnswer(stored[s], s[1], apiKey')
  <1>1. ASSUME NEW k \in ApiKeys, NEW m, apiKey[k].owner = {m} PROVE apiKey'[k].owner = {m}
    BY <1>1 DEF Grown
  <1>2. ASSUME NEW c \in Callers PROVE Proper(call[c], merchants', apiKey')
    <2>1. Proper(call[c], merchants, apiKey)
      BY DEF CallsOK
    <2>2. call[c].stage # "idle" => \E m \in merchants' : call[c].merchant = {m}
      BY <2>1 DEF Proper, Grown
    <2>3. call[c].stage \in {"api_key", "store"} =>
            \E k \in ApiKeys : call[c].key = {k} /\ apiKey'[k].owner = call[c].merchant
      <3> SUFFICES ASSUME call[c].stage \in {"api_key", "store"}
                   PROVE  \E k \in ApiKeys : call[c].key = {k} /\ apiKey'[k].owner = call[c].merchant
        OBVIOUS
      <3>1. PICK k \in ApiKeys : call[c].key = {k} /\ apiKey[k].owner = call[c].merchant
        BY <2>1 DEF Proper
      <3>2. PICK m \in merchants : call[c].merchant = {m}
        BY <2>1 DEF Proper
      <3>3. QED
        BY <1>1, <3>1, <3>2
    <2>4. call[c].stage \in {"run", "store"} => \E i \in IdemKeys : call[c].header = {i}
      BY <2>1 DEF Proper
    <2>5. QED
      BY <2>2, <2>3, <2>4 DEF Proper
  <1>3. ASSUME NEW s \in Scopes PROVE ProperAnswer(stored[s], s[1], apiKey')
    BY <1>1 DEF CallsOK, ProperAnswer
  <1>4. QED
    BY <1>2, <1>3

\* A call that changes to a proper one, with no other change to calls and answers.
LEMMA CallMoves ==
  ASSUME AccessInv, CallsOK, Grown, NEW c \in Callers, NEW x \in CallRows,
         call' = [call EXCEPT ![c] = x], Proper(x, merchants', apiKey'),
         UNCHANGED stored, (runs \in [Scopes -> Nat])', (overlaps \in [Scopes -> Nat])',
         (lateUses \in [ApiKeys -> Nat])'
  PROVE  CallsOK'
  <1>1. call' \in [Callers -> CallRows] /\ \A d \in Callers : call'[d] = IF d = c THEN x ELSE call[d]
    BY DEF CallsOK
  <1>2. \A d \in Callers : Proper(call'[d], merchants', apiKey')
    BY <1>1, StillProper
  <1>3. \A s \in Scopes : ProperAnswer(stored'[s], s[1], apiKey')
    BY StillProper
  <1>4. QED
    BY <1>1, <1>2, <1>3 DEF CallsOK

\* An idle call is proper.
LEMMA IdleIsProper == NoCall \in CallRows /\ Proper(NoCall, merchants', apiKey')
  BY DEF NoCall, CallRows, Proper

\* A step in which no call starts or ends the operation of a header.
LEMMA NobodyRuns ==
  ASSUME CallsOK, EffectOK, faults \in Nat, faults' \in Nat, faults <= faults',
         UNCHANGED idemVars, \A s \in Scopes : Running(s)' = Running(s)
  PROVE  EffectOK'
  BY DEF CallsOK, EffectOK, idemVars

\* A call that runs nothing before and after a step.
LEMMA SameRunning ==
  ASSUME CallsOK, NEW c \in Callers, NEW x,
         call' = [call EXCEPT ![c] = x], call[c].stage \notin {"run", "store"},
         x.stage \notin {"run", "store"}, NEW s \in Scopes
  PROVE  Running(s)' = Running(s)
  <1>1. \A d \in Callers : call'[d] = IF d = c THEN x ELSE call[d]
    BY DEF CallsOK
  <1>2. QED
    BY <1>1 DEF Running

\* A step that uses no revoked key and admits nobody with one.
LEMMA NobodyIsLate ==
  ASSUME CallsOK, LateOK, Grown, UNCHANGED lateUses,
         \A k \in ApiKeys : apiKey[k].status = "revoked" => Admitted(k)' \subseteq Admitted(k)
  PROVE  LateOK'
  <1> SUFFICES ASSUME NEW k \in ApiKeys, apiKey'[k].status = "revoked"
               PROVE  lateUses[k] + Cardinality(Admitted(k)') <= Cardinality(Callers)
    <2>1. ASSUME NEW k \in ApiKeys, apiKey'[k].status # "revoked" PROVE lateUses[k] <= 0
      BY <2>1 DEF Grown, LateOK, CallsOK
    <2>2. QED
      BY <2>1 DEF LateOK, CallsOK
  <1>1. /\ IsFiniteSet(Admitted(k)) /\ Cardinality(Admitted(k)) \in Nat
        /\ IsFiniteSet(Admitted(k)') /\ Cardinality(Admitted(k)') \in Nat
        /\ Cardinality(Admitted(k)') <= Cardinality(Callers) /\ Cardinality(Callers) \in Nat
    <2>1. Admitted(k) \subseteq Callers /\ Admitted(k)' \subseteq Callers
      BY DEF Admitted
    <2>2. QED
      BY <2>1, FS_Subset, FS_CardinalityType DEF GatewayAssumption
  <1>2. lateUses[k] \in Nat
    BY DEF CallsOK
  <1>3. CASE apiKey[k].status = "revoked"
    <2>1. Cardinality(Admitted(k)') <= Cardinality(Admitted(k))
      BY <1>1, <1>3, FS_Subset
    <2>2. lateUses[k] + Cardinality(Admitted(k)) <= Cardinality(Callers)
      BY <1>3 DEF LateOK
    <2>3. QED
      BY <1>1, <1>2, <2>1, <2>2
  <1>4. CASE apiKey[k].status # "revoked"
    <2>1. lateUses[k] <= 0
      BY <1>2, <1>4 DEF LateOK
    <2>2. QED
      BY <1>1, <1>2, <2>1
  <1>5. QED
    BY <1>3, <1>4

\* A call that is not admitted with a key before and after a step.
LEMMA SameAdmitted ==
  ASSUME CallsOK, NEW c \in Callers, NEW x,
         call' = [call EXCEPT ![c] = x], x.stage # "api_key", NEW k \in ApiKeys
  PROVE  Admitted(k)' \subseteq Admitted(k)
  <1>1. \A d \in Callers : call'[d] = IF d = c THEN x ELSE call[d]
    BY DEF CallsOK
  <1>2. QED
    BY <1>1 DEF Admitted

\* A call that neither runs the operation of a header nor uses an API key.
LEMMA QuietStep ==
  ASSUME GatewayInv, Grown, NEW c \in Callers, NEW x \in CallRows, call' = [call EXCEPT ![c] = x],
         Proper(x, merchants', apiKey'), x.stage \notin {"run", "store", "api_key"},
         call[c].stage \notin {"run", "store"}, UNCHANGED <<idemVars, lateUses>>
  PROVE  CallsOK' /\ EffectOK' /\ LateOK'
  <1>1. faults \in Nat /\ faults' \in Nat /\ faults <= faults'
    BY DEF GatewayInv, AccessInv, AccessTypeOK, AccessAssumption, Grown
  <1>2. CallsOK'
    BY CallMoves DEF GatewayInv, CallsOK, idemVars
  <1>3. EffectOK'
    BY <1>1, NobodyRuns, SameRunning DEF GatewayInv
  <1>4. LateOK'
    BY NobodyIsLate, SameAdmitted DEF GatewayInv
  <1>5. QED
    BY <1>2, <1>3, <1>4

\* A merchant's call is admitted, with a token or with a key.
LEMMA AuthenticateKeeps ==
  ASSUME GatewayInv, Grown, NEW c \in Callers, AuthenticateUser(c) \/ AuthenticateKey(c)
  PROVE  CallsOK' /\ EffectOK' /\ LateOK'
  <1>1. CASE AuthenticateUser(c)
    <2>1. PICK t \in tokens : /\ Valid(t, "access")
                              /\ call' = [call EXCEPT ![c] = [NoCall EXCEPT !.stage = "user",
                                                                            !.merchant = {t.merchant}]]
      BY <1>1 DEF AuthenticateUser
    <2> DEFINE x == [NoCall EXCEPT !.stage = "user", !.merchant = {t.merchant}]
    <2>2. call[c].stage = "idle" /\ UNCHANGED <<accessVars, idemVars, lateUses>>
      BY <1>1 DEF AuthenticateUser
    <2>3. t.merchant \in merchants /\ t.merchant \in Merchants
      BY <2>1 DEF Valid, GatewayInv, AccessInv, AccessTypeOK
    <2>4. x.stage = "user" /\ x.merchant = {t.merchant} /\ x \in CallRows
      BY <2>3 DEF NoCall, CallRows
    <2>5. x \in CallRows /\ Proper(x, merchants', apiKey')
      BY <2>3, <2>4 DEF Proper, Grown
    <2>6. QED
      BY <2>1, <2>2, <2>4, <2>5, QuietStep
  <1>2. CASE AuthenticateKey(c)
    <2>1. PICK k \in ApiKeys :
            /\ LiveKey(k)
            /\ call' = [call EXCEPT ![c] = [NoCall EXCEPT !.stage = "api_key",
                                                          !.merchant = apiKey[k].owner, !.key = {k}]]
      BY <1>2 DEF AuthenticateKey
    <2> DEFINE x == [NoCall EXCEPT !.stage = "api_key", !.merchant = apiKey[k].owner, !.key = {k}]
    <2>2. /\ call[c].stage = "idle" /\ UNCHANGED idemVars /\ UNCHANGED lateUses
          /\ apiKey' = apiKey /\ merchants' = merchants
      BY <1>2 DEF AuthenticateKey, accessVars, keyVars, bootVars
    <2>3. apiKey[k].owner \in SUBSET Merchants /\ \E m \in merchants : apiKey[k].owner = {m}
      BY <2>1 DEF LiveKey, GatewayInv, AccessInv, AccessTypeOK, KeyRows, NoKey
    <2>4. x.stage = "api_key" /\ x.merchant = apiKey[k].owner /\ x.key = {k} /\ x \in CallRows
      BY <2>3 DEF NoCall, CallRows
    <2>5. x \in CallRows /\ Proper(x, merchants', apiKey')
      BY <2>2, <2>3, <2>4 DEF Proper
    <2>6. CallsOK'
      BY <2>1, <2>2, <2>5, CallMoves DEF GatewayInv, CallsOK, idemVars
    <2>7. EffectOK'
      <3>1. faults \in Nat /\ faults' \in Nat /\ faults <= faults'
        BY DEF GatewayInv, AccessInv, AccessTypeOK, AccessAssumption, Grown
      <3>2. \A s \in Scopes : Running(s)' = Running(s)
        BY <2>1, <2>2, <2>4, SameRunning DEF GatewayInv
      <3>3. QED
        BY <2>2, <3>1, <3>2, NobodyRuns DEF GatewayInv
    <2>8. LateOK'
      <3>1. ASSUME NEW l \in ApiKeys, apiKey[l].status = "revoked"
            PROVE  Admitted(l)' \subseteq Admitted(l)
        <4>1. l # k
          BY <2>1, <3>1 DEF LiveKey
        <4>2. \A d \in Callers : call'[d] = IF d = c THEN x ELSE call[d]
          BY <2>1 DEF GatewayInv, CallsOK
        <4>3. QED
          BY <2>4, <4>1, <4>2 DEF Admitted
      <3>2. QED
        BY <2>2, <3>1, NobodyIsLate DEF GatewayInv
    <2>9. QED
      BY <2>6, <2>7, <2>8
  <1>3. QED
    BY <1>1, <1>2

\* A call admitted with a key is served once.
LEMMA ServeKeyKeeps ==
  ASSUME GatewayInv, Grown, NEW c \in Callers, ServeKey(c)
  PROVE  CallsOK' /\ EffectOK' /\ LateOK'
  <1>1. /\ call[c].stage = "api_key" /\ call' = [call EXCEPT ![c] = NoCall]
        /\ lateUses' = [k \in ApiKeys |->
                          IF call[c].key = {k} /\ apiKey[k].status = "revoked" THEN lateUses[k] + 1
                          ELSE lateUses[k]]
        /\ UNCHANGED idemVars /\ apiKey' = apiKey
    BY DEF ServeKey, accessVars, keyVars
  <1>2. (lateUses \in [ApiKeys -> Nat])'
    BY <1>1 DEF GatewayInv, CallsOK
  <1>3. CallsOK'
    BY <1>1, <1>2, CallMoves, IdleIsProper DEF GatewayInv, CallsOK, idemVars
  <1>4. EffectOK'
    <2>1. faults \in Nat /\ faults' \in Nat /\ faults <= faults'
      BY DEF GatewayInv, AccessInv, AccessTypeOK, AccessAssumption, Grown
    <2>2. \A s \in Scopes : Running(s)' = Running(s)
      BY <1>1, SameRunning DEF GatewayInv, NoCall
    <2>3. QED
      BY <1>1, <2>1, <2>2, NobodyRuns DEF GatewayInv
  <1>5. LateOK'
    <2> SUFFICES ASSUME NEW k \in ApiKeys
                 PROVE  lateUses'[k] + (IF apiKey[k].status = "revoked" THEN Cardinality(Admitted(k)') ELSE 0)
                          <= (IF apiKey[k].status = "revoked" THEN Cardinality(Callers) ELSE 0)
      BY <1>1 DEF LateOK
    <2>1. lateUses[k] + (IF apiKey[k].status = "revoked" THEN Cardinality(Admitted(k)) ELSE 0)
            <= (IF apiKey[k].status = "revoked" THEN Cardinality(Callers) ELSE 0)
      BY DEF GatewayInv, LateOK
    <2>2. \A d \in Callers : call'[d] = IF d = c THEN NoCall ELSE call[d]
      BY <1>1 DEF GatewayInv, CallsOK
    <2>3. Admitted(k)' = Admitted(k) \ {c}
      BY <2>2 DEF Admitted, NoCall
    <2>4. IsFiniteSet(Admitted(k)) /\ Cardinality(Admitted(k)) \in Nat /\ Cardinality(Callers) \in Nat
      <3>1. Admitted(k) \subseteq Callers
        BY DEF Admitted
      <3>2. QED
        BY <3>1, FS_Subset, FS_CardinalityType DEF GatewayAssumption
    <2>5. lateUses[k] \in Nat
      BY DEF GatewayInv, CallsOK
    <2>6. CASE call[c].key = {k} /\ apiKey[k].status = "revoked"
      <3>1. c \in Admitted(k)
        BY <1>1, <2>6 DEF Admitted
      <3>2. Cardinality(Admitted(k)') = Cardinality(Admitted(k)) - 1
        BY <2>3, <2>4, <3>1, FS_RemoveElement
      <3>3. QED
        BY <1>1, <2>1, <2>4, <2>5, <2>6, <3>2
    <2>7. CASE ~(call[c].key = {k} /\ apiKey[k].status = "revoked")
      <3>1. lateUses'[k] = lateUses[k]
        BY <1>1, <2>7
      <3>2. CASE apiKey[k].status = "revoked"
        <4>1. c \notin Admitted(k)
          BY <2>7, <3>2 DEF Admitted
        <4>2. Admitted(k)' = Admitted(k)
          BY <2>3, <4>1
        <4>3. QED
          BY <2>1, <3>1, <4>2
      <3>3. CASE apiKey[k].status # "revoked"
        BY <2>1, <3>1, <3>3
      <3>4. QED
        BY <3>2, <3>3
    <2>8. QED
      BY <2>6, <2>7
  <1>6. QED
    BY <1>3, <1>4, <1>5

\* The answer of a header is looked up: it is there, or the operation is run.
LEMMA LookUpKeeps ==
  ASSUME GatewayInv, Grown, NEW c \in Callers, NEW i \in IdemKeys, LookUp(c, i)
  PROVE  CallsOK' /\ EffectOK' /\ LateOK'
  <1>1. PICK m \in call[c].merchant : LET s == <<m, i>> IN
          IF stored[s] # {}
            THEN /\ call' = [call EXCEPT ![c] = NoCall]
                 /\ UNCHANGED <<runs, overlaps>>
            ELSE /\ call' = [call EXCEPT ![c].stage = "run", ![c].header = {i}]
                 /\ runs' = [runs EXCEPT ![s] = @ + 1]
                 /\ overlaps' = [overlaps EXCEPT ![s] = IF Running(s) # {} THEN @ + 1 ELSE @]
    BY DEF LookUp
  <1> DEFINE s == <<m, i>>
  <1>2. call[c].stage = "user" /\ UNCHANGED <<accessVars, stored, lateUses>>
    BY DEF LookUp
  <1>3. call[c] \in CallRows /\ call[c].merchant = {m} /\ m \in merchants /\ s \in Scopes
    <2>1. call[c] \in CallRows /\ \E o \in merchants : call[c].merchant = {o}
      BY <1>2 DEF GatewayInv, CallsOK, Proper
    <2>2. QED
      BY <1>1, <2>1 DEF GatewayInv, AccessInv, AccessTypeOK, Scopes
  <1>4. faults \in Nat /\ faults' = faults /\ apiKey' = apiKey /\ merchants' = merchants
    BY <1>2 DEF GatewayInv, AccessInv, AccessTypeOK, AccessAssumption, accessVars, keyVars, bootVars
  <1>5. CASE stored[s] # {}
    BY <1>1, <1>2, <1>5, QuietStep, IdleIsProper DEF idemVars, NoCall
  <1>6. CASE stored[s] = {}
    <2> DEFINE x == [call[c] EXCEPT !.stage = "run", !.header = {i}]
    <2>1. /\ call' = [call EXCEPT ![c] = x]
          /\ runs' = [runs EXCEPT ![s] = @ + 1]
          /\ overlaps' = [overlaps EXCEPT ![s] = IF Running(s) # {} THEN @ + 1 ELSE @]
      BY <1>1, <1>6 DEF GatewayInv, CallsOK
    <2>2. x \in CallRows /\ Proper(x, merchants', apiKey')
          /\ x.stage = "run" /\ x.merchant = {m} /\ x.header = {i}
      BY <1>3, <1>4 DEF CallRows, Proper
    <2>3. (runs \in [Scopes -> Nat])' /\ (overlaps \in [Scopes -> Nat])'
      <3>1. runs \in [Scopes -> Nat] /\ overlaps \in [Scopes -> Nat]
        BY DEF GatewayInv, CallsOK
      <3>2. runs[s] + 1 \in Nat /\ overlaps[s] + 1 \in Nat
        BY <1>3, <3>1
      <3>3. QED
        BY <1>3, <2>1, <3>1, <3>2
    <2>4. CallsOK'
      BY <1>2, <2>1, <2>2, <2>3, CallMoves DEF GatewayInv, CallsOK
    <2>5. \A d \in Callers : call'[d] = IF d = c THEN x ELSE call[d]
      BY <2>1 DEF GatewayInv, CallsOK
    <2>6. c \in Running(s)'
      BY <2>2, <2>5 DEF Running
    <2>7. ASSUME NEW r \in Scopes, r # s PROVE Running(r)' = Running(r)
      <3>1. r \notin x.merchant \X x.header
        BY <2>2, <2>7
      <3>2. QED
        BY <1>2, <2>5, <3>1 DEF Running
    <2>8. EffectOK'
      <3> SUFFICES ASSUME NEW r \in Scopes
                   PROVE  runs'[r] <= overlaps'[r] + faults
                            + (IF stored[r] # {} \/ Running(r)' # {} THEN 1 ELSE 0)
        BY <1>2, <1>4 DEF EffectOK
      <3>1. runs[r] <= overlaps[r] + faults + (IF stored[r] # {} \/ Running(r) # {} THEN 1 ELSE 0)
        BY DEF GatewayInv, EffectOK
      <3>2. runs[r] \in Nat /\ overlaps[r] \in Nat
        BY DEF GatewayInv, CallsOK
      <3>3. CASE r = s
        <4>1. runs'[s] = runs[s] + 1
              /\ overlaps'[s] = IF Running(s) # {} THEN overlaps[s] + 1 ELSE overlaps[s]
          BY <1>3, <2>1 DEF GatewayInv, CallsOK
        <4>2. QED
          BY <1>4, <1>6, <2>6, <3>1, <3>2, <3>3, <4>1
      <3>4. CASE r # s
        <4>1. runs'[r] = runs[r] /\ overlaps'[r] = overlaps[r]
          BY <2>1, <3>4 DEF GatewayInv, CallsOK
        <4>2. QED
          BY <2>7, <3>1, <3>4, <4>1
      <3>5. QED
        BY <3>3, <3>4
    <2>9. LateOK'
      BY <1>2, <2>1, <2>2, NobodyIsLate, SameAdmitted DEF GatewayInv
    <2>10. QED
      BY <2>4, <2>8, <2>9
  <1>7. QED
    BY <1>5, <1>6

\* The operation of a header makes an API key, whose name its call goes to store.
LEMMA RunKeeps ==
  ASSUME GatewayInv, AccessInv', Grown, NEW c \in Callers, Run(c)
  PROVE  CallsOK' /\ EffectOK' /\ LateOK'
  <1>1. PICK m \in call[c].merchant, k \in ApiKeys :
          /\ CreateApiKey(m, k)
          /\ call' = [call EXCEPT ![c].stage = "store", ![c].key = {k}]
    BY DEF Run
  <1>2. call[c].stage = "run" /\ UNCHANGED <<idemVars, lateUses>>
    BY DEF Run
  <1> DEFINE x == [call[c] EXCEPT !.stage = "store", !.key = {k}]
  <1>3. call[c] \in CallRows /\ Proper(call[c], merchants, apiKey) /\ call' = [call EXCEPT ![c] = x]
    BY <1>1 DEF GatewayInv, CallsOK
  <1>4. /\ x \in CallRows /\ x.stage = "store" /\ x.key = {k}
        /\ x.merchant = call[c].merchant /\ x.header = call[c].header
    BY <1>1, <1>3 DEF CallRows
  <1>5. call[c].merchant = {m} /\ m \in merchants /\ \E i \in IdemKeys : call[c].header = {i}
    BY <1>1, <1>2, <1>3 DEF Proper
  <1>6. apiKey'[k].owner = {m} /\ merchants' = merchants
    BY <1>1 DEF CreateApiKey, GatewayInv, AccessInv, bootVars
  <1>7. Proper(x, merchants', apiKey')
    BY <1>4, <1>5, <1>6 DEF Proper
  <1>8. CallsOK'
    BY <1>2, <1>3, <1>4, <1>7, CallMoves DEF GatewayInv, CallsOK, idemVars
  <1>9. EffectOK'
    <2>1. faults \in Nat /\ faults' \in Nat /\ faults <= faults'
      BY DEF GatewayInv, AccessInv, AccessTypeOK, AccessAssumption, Grown
    <2>2. \A d \in Callers : call'[d] = IF d = c THEN x ELSE call[d]
      BY <1>3 DEF GatewayInv, CallsOK
    <2>3. \A s \in Scopes : Running(s)' = Running(s)
      BY <1>2, <1>4, <2>2 DEF Running
    <2>4. QED
      BY <1>2, <2>1, <2>3, NobodyRuns DEF GatewayInv
  <1>10. LateOK'
    BY <1>2, <1>3, <1>4, NobodyIsLate, SameAdmitted DEF GatewayInv
  <1>11. QED
    BY <1>8, <1>9, <1>10

\* The answer is stored, unless there is one or the statement fails.
LEMMA StoreKeeps ==
  ASSUME GatewayInv, Grown, NEW c \in Callers, Store(c)
  PROVE  /\ CallsOK' /\ EffectOK' /\ LateOK'
         /\ \A s \in Scopes : stored[s] # {} => stored'[s] = stored[s]
  <1>1. PICK s \in call[c].merchant \X call[c].header :
          \/ /\ stored' = [stored EXCEPT ![s] = IF @ = {} THEN call[c].key ELSE @]
             /\ UNCHANGED faults
          \/ Fault /\ UNCHANGED stored
    BY DEF Store
  <1>2. /\ call[c].stage = "store" /\ call' = [call EXCEPT ![c] = NoCall]
        /\ UNCHANGED <<runs, overlaps, lateUses>> /\ apiKey' = apiKey /\ merchants' = merchants
    BY DEF Store, keyVars, bootVars
  <1>3. PICK m \in merchants, i \in IdemKeys, k \in ApiKeys :
          /\ call[c].merchant = {m} /\ call[c].header = {i} /\ call[c].key = {k}
          /\ apiKey[k].owner = {m}
    BY <1>2 DEF GatewayInv, CallsOK, Proper
  <1>4. s = <<m, i>> /\ s \in Scopes /\ s[1] = m
    BY <1>1, <1>3 DEF GatewayInv, AccessInv, AccessTypeOK, Scopes
  <1>5. \A d \in Callers : call'[d] = IF d = c THEN NoCall ELSE call[d]
    BY <1>2 DEF GatewayInv, CallsOK
  <1>6. /\ stored' \in [Scopes -> SUBSET ApiKeys]
        /\ \A r \in Scopes : r # s => stored'[r] = stored[r]
        /\ stored'[s] = stored[s] \/ stored'[s] = {k}
        /\ stored[s] # {} => stored'[s] = stored[s]
    BY <1>1, <1>3, <1>4 DEF GatewayInv, CallsOK
  <1>7. CallsOK'
    <2>1. call' \in [Callers -> CallRows]
      BY <1>2, IdleIsProper DEF GatewayInv, CallsOK
    <2>2. \A d \in Callers : Proper(call'[d], merchants', apiKey')
      BY <1>2, <1>5, IdleIsProper DEF GatewayInv, CallsOK
    <2>3. ProperAnswer({k}, m, apiKey)
      BY <1>3 DEF ProperAnswer
    <2>4. \A r \in Scopes : ProperAnswer(stored'[r], r[1], apiKey')
      <3> SUFFICES ASSUME NEW r \in Scopes PROVE ProperAnswer(stored'[r], r[1], apiKey)
        BY <1>2
      <3>1. ProperAnswer(stored[r], r[1], apiKey)
        BY DEF GatewayInv, CallsOK
      <3>2. CASE stored'[r] = stored[r]
        BY <3>1, <3>2
      <3>3. CASE stored'[r] # stored[r]
        <4>1. r = s /\ stored'[r] = {k}
          BY <1>6, <3>3
        <4>2. QED
          BY <1>4, <2>3, <4>1
      <3>4. QED
        BY <3>2, <3>3
    <2>5. QED
      BY <1>2, <1>6, <2>1, <2>2, <2>4 DEF GatewayInv, CallsOK
  <1>8. EffectOK'
    <2> SUFFICES ASSUME NEW r \in Scopes
                 PROVE  runs[r] <= overlaps[r] + faults'
                          + (IF stored'[r] # {} \/ Running(r)' # {} THEN 1 ELSE 0)
      BY <1>2 DEF EffectOK
    <2>1. runs[r] <= overlaps[r] + faults + (IF stored[r] # {} \/ Running(r) # {} THEN 1 ELSE 0)
      BY DEF GatewayInv, EffectOK
    <2>2. /\ runs[r] \in Nat /\ overlaps[r] \in Nat
          /\ faults \in Nat /\ faults' \in Nat /\ faults <= faults'
      BY DEF GatewayInv, CallsOK, AccessInv, AccessTypeOK, AccessAssumption, Grown
    <2>3. CASE r = s
      <3>1. stored'[s] # {} \/ faults' = faults + 1
        BY <1>1, <1>3, <1>4 DEF GatewayInv, CallsOK, Fault
      <3>2. QED
        BY <2>1, <2>2, <2>3, <3>1
    <2>4. CASE r # s
      <3>1. r \notin call[c].merchant \X call[c].header
        BY <1>3, <1>4, <2>4
      <3>2. Running(r)' = Running(r)
        BY <1>5, <3>1 DEF Running, NoCall
      <3>3. QED
        BY <1>6, <2>1, <2>2, <2>4, <3>2
    <2>5. QED
      BY <2>3, <2>4
  <1>9. LateOK'
    <2>1. \A l \in ApiKeys : Admitted(l)' \subseteq Admitted(l)
      BY <1>5 DEF Admitted, NoCall
    <2>2. QED
      BY <1>2, <2>1, NobodyIsLate DEF GatewayInv
  <1>10. \A r \in Scopes : stored[r] # {} => stored'[r] = stored[r]
    BY <1>6
  <1>11. QED
    BY <1>7, <1>8, <1>9, <1>10

\* A call fails: the run it may have been is paid for by the failure.
LEMMA CallFailsKeeps ==
  ASSUME GatewayInv, Grown, NEW c \in Callers, CallFails(c)
  PROVE  CallsOK' /\ EffectOK' /\ LateOK'
  <1>1. /\ Fault /\ call' = [call EXCEPT ![c] = NoCall]
        /\ UNCHANGED idemVars /\ UNCHANGED lateUses
    BY DEF CallFails
  <1>2. CallsOK'
    BY <1>1, IdleIsProper, CallMoves DEF GatewayInv, CallsOK, idemVars
  <1>3. EffectOK'
    <2>1. faults \in Nat /\ faults' = faults + 1
      BY <1>1 DEF Fault, GatewayInv, AccessInv, AccessTypeOK, AccessAssumption
    <2>2. QED
      BY <1>1, <2>1 DEF GatewayInv, EffectOK, CallsOK, idemVars
  <1>4. LateOK'
    <2>1. \A d \in Callers : call'[d] = IF d = c THEN NoCall ELSE call[d]
      BY <1>1 DEF GatewayInv, CallsOK
    <2>2. \A l \in ApiKeys : Admitted(l)' \subseteq Admitted(l)
      BY <2>1 DEF Admitted, NoCall
    <2>3. QED
      BY <1>1, <2>2, NobodyIsLate DEF GatewayInv
  <1>5. QED
    BY <1>2, <1>3, <1>4

\* What a step does to auth-service is one of the things it can do.
LEMMA EveryStepIsAccessStep ==
  ASSUME GatewayInv, GatewayNext PROVE AccessStep
  <1>1. ASSUME NEW c \in Callers, call[c].stage # "idle"
        PROVE  call[c].merchant \subseteq merchants
    BY <1>1 DEF GatewayInv, CallsOK, Proper
  <1>2. ASSUME NEW c \in Callers,
               RunUnkeyed(c) \/ Run(c) \/ HandleRevoke(c) \/ HandleUpdateSettings(c)
        PROVE  AccessStep
    BY <1>1, <1>2 DEF RunUnkeyed, Run, HandleRevoke, HandleUpdateSettings, AccessStep
  <1>3. ASSUME NEW c \in Callers, NEW i \in IdemKeys,
               AuthenticateUser(c) \/ AuthenticateKey(c) \/ ServeKey(c) \/ LookUp(c, i)
        PROVE  AccessStep
    BY <1>3 DEF AuthenticateUser, AuthenticateKey, ServeKey, LookUp, AccessStep
  <1>4. ASSUME NEW c \in Callers, Store(c) PROVE AccessStep
    BY <1>4 DEF Store, AccessStep, accessVars
  <1>5. ASSUME NEW c \in Callers, CallFails(c) PROVE AccessStep
    BY <1>5 DEF CallFails, AccessStep
  <1>6. QED
    BY <1>2, <1>3, <1>4, <1>5 DEF GatewayNext, AccessStep,
       AuthenticateUser, AuthenticateKey, ServeKey

\* The gateway starts with nothing.
LEMMA InitGatewayInv == GatewayInit => GatewayInv
  <1> SUFFICES ASSUME GatewayInit PROVE GatewayInv
    OBVIOUS
  <1>1. AccessTypeOK /\ FreshOK /\ apiKey \in [ApiKeys -> KeyRows]
    <2>1. AccessInit
      BY DEF GatewayInit
    <2>2. 0 \in 0 .. MaxClock /\ 0 \in 0 .. 0 /\ 0 \in 0 .. MaxFaults
      BY DEF AccessAssumption
    <2>3. NoKey \in KeyRows
      BY DEF NoKey, KeyRows
    <2>4. apiKey \in [ApiKeys -> KeyRows] /\ \A k \in ApiKeys : apiKey[k] = NoKey
      BY <2>1, <2>3 DEF AccessInit
    <2>5. replica \in [AuthReplicas -> {"down", "bootstrapping", "up"}]
      BY <2>1 DEF AccessInit
    <2>6. AccessTypeOK
      BY <2>1, <2>2, <2>4, <2>5 DEF AccessInit, AccessTypeOK
    <2>7. FreshOK
      BY <2>1 DEF AccessInit, FreshOK
    <2>8. QED
      BY <2>4, <2>6, <2>7
  <1>2. BootOK
    <2>1. merchants = {} /\ Booting = {}
      BY DEF GatewayInit, AccessInit, Booting
    <2>2. Cardinality(AuthReplicas) \in Nat
      BY FS_CardinalityType DEF AccessAssumption
    <2>3. QED
      BY <2>1, <2>2, FS_EmptySet DEF BootOK
  <1>3. CallsOK
    BY DEF GatewayInit, CallsOK, CallRows, NoCall, Proper, ProperAnswer
  <1>4. EffectOK /\ LateOK
    BY DEF GatewayInit, AccessInit, EffectOK, LateOK, NoKey
  <1>5. QED
    BY <1>1, <1>2, <1>3, <1>4 DEF GatewayInv, AccessInv

\* Every step keeps the invariant.
LEMMA NextGatewayInv == GatewayInv /\ [GatewayNext]_gatewayVars => GatewayInv'
  <1> SUFFICES ASSUME GatewayInv, [GatewayNext]_gatewayVars PROVE GatewayInv'
    OBVIOUS
  <1>1. ASSUME UNCHANGED <<call, stored, runs, overlaps, lateUses>>, Grown, AccessInv'
        PROVE  GatewayInv'
    <2>1. faults \in Nat /\ faults' \in Nat /\ faults <= faults'
      BY <1>1 DEF GatewayInv, AccessInv, AccessTypeOK, AccessAssumption, Grown
    <2>2. CallsOK'
      BY <1>1, StillProper DEF GatewayInv, CallsOK
    <2>3. EffectOK'
      BY <1>1, <2>1, NobodyRuns DEF GatewayInv, Running, idemVars
    <2>4. LateOK'
      BY <1>1, NobodyIsLate DEF GatewayInv, Admitted
    <2>5. QED
      BY <1>1, <2>2, <2>3, <2>4 DEF GatewayInv
  <1>2. CASE GatewayNext
    <2>1. AccessInv' /\ Grown
      BY <1>2, EveryStepIsAccessStep, AccessKeeps DEF GatewayInv
    <2>2. ASSUME NEW c \in Callers,
                 RunUnkeyed(c) \/ HandleRevoke(c) \/ HandleUpdateSettings(c)
          PROVE  CallsOK' /\ EffectOK' /\ LateOK'
      <3>1. /\ call[c].stage = "user" /\ call' = [call EXCEPT ![c] = NoCall]
            /\ UNCHANGED <<idemVars, lateUses>>
        BY <2>2 DEF RunUnkeyed, HandleRevoke, HandleUpdateSettings
      <3>2. QED
        BY <2>1, <3>1, QuietStep, IdleIsProper DEF NoCall
    <2>3. ASSUME NEW c \in Callers, NEW i \in IdemKeys, LookUp(c, i) PROVE GatewayInv'
      BY <2>1, <2>3, LookUpKeeps DEF GatewayInv
    <2>4. ASSUME NEW c \in Callers, AuthenticateUser(c) \/ AuthenticateKey(c) \/ ServeKey(c)
          PROVE  GatewayInv'
      BY <2>1, <2>4, AuthenticateKeeps, ServeKeyKeeps DEF GatewayInv
    <2>5. ASSUME NEW c \in Callers, Run(c) \/ Store(c) \/ CallFails(c) PROVE GatewayInv'
      BY <2>1, <2>5, RunKeeps, StoreKeeps, CallFailsKeeps DEF GatewayInv
    <2>6. QED
      BY <1>1, <1>2, <2>1, <2>2, <2>3, <2>4, <2>5 DEF GatewayNext, GatewayInv
  <1>3. CASE UNCHANGED gatewayVars
    <2>1. AccessStep
      BY <1>3 DEF gatewayVars, AccessStep
    <2>2. AccessInv' /\ Grown
      BY <2>1, AccessKeeps DEF GatewayInv
    <2>3. QED
      BY <1>1, <1>3, <2>2 DEF gatewayVars
  <1>4. QED
    BY <1>2, <1>3

\* The invariant always holds.
LEMMA AlwaysGatewayInv == GatewaySpec => []GatewayInv
  BY InitGatewayInv, NextGatewayInv, PTL DEF GatewaySpec

-----------------------------------------------------------------------------
\* Whatever calls run at once, they act for merchants that exist, and the
\* answer kept for a header names an API key of its merchant.
THEOREM CallsAreTyped == GatewaySpec => []GatewayTypeOK
  <1>1. ASSUME GatewayInv PROVE GatewayTypeOK
    <2>1. \A s \in Scopes : ProperAnswer(stored[s], s[1], apiKey)
      BY <1>1 DEF GatewayInv, CallsOK
    <2>2. \A c \in Callers : call[c] \in CallRows /\ Proper(call[c], merchants, apiKey)
      BY <1>1 DEF GatewayInv, CallsOK
    <2>3. AccessTypeOK /\ runs \in [Scopes -> Nat] /\ overlaps \in [Scopes -> Nat]
          /\ lateUses \in [ApiKeys -> Nat]
      BY <1>1 DEF GatewayInv, AccessInv, CallsOK
    <2>4. QED
      BY <2>1, <2>2, <2>3 DEF GatewayTypeOK, Proper, ProperAnswer, CallRows
  <1>2. QED
    BY <1>1, AlwaysGatewayInv, PTL

\* However many replicas of auth-service start, fail and restart, there is one
\* bootstrap merchant, or one for each replica if they raced.
THEOREM OneBootstrapMerchant == GatewaySpec => []BootstrapHappensOnce
  <1>1. ASSUME GatewayInv PROVE BootstrapHappensOnce
    BY <1>1, Counted DEF GatewayInv, AccessInv, BootOK, BootstrapHappensOnce
  <1>2. QED
    BY <1>1, AlwaysGatewayInv, PTL

\* However many calls share an Idempotency-Key, its operation runs once, but
\* for the runs that overlapped another and those that a failure explains.
THEOREM OneRunPerHeader == GatewaySpec => []EffectOncePerKey
  <1>1. ASSUME GatewayInv PROVE EffectOncePerKey
    <2>1. faults \in Nat
      BY <1>1 DEF GatewayInv, AccessInv, AccessTypeOK, AccessAssumption
    <2>2. ASSUME NEW s \in Scopes PROVE runs[s] <= 1 + overlaps[s] + faults
      <3>1. runs[s] \in Nat /\ overlaps[s] \in Nat
        BY <1>1 DEF GatewayInv, CallsOK
      <3>2. runs[s] <= overlaps[s] + faults + (IF stored[s] # {} \/ Running(s) # {} THEN 1 ELSE 0)
        BY <1>1 DEF GatewayInv, EffectOK
      <3>3. QED
        BY <2>1, <3>1, <3>2
    <2>3. QED
      BY <2>2 DEF EffectOncePerKey
  <1>2. QED
    BY <1>1, AlwaysGatewayInv, PTL

\* However many calls are under way, a revoked API key serves only those that
\* were admitted before the revocation.
THEOREM RevokedKeysAdmitNobody == GatewaySpec => []LateUsesWereAdmitted
  <1>1. ASSUME GatewayInv PROVE LateUsesWereAdmitted
    <2>1. ASSUME NEW k \in ApiKeys PROVE lateUses[k] <= Cardinality(Callers)
      <3>1. lateUses[k] \in Nat
        BY <1>1 DEF GatewayInv, CallsOK
      <3>2. Cardinality(Admitted(k)) \in Nat /\ Cardinality(Callers) \in Nat
        <4>1. Admitted(k) \subseteq Callers
          BY DEF Admitted
        <4>2. QED
          BY <4>1, FS_Subset, FS_CardinalityType DEF GatewayAssumption
      <3>3. lateUses[k] + (IF apiKey[k].status = "revoked" THEN Cardinality(Admitted(k)) ELSE 0)
              <= (IF apiKey[k].status = "revoked" THEN Cardinality(Callers) ELSE 0)
        BY <1>1 DEF GatewayInv, LateOK
      <3>4. QED
        BY <3>1, <3>2, <3>3
    <2>2. QED
      BY <2>1 DEF LateUsesWereAdmitted
  <1>2. QED
    BY <1>1, AlwaysGatewayInv, PTL

\* Whatever calls race, the answer of an Idempotency-Key never changes.
THEOREM AnswersStay == GatewaySpec => AnswerIsKept
  <1>1. ASSUME GatewayInv, [GatewayNext]_gatewayVars
        PROVE  [\A s \in Scopes : stored[s] # {} => stored'[s] = stored[s]]_gatewayVars
    <2> SUFFICES ASSUME GatewayNext
                 PROVE  \A s \in Scopes : stored[s] # {} => stored'[s] = stored[s]
      BY <1>1
    <2>1. ASSUME NEW c \in Callers, Store(c)
          PROVE  \A s \in Scopes : stored[s] # {} => stored'[s] = stored[s]
      <3>1. Grown
        BY <1>1, EveryStepIsAccessStep, AccessKeeps DEF GatewayInv
      <3>2. QED
        BY <1>1, <2>1, <3>1, StoreKeeps
    <2>2. ASSUME ~ \E c \in Callers : Store(c) PROVE stored' = stored
      BY <2>2 DEF GatewayNext, AuthenticateUser, AuthenticateKey, ServeKey, LookUp, RunUnkeyed,
         Run, CallFails, HandleRevoke, HandleUpdateSettings, idemVars
    <2>3. QED
      BY <2>1, <2>2
  <1>2. QED
    BY <1>1, AlwaysGatewayInv, PTL DEF GatewaySpec, AnswerIsKept

\* Whatever the lifetimes of tokens, a user is admitted only until AccessTTL
\* after the last login or refresh: never with a refresh token.
THEOREM AdmissionExpires == GatewaySpec => AdmittedIsFresh
  <1>1. ASSUME GatewayInv, [GatewayNext]_gatewayVars
        PROVE  [\A c \in Callers : call[c].stage = "idle" /\ call'[c].stage = "user"
                  => clock < issued + AccessTTL]_gatewayVars
    <2> SUFFICES ASSUME GatewayNext, NEW c \in Callers,
                        call[c].stage = "idle", call'[c].stage = "user"
                 PROVE  clock < issued + AccessTTL
      BY <1>1
    <2>1. ASSUME NEW d \in Callers, AuthenticateUser(d) PROVE clock < issued + AccessTTL
      <3>1. PICK t \in tokens : Valid(t, "access")
        BY <2>1 DEF AuthenticateUser
      <3>2. t.expires \in Nat /\ clock \in Nat /\ issued \in Nat
        BY <1>1 DEF GatewayInv, AccessInv, AccessTypeOK, Jwts, AccessAssumption
      <3>3. QED
        BY <1>1, <3>1, <3>2 DEF Valid, GatewayInv, AccessInv, FreshOK, AccessAssumption
    <2>2. ASSUME NEW d \in Callers, AuthenticateKey(d) PROVE FALSE
      <3>1. PICK k \in ApiKeys :
              call' = [call EXCEPT ![d] = [NoCall EXCEPT !.stage = "api_key",
                                             !.merchant = apiKey[k].owner, !.key = {k}]]
        BY <2>2 DEF AuthenticateKey
      <3>2. [NoCall EXCEPT !.stage = "api_key", !.merchant = apiKey[k].owner, !.key = {k}].stage
              = "api_key"
        BY DEF NoCall
      <3>3. QED
        BY <1>1, <3>1, <3>2 DEF GatewayInv, CallsOK
    <2>3. ASSUME NEW d \in Callers, NEW i \in IdemKeys, LookUp(d, i) PROVE FALSE
      <3>1. call[d].stage = "user" /\ \A e \in Callers : e # d => call'[e] = call[e]
        BY <1>1, <2>3 DEF LookUp, GatewayInv, CallsOK
      <3>2. QED
        BY <3>1
    <2>4. ASSUME NEW d \in Callers, \/ ServeKey(d) \/ RunUnkeyed(d) \/ Run(d) \/ Store(d)
                                    \/ CallFails(d) \/ HandleRevoke(d) \/ HandleUpdateSettings(d)
          PROVE  FALSE
      <3>1. call[d].stage # "idle" /\ \A e \in Callers : e # d => call'[e] = call[e]
        BY <1>1, <2>4 DEF ServeKey, RunUnkeyed, Run, Store, CallFails, HandleRevoke,
           HandleUpdateSettings, GatewayInv, CallsOK
      <3>2. QED
        BY <3>1
    <2>5. QED
      BY <2>1, <2>2, <2>3, <2>4 DEF GatewayNext
  <1>2. QED
    BY <1>1, AlwaysGatewayInv, PTL DEF GatewaySpec, AdmittedIsFresh

-----------------------------------------------------------------------------
(* Routes: what repeated requests create *)

USE RoutesAssumption

Owners == {{m} : m \in Shops}

Requested == [route : Keyed \cup Unkeyed, shop : Owners, target : Nat, header : SUBSET Headers]

Items == [by : Requests, route : Keyed \cup Unkeyed, shop : Owners, target : Nat,
          status : {"live", "archived", "paused"}, late : BOOLEAN, closing : Nat,
          announced : {0, 1}, raced : BOOLEAN]

Servings == [stage : {"idle", "run", "checked", "event", "store"}, request : Nat, made : Nat,
             raced : BOOLEAN]

RouteShape ==
  /\ asked \in [Requests -> Requested \cup {Unasked}]
  /\ serving \in [Calls -> Servings]
  /\ item \in Seq(Items)
  /\ replies \in [Shops \X Keyed \X Headers -> Nat]
  /\ got \in [Requests -> SUBSET Nat]
  /\ routeFaults \in 0..MaxRouteFaults

\* What a request says of its route, and that it names an item made before.
ProperRequest(r) ==
  /\ r.target <= Len(item)
  /\ r.route \in Targets <=> r.target > 0
  /\ r.header # {} => r.route \in Keyed /\ \E h \in Headers : r.header = {h}

RouteOrder ==
  /\ \A n \in Requests : asked[n] # Unasked => ProperRequest(asked[n])
  /\ \A n \in Requests : got[n] \subseteq DOMAIN item /\ (asked[n] = Unasked => got[n] = {})
  /\ \A x \in DOMAIN item : /\ asked[item[x].by] # Unasked /\ item[x].target < x
                            /\ item[x].route = "links" => item[x].status # "paused"
  /\ \A s \in DOMAIN replies :
       replies[s] > 0 => replies[s] \in DOMAIN item /\ s \in Scope(asked[item[replies[s]].by])

\* What v, that a call is doing, says of requests and items.
ProperServing(v) ==
  /\ v.made <= Len(item)
  /\ v.stage # "idle" => /\ v.request \in Requests
                         /\ asked[v.request].route \in Keyed \cup {"public/sessions"}
  /\ v.stage = "checked" => LET r == asked[v.request]
                            IN  /\ r.route \in SessionRoutes /\ r.target \in DOMAIN item
                                /\ item[r.target].route = "links"
  /\ v.stage \in {"event", "store"} => v.made \in DOMAIN item /\ item[v.made].by = v.request
  /\ v.stage = "event" => item[v.made].announced = 0

ServingOrder ==
  /\ \A c \in Calls : ProperServing(serving[c])
  /\ \A c, d \in Calls : /\ serving[c].stage = "event" /\ serving[d].stage = "event"
                         /\ serving[c].made = serving[d].made
                         => c = d

\* A call that found nobody else under way and has not created its item yet.
Fresh(c) == serving[c].stage \in {"run", "checked"} /\ ~serving[c].raced

Unraced(s) == {x \in CreatedIn(s) : ~item[x].raced}

\* Nothing was created in scope s that is stored or can still be, or the one
\* call that is free to create something has yet to do so.
Spare(s) ==
  \/ replies[s] = 0 /\ \A c \in UnderWay(s) : serving[c].stage \notin {"event", "store"}
  \/ \E c \in UnderWay(s) : Fresh(c)

RunsCost ==
  \A s \in DOMAIN replies :
    /\ \A c, d \in UnderWay(s) : Fresh(c) /\ Fresh(d) => c = d
    /\ Cardinality(Unraced(s)) <= IF Spare(s) THEN routeFaults ELSE routeFaults + 1

Due == {serving[c].made : c \in {d \in Calls : serving[d].stage = "event"}}

Silent == {x \in DOMAIN item \ Due : item[x].announced = 0}

SilenceCosts == Cardinality(Silent) <= routeFaults

LateOf(x) == {y \in DOMAIN item : item[y].late /\ item[y].target = x}

LateWereChecked ==
  \A x \in DOMAIN item :
    IF item[x].status = "archived" THEN Cardinality(LateOf(x)) + Cardinality(CheckedOn(x)) <= item[x].closing
    ELSE LateOf(x) = {}

RouteInv ==
  /\ RouteShape /\ RouteOrder /\ ServingOrder /\ RunsCost /\ SilenceCosts /\ LateWereChecked
  /\ AnswerIsOfRequest

\* Nothing was asked for or created.
LEMMA InitRouteInv == RoutesInit => RouteInv
  <1> SUFFICES ASSUME RoutesInit PROVE RouteInv
    OBVIOUS
  <1>1. item = <<>> /\ DOMAIN item = {} /\ Len(item) = 0 /\ routeFaults = 0
    BY DEF RoutesInit
  <1>2. \A c \in Calls : serving[c] = NotServing
    BY DEF RoutesInit
  <1>3. RouteShape
    BY DEF RoutesInit, RouteShape, NotServing, Servings
  <1>4. RouteOrder
    BY <1>1 DEF RoutesInit, RouteOrder, Unasked
  <1>5. ServingOrder
    BY <1>1, <1>2 DEF ServingOrder, ProperServing, NotServing
  <1>6. Cardinality({}) = 0
    BY FS_EmptySet
  <1>7. RunsCost
    <2>1. \A s : Unraced(s) = {} /\ UnderWay(s) = {}
      BY <1>1, <1>2 DEF Unraced, CreatedIn, UnderWay, NotServing
    <2>2. \A s : Cardinality(Unraced(s)) = 0
      BY <1>6, <2>1
    <2> HIDE DEF Unraced
    <2>3. QED
      BY <1>1, <2>1, <2>2 DEF RunsCost
  <1>8. SilenceCosts
    <2>1. Silent = {}
      BY <1>1 DEF Silent
    <2>2. QED
      BY <1>1, <1>6, <2>1 DEF SilenceCosts
  <1>9. LateWereChecked /\ AnswerIsOfRequest
    BY <1>1 DEF RoutesInit, LateWereChecked, AnswerIsOfRequest
  <1>10. QED
    BY <1>3, <1>4, <1>5, <1>7, <1>8, <1>9 DEF RouteInv

\* The items are numbered, and finitely many, as calls are.
LEMMA ItemsAreFinite ==
  ASSUME RouteShape
  PROVE  /\ Len(item) \in Nat /\ DOMAIN item = 1..Len(item) /\ IsFiniteSet(DOMAIN item)
         /\ \A x \in DOMAIN item : item[x] \in Items
         /\ \A S \in SUBSET (DOMAIN item) : IsFiniteSet(S) /\ Cardinality(S) \in Nat
         /\ \A S \in SUBSET Calls : IsFiniteSet(S) /\ Cardinality(S) \in Nat
  <1>1. Len(item) \in Nat /\ DOMAIN item = 1..Len(item) /\ \A x \in DOMAIN item : item[x] \in Items
    BY DEF RouteShape
  <1>2. IsFiniteSet(DOMAIN item)
    BY <1>1, FS_Interval
  <1>3. \A S \in SUBSET (DOMAIN item) : IsFiniteSet(S) /\ Cardinality(S) \in Nat
    BY <1>2, FS_Subset, FS_CardinalityType
  <1>4. \A S \in SUBSET Calls : IsFiniteSet(S) /\ Cardinality(S) \in Nat
    BY FS_Subset, FS_CardinalityType
  <1>5. QED
    BY <1>1, <1>2, <1>3, <1>4

\* One more member counts one more, and one less one less.
LEMMA OneMore ==
  ASSUME NEW S, NEW y, IsFiniteSet(S)
  PROVE  /\ Cardinality(S \cup {y}) \in Nat /\ Cardinality(S) \in Nat
         /\ Cardinality(S \cup {y}) <= Cardinality(S) + 1
         /\ y \in S => Cardinality(S \ {y}) + 1 <= Cardinality(S) /\ Cardinality(S \ {y}) \in Nat
  <1>1. Cardinality(S) \in Nat
    BY FS_CardinalityType
  <1>2. Cardinality(S \cup {y}) = IF y \in S THEN Cardinality(S) ELSE Cardinality(S) + 1
    BY FS_AddElement
  <1>3. Cardinality(S \ {y}) = IF y \in S THEN Cardinality(S) - 1 ELSE Cardinality(S)
    BY FS_RemoveElement
  <1>4. IsFiniteSet(S \ {y})
    BY FS_RemoveElement
  <1>5. Cardinality(S \ {y}) \in Nat
    BY <1>4, FS_CardinalityType
  <1>6. QED
    BY <1>1, <1>2, <1>3, <1>5

\* A request that was asked for is well formed.
LEMMA AskedIsProper ==
  ASSUME RouteInv, NEW n \in Requests, asked[n] # Unasked
  PROVE  /\ asked[n] \in Requested
         /\ asked[n].target \in Nat /\ asked[n].target <= Len(item)
         /\ asked[n].route \in Targets <=> asked[n].target > 0
         /\ asked[n].header # {} => asked[n].route \in Keyed /\ \E h \in Headers : asked[n].header = {h}
         /\ \E m \in Shops : asked[n].shop = {m}
  <1>1. asked[n] \in Requested
    BY DEF RouteInv, RouteShape
  <1>2. ProperRequest(asked[n])
    BY DEF RouteInv, RouteOrder
  <1>3. \E m \in Shops : asked[n].shop = {m}
    BY <1>1 DEF Requested, Owners
  <1>4. asked[n].target \in Nat
    BY <1>1 DEF Requested
  <1>5. QED
    BY <1>1, <1>2, <1>3, <1>4 DEF ProperRequest

\* What is under way is of a request that was asked for.
LEMMA ServedIsProper ==
  ASSUME RouteInv, NEW c \in Calls, serving[c].stage # "idle"
  PROVE  /\ serving[c] \in Servings /\ ProperServing(serving[c])
         /\ serving[c].request \in Requests /\ RequestOf(c) # Unasked
         /\ RequestOf(c) \in Requested
         /\ RequestOf(c).route \in Keyed \cup {"public/sessions"}
  <1>1. serving[c] \in Servings /\ ProperServing(serving[c])
    BY DEF RouteInv, RouteShape, ServingOrder
  <1>2. /\ serving[c].request \in Requests
        /\ RequestOf(c).route \in Keyed \cup {"public/sessions"}
    BY <1>1 DEF ProperServing, RequestOf
  <1>3. RequestOf(c) # Unasked
    BY <1>2 DEF Unasked, Keyed
  <1>4. RequestOf(c) \in Requested
    BY <1>2, <1>3, AskedIsProper DEF RequestOf
  <1>5. QED
    BY <1>1, <1>2, <1>3, <1>4

\* Where nobody is authenticated, or no header is sent, there is no scope.
LEMMA PublicHasNoScope ==
  ASSUME RouteInv, NEW n \in Requests, asked[n].route \notin Keyed
  PROVE  Scope(asked[n]) = {}
  <1>1. CASE asked[n] = Unasked
    BY <1>1 DEF Unasked, Scope
  <1>2. CASE asked[n] # Unasked
    <2>1. asked[n].header = {}
      BY <1>2, AskedIsProper
    <2>2. QED
      BY <2>1 DEF Scope
  <1>3. QED
    BY <1>1, <1>2

-----------------------------------------------------------------------------
(* Steps of one call that create and change nothing *)

\* Of a call that goes on to v, without an item that is not announced.
LEMMA ServingMoves ==
  ASSUME RouteInv, NEW c \in Calls, NEW v \in Servings,
         serving' = [serving EXCEPT ![c] = v], UNCHANGED <<asked, item>>,
         ProperServing(v), v.stage # "event",
         v.stage = "checked" => item[asked[v.request].target].status # "archived",
         routeFaults' \in Nat, routeFaults <= routeFaults',
         serving[c].stage = "event" => v.stage = "idle" /\ routeFaults' = routeFaults + 1
  PROVE  /\ ServingOrder' /\ SilenceCosts' /\ LateWereChecked'
         /\ serving' \in [Calls -> Servings] /\ serving'[c] = v
         /\ \A d \in Calls : d # c => serving'[d] = serving[d]
         /\ \A s : /\ Unraced(s)' = Unraced(s)
                   /\ \A d \in Calls : d # c => (d \in UnderWay(s)' <=> d \in UnderWay(s))
                   /\ c \in UnderWay(s)' <=> v.stage # "idle" /\ s \in Scope(asked[v.request])
  <1>1. serving \in [Calls -> Servings]
    BY DEF RouteInv, RouteShape
  <1>2. /\ serving' \in [Calls -> Servings] /\ serving'[c] = v
        /\ \A d \in Calls : d # c => serving'[d] = serving[d]
    BY <1>1
  <1>3. routeFaults \in Nat
    BY DEF RouteInv, RouteShape
  <1>4. ServingOrder'
    <2>1. \A d \in Calls : ProperServing(serving[d])
      BY DEF RouteInv, ServingOrder
    <2>2. \A d \in Calls : ProperServing(serving'[d])
      BY <1>2, <2>1
    <2>3. \A d \in Calls : ProperServing(serving[d])'
      BY <2>2 DEF ProperServing
    <2>4. \A d, e \in Calls : /\ serving'[d].stage = "event" /\ serving'[e].stage = "event"
                              /\ serving'[d].made = serving'[e].made
                              => d = e
      BY <1>2 DEF RouteInv, ServingOrder
    <2>5. QED
      BY <2>3, <2>4 DEF ServingOrder
  <1>5. SilenceCosts'
    <2>1. IsFiniteSet(Silent) /\ Cardinality(Silent) \in Nat
      BY ItemsAreFinite DEF RouteInv, Silent
    <2>2. Cardinality(Silent) <= routeFaults
      BY DEF RouteInv, SilenceCosts
    <2>3. CASE serving[c].stage # "event"
      <3>1. \A d \in Calls : serving'[d].stage = "event" <=> serving[d].stage = "event"
        BY <1>2, <2>3
      <3>2. \A d \in Calls : serving[d].stage = "event" => serving'[d] = serving[d]
        BY <1>2, <2>3
      <3>3. Due' = Due
        BY <3>1, <3>2 DEF Due
      <3>4. Silent' = Silent
        BY <3>3 DEF Silent
      <3>5. QED
        BY <1>3, <2>1, <2>2, <3>4 DEF SilenceCosts
    <2>4. CASE serving[c].stage = "event"
      <3> DEFINE x == serving[c].made
      <3>1. \A d \in Calls : serving'[d].stage = "event" <=> d # c /\ serving[d].stage = "event"
        BY <1>2
      <3>2. Due \subseteq Due' \cup {x}
        BY <1>2, <3>1 DEF Due
      <3>3. Silent' \subseteq Silent \cup {x}
        BY <3>2 DEF Silent
      <3> HIDE DEF x
      <3>4. Cardinality(Silent \cup {x}) <= Cardinality(Silent) + 1 /\ Cardinality(Silent \cup {x}) \in Nat
        BY <2>1, OneMore
      <3>5. IsFiniteSet(Silent \cup {x})
        BY <2>1, FS_AddElement
      <3>6. Cardinality(Silent') <= Cardinality(Silent \cup {x}) /\ Cardinality(Silent') \in Nat
        BY <3>3, <3>5, FS_Subset, FS_CardinalityType
      <3>7. routeFaults' = routeFaults + 1
        BY <2>4
      <3> HIDE DEF Silent
      <3>8. QED
        BY <1>3, <2>1, <2>2, <3>4, <3>6, <3>7 DEF SilenceCosts
    <2>5. QED
      BY <2>3, <2>4
  <1>6. LateWereChecked'
    <2> SUFFICES ASSUME NEW x \in DOMAIN item
                 PROVE  IF item[x].status = "archived"
                        THEN Cardinality(LateOf(x)') + Cardinality(CheckedOn(x)') <= item[x].closing
                        ELSE LateOf(x)' = {}
      BY DEF LateWereChecked
    <2>1. LateOf(x)' = LateOf(x)
      BY DEF LateOf
    <2>2. CASE item[x].status = "archived"
      <3>1. \A d \in Calls : d # c => (d \in CheckedOn(x)' <=> d \in CheckedOn(x))
        BY <1>2 DEF CheckedOn, RequestOf
      <3>2. c \notin CheckedOn(x)'
        BY <1>2, <2>2 DEF CheckedOn, RequestOf
      <3>3. CheckedOn(x)' \subseteq CheckedOn(x) /\ CheckedOn(x) \in SUBSET Calls
        BY <3>1, <3>2 DEF CheckedOn
      <3>4. /\ IsFiniteSet(CheckedOn(x)) /\ Cardinality(CheckedOn(x)) \in Nat
            /\ Cardinality(LateOf(x)) \in Nat
        BY <3>3, ItemsAreFinite DEF RouteInv, LateOf
      <3>5. Cardinality(CheckedOn(x)') \in Nat /\ Cardinality(CheckedOn(x)') <= Cardinality(CheckedOn(x))
        BY <3>3, <3>4, FS_Subset, FS_CardinalityType
      <3>6. Cardinality(LateOf(x)) + Cardinality(CheckedOn(x)) <= item[x].closing
        BY <2>2 DEF RouteInv, LateWereChecked
      <3>7. item[x].closing \in Nat
        BY ItemsAreFinite DEF RouteInv, Items
      <3> HIDE DEF LateOf, CheckedOn
      <3>8. QED
        BY <2>1, <2>2, <3>4, <3>5, <3>6, <3>7
    <2>3. CASE item[x].status # "archived"
      BY <2>1, <2>3 DEF RouteInv, LateWereChecked
    <2>4. QED
      BY <2>2, <2>3
  <1>7. ASSUME NEW s
        PROVE  /\ Unraced(s)' = Unraced(s)
               /\ \A d \in Calls : d # c => (d \in UnderWay(s)' <=> d \in UnderWay(s))
               /\ c \in UnderWay(s)' <=> v.stage # "idle" /\ s \in Scope(asked[v.request])
    <2>1. Unraced(s)' = Unraced(s)
      BY DEF Unraced, CreatedIn, Scope
    <2>2. \A d \in Calls : d # c => (d \in UnderWay(s)' <=> d \in UnderWay(s))
      BY <1>2 DEF UnderWay, RequestOf, Scope
    <2>3. c \in UnderWay(s)' <=> v.stage # "idle" /\ s \in Scope(asked[v.request])
      BY <1>2 DEF UnderWay, RequestOf, Scope
    <2>4. QED
      BY <2>1, <2>2, <2>3
  <1>8. QED
    BY <1>2, <1>4, <1>5, <1>6, <1>7

\* What a step costs a scope, when it creates nothing: a call that becomes the
\* one that is free to create finds nobody under way, and room for another item
\* comes only from a failure.
LEMMA RunsStillCost ==
  ASSUME RouteInv, NEW c \in Calls, NEW v \in Servings, serving'[c] = v,
         \A d \in Calls : d # c => serving'[d] = serving[d],
         \A s : /\ Unraced(s)' = Unraced(s)
                /\ \A d \in Calls : d # c => (d \in UnderWay(s)' <=> d \in UnderWay(s)),
         DOMAIN replies' = DOMAIN replies,
         routeFaults' \in Nat, routeFaults <= routeFaults',
         \A s \in DOMAIN replies :
           /\ c \in UnderWay(s)' /\ Fresh(c)' => UnderWay(s) = {} \/ (c \in UnderWay(s) /\ Fresh(c))
           /\ Spare(s)' => Spare(s) \/ routeFaults' = routeFaults + 1
  PROVE  RunsCost'
  <1> SUFFICES ASSUME NEW s \in DOMAIN replies
               PROVE  /\ \A d, e \in UnderWay(s)' : Fresh(d)' /\ Fresh(e)' => d = e
                      /\ Cardinality(Unraced(s)') <= IF Spare(s)' THEN routeFaults' ELSE routeFaults' + 1
    BY DEF RunsCost
  <1>1. \A d, e \in UnderWay(s) : Fresh(d) /\ Fresh(e) => d = e
    BY DEF RouteInv, RunsCost
  <1>2. Cardinality(Unraced(s)) <= IF Spare(s) THEN routeFaults ELSE routeFaults + 1
    BY DEF RouteInv, RunsCost
  <1>3. Cardinality(Unraced(s)) \in Nat /\ routeFaults \in Nat
    <2>1. Unraced(s) \in SUBSET (DOMAIN item)
      BY DEF Unraced, CreatedIn
    <2>2. QED
      BY <2>1, ItemsAreFinite DEF RouteInv, RouteShape
  <1>4. \A d \in Calls : d # c => (Fresh(d)' <=> Fresh(d))
    BY DEF Fresh
  <1>5. UnderWay(s)' \subseteq Calls
    BY DEF UnderWay
  <1>6. \A d \in UnderWay(s)' : d # c => d \in UnderWay(s)
    BY <1>5
  <1>7. \A d, e \in UnderWay(s)' : Fresh(d)' /\ Fresh(e)' => d = e
    BY <1>1, <1>4, <1>5, <1>6
  <1> HIDE DEF Unraced, Spare
  <1>8. Cardinality(Unraced(s)') <= IF Spare(s)' THEN routeFaults' ELSE routeFaults' + 1
    <2>1. Cardinality(Unraced(s)') = Cardinality(Unraced(s))
      OBVIOUS
    <2>2. CASE Spare(s)'
      BY <1>2, <1>3, <2>1, <2>2
    <2>3. CASE ~Spare(s)'
      BY <1>2, <1>3, <2>1, <2>3
    <2>4. QED
      BY <2>2, <2>3
  <1>9. QED
    BY <1>7, <1>8

\* A call that has not found an answer creates nothing yet.
LEMMA MissKeeps ==
  ASSUME RouteInv, NEW c \in Calls, NEW n \in Requests, LookUpAnswer(c, n)
  PROVE  RouteInv'
  <1> DEFINE v == [stage |-> "run", request |-> n, made |-> 0,
                   raced |-> \E s \in Scope(asked[n]) : UnderWay(s) # {}]
  <1>1. /\ asked[n].route \in Keyed /\ \A s \in Scope(asked[n]) : replies[s] = 0
        /\ serving[c].stage = "idle" /\ serving' = [serving EXCEPT ![c] = v]
        /\ UNCHANGED <<asked, item, replies, got, routeFaults>>
    BY DEF LookUpAnswer, Start
  <1>2. v \in Servings
    BY DEF Servings, Requests
  <1>3. v.raced <=> \E s \in Scope(asked[n]) : UnderWay(s) # {}
    OBVIOUS
  <1>4. v.stage = "run" /\ v.request = n /\ v.made = 0
    OBVIOUS
  <1> HIDE DEF v
  <1>5. ProperServing(v)
    BY <1>1, <1>4, ItemsAreFinite DEF RouteInv, ProperServing
  <1>6. /\ routeFaults \in Nat /\ routeFaults' = routeFaults
        /\ routeFaults' \in Nat /\ routeFaults <= routeFaults'
        /\ v.stage # "event" /\ v.stage # "checked" /\ serving[c].stage # "event"
    BY <1>1, <1>4 DEF RouteInv, RouteShape
  <1>7. /\ ServingOrder' /\ SilenceCosts' /\ LateWereChecked'
        /\ serving' \in [Calls -> Servings] /\ serving'[c] = v
        /\ \A d \in Calls : d # c => serving'[d] = serving[d]
        /\ \A s : /\ Unraced(s)' = Unraced(s)
                  /\ \A d \in Calls : d # c => (d \in UnderWay(s)' <=> d \in UnderWay(s))
                  /\ c \in UnderWay(s)' <=> v.stage # "idle" /\ s \in Scope(asked[v.request])
    BY <1>1, <1>2, <1>4, <1>5, <1>6, ServingMoves
  <1>8. RunsCost'
    <2>1. ASSUME NEW s \in DOMAIN replies
          PROVE  /\ c \in UnderWay(s)' /\ Fresh(c)' => UnderWay(s) = {} \/ (c \in UnderWay(s) /\ Fresh(c))
                 /\ Spare(s)' => Spare(s)
      <3>1. \A d \in UnderWay(s) : d \in Calls /\ d # c
        BY <1>1 DEF UnderWay
      <3>2. \A d \in UnderWay(s) : d \in UnderWay(s)'
        BY <1>7, <3>1
      <3>3. c \in UnderWay(s)' /\ Fresh(c)' => UnderWay(s) = {}
        BY <1>3, <1>4, <1>7 DEF Fresh
      <3>4. \A d \in UnderWay(s)' : d # c => d \in UnderWay(s) /\ (Fresh(d)' <=> Fresh(d))
        <4>1. UnderWay(s)' \subseteq Calls
          BY DEF UnderWay
        <4>2. QED
          BY <1>7, <4>1 DEF Fresh
      <3>5. \A d \in UnderWay(s) : serving'[d] = serving[d]
        BY <1>7, <3>1
      <3>6. ASSUME \E d \in UnderWay(s)' : Fresh(d)' PROVE Spare(s)
        <4>1. PICK d \in UnderWay(s)' : Fresh(d)'
          BY <3>6
        <4>2. CASE d = c
          <5>1. UnderWay(s) = {} /\ s \in Scope(asked[n])
            BY <1>4, <1>7, <3>3, <4>1, <4>2
          <5>2. replies[s] = 0
            BY <1>1, <5>1
          <5>3. QED
            BY <5>1, <5>2 DEF Spare
        <4>3. CASE d # c
          BY <3>4, <4>1, <4>3 DEF Spare
        <4>4. QED
          BY <4>2, <4>3
      <3>7. Spare(s)' => Spare(s)
        BY <1>1, <3>2, <3>5, <3>6 DEF Spare
      <3>8. QED
        BY <3>3, <3>7
    <2>2. routeFaults <= routeFaults' /\ DOMAIN replies' = DOMAIN replies
      BY <1>1, <1>6
    <2> HIDE DEF Spare, Fresh, Unraced, UnderWay
    <2>3. QED
      BY <1>2, <1>6, <1>7, <2>1, <2>2, RunsStillCost
  <1>9. RouteShape'
    BY <1>1, <1>7 DEF RouteInv, RouteShape
  <1>10. RouteOrder' /\ AnswerIsOfRequest'
    BY <1>1 DEF RouteInv, RouteOrder, ProperRequest, Scope, AnswerIsOfRequest
  <1>11. QED
    BY <1>7, <1>8, <1>9, <1>10 DEF RouteInv

\* A call that goes on, or ends, without creating, storing or answering anything:
\* it is of no scope, or it ends, or stays before its item.
LEMMA QuietKeeps ==
  ASSUME RouteInv, NEW c \in Calls, NEW v \in Servings,
         serving' = [serving EXCEPT ![c] = v], UNCHANGED <<asked, item, replies, got>>,
         ProperServing(v),
         v.stage = "checked" => item[asked[v.request].target].status # "archived",
         \/ /\ v.stage = "run" /\ v.request \in Requests /\ asked[v.request].route \notin Keyed
            /\ serving[c].stage = "idle" /\ UNCHANGED routeFaults
         \/ /\ v.stage \in {"idle", "checked"} /\ serving[c].stage = "run" /\ UNCHANGED routeFaults
            /\ v.stage = "checked" => v.request = serving[c].request /\ v.raced = serving[c].raced
         \/ v.stage = "idle" /\ RouteFault
  PROVE  RouteInv'
  <1>1. /\ routeFaults \in Nat /\ routeFaults' \in 0..MaxRouteFaults /\ routeFaults <= routeFaults'
        /\ routeFaults' \in Nat /\ (RouteFault => routeFaults' = routeFaults + 1)
    BY DEF RouteInv, RouteShape, RouteFault
  <1>2. v.stage # "event"
    OBVIOUS
  <1>3. serving[c].stage = "event" => v.stage = "idle" /\ routeFaults' = routeFaults + 1
    BY <1>1
  <1>4. /\ ServingOrder' /\ SilenceCosts' /\ LateWereChecked'
        /\ serving' \in [Calls -> Servings] /\ serving'[c] = v
        /\ \A d \in Calls : d # c => serving'[d] = serving[d]
        /\ \A s : /\ Unraced(s)' = Unraced(s)
                  /\ \A d \in Calls : d # c => (d \in UnderWay(s)' <=> d \in UnderWay(s))
                  /\ c \in UnderWay(s)' <=> v.stage # "idle" /\ s \in Scope(asked[v.request])
    BY <1>1, <1>2, <1>3, ServingMoves
  <1>5. ASSUME NEW s \in DOMAIN replies
        PROVE  /\ c \in UnderWay(s)' => /\ v.stage = "checked" /\ serving[c].stage = "run"
                                        /\ c \in UnderWay(s) /\ v.raced = serving[c].raced
               /\ c \in UnderWay(s) /\ c \notin UnderWay(s)' => serving[c].stage = "run" \/ RouteFault
    <2>1. asked[v.request].route \notin Keyed /\ v.request \in Requests => Scope(asked[v.request]) = {}
      BY PublicHasNoScope
    <2>2. c \in UnderWay(s)' => v.stage = "checked" /\ serving[c].stage = "run"
      BY <1>4, <2>1
    <2>3. c \in UnderWay(s)' => c \in UnderWay(s) /\ v.raced = serving[c].raced
      BY <1>4, <2>2 DEF UnderWay, RequestOf
    <2>4. c \in UnderWay(s) => serving[c].stage # "idle"
      BY DEF UnderWay
    <2>5. QED
      BY <2>2, <2>3, <2>4
  <1>6. ASSUME NEW s \in DOMAIN replies
        PROVE  /\ c \in UnderWay(s)' /\ Fresh(c)' => UnderWay(s) = {} \/ (c \in UnderWay(s) /\ Fresh(c))
               /\ Spare(s)' => Spare(s) \/ routeFaults' = routeFaults + 1
    <2>1. UnderWay(s)' \subseteq Calls /\ UnderWay(s) \subseteq Calls
      BY DEF UnderWay
    <2>2. \A d \in UnderWay(s)' : d \in UnderWay(s) /\ (Fresh(d)' => Fresh(d))
      BY <1>4, <1>5, <2>1 DEF Fresh
    <2>3. ASSUME ~RouteFault, NEW d \in UnderWay(s), serving[d].stage \in {"event", "store"}
          PROVE  d \in UnderWay(s)' /\ serving'[d].stage \in {"event", "store"}
      <3>1. d # c
        <4>1. CASE d = c
          <5>1. serving[c].stage \notin {"idle", "run"}
            BY <2>3, <4>1
          <5>2. QED
            BY <2>3, <5>1
        <4>2. QED
          BY <4>1
      <3>2. QED
        BY <1>4, <2>1, <2>3, <3>1
    <2>4. Spare(s)' => Spare(s) \/ RouteFault
      BY <2>2, <2>3 DEF Spare
    <2>5. QED
      BY <1>1, <2>2, <2>4
  <1>7. RunsCost'
    <2> HIDE DEF Spare, Fresh, Unraced, UnderWay
    <2>1. DOMAIN replies' = DOMAIN replies /\ routeFaults' \in Nat
      BY <1>1
    <2>2. QED
      BY <1>1, <1>4, <1>6, <2>1, RunsStillCost
  <1>8. RouteShape'
    BY <1>1, <1>4 DEF RouteInv, RouteShape
  <1>9. RouteOrder' /\ AnswerIsOfRequest'
    BY DEF RouteInv, RouteOrder, ProperRequest, Scope, AnswerIsOfRequest
  <1>10. QED
    BY <1>4, <1>7, <1>8, <1>9 DEF RouteInv

\* A public call begins, a link is checked, a call is lost.
LEMMA PublicKeeps ==
  ASSUME RouteInv, NEW c \in Calls, NEW n \in Requests, HandleCreatePublicCheckoutSession(c, n)
  PROVE  RouteInv'
  <1> DEFINE v == [stage |-> "run", request |-> n, made |-> 0, raced |-> FALSE]
  <1>1. /\ asked[n].route = "public/sessions" /\ serving[c].stage = "idle"
        /\ serving' = [serving EXCEPT ![c] = v]
        /\ UNCHANGED <<asked, item, replies, got, routeFaults>>
    BY DEF HandleCreatePublicCheckoutSession, Start
  <1>2. v \in Servings /\ ProperServing(v)
    BY <1>1, ItemsAreFinite DEF RouteInv, Servings, ProperServing, Requests
  <1>3. asked[n].route \notin Keyed
    BY <1>1 DEF Keyed
  <1>4. v.stage = "run" /\ v.request = n
    OBVIOUS
  <1> HIDE DEF v
  <1>5. QED
    BY <1>1, <1>2, <1>3, <1>4, QuietKeeps

\* A link that passes the check is not archived.
LEMMA LinkCheckKeeps ==
  ASSUME RouteInv, NEW c \in Calls, CheckLink(c)
  PROVE  RouteInv'
  <1>1. /\ serving[c].stage = "run" /\ RequestOf(c).route \in SessionRoutes
        /\ UNCHANGED <<asked, item, replies, got, routeFaults>>
        /\ serving' = [serving EXCEPT ![c] = IF OpenLink(c) THEN [serving[c] EXCEPT !.stage = "checked"]
                                            ELSE NotServing]
    BY DEF CheckLink
  <1>2. /\ serving[c] \in Servings /\ ProperServing(serving[c])
        /\ serving[c].request \in Requests /\ RequestOf(c) # Unasked
        /\ RequestOf(c).route \in Keyed \cup {"public/sessions"}
    BY <1>1, ServedIsProper
  <1>3. CASE OpenLink(c)
    <2> DEFINE v == [serving[c] EXCEPT !.stage = "checked"]
    <2>1. /\ v \in Servings /\ v.stage = "checked" /\ v.request = serving[c].request
          /\ v.made = serving[c].made /\ v.raced = serving[c].raced
      BY <1>2 DEF Servings
    <2>2. serving' = [serving EXCEPT ![c] = v]
      BY <1>1, <1>3
    <2> HIDE DEF v
    <2>3. /\ RequestOf(c).target \in Nat /\ RequestOf(c).target <= Len(item)
          /\ RequestOf(c).target > 0
      BY <1>1, <1>2, AskedIsProper DEF RequestOf, Targets
    <2>4. /\ RequestOf(c).target \in DOMAIN item /\ item[RequestOf(c).target].route = "links"
          /\ item[RequestOf(c).target].status = "live"
      BY <1>3, <2>3, ItemsAreFinite DEF RouteInv, OpenLink
    <2>5. asked[v.request] = RequestOf(c)
      BY <2>1 DEF RequestOf
    <2>6. ProperServing(v)
      BY <1>1, <1>2, <2>1, <2>4, <2>5 DEF ProperServing
    <2>7. QED
      BY <1>1, <2>1, <2>2, <2>4, <2>5, <2>6, QuietKeeps
  <1>4. CASE ~OpenLink(c)
    <2>1. NotServing \in Servings /\ ProperServing(NotServing) /\ NotServing.stage = "idle"
      BY ItemsAreFinite DEF RouteInv, NotServing, Servings, ProperServing
    <2>2. serving' = [serving EXCEPT ![c] = NotServing]
      BY <1>1, <1>4
    <2>3. QED
      BY <1>1, <2>1, <2>2, QuietKeeps
  <1>5. QED
    BY <1>3, <1>4

\* A call that is lost costs a failure.
LEMMA LoseKeeps ==
  ASSUME RouteInv, NEW c \in Calls, LoseCall(c)
  PROVE  RouteInv'
  <1>1. NotServing \in Servings /\ ProperServing(NotServing) /\ NotServing.stage = "idle"
    BY ItemsAreFinite DEF RouteInv, NotServing, Servings, ProperServing
  <1>2. serving' = [serving EXCEPT ![c] = NotServing] /\ UNCHANGED <<asked, item, replies, got>> /\ RouteFault
    BY DEF LoseCall
  <1>3. QED
    BY <1>1, <1>2, QuietKeeps

\* Two requests of one scope are of one merchant, route and header.
LEMMA SameScope ==
  ASSUME RouteInv, NEW n \in Requests, NEW k \in Requests, NEW s,
         s \in Scope(asked[n]), s \in Scope(asked[k])
  PROVE  /\ asked[k].header # {}
         /\ [asked[k] EXCEPT !.target = 0] = [asked[n] EXCEPT !.target = 0]
  <1>1. asked[n] # Unasked /\ asked[k] # Unasked
    BY DEF Scope, Unasked
  <1>2. asked[n].header # {} /\ asked[k].header # {}
    BY DEF Scope
  <1>3. /\ asked[n] \in Requested /\ asked[k] \in Requested
        /\ \E h \in Headers : asked[n].header = {h}
        /\ \E h \in Headers : asked[k].header = {h}
        /\ \E m \in Shops : asked[n].shop = {m}
        /\ \E m \in Shops : asked[k].shop = {m}
    BY <1>1, <1>2, AskedIsProper
  <1>4. PICK m \in Shops, h \in Headers, p \in Shops, i \in Headers :
          /\ asked[n].shop = {m} /\ asked[n].header = {h}
          /\ asked[k].shop = {p} /\ asked[k].header = {i}
    BY <1>3
  <1>5. s = <<m, asked[n].route, h>> /\ s = <<p, asked[k].route, i>>
    BY <1>4 DEF Scope
  <1>6. asked[k].shop = asked[n].shop /\ asked[k].route = asked[n].route /\ asked[k].header = asked[n].header
    BY <1>4, <1>5
  <1>7. [asked[k] EXCEPT !.target = 0] = [asked[n] EXCEPT !.target = 0]
    BY <1>3, <1>6 DEF Requested
  <1>8. QED
    BY <1>2, <1>7

\* An answer more: x, of request n itself or of one in its scope.
LEMMA ReplyKeeps ==
  ASSUME RouteInv, NEW n \in Requests, asked[n] # Unasked, NEW x \in DOMAIN item, Reply(n, x),
         UNCHANGED <<asked, item>>,
         \/ item[x].by = n
         \/ \E s : s \in Scope(asked[n]) /\ s \in Scope(asked[item[x].by])
         \/ asked[n].route \notin Keyed \cup {"public/sessions"}
  PROVE  /\ got' \in [Requests -> SUBSET Nat] /\ AnswerIsOfRequest'
         /\ \A k \in Requests : got'[k] \subseteq DOMAIN item /\ (asked[k] = Unasked => got'[k] = {})
  <1>1. /\ got \in [Requests -> SUBSET Nat] /\ x \in Nat /\ item[x].by \in Requests
        /\ got' = [got EXCEPT ![n] = @ \cup {x}]
    BY ItemsAreFinite DEF RouteInv, RouteShape, Reply, Items
  <1>2. /\ got' \in [Requests -> SUBSET Nat]
        /\ \A k \in Requests : got'[k] = IF k = n THEN got[k] \cup {x} ELSE got[k]
    BY <1>1
  <1>3. \A k \in Requests : got'[k] \subseteq DOMAIN item /\ (asked[k] = Unasked => got'[k] = {})
    BY <1>2 DEF RouteInv, RouteOrder
  <1>4. AnswerIsOfRequest'
    <2> SUFFICES ASSUME NEW k \in Requests, NEW z \in got'[k],
                        asked[k].route \in Keyed \cup {"public/sessions"}
                 PROVE  \/ item[z].by = k
                        \/ /\ asked[item[z].by].header # {}
                           /\ [asked[item[z].by] EXCEPT !.target = 0] = [asked[k] EXCEPT !.target = 0]
      BY DEF AnswerIsOfRequest
    <2>1. CASE z \in got[k]
      BY <2>1 DEF RouteInv, AnswerIsOfRequest
    <2>2. CASE k = n /\ z = x
      <3>1. CASE \E s : s \in Scope(asked[n]) /\ s \in Scope(asked[item[x].by])
        BY <1>1, <2>2, <3>1, SameScope
      <3>2. CASE item[x].by = n
        BY <2>2, <3>2
      <3>3. QED
        BY <2>2, <3>1, <3>2
    <2>3. QED
      BY <1>2, <2>1, <2>2
  <1>5. QED
    BY <1>2, <1>3, <1>4

\* A stored answer is that of a request with the same merchant, route and header.
LEMMA ReplayKeeps ==
  ASSUME RouteInv, NEW n \in Requests, Replay(n)
  PROVE  RouteInv'
  <1>1. /\ asked[n].route \in Keyed /\ \E s \in Scope(asked[n]) : replies[s] > 0 /\ Reply(n, replies[s])
        /\ UNCHANGED <<asked, serving, item, replies, routeFaults>>
    BY DEF Replay
  <1>2. PICK s \in Scope(asked[n]) : replies[s] > 0 /\ Reply(n, replies[s])
    BY <1>1
  <1>3. asked[n] # Unasked
    BY <1>2 DEF Unasked, Scope
  <1>4. s \in DOMAIN replies
    <2>1. \E m \in Shops, h \in Headers : asked[n].shop = {m} /\ asked[n].header = {h}
      BY <1>2, <1>3, AskedIsProper DEF Scope
    <2>2. QED
      BY <1>1, <1>2, <2>1 DEF RouteInv, RouteShape, Scope
  <1>5. replies[s] \in DOMAIN item /\ s \in Scope(asked[item[replies[s]].by])
    BY <1>2, <1>4 DEF RouteInv, RouteOrder
  <1>6. /\ got' \in [Requests -> SUBSET Nat] /\ AnswerIsOfRequest'
        /\ \A k \in Requests : got'[k] \subseteq DOMAIN item /\ (asked[k] = Unasked => got'[k] = {})
    BY <1>1, <1>2, <1>3, <1>5, ReplyKeeps
  <1>7. RouteShape'
    BY <1>1, <1>6 DEF RouteInv, RouteShape
  <1>8. RouteOrder'
    BY <1>1, <1>6 DEF RouteInv, RouteOrder, ProperRequest, Scope
  <1>9. ServingOrder' /\ SilenceCosts' /\ LateWereChecked'
    BY <1>1 DEF RouteInv, ServingOrder, ProperServing, SilenceCosts, Silent, Due, LateWereChecked, LateOf,
                CheckedOn, RequestOf
  <1>10. RunsCost'
    <2>1. \A z : UnderWay(z)' = UnderWay(z) /\ Unraced(z)' = Unraced(z)
      BY <1>1 DEF UnderWay, RequestOf, Scope, Unraced, CreatedIn
    <2>2. \A c : Fresh(c)' <=> Fresh(c)
      BY <1>1 DEF Fresh
    <2>3. \A z : Spare(z)' <=> Spare(z)
      BY <1>1, <2>1, <2>2 DEF Spare
    <2> HIDE DEF Spare, Fresh, UnderWay, Unraced
    <2>4. QED
      BY <1>1, <2>1, <2>2, <2>3 DEF RouteInv, RunsCost
  <1>11. QED
    BY <1>6, <1>7, <1>8, <1>9, <1>10 DEF RouteInv

\* An answer that is stored is the one item of its scope that is not raced, or
\* a failure keeps it from being stored.
LEMMA AnswerKeeps ==
  ASSUME RouteInv, NEW c \in Calls, StoreAnswer(c)
  PROVE  RouteInv'
  <1> DEFINE x == serving[c].made
  <1> DEFINE n == serving[c].request
  <1>1. /\ serving[c].stage = "store" /\ Reply(n, x)
        /\ serving' = [serving EXCEPT ![c] = NotServing] /\ UNCHANGED <<asked, item>>
        /\ \/ /\ replies' = [s \in DOMAIN replies |->
                               IF s \in Scope(RequestOf(c)) /\ replies[s] = 0 THEN x ELSE replies[s]]
              /\ UNCHANGED routeFaults
           \/ RouteFault /\ UNCHANGED replies
    BY DEF StoreAnswer
  <1>2. /\ n \in Requests /\ RequestOf(c) = asked[n] /\ asked[n] # Unasked
        /\ x \in DOMAIN item /\ item[x].by = n
    <2>1. ProperServing(serving[c]) /\ n \in Requests /\ RequestOf(c) # Unasked
      BY <1>1, ServedIsProper
    <2>2. RequestOf(c) = asked[n]
      BY DEF RequestOf
    <2>3. QED
      BY <1>1, <2>1, <2>2 DEF ProperServing
  <1> HIDE DEF n, x
  <1>3. x \in Nat /\ x > 0
    BY <1>2, ItemsAreFinite DEF RouteInv
  <1>4. /\ NotServing \in Servings /\ ProperServing(NotServing)
        /\ NotServing.stage = "idle"
    BY ItemsAreFinite DEF RouteInv, NotServing, Servings, ProperServing
  <1>5. /\ routeFaults \in Nat /\ routeFaults' \in 0..MaxRouteFaults /\ routeFaults' \in Nat
        /\ routeFaults <= routeFaults' /\ (RouteFault => routeFaults' = routeFaults + 1)
        /\ serving[c].stage # "event" /\ NotServing.stage # "event" /\ NotServing.stage # "checked"
    BY <1>1, <1>4 DEF RouteInv, RouteShape, RouteFault
  <1>6. /\ ServingOrder' /\ SilenceCosts' /\ LateWereChecked'
        /\ serving' \in [Calls -> Servings] /\ serving'[c] = NotServing
        /\ \A d \in Calls : d # c => serving'[d] = serving[d]
        /\ \A s : /\ Unraced(s)' = Unraced(s)
                  /\ \A d \in Calls : d # c => (d \in UnderWay(s)' <=> d \in UnderWay(s))
                  /\ c \in UnderWay(s)' <=> NotServing.stage # "idle" /\ s \in Scope(asked[NotServing.request])
    BY <1>1, <1>4, <1>5, ServingMoves
  <1>7. /\ replies' \in [Shops \X Keyed \X Headers -> Nat] /\ DOMAIN replies' = DOMAIN replies
        /\ \A s \in DOMAIN replies : replies'[s] = replies[s] \/ (replies'[s] = x /\ s \in Scope(asked[n]))
        /\ \A s \in DOMAIN replies : s \in Scope(asked[n]) => RouteFault \/ replies'[s] > 0
        /\ \A s \in DOMAIN replies : replies[s] > 0 => replies'[s] = replies[s]
    <2>1. replies \in [Shops \X Keyed \X Headers -> Nat]
      BY DEF RouteInv, RouteShape
    <2>2. CASE replies' = [s \in DOMAIN replies |->
                             IF s \in Scope(asked[n]) /\ replies[s] = 0 THEN x ELSE replies[s]]
      <3>1. DOMAIN replies' = DOMAIN replies /\ DOMAIN replies = Shops \X Keyed \X Headers
        BY <2>1, <2>2
      <3>2. \A s \in DOMAIN replies :
              replies'[s] = IF s \in Scope(asked[n]) /\ replies[s] = 0 THEN x ELSE replies[s]
        BY <2>2
      <3>3. \A s \in DOMAIN replies : replies[s] \in Nat
        BY <2>1
      <3>4. replies' \in [Shops \X Keyed \X Headers -> Nat]
        BY <1>3, <2>1, <2>2
      <3>5. QED
        BY <1>3, <3>1, <3>2, <3>3, <3>4
    <2>3. CASE RouteFault /\ UNCHANGED replies
      BY <2>1, <2>3
    <2>4. QED
      BY <1>1, <1>2, <2>2, <2>3
  <1>8. RunsCost'
    <2>1. ASSUME NEW s \in DOMAIN replies
          PROVE  /\ c \in UnderWay(s)' /\ Fresh(c)' => UnderWay(s) = {} \/ (c \in UnderWay(s) /\ Fresh(c))
                 /\ Spare(s)' => Spare(s) \/ routeFaults' = routeFaults + 1
      <3>1. c \notin UnderWay(s)' /\ (c \in UnderWay(s) <=> s \in Scope(asked[n]))
        BY <1>1, <1>2, <1>4, <1>6 DEF UnderWay
      <3>2. UnderWay(s)' \subseteq Calls /\ UnderWay(s) \subseteq Calls
        BY DEF UnderWay
      <3>3. \A d \in Calls \ {c} : /\ d \in UnderWay(s)' <=> d \in UnderWay(s)
                                   /\ serving'[d] = serving[d] /\ (Fresh(d)' <=> Fresh(d))
        BY <1>6 DEF Fresh
      <3>4. CASE s \in Scope(asked[n])
        <4>1. RouteFault \/ replies'[s] # 0
          BY <1>7, <3>4
        <4>2. (\E d \in UnderWay(s)' : Fresh(d)') => \E d \in UnderWay(s) : Fresh(d)
          BY <3>1, <3>2, <3>3
        <4>3. QED
          BY <1>5, <3>1, <4>1, <4>2 DEF Spare
      <3>5. CASE s \notin Scope(asked[n])
        <4>1. UnderWay(s)' = UnderWay(s) /\ replies'[s] = replies[s]
          BY <1>7, <3>1, <3>2, <3>3, <3>5
        <4>2. \A d \in UnderWay(s) : serving'[d] = serving[d] /\ (Fresh(d)' <=> Fresh(d))
          BY <3>1, <3>2, <3>3, <4>1
        <4>3. Spare(s)' => Spare(s)
          BY <4>1, <4>2 DEF Spare
        <4>4. QED
          BY <3>1, <4>3
      <3>6. QED
        BY <3>4, <3>5
    <2> HIDE DEF Spare, Fresh, Unraced, UnderWay
    <2>2. QED
      BY <1>4, <1>5, <1>6, <1>7, <2>1, RunsStillCost
  <1>9. /\ got' \in [Requests -> SUBSET Nat] /\ AnswerIsOfRequest'
        /\ \A k \in Requests : got'[k] \subseteq DOMAIN item /\ (asked[k] = Unasked => got'[k] = {})
    BY <1>1, <1>2, ReplyKeeps
  <1>10. RouteShape'
    BY <1>1, <1>5, <1>6, <1>7, <1>9 DEF RouteInv, RouteShape
  <1>11. RouteOrder'
    <2>1. \A s \in DOMAIN replies' :
            replies'[s] > 0 => replies'[s] \in DOMAIN item' /\ s \in Scope(asked[item[replies[s]].by])'
      <3>1. \A s \in DOMAIN replies :
              replies[s] > 0 => replies[s] \in DOMAIN item /\ s \in Scope(asked[item[replies[s]].by])
        BY DEF RouteInv, RouteOrder
      <3>2. QED
        BY <1>1, <1>2, <1>7, <3>1 DEF Scope
    <2>2. QED
      BY <1>1, <1>9, <2>1 DEF RouteInv, RouteOrder, ProperRequest
  <1>12. QED
    BY <1>6, <1>8, <1>9, <1>10, <1>11 DEF RouteInv

-----------------------------------------------------------------------------
(* Steps that create or change an item *)

\* The item that a call creates, and what becomes of the call.
LEMMA CreateAdds ==
  ASSUME RouteInv, NEW c \in Calls, NEW shop \in Owners, NEW told \in BOOLEAN,
         serving[c].stage \in {"run", "checked"},
         serving[c].stage = "run" => RequestOf(c).route \notin SessionRoutes,
         Create(c, shop, told)
  PROVE  /\ Len(item) \in Nat /\ Len(item) + 1 \notin DOMAIN item
         /\ item' \in Seq(Items) /\ Len(item') = Len(item) + 1
         /\ DOMAIN item' = DOMAIN item \cup {Len(item) + 1}
         /\ \A x \in DOMAIN item : item'[x] = item[x]
         /\ LET z == item'[Len(item) + 1]
            IN  /\ z.by = serving[c].request /\ z.route = RequestOf(c).route
                /\ z.target = RequestOf(c).target /\ z.target < Len(item) + 1
                /\ z.status = "live" /\ z.announced = (IF told THEN 1 ELSE 0) /\ z.raced = serving[c].raced
                /\ z.late => /\ serving[c].stage = "checked" /\ z.target \in DOMAIN item
                             /\ item[z.target].status = "archived"
         /\ serving' \in [Calls -> Servings]
         /\ \A d \in Calls : d # c => serving'[d] = serving[d]
         /\ serving'[c].stage = (IF told THEN "store" ELSE "event")
         /\ serving'[c].request = serving[c].request /\ serving'[c].made = Len(item) + 1
         /\ UNCHANGED <<asked, replies, got, routeFaults>>
  <1> DEFINE late == RequestOf(c).route \in SessionRoutes /\ item[RequestOf(c).target].status # "live"
  <1> DEFINE z == [by |-> serving[c].request, route |-> RequestOf(c).route, shop |-> shop,
                   target |-> RequestOf(c).target, status |-> "live", late |-> late, closing |-> 0,
                   announced |-> IF told THEN 1 ELSE 0, raced |-> serving[c].raced]
  <1>1. /\ item' = Append(item, z) /\ UNCHANGED <<asked, replies, got, routeFaults>>
        /\ serving' = [serving EXCEPT ![c].stage = IF told THEN "store" ELSE "event",
                                      ![c].made = Len(item')]
    BY DEF Create
  <1>2. /\ serving[c] \in Servings /\ ProperServing(serving[c])
        /\ serving[c].request \in Requests /\ RequestOf(c) # Unasked /\ RequestOf(c) \in Requested
        /\ RequestOf(c).route \in Keyed \cup {"public/sessions"}
    BY ServedIsProper
  <1>3. RequestOf(c).target \in Nat /\ RequestOf(c).target <= Len(item)
    BY <1>2, AskedIsProper DEF RequestOf
  <1>4. late \in BOOLEAN
    OBVIOUS
  <1>5. late => /\ serving[c].stage = "checked" /\ RequestOf(c).target \in DOMAIN item
                /\ item[RequestOf(c).target].status = "archived"
    <2>1. SUFFICES ASSUME late
                   PROVE  /\ serving[c].stage = "checked" /\ RequestOf(c).target \in DOMAIN item
                          /\ item[RequestOf(c).target].status = "archived"
      OBVIOUS
    <2>2. serving[c].stage = "checked"
      BY <2>1
    <2>3. RequestOf(c).target \in DOMAIN item /\ item[RequestOf(c).target].route = "links"
      BY <1>2, <2>2 DEF ProperServing, RequestOf
    <2>4. item[RequestOf(c).target].status \in {"live", "archived", "paused"}
      BY <2>3, ItemsAreFinite DEF RouteInv, Items
    <2>5. item[RequestOf(c).target].status # "paused"
      BY <2>3 DEF RouteInv, RouteOrder
    <2>6. QED
      BY <2>1, <2>2, <2>3, <2>4, <2>5
  <1>6. z \in Items
    BY <1>2, <1>3, <1>4 DEF Items, Servings, Requested
  <1>7. /\ z.by = serving[c].request /\ z.route = RequestOf(c).route
        /\ z.target = RequestOf(c).target /\ z.target < Len(item) + 1
        /\ z.status = "live" /\ z.announced = (IF told THEN 1 ELSE 0) /\ z.raced = serving[c].raced
        /\ z.late => /\ serving[c].stage = "checked" /\ z.target \in DOMAIN item
                     /\ item[z.target].status = "archived"
    <2>1. z.target = RequestOf(c).target /\ (z.late <=> late)
      OBVIOUS
    <2>2. z.target < Len(item) + 1
      BY <1>3, <2>1, ItemsAreFinite DEF RouteInv
    <2>3. z.late => /\ serving[c].stage = "checked" /\ z.target \in DOMAIN item
                    /\ item[z.target].status = "archived"
      BY <1>5, <2>1
    <2> HIDE DEF late
    <2>4. QED
      BY <2>2, <2>3
  <1> HIDE DEF z, late
  <1>8. /\ item' \in Seq(Items) /\ Len(item') = Len(item) + 1 /\ Len(item) \in Nat
        /\ item'[Len(item) + 1] = z /\ \A x \in 1..Len(item) : item'[x] = item[x]
        /\ DOMAIN item' = 1..(Len(item) + 1)
    <2>1. item \in Seq(Items)
      BY DEF RouteInv, RouteShape
    <2>2. QED
      BY <1>1, <1>6, <2>1
  <1>9. DOMAIN item = 1..Len(item)
    BY ItemsAreFinite DEF RouteInv
  <1>10. DOMAIN item' = DOMAIN item \cup {Len(item) + 1} /\ Len(item) + 1 \notin DOMAIN item
    BY <1>8, <1>9
  <1>11. /\ serving' \in [Calls -> Servings]
         /\ \A d \in Calls : d # c => serving'[d] = serving[d]
         /\ serving'[c].stage = (IF told THEN "store" ELSE "event")
         /\ serving'[c].request = serving[c].request /\ serving'[c].made = Len(item) + 1
    <2>1. serving \in [Calls -> Servings]
      BY DEF RouteInv, RouteShape
    <2>2. serving'[c] = [serving[c] EXCEPT !.stage = IF told THEN "store" ELSE "event", !.made = Len(item')]
      BY <1>1, <2>1
    <2> DEFINE stage == IF told THEN "store" ELSE "event"
    <2>7. stage \in {"store", "event"} /\ Len(item') \in Nat /\ Len(item') = Len(item) + 1
      BY <1>8
    <2>8. serving'[c] = [serving[c] EXCEPT !.stage = stage, !.made = Len(item')]
      BY <2>2
    <2> HIDE DEF stage
    <2>9. /\ serving'[c] \in Servings /\ serving'[c].stage = stage
          /\ serving'[c].request = serving[c].request /\ serving'[c].made = Len(item) + 1
      BY <1>2, <2>7, <2>8 DEF Servings
    <2>3. /\ serving'[c] \in Servings /\ serving'[c].stage = (IF told THEN "store" ELSE "event")
          /\ serving'[c].request = serving[c].request /\ serving'[c].made = Len(item) + 1
      BY <2>9 DEF stage
    <2>4. DOMAIN serving' = Calls /\ serving' = [d \in Calls |-> serving'[d]]
      BY <1>1, <2>1
    <2>5. \A d \in Calls : d # c => serving'[d] = serving[d]
      BY <1>1, <2>1
    <2>6. QED
      BY <2>1, <2>3, <2>4, <2>5
  <1>12. QED
    BY <1>1, <1>7, <1>8, <1>9, <1>10, <1>11

\* A call that creates something: what it may cost its scope, its link and
\* the number of silent items was reserved before.
LEMMA CreateKeeps ==
  ASSUME RouteInv, NEW c \in Calls, NEW shop \in Owners, NEW told \in BOOLEAN,
         serving[c].stage \in {"run", "checked"},
         serving[c].stage = "run" => RequestOf(c).route \notin SessionRoutes,
         Create(c, shop, told)
  PROVE  RouteInv'
  <1> DEFINE y == Len(item) + 1
  <1>0. /\ Len(item) \in Nat /\ Len(item) + 1 \notin DOMAIN item
        /\ item' \in Seq(Items) /\ Len(item') = Len(item) + 1
        /\ DOMAIN item' = DOMAIN item \cup {Len(item) + 1}
        /\ \A x \in DOMAIN item : item'[x] = item[x]
    BY CreateAdds
  <1>1. /\ y \in Nat /\ y \notin DOMAIN item /\ Len(item) \in Nat
        /\ item' \in Seq(Items) /\ Len(item') = y
        /\ DOMAIN item' = DOMAIN item \cup {y}
        /\ \A x \in DOMAIN item : item'[x] = item[x]
    BY <1>0
  <1>2. /\ item'[y].by = serving[c].request /\ item'[y].route = RequestOf(c).route
        /\ item'[y].target = RequestOf(c).target /\ item'[y].target < y
        /\ item'[y].status = "live" /\ item'[y].announced = (IF told THEN 1 ELSE 0)
        /\ item'[y].raced = serving[c].raced
        /\ item'[y].late => /\ serving[c].stage = "checked" /\ item'[y].target \in DOMAIN item
                            /\ item[item'[y].target].status = "archived"
    BY CreateAdds
  <1>3. /\ serving' \in [Calls -> Servings]
        /\ \A d \in Calls : d # c => serving'[d] = serving[d]
        /\ serving'[c].stage = (IF told THEN "store" ELSE "event")
        /\ serving'[c].request = serving[c].request /\ serving'[c].made = y
        /\ UNCHANGED <<asked, replies, got, routeFaults>>
    BY CreateAdds
  <1> HIDE DEF y
  <1>4. /\ serving[c].request \in Requests /\ RequestOf(c) # Unasked
        /\ RequestOf(c).route \in Keyed \cup {"public/sessions"} /\ RequestOf(c) = asked[serving[c].request]
    BY ServedIsProper DEF RequestOf
  <1>5. y = Len(item) + 1 /\ DOMAIN item = 1..Len(item) /\ routeFaults \in Nat
    BY ItemsAreFinite DEF y, RouteInv, RouteShape
  <1>6. RouteShape'
    BY <1>1, <1>3 DEF RouteInv, RouteShape
  <1>7. RouteOrder'
    <2>1. \A n \in Requests : asked[n] # Unasked => ProperRequest(asked[n])'
      <3>1. ASSUME NEW n \in Requests, asked[n] # Unasked PROVE ProperRequest(asked[n])'
        BY <1>1, <1>3, <1>5, <3>1, AskedIsProper DEF ProperRequest
      <3>2. QED
        BY <3>1
    <2>2. \A n \in Requests : got[n] \subseteq DOMAIN item' /\ (asked[n] = Unasked => got[n] = {})
      BY <1>1 DEF RouteInv, RouteOrder
    <2>3. \A x \in DOMAIN item' : /\ asked[item'[x].by] # Unasked /\ item'[x].target < x
                                  /\ item'[x].route = "links" => item'[x].status # "paused"
      <3>1. ASSUME NEW x \in DOMAIN item
            PROVE  /\ asked[item'[x].by] # Unasked /\ item'[x].target < x
                   /\ item'[x].route = "links" => item'[x].status # "paused"
        BY <1>1 DEF RouteInv, RouteOrder
      <3>2. /\ asked[item'[y].by] # Unasked /\ item'[y].target < y /\ item'[y].status # "paused"
        BY <1>2, <1>4
      <3>3. QED
        BY <1>1, <3>1, <3>2
    <2>4. \A s \in DOMAIN replies :
            replies[s] > 0 => replies[s] \in DOMAIN item' /\ s \in Scope(asked[item'[replies[s]].by])
      BY <1>1 DEF RouteInv, RouteOrder
    <2>5. QED
      BY <1>3, <2>1, <2>2, <2>3, <2>4 DEF RouteOrder, Scope
  <1>8. ServingOrder'
    <2>1. ASSUME NEW d \in Calls, d # c PROVE ProperServing(serving[d])'
      <3>1. ProperServing(serving[d]) /\ serving[d] \in Servings
        BY DEF RouteInv, RouteShape, ServingOrder
      <3>2. serving'[d] = serving[d] /\ serving[d].made \in Nat
        BY <1>3, <2>1, <3>1 DEF Servings
      <3>3. serving[d].made <= Len(item')
        BY <1>1, <1>5, <3>1, <3>2 DEF ProperServing
      <3>4. /\ serving[d].stage = "checked" =>
                 LET r == asked'[serving[d].request]
                 IN  /\ r.route \in SessionRoutes /\ r.target \in DOMAIN item'
                     /\ item'[r.target].route = "links"
            /\ serving[d].stage \in {"event", "store"} =>
                 serving[d].made \in DOMAIN item' /\ item'[serving[d].made].by = serving[d].request
            /\ serving[d].stage = "event" => item'[serving[d].made].announced = 0
        BY <1>1, <1>3, <3>1 DEF ProperServing
      <3>5. QED
        BY <1>3, <3>1, <3>2, <3>3, <3>4 DEF ProperServing
    <2>2. ProperServing(serving[c])'
      <3>1. serving'[c].made <= Len(item') /\ serving'[c].made \in DOMAIN item'
        BY <1>1, <1>3
      <3>2. item'[serving'[c].made].by = serving'[c].request
        BY <1>2, <1>3
      <3>3. serving'[c].stage = "event" => item'[serving'[c].made].announced = 0
        BY <1>2, <1>3
      <3>4. serving'[c].stage # "checked"
        BY <1>3
      <3>5. asked'[serving'[c].request].route \in Keyed \cup {"public/sessions"} /\ serving'[c].request \in Requests
        BY <1>3, <1>4
      <3>6. QED
        BY <1>1, <3>1, <3>2, <3>3, <3>4, <3>5 DEF ProperServing
    <2>3. \A d \in Calls : ProperServing(serving[d])'
      BY <2>1, <2>2
    <2>4. \A d \in Calls : d # c /\ serving'[d].stage = "event" => serving'[d].made # y
      <3>1. ASSUME NEW d \in Calls, d # c, serving'[d].stage = "event" PROVE serving'[d].made # y
        <4>1. serving[d].stage = "event" /\ serving'[d].made = serving[d].made
          BY <1>3, <3>1
        <4>2. ProperServing(serving[d])
          BY DEF RouteInv, ServingOrder
        <4>3. serving[d].made \in DOMAIN item
          BY <4>1, <4>2 DEF ProperServing
        <4>4. QED
          BY <1>1, <4>1, <4>3
      <3>2. QED
        BY <3>1
    <2>5. ASSUME NEW d \in Calls, NEW e \in Calls, serving'[d].stage = "event", serving'[e].stage = "event",
                 serving'[d].made = serving'[e].made
          PROVE  d = e
      <3>1. CASE d = c
        BY <1>3, <2>4, <2>5, <3>1
      <3>2. CASE e = c
        BY <1>3, <2>4, <2>5, <3>2
      <3>3. CASE d # c /\ e # c
        BY <1>3, <2>5, <3>3 DEF RouteInv, ServingOrder
      <3>4. QED
        BY <3>1, <3>2, <3>3
    <2>6. \A d, e \in Calls : /\ serving'[d].stage = "event" /\ serving'[e].stage = "event"
                              /\ serving'[d].made = serving'[e].made
                              => d = e
      BY <2>5
    <2>7. QED
      BY <2>3, <2>6 DEF ServingOrder
  <1>9. SilenceCosts'
    <2>1. \A d \in Calls : d # c => (serving'[d].stage = "event" <=> serving[d].stage = "event")
      BY <1>3
    <2>2. serving[c].stage # "event"
      OBVIOUS
    <2>3. Due \subseteq Due'
      BY <1>3, <2>1, <2>2 DEF Due
    <2>4. ~told => y \in Due'
      BY <1>3 DEF Due
    <2>5. told => item'[y].announced # 0
      BY <1>2
    <2>6. Silent' \subseteq Silent
      BY <1>1, <2>3, <2>4, <2>5 DEF Silent
    <2>7. IsFiniteSet(Silent) /\ Cardinality(Silent) \in Nat
      BY ItemsAreFinite DEF RouteInv, Silent
    <2>8. Cardinality(Silent') <= Cardinality(Silent) /\ Cardinality(Silent') \in Nat
      BY <2>6, <2>7, FS_Subset, FS_CardinalityType
    <2> HIDE DEF Silent
    <2>9. QED
      BY <1>3, <1>5, <2>7, <2>8 DEF RouteInv, SilenceCosts
  <1>10. LateWereChecked'
    <2>1. ASSUME NEW x \in DOMAIN item
          PROVE  IF item'[x].status = "archived"
                 THEN Cardinality(LateOf(x)') + Cardinality(CheckedOn(x)') <= item'[x].closing
                 ELSE LateOf(x)' = {}
      <3>1. item'[x] = item[x]
        BY <1>1
      <3>2. CASE item'[y].late /\ item'[y].target = x
        <4>1. item[x].status = "archived" /\ serving[c].stage = "checked" /\ RequestOf(c).target = x
          BY <1>2, <3>2
        <4>2. LateOf(x)' = LateOf(x) \cup {y}
          BY <1>1, <3>2 DEF LateOf
        <4>3. CheckedOn(x)' = CheckedOn(x) \ {c}
          BY <1>3, <4>1 DEF CheckedOn, RequestOf
        <4>4. c \in CheckedOn(x)
          BY <4>1 DEF CheckedOn
        <4>5. IsFiniteSet(LateOf(x)) /\ IsFiniteSet(CheckedOn(x))
          BY ItemsAreFinite DEF RouteInv, LateOf, CheckedOn
        <4>6. /\ Cardinality(LateOf(x)) + Cardinality(CheckedOn(x)) <= item[x].closing
              /\ item[x].closing \in Nat
          BY <4>1, ItemsAreFinite DEF RouteInv, LateWereChecked, Items
        <4> HIDE DEF LateOf, CheckedOn
        <4>7. /\ Cardinality(LateOf(x) \cup {y}) \in Nat /\ Cardinality(LateOf(x)) \in Nat
              /\ Cardinality(LateOf(x) \cup {y}) <= Cardinality(LateOf(x)) + 1
          BY <4>5, OneMore
        <4>8. /\ Cardinality(CheckedOn(x) \ {c}) \in Nat /\ Cardinality(CheckedOn(x)) \in Nat
              /\ Cardinality(CheckedOn(x) \ {c}) + 1 <= Cardinality(CheckedOn(x))
          BY <4>4, <4>5, OneMore
        <4>9. QED
          BY <3>1, <4>1, <4>2, <4>3, <4>6, <4>7, <4>8
      <3>3. CASE ~(item'[y].late /\ item'[y].target = x)
        <4>1. LateOf(x)' = LateOf(x)
          BY <1>1, <3>3 DEF LateOf
        <4>2. CheckedOn(x)' \subseteq CheckedOn(x)
          BY <1>3 DEF CheckedOn, RequestOf
        <4>3. IsFiniteSet(CheckedOn(x)) /\ Cardinality(CheckedOn(x)) \in Nat /\ Cardinality(LateOf(x)) \in Nat
          BY ItemsAreFinite DEF RouteInv, LateOf, CheckedOn
        <4>4. Cardinality(CheckedOn(x)') <= Cardinality(CheckedOn(x)) /\ Cardinality(CheckedOn(x)') \in Nat
          BY <4>2, <4>3, FS_Subset, FS_CardinalityType
        <4>5. item[x].closing \in Nat
          BY ItemsAreFinite DEF RouteInv, Items
        <4>6. IF item[x].status = "archived"
              THEN Cardinality(LateOf(x)) + Cardinality(CheckedOn(x)) <= item[x].closing
              ELSE LateOf(x) = {}
          BY DEF RouteInv, LateWereChecked
        <4> HIDE DEF LateOf, CheckedOn
        <4>7. QED
          BY <3>1, <4>1, <4>3, <4>4, <4>5, <4>6
      <3>4. QED
        BY <3>2, <3>3
    <2>2. item'[y].status # "archived" /\ \A x \in DOMAIN item' : item'[x].target # y
      <3>1. \A x \in DOMAIN item : item'[x].target < x /\ x < y /\ x \in Nat /\ item'[x].target \in Nat
        BY <1>1, <1>5, ItemsAreFinite DEF RouteInv, RouteOrder, Items
      <3>2. item'[y].target # y
        BY <1>1, <1>2
      <3>3. QED
        BY <1>1, <1>2, <3>1, <3>2
    <2>3. ASSUME NEW x \in DOMAIN item', x \notin DOMAIN item
          PROVE  item'[x].status # "archived" /\ LateOf(x)' = {}
      <3>1. x = y
        BY <1>1, <2>3
      <3>2. LateOf(x)' = {}
        BY <2>2, <3>1 DEF LateOf
      <3>3. QED
        BY <2>2, <3>1, <3>2
    <2> HIDE DEF LateOf, CheckedOn
    <2>4. \A x \in DOMAIN item' :
            IF item'[x].status = "archived"
            THEN Cardinality(LateOf(x)') + Cardinality(CheckedOn(x)') <= item'[x].closing
            ELSE LateOf(x)' = {}
      <3> SUFFICES ASSUME NEW x \in DOMAIN item'
                   PROVE  IF item'[x].status = "archived"
                          THEN Cardinality(LateOf(x)') + Cardinality(CheckedOn(x)') <= item'[x].closing
                          ELSE LateOf(x)' = {}
        OBVIOUS
      <3>1. CASE x \in DOMAIN item
        BY <2>1, <3>1
      <3>2. CASE x \notin DOMAIN item
        BY <2>3, <3>2
      <3>3. QED
        BY <3>1, <3>2
    <2>5. QED
      BY <2>4 DEF LateWereChecked
  <1>11. RunsCost'
    <2> SUFFICES ASSUME NEW s \in DOMAIN replies
                 PROVE  /\ \A d, e \in UnderWay(s)' : Fresh(d)' /\ Fresh(e)' => d = e
                        /\ Cardinality(Unraced(s)') <= IF Spare(s)' THEN routeFaults ELSE routeFaults + 1
      BY <1>3 DEF RunsCost
    <2>1. \A d, e \in UnderWay(s) : Fresh(d) /\ Fresh(e) => d = e
      BY DEF RouteInv, RunsCost
    <2>2. Cardinality(Unraced(s)) <= IF Spare(s) THEN routeFaults ELSE routeFaults + 1
      BY DEF RouteInv, RunsCost
    <2>3. Cardinality(Unraced(s)) \in Nat /\ IsFiniteSet(Unraced(s))
      <3>1. Unraced(s) \in SUBSET (DOMAIN item)
        BY DEF Unraced, CreatedIn
      <3>2. QED
        BY <3>1, ItemsAreFinite DEF RouteInv
    <2>4. UnderWay(s)' = UnderWay(s) /\ UnderWay(s) \subseteq Calls
      <3>1. \A d \in Calls : serving'[d].stage # "idle" <=> serving[d].stage # "idle"
        BY <1>3
      <3>2. \A d \in Calls : asked'[serving'[d].request] = asked[serving[d].request]
        BY <1>3
      <3>3. QED
        BY <3>1, <3>2 DEF UnderWay, RequestOf, Scope
    <2>5. \A d \in Calls : Fresh(d)' <=> d # c /\ Fresh(d)
      BY <1>3 DEF Fresh
    <2>6. \A d, e \in UnderWay(s)' : Fresh(d)' /\ Fresh(e)' => d = e
      BY <2>1, <2>4, <2>5
    <2>7. c \in UnderWay(s) <=> s \in Scope(RequestOf(c))
      BY DEF UnderWay
    <2>8. Unraced(s)' = IF s \in Scope(RequestOf(c)) /\ ~serving[c].raced THEN Unraced(s) \cup {y}
                        ELSE Unraced(s)
      <3>1. \A x \in DOMAIN item : x \in Unraced(s)' <=> x \in Unraced(s)
        BY <1>1, <1>3 DEF Unraced, CreatedIn, Scope
      <3>2. y \in Unraced(s)' <=> s \in Scope(RequestOf(c)) /\ ~serving[c].raced
        BY <1>1, <1>2, <1>3, <1>4 DEF Unraced, CreatedIn, Scope
      <3>3. Unraced(s)' \subseteq DOMAIN item' /\ Unraced(s) \subseteq DOMAIN item
        BY DEF Unraced, CreatedIn
      <3> HIDE DEF Unraced
      <3>4. Unraced(s)' = {x \in DOMAIN item \cup {y} : x \in Unraced(s)'} /\ y \notin Unraced(s)
        BY <1>1, <3>3
      <3>5. CASE s \in Scope(RequestOf(c)) /\ ~serving[c].raced
        BY <1>1, <3>1, <3>2, <3>3, <3>4, <3>5
      <3>6. CASE ~(s \in Scope(RequestOf(c)) /\ ~serving[c].raced)
        <4>1. \A x \in Unraced(s)' : x # y /\ x \in DOMAIN item
          BY <1>1, <3>2, <3>3, <3>6
        <4>2. \A x : x \in Unraced(s)' <=> x \in Unraced(s)
          BY <3>1, <3>3, <4>1
        <4>3. Unraced(s)' = Unraced(s)
          BY <4>2
        <4>4. QED
          BY <3>6, <4>3
      <3>7. QED
        BY <3>5, <3>6
    <2>9. CASE s \in Scope(RequestOf(c)) /\ ~serving[c].raced
      <3>1. c \in UnderWay(s) /\ Fresh(c)
        BY <2>7, <2>9 DEF Fresh
      <3>2. Spare(s)
        BY <3>1 DEF Spare
      <3>3. \A d \in UnderWay(s)' : ~Fresh(d)'
        BY <2>1, <2>4, <2>5, <3>1
      <3>4. serving'[c].stage \in {"event", "store"} /\ c \in UnderWay(s)'
        BY <1>3, <2>4, <3>1
      <3>5. ~Spare(s)'
        BY <3>3, <3>4 DEF Spare
      <3> HIDE DEF Unraced, Spare, Fresh, UnderWay, Scope
      <3>6. Unraced(s)' = Unraced(s) \cup {y}
        BY <2>8, <2>9
      <3>7. /\ Cardinality(Unraced(s) \cup {y}) \in Nat
            /\ Cardinality(Unraced(s) \cup {y}) <= Cardinality(Unraced(s)) + 1
        BY <2>3, OneMore
      <3>8. QED
        BY <1>5, <2>2, <2>3, <2>6, <3>2, <3>5, <3>6, <3>7
    <2>10. CASE ~(s \in Scope(RequestOf(c)) /\ ~serving[c].raced)
      <3>1. Spare(s)' => Spare(s)
        <4>1. CASE \E d \in UnderWay(s)' : Fresh(d)'
          BY <2>4, <2>5, <4>1 DEF Spare
        <4>2. CASE replies'[s] = 0 /\ \A d \in UnderWay(s)' : serving'[d].stage \notin {"event", "store"}
          <5>1. c \notin UnderWay(s)
            BY <1>3, <2>4, <4>2
          <5>2. \A d \in UnderWay(s) : serving[d].stage \notin {"event", "store"}
            BY <1>3, <2>4, <4>2, <5>1
          <5>3. QED
            BY <1>3, <4>2, <5>2 DEF Spare
        <4>3. QED
          BY <4>1, <4>2 DEF Spare
      <3> HIDE DEF Unraced, Spare, Fresh, UnderWay, Scope
      <3>2. Unraced(s)' = Unraced(s)
        BY <2>8, <2>10
      <3>3. QED
        BY <1>5, <2>2, <2>3, <2>6, <3>1, <3>2
    <2>11. QED
      BY <2>9, <2>10
  <1>12. AnswerIsOfRequest'
    <2> SUFFICES ASSUME NEW n \in Requests, NEW x \in got[n],
                        asked[n].route \in Keyed \cup {"public/sessions"}
                 PROVE  \/ item'[x].by = n
                        \/ /\ asked[item'[x].by].header # {}
                           /\ [asked[item'[x].by] EXCEPT !.target = 0] = [asked[n] EXCEPT !.target = 0]
      BY <1>3 DEF AnswerIsOfRequest
    <2>1. x \in DOMAIN item
      BY DEF RouteInv, RouteOrder
    <2>2. item'[x] = item[x]
      BY <1>1, <2>1
    <2>3. QED
      BY <2>2 DEF RouteInv, AnswerIsOfRequest
  <1>13. QED
    BY <1>6, <1>7, <1>8, <1>9, <1>10, <1>11, <1>12 DEF RouteInv

\* An event that is recorded is the first of its item; one that is not costs a
\* failure.
LEMMA RecordKeeps ==
  ASSUME RouteInv, NEW c \in Calls, RecordCreation(c)
  PROVE  RouteInv'
  <1> DEFINE m == serving[c].made
  <1>1. /\ serving[c].stage = "event" /\ UNCHANGED <<asked, replies, got>>
        /\ serving' = [serving EXCEPT ![c].stage = "store"]
        /\ \/ item' = [item EXCEPT ![m].announced = @ + 1] /\ UNCHANGED routeFaults
           \/ RouteFault /\ UNCHANGED item
    BY DEF RecordCreation
  <1>2. /\ serving[c] \in Servings /\ ProperServing(serving[c]) /\ serving[c].request \in Requests
        /\ RequestOf(c).route \in Keyed \cup {"public/sessions"} /\ RequestOf(c) = asked[serving[c].request]
    BY <1>1, ServedIsProper DEF RequestOf
  <1>3. m \in DOMAIN item /\ item[m].by = serving[c].request /\ item[m].announced = 0
    BY <1>1, <1>2 DEF ProperServing
  <1>4. /\ routeFaults \in Nat /\ routeFaults' \in 0..MaxRouteFaults /\ routeFaults' \in Nat
        /\ routeFaults <= routeFaults' /\ (RouteFault => routeFaults' = routeFaults + 1)
    BY <1>1 DEF RouteInv, RouteShape, RouteFault
  <1>5. /\ serving' \in [Calls -> Servings] /\ \A d \in Calls : d # c => serving'[d] = serving[d]
        /\ serving'[c].stage = "store" /\ serving'[c].request = serving[c].request
        /\ serving'[c].made = m
    <2>1. serving \in [Calls -> Servings]
      BY DEF RouteInv, RouteShape
    <2>2. QED
      BY <1>1, <1>2, <2>1 DEF Servings
  <1>6. /\ Len(item) \in Nat /\ DOMAIN item = 1..Len(item) /\ item \in Seq(Items)
        /\ \A x \in DOMAIN item : item[x] \in Items
    BY ItemsAreFinite DEF RouteInv, RouteShape
  <1> HIDE DEF m
  <1>7. /\ item' \in Seq(Items) /\ Len(item') = Len(item) /\ DOMAIN item' = DOMAIN item
        /\ \A x \in DOMAIN item : x # m => item'[x] = item[x]
        /\ \A x \in DOMAIN item : /\ item'[x].by = item[x].by /\ item'[x].route = item[x].route
                                  /\ item'[x].target = item[x].target /\ item'[x].status = item[x].status
                                  /\ item'[x].late = item[x].late /\ item'[x].closing = item[x].closing
                                  /\ item'[x].raced = item[x].raced
        /\ item'[m].announced = 1 \/ RouteFault
    <2>1. CASE item' = [item EXCEPT ![m].announced = @ + 1]
      <3> DEFINE z == [item[m] EXCEPT !.announced = 1]
      <3>1. item' = [item EXCEPT ![m] = z]
        BY <1>3, <2>1
      <3>2. /\ z \in Items /\ z.by = item[m].by /\ z.route = item[m].route /\ z.target = item[m].target
            /\ z.status = item[m].status /\ z.late = item[m].late /\ z.closing = item[m].closing
            /\ z.raced = item[m].raced /\ z.announced = 1
        BY <1>3, <1>6 DEF Items
      <3> HIDE DEF z
      <3>3. item' \in Seq(Items) /\ Len(item') = Len(item) /\ DOMAIN item' = DOMAIN item
        BY <1>3, <1>6, <3>1, <3>2
      <3>4. \A x \in DOMAIN item : item'[x] = IF x = m THEN z ELSE item[x]
        BY <3>1
      <3>5. QED
        BY <1>3, <3>2, <3>3, <3>4
    <2>2. CASE RouteFault /\ UNCHANGED item
      BY <1>6, <2>2
    <2>3. QED
      BY <1>1, <2>1, <2>2 DEF m
  <1>8. \A d \in Calls : d # c /\ serving[d].stage = "event" => serving[d].made # m
    BY <1>1 DEF RouteInv, ServingOrder, m
  <1>9. RouteShape'
    BY <1>1, <1>4, <1>5, <1>7 DEF RouteInv, RouteShape
  <1>10. RouteOrder'
    <2>1. \A n \in Requests : asked[n] # Unasked => ProperRequest(asked[n])'
      BY <1>1, <1>7 DEF RouteInv, RouteOrder, ProperRequest
    <2>2. \A x \in DOMAIN item : /\ asked[item'[x].by] # Unasked /\ item'[x].target < x
                                 /\ item'[x].route = "links" => item'[x].status # "paused"
      BY <1>7 DEF RouteInv, RouteOrder
    <2>3. \A s \in DOMAIN replies :
            replies[s] > 0 => replies[s] \in DOMAIN item /\ s \in Scope(asked[item'[replies[s]].by])
      BY <1>7 DEF RouteInv, RouteOrder
    <2>4. QED
      BY <1>1, <1>7, <2>1, <2>2, <2>3 DEF RouteInv, RouteOrder, Scope
  <1>11. ServingOrder'
    <2>1. ASSUME NEW d \in Calls, d # c PROVE ProperServing(serving[d])'
      <3>1. ProperServing(serving[d]) /\ serving[d] \in Servings /\ serving'[d] = serving[d]
        BY <1>5, <2>1 DEF RouteInv, RouteShape, ServingOrder
      <3>2. serving[d].stage = "event" => item'[serving[d].made].announced = 0
        BY <1>7, <1>8, <2>1, <3>1 DEF ProperServing
      <3>3. QED
        BY <1>1, <1>7, <3>1, <3>2 DEF ProperServing
    <2>2. ProperServing(serving[c])'
      <3>1. /\ m <= Len(item') /\ m \in DOMAIN item' /\ item'[m].by = serving[c].request
        BY <1>3, <1>6, <1>7
      <3>2. QED
        BY <1>1, <1>2, <1>5, <3>1 DEF ProperServing
    <2>3. \A d, e \in Calls : /\ serving'[d].stage = "event" /\ serving'[e].stage = "event"
                              /\ serving'[d].made = serving'[e].made
                              => d = e
      BY <1>5 DEF RouteInv, ServingOrder
    <2>4. QED
      BY <2>1, <2>2, <2>3 DEF ServingOrder
  <1>12. SilenceCosts'
    <2>1. IsFiniteSet(Silent) /\ Cardinality(Silent) \in Nat /\ Cardinality(Silent) <= routeFaults
      BY ItemsAreFinite DEF RouteInv, Silent, SilenceCosts
    <2>2. Due \subseteq Due' \cup {m}
      <3>1. \A d \in Calls : d # c /\ serving[d].stage = "event" => serving'[d] = serving[d]
        BY <1>5
      <3>2. QED
        BY <3>1 DEF Due, m
    <2>3. Silent' \subseteq Silent \cup {m}
      BY <1>7, <2>2 DEF Silent
    <2>4. CASE RouteFault
      <3>1. Cardinality(Silent \cup {m}) <= Cardinality(Silent) + 1 /\ Cardinality(Silent \cup {m}) \in Nat
        BY <2>1, OneMore
      <3>2. IsFiniteSet(Silent \cup {m})
        BY <2>1, FS_AddElement
      <3>3. Cardinality(Silent') <= Cardinality(Silent \cup {m}) /\ Cardinality(Silent') \in Nat
        BY <2>3, <3>2, FS_Subset, FS_CardinalityType
      <3>4. routeFaults' = routeFaults + 1
        BY <1>4, <2>4
      <3> HIDE DEF Silent
      <3>5. QED
        BY <1>4, <2>1, <3>1, <3>3, <3>4 DEF SilenceCosts
    <2>5. CASE ~RouteFault
      <3>1. item'[m].announced = 1
        BY <1>7, <2>5
      <3>2. Silent' \subseteq Silent
        BY <2>3, <3>1 DEF Silent
      <3>3. Cardinality(Silent') <= Cardinality(Silent) /\ Cardinality(Silent') \in Nat
        BY <2>1, <3>2, FS_Subset, FS_CardinalityType
      <3> HIDE DEF Silent
      <3>4. QED
        BY <1>4, <2>1, <3>3 DEF SilenceCosts
    <2>6. QED
      BY <2>4, <2>5
  <1>13. LateWereChecked'
    <2>1. \A x \in DOMAIN item : LateOf(x)' = LateOf(x)
      BY <1>7 DEF LateOf
    <2>2. \A d \in Calls : serving'[d].stage = "checked" <=> serving[d].stage = "checked"
      BY <1>1, <1>5
    <2>3. \A x : CheckedOn(x)' = CheckedOn(x)
      BY <1>1, <1>5, <2>2 DEF CheckedOn, RequestOf
    <2> HIDE DEF LateOf, CheckedOn
    <2>4. QED
      BY <1>7, <2>1, <2>3 DEF RouteInv, LateWereChecked
  <1>14. RunsCost'
    <2> SUFFICES ASSUME NEW s \in DOMAIN replies
                 PROVE  /\ \A d, e \in UnderWay(s)' : Fresh(d)' /\ Fresh(e)' => d = e
                        /\ Cardinality(Unraced(s)') <= IF Spare(s)' THEN routeFaults' ELSE routeFaults' + 1
      BY <1>1 DEF RunsCost
    <2>1. UnderWay(s)' = UnderWay(s) /\ UnderWay(s) \subseteq Calls
      <3>1. \A d \in Calls : /\ serving'[d].stage # "idle" <=> serving[d].stage # "idle"
                             /\ serving'[d].request = serving[d].request
        BY <1>1, <1>5
      <3>2. QED
        BY <1>1, <3>1 DEF UnderWay, RequestOf, Scope
    <2>2. \A d \in Calls : Fresh(d)' <=> Fresh(d)
      BY <1>1, <1>5 DEF Fresh
    <2>3. \A d \in Calls : serving'[d].stage \in {"event", "store"} <=> serving[d].stage \in {"event", "store"}
      BY <1>1, <1>5
    <2>4. Spare(s)' <=> Spare(s)
      BY <1>1, <2>1, <2>2, <2>3 DEF Spare
    <2>5. Unraced(s)' = Unraced(s)
      BY <1>1, <1>7 DEF Unraced, CreatedIn, Scope
    <2>6. Cardinality(Unraced(s)) \in Nat
      <3>1. Unraced(s) \in SUBSET (DOMAIN item)
        BY DEF Unraced, CreatedIn
      <3>2. QED
        BY <3>1, ItemsAreFinite DEF RouteInv
    <2>7. /\ \A d, e \in UnderWay(s) : Fresh(d) /\ Fresh(e) => d = e
          /\ Cardinality(Unraced(s)) <= IF Spare(s) THEN routeFaults ELSE routeFaults + 1
      BY DEF RouteInv, RunsCost
    <2> HIDE DEF Unraced, Spare, Fresh, UnderWay
    <2>8. QED
      BY <1>4, <2>1, <2>2, <2>4, <2>5, <2>6, <2>7
  <1>15. AnswerIsOfRequest'
    <2> SUFFICES ASSUME NEW n \in Requests, NEW x \in got[n],
                        asked[n].route \in Keyed \cup {"public/sessions"}
                 PROVE  \/ item'[x].by = n
                        \/ /\ asked[item'[x].by].header # {}
                           /\ [asked[item'[x].by] EXCEPT !.target = 0] = [asked[n] EXCEPT !.target = 0]
      BY <1>1 DEF AnswerIsOfRequest
    <2>1. x \in DOMAIN item
      BY DEF RouteInv, RouteOrder
    <2>2. item'[x].by = item[x].by
      BY <1>7, <2>1
    <2>3. QED
      BY <2>2 DEF RouteInv, AnswerIsOfRequest
  <1>16. QED
    BY <1>9, <1>10, <1>11, <1>12, <1>13, <1>14, <1>15 DEF RouteInv

\* A link that is archived has no late sessions yet.
LEMMA ChangeKeeps ==
  ASSUME RouteInv, NEW n \in Requests, asked[n].route \in {"update", "archive", "pause", "resume"},
         NEW route \in {"links", "subscriptions"}, NEW from \in SUBSET {"live", "paused"},
         NEW to \in {"live", "archived", "paused"}, route = "links" => to # "paused",
         Change(n, route, from, to)
  PROVE  RouteInv'
  <1> DEFINE x == asked[n].target
  <1>1. /\ item[x].route = route /\ item[x].status \in from /\ Reply(n, x)
        /\ item' = [item EXCEPT ![x].status = to,
                                ![x].closing = IF to = "archived" THEN Cardinality(CheckedOn(x)) ELSE @]
        /\ UNCHANGED <<asked, serving, replies, routeFaults>>
    BY DEF Change
  <1>2. /\ Len(item) \in Nat /\ DOMAIN item = 1..Len(item) /\ item \in Seq(Items)
        /\ \A z \in DOMAIN item : item[z] \in Items
    BY ItemsAreFinite DEF RouteInv, RouteShape
  <1>3. asked[n] # Unasked /\ asked[n].route \notin Keyed \cup {"public/sessions"}
    BY DEF Unasked, Keyed
  <1>4. x \in DOMAIN item
    <2>1. x \in Nat /\ x <= Len(item) /\ x > 0
      BY <1>3, AskedIsProper DEF Targets
    <2>2. QED
      BY <1>2, <2>1
  <1>5. Cardinality(CheckedOn(x)) \in Nat
    BY ItemsAreFinite DEF RouteInv, CheckedOn
  <1> HIDE DEF x
  <1> DEFINE closing == IF to = "archived" THEN Cardinality(CheckedOn(x)) ELSE item[x].closing
  <1>6. /\ item' \in Seq(Items) /\ Len(item') = Len(item) /\ DOMAIN item' = DOMAIN item
        /\ \A z \in DOMAIN item : z # x => item'[z] = item[z]
        /\ \A z \in DOMAIN item : /\ item'[z].by = item[z].by /\ item'[z].route = item[z].route
                                  /\ item'[z].target = item[z].target /\ item'[z].late = item[z].late
                                  /\ item'[z].raced = item[z].raced /\ item'[z].announced = item[z].announced
        /\ item'[x].status = to /\ item'[x].closing = closing
    <2> DEFINE z == [item[x] EXCEPT !.status = to, !.closing = closing]
    <2>1. item' = [item EXCEPT ![x] = z]
      BY <1>1, <1>4
    <2>2. closing \in Nat
      BY <1>2, <1>4, <1>5 DEF Items
    <2> HIDE DEF closing
    <2>3. /\ z \in Items /\ z.by = item[x].by /\ z.route = item[x].route /\ z.target = item[x].target
          /\ z.status = to /\ z.late = item[x].late /\ z.closing = closing
          /\ z.raced = item[x].raced /\ z.announced = item[x].announced
      BY <1>2, <1>4, <2>2 DEF Items
    <2> HIDE DEF z
    <2>4. item' \in Seq(Items) /\ Len(item') = Len(item) /\ DOMAIN item' = DOMAIN item
      BY <1>2, <1>4, <2>1, <2>3
    <2>5. \A k \in DOMAIN item : item'[k] = IF k = x THEN z ELSE item[k]
      BY <2>1
    <2>6. QED
      BY <1>4, <2>3, <2>4, <2>5
  <1>7. /\ got' \in [Requests -> SUBSET Nat]
        /\ \A k \in Requests : got'[k] = IF k = n THEN got[k] \cup {x} ELSE got[k]
    <2>1. got \in [Requests -> SUBSET Nat] /\ got' = [got EXCEPT ![n] = @ \cup {x}]
      BY <1>1 DEF RouteInv, RouteShape, Reply
    <2>2. x \in Nat
      BY <1>2, <1>4
    <2>3. QED
      BY <2>1, <2>2
  <1>8. RouteShape'
    BY <1>1, <1>6, <1>7 DEF RouteInv, RouteShape
  <1>9. RouteOrder'
    <2>1. \A k \in Requests : asked[k] # Unasked => ProperRequest(asked[k])'
      BY <1>1, <1>6 DEF RouteInv, RouteOrder, ProperRequest
    <2>2. \A k \in Requests : got'[k] \subseteq DOMAIN item /\ (asked[k] = Unasked => got'[k] = {})
      BY <1>3, <1>4, <1>7 DEF RouteInv, RouteOrder
    <2>3. \A z \in DOMAIN item : /\ asked[item'[z].by] # Unasked /\ item'[z].target < z
                                 /\ item'[z].route = "links" => item'[z].status # "paused"
      <3>1. \A z \in DOMAIN item : asked[item'[z].by] # Unasked /\ item'[z].target < z
        BY <1>6 DEF RouteInv, RouteOrder
      <3>2. ASSUME NEW z \in DOMAIN item, item'[z].route = "links" PROVE item'[z].status # "paused"
        <4>1. CASE z = x
          BY <1>1, <1>6, <3>2, <4>1
        <4>2. CASE z # x
          BY <1>6, <3>2, <4>2 DEF RouteInv, RouteOrder
        <4>3. QED
          BY <4>1, <4>2
      <3>3. QED
        BY <3>1, <3>2
    <2>4. \A s \in DOMAIN replies :
            replies[s] > 0 => replies[s] \in DOMAIN item /\ s \in Scope(asked[item'[replies[s]].by])
      BY <1>6 DEF RouteInv, RouteOrder
    <2>5. QED
      BY <1>1, <1>6, <2>1, <2>2, <2>3, <2>4 DEF RouteOrder, Scope
  <1>10. ServingOrder'
    <2>1. \A c \in Calls : ProperServing(serving[c])'
      BY <1>1, <1>6 DEF RouteInv, ServingOrder, ProperServing
    <2>2. QED
      BY <1>1, <2>1 DEF RouteInv, ServingOrder
  <1>11. SilenceCosts'
    <2>1. Due' = Due
      BY <1>1 DEF Due
    <2>2. Silent' = Silent
      BY <1>6, <2>1 DEF Silent
    <2>3. QED
      BY <1>1, <2>2 DEF RouteInv, SilenceCosts
  <1>12. LateWereChecked'
    <2>1. \A z : LateOf(z)' = LateOf(z) /\ CheckedOn(z)' = CheckedOn(z)
      BY <1>1, <1>6 DEF LateOf, CheckedOn, RequestOf
    <2>2. LateOf(x) = {}
      <3>1. item[x].status # "archived"
        BY <1>1
      <3>2. QED
        BY <1>4, <3>1 DEF RouteInv, LateWereChecked
    <2>3. Cardinality({}) = 0
      BY FS_EmptySet
    <2> HIDE DEF LateOf, CheckedOn
    <2>4. ASSUME NEW z \in DOMAIN item
          PROVE  IF item'[z].status = "archived"
                 THEN Cardinality(LateOf(z)) + Cardinality(CheckedOn(z)) <= item'[z].closing
                 ELSE LateOf(z) = {}
      <3>1. CASE z = x
        <4>1. LateOf(z) = {} /\ Cardinality(LateOf(z)) = 0 /\ CheckedOn(z) = CheckedOn(x)
          BY <2>2, <2>3, <3>1
        <4>2. item'[z].status = "archived" => item'[z].closing = Cardinality(CheckedOn(x))
          BY <1>6, <3>1
        <4>3. QED
          BY <1>5, <4>1, <4>2
      <3>2. CASE z # x
        BY <1>6, <3>2 DEF RouteInv, LateWereChecked
      <3>3. QED
        BY <3>1, <3>2
    <2>5. QED
      BY <1>6, <2>1, <2>4 DEF LateWereChecked
  <1>13. RunsCost'
    <2>1. ASSUME NEW s PROVE UnderWay(s)' = UnderWay(s) /\ Unraced(s)' = Unraced(s)
      <3>1. UnderWay(s)' = UnderWay(s)
        BY <1>1 DEF UnderWay, RequestOf, Scope
      <3>2. \A z \in DOMAIN item : Scope(asked[item[z].by])' = Scope(asked[item[z].by])
        BY <1>1, <1>6 DEF Scope
      <3>3. Unraced(s)' = Unraced(s)
        BY <1>6, <3>2 DEF Unraced, CreatedIn
      <3>4. QED
        BY <3>1, <3>3
    <2>2. \A c : Fresh(c)' <=> Fresh(c)
      BY <1>1 DEF Fresh
    <2>3. \A s : Spare(s)' <=> Spare(s)
      BY <1>1, <2>1, <2>2 DEF Spare
    <2> HIDE DEF Spare, Fresh, UnderWay, Unraced
    <2>4. QED
      BY <1>1, <2>1, <2>2, <2>3 DEF RouteInv, RunsCost
  <1>14. AnswerIsOfRequest'
    <2> SUFFICES ASSUME NEW k \in Requests, NEW z \in got'[k],
                        asked[k].route \in Keyed \cup {"public/sessions"}
                 PROVE  \/ item'[z].by = k
                        \/ /\ asked[item'[z].by].header # {}
                           /\ [asked[item'[z].by] EXCEPT !.target = 0] = [asked[k] EXCEPT !.target = 0]
      BY <1>1 DEF AnswerIsOfRequest
    <2>1. z \in got[k] /\ z \in DOMAIN item
      BY <1>3, <1>7 DEF RouteInv, RouteOrder
    <2>2. item'[z].by = item[z].by
      BY <1>6, <2>1
    <2>3. QED
      BY <2>1, <2>2 DEF RouteInv, AnswerIsOfRequest
  <1>15. QED
    BY <1>8, <1>9, <1>10, <1>11, <1>12, <1>13, <1>14 DEF RouteInv

\* A request that comes up is served by nobody, has created nothing and got no
\* answer yet.
LEMMA AskKeeps ==
  ASSUME RouteInv, NEW n \in Requests, Ask(n)
  PROVE  RouteInv'
  <1>1. PICK route \in Keyed \cup Unkeyed, m \in Shops, h \in {{}} \cup {{i} : i \in Headers},
             t \in 0..Len(item) :
          /\ route \in Targets <=> t > 0
          /\ route \in Unkeyed => h = {}
          /\ asked' = [asked EXCEPT ![n] = [route |-> route, shop |-> {m}, target |-> t, header |-> h]]
    BY DEF Ask
  <1>2. asked[n] = Unasked /\ UNCHANGED <<serving, item, replies, got, routeFaults>>
    BY DEF Ask
  <1> DEFINE r == [route |-> route, shop |-> {m}, target |-> t, header |-> h]
  <1>3. Len(item) \in Nat /\ \A x \in DOMAIN item : item[x] \in Items
    BY ItemsAreFinite DEF RouteInv
  <1>4. r \in Requested /\ t \in Nat /\ t <= Len(item)
    BY <1>1, <1>3 DEF Requested, Owners
  <1>5. ProperRequest(r)
    <2>1. h # {} => route \in Keyed /\ \E i \in Headers : h = {i}
      BY <1>1
    <2>2. QED
      BY <1>1, <1>4, <2>1 DEF ProperRequest
  <1>6. r # Unasked
    BY <1>1 DEF Unasked, Keyed, Unkeyed
  <1>7. /\ asked \in [Requests -> Requested \cup {Unasked}]
        /\ asked' = [asked EXCEPT ![n] = r]
    BY <1>1 DEF RouteInv, RouteShape
  <1> HIDE DEF r
  <1>8. /\ asked' \in [Requests -> Requested \cup {Unasked}]
        /\ \A k \in Requests : asked'[k] = IF k = n THEN r ELSE asked[k]
    BY <1>4, <1>7
  <1>9. \A x \in DOMAIN item : item[x].by \in Requests /\ item[x].by # n /\ asked'[item[x].by] = asked[item[x].by]
    BY <1>2, <1>3, <1>8 DEF RouteInv, RouteOrder, Items
  <1>10. \A c \in Calls : serving[c].stage # "idle" =>
           serving[c].request \in Requests /\ serving[c].request # n /\ RequestOf(c)' = RequestOf(c)
    <2>1. ASSUME NEW c \in Calls, serving[c].stage # "idle"
          PROVE  serving[c].request \in Requests /\ serving[c].request # n /\ RequestOf(c)' = RequestOf(c)
      <3>1. serving[c].request \in Requests /\ RequestOf(c) # Unasked
        BY <2>1, ServedIsProper
      <3>2. serving[c].request # n
        BY <1>2, <3>1 DEF RequestOf
      <3>3. QED
        BY <1>2, <1>8, <3>1, <3>2 DEF RequestOf
    <2>2. QED
      BY <2>1
  <1>11. RouteShape'
    BY <1>2, <1>8 DEF RouteInv, RouteShape
  <1>12. RouteOrder'
    <2>1. \A k \in Requests : asked'[k] # Unasked => ProperRequest(asked[k])'
      BY <1>2, <1>5, <1>8 DEF RouteInv, RouteOrder, ProperRequest
    <2>2. \A k \in Requests : got'[k] \subseteq DOMAIN item' /\ (asked'[k] = Unasked => got'[k] = {})
      BY <1>2, <1>6, <1>8 DEF RouteInv, RouteOrder
    <2>3. \A x \in DOMAIN item' : /\ asked'[item'[x].by] # Unasked /\ item'[x].target < x
                                  /\ item'[x].route = "links" => item'[x].status # "paused"
      BY <1>2, <1>9 DEF RouteInv, RouteOrder
    <2>4. \A s \in DOMAIN replies' :
            replies'[s] > 0 => replies'[s] \in DOMAIN item' /\ s \in Scope(asked[item[replies[s]].by])'
      BY <1>2, <1>9 DEF RouteInv, RouteOrder, Scope
    <2>5. QED
      BY <2>1, <2>2, <2>3, <2>4 DEF RouteOrder
  <1>13. ServingOrder'
    <2>1. ASSUME NEW c \in Calls PROVE ProperServing(serving[c])'
      <3>1. ProperServing(serving[c])
        BY DEF RouteInv, ServingOrder
      <3>2. serving[c].stage # "idle" => asked'[serving[c].request] = asked[serving[c].request]
        BY <1>2, <1>10 DEF RequestOf
      <3>3. QED
        BY <1>2, <3>1, <3>2 DEF ProperServing
    <2>2. QED
      BY <1>2, <2>1 DEF RouteInv, ServingOrder
  <1>14. SilenceCosts'
    BY <1>2 DEF RouteInv, SilenceCosts, Silent, Due
  <1>15. LateWereChecked'
    <2>1. \A z : LateOf(z)' = LateOf(z)
      BY <1>2 DEF LateOf
    <2>2. \A z : CheckedOn(z)' = CheckedOn(z)
      BY <1>2, <1>10 DEF CheckedOn
    <2> HIDE DEF LateOf, CheckedOn
    <2>3. QED
      BY <1>2, <2>1, <2>2 DEF RouteInv, LateWereChecked
  <1>16. RunsCost'
    <2>1. ASSUME NEW s PROVE UnderWay(s)' = UnderWay(s) /\ Unraced(s)' = Unraced(s)
      <3>1. UnderWay(s)' = UnderWay(s)
        BY <1>2, <1>10 DEF UnderWay, Scope
      <3>2. Unraced(s)' = Unraced(s)
        BY <1>2, <1>9 DEF Scope, Unraced, CreatedIn
      <3>3. QED
        BY <3>1, <3>2
    <2>2. \A c : Fresh(c)' <=> Fresh(c)
      BY <1>2 DEF Fresh
    <2>3. \A s : Spare(s)' <=> Spare(s)
      BY <1>2, <2>1, <2>2 DEF Spare
    <2> HIDE DEF Spare, Fresh, UnderWay, Unraced
    <2>4. QED
      BY <1>2, <2>1, <2>2, <2>3 DEF RouteInv, RunsCost
  <1>17. AnswerIsOfRequest'
    <2> SUFFICES ASSUME NEW k \in Requests, NEW x \in got[k],
                        asked'[k].route \in Keyed \cup {"public/sessions"}
                 PROVE  \/ item[x].by = k
                        \/ LET first == asked'[item[x].by]
                           IN  /\ first.header # {}
                               /\ [first EXCEPT !.target = 0] = [asked'[k] EXCEPT !.target = 0]
      BY <1>2 DEF AnswerIsOfRequest
    <2>1. k # n /\ x \in DOMAIN item
      BY <1>2 DEF RouteInv, RouteOrder
    <2>2. asked'[k] = asked[k] /\ asked'[item[x].by] = asked[item[x].by]
      BY <1>8, <1>9, <2>1
    <2>3. QED
      BY <2>2 DEF RouteInv, AnswerIsOfRequest
  <1>18. QED
    BY <1>11, <1>12, <1>13, <1>14, <1>15, <1>16, <1>17 DEF RouteInv

\* Every step keeps the invariant of the routes.
LEMMA NextKeepsRouteInv == RouteInv /\ [RoutesNext]_routesVars => RouteInv'
  <1> SUFFICES ASSUME RouteInv, [RoutesNext]_routesVars PROVE RouteInv'
    OBVIOUS
  <1>1. ASSUME NEW n \in Requests, Ask(n) PROVE RouteInv'
    BY <1>1, AskKeeps
  <1>2. ASSUME NEW n \in Requests, Replay(n) PROVE RouteInv'
    BY <1>2, ReplayKeeps
  <1>3. ASSUME NEW n \in Requests, NEW c \in Calls, LookUpAnswer(c, n) PROVE RouteInv'
    BY <1>3, MissKeeps
  <1>4. ASSUME NEW n \in Requests, NEW c \in Calls, HandleCreatePublicCheckoutSession(c, n) PROVE RouteInv'
    BY <1>4, PublicKeeps
  <1>5. ASSUME NEW n \in Requests,
               HandleUpdatePaymentLink(n) \/ HandleArchivePaymentLink(n)
               \/ HandlePauseSubscription(n) \/ HandleResumeSubscription(n)
        PROVE  RouteInv'
    <2>1. CASE HandleUpdatePaymentLink(n)
      BY <2>1, ChangeKeeps DEF HandleUpdatePaymentLink, Is
    <2>2. CASE HandleArchivePaymentLink(n)
      BY <2>2, ChangeKeeps DEF HandleArchivePaymentLink, Is
    <2>3. CASE HandlePauseSubscription(n)
      BY <2>3, ChangeKeeps DEF HandlePauseSubscription, Is
    <2>4. CASE HandleResumeSubscription(n)
      BY <2>4, ChangeKeeps DEF HandleResumeSubscription, Is
    <2>5. QED
      BY <1>5, <2>1, <2>2, <2>3, <2>4
  <1>6. ASSUME NEW c \in Calls, serving[c].stage # "idle" PROVE RequestOf(c).shop \in Owners
    BY <1>6, ServedIsProper DEF Requested
  <1>7. ASSUME NEW c \in Calls,
               HandleCreatePaymentLink(c) \/ HandleCreateSubscription(c) \/ HandleCreateWebhookEndpoint(c)
        PROVE  RouteInv'
    <2>1. PICK told \in BOOLEAN : /\ Create(c, RequestOf(c).shop, told) /\ serving[c].stage = "run"
                                  /\ RequestOf(c).route \in {"links", "subscriptions", "webhook_endpoints"}
      BY <1>7 DEF HandleCreatePaymentLink, HandleCreateSubscription, HandleCreateWebhookEndpoint, Runs
    <2>2. RequestOf(c).shop \in Owners
      BY <1>6, <2>1
    <2>3. RequestOf(c).route \notin SessionRoutes
      BY <2>1 DEF SessionRoutes
    <2>4. QED
      BY <2>1, <2>2, <2>3, CreateKeeps
  <1>8. ASSUME NEW c \in Calls, CreateSession(c) PROVE RouteInv'
    <2>1. serving[c].stage = "checked" /\ Create(c, item[RequestOf(c).target].shop, FALSE)
      BY <1>8 DEF CreateSession
    <2>2. RequestOf(c).target \in DOMAIN item
      BY <2>1, ServedIsProper DEF ProperServing, RequestOf
    <2>3. item[RequestOf(c).target].shop \in Owners
      BY <2>2, ItemsAreFinite DEF RouteInv, Items
    <2>4. QED
      BY <2>1, <2>3, CreateKeeps
  <1>9. ASSUME NEW c \in Calls, CheckLink(c) \/ RecordCreation(c) \/ StoreAnswer(c) \/ LoseCall(c) PROVE RouteInv'
    BY <1>9, LinkCheckKeeps, RecordKeeps, AnswerKeeps, LoseKeeps
  <1>10. CASE UNCHANGED routesVars
    <2>1. UNCHANGED <<asked, serving, item, replies, got, routeFaults>>
      BY <1>10 DEF routesVars
    <2>2. RouteShape' /\ RouteOrder'
      BY <2>1 DEF RouteInv, RouteShape, RouteOrder, ProperRequest, Scope
    <2>3. ServingOrder' /\ SilenceCosts'
      BY <2>1 DEF RouteInv, ServingOrder, ProperServing, SilenceCosts, Silent, Due
    <2>4. LateWereChecked' /\ AnswerIsOfRequest'
      BY <2>1 DEF RouteInv, LateWereChecked, LateOf, CheckedOn, RequestOf, AnswerIsOfRequest
    <2>5. RunsCost'
      <3>1. \A s : UnderWay(s)' = UnderWay(s) /\ Unraced(s)' = Unraced(s)
        BY <2>1 DEF UnderWay, RequestOf, Scope, Unraced, CreatedIn
      <3>2. \A c : Fresh(c)' <=> Fresh(c)
        BY <2>1 DEF Fresh
      <3>3. \A s : Spare(s)' <=> Spare(s)
        BY <2>1, <3>1, <3>2 DEF Spare
      <3> HIDE DEF Spare, Fresh, UnderWay, Unraced
      <3>4. QED
        BY <2>1, <3>1, <3>2, <3>3 DEF RouteInv, RunsCost
    <2>6. QED
      BY <2>2, <2>3, <2>4, <2>5 DEF RouteInv
  <1>11. CASE RoutesNext
    BY <1>1, <1>2, <1>3, <1>4, <1>5, <1>7, <1>8, <1>9, <1>11 DEF RoutesNext
  <1>12. QED
    BY <1>10, <1>11

\* So it always holds.
LEMMA RouteInvHolds == RoutesSpec => []RouteInv
  BY InitRouteInv, NextKeepsRouteInv, PTL DEF RoutesSpec

\* What is created names the request it was created by and is of one merchant;
\* calls, stored answers and answers given name items that exist.
THEOREM RequestsAreTyped == RoutesSpec => []RoutesTypeOK
  <1>1. RouteInv => RoutesTypeOK
    <2> SUFFICES ASSUME RouteInv PROVE RoutesTypeOK
      OBVIOUS
    <2>1. Len(item) \in Nat /\ DOMAIN item = 1..Len(item) /\ \A x \in DOMAIN item : item[x] \in Items
      BY ItemsAreFinite DEF RouteInv
    <2>2. \A n \in Requests : asked[n] # Unasked => asked[n].target \in 0..Len(item)
      <3> SUFFICES ASSUME NEW n \in Requests, asked[n] # Unasked PROVE asked[n].target \in 0..Len(item)
        OBVIOUS
      <3>1. asked[n].target \in Nat /\ asked[n].target <= Len(item)
        BY AskedIsProper
      <3>2. QED
        BY <2>1, <3>1
    <2>3. ASSUME NEW x \in DOMAIN item
          PROVE  /\ item[x].by \in Requests /\ item[x].target \in 0..(x - 1)
                 /\ item[x].status \in {"live", "archived", "paused"}
                 /\ Cardinality(item[x].shop) = 1
      <3>1. item[x] \in Items /\ item[x].target < x /\ x \in Nat
        BY <2>1 DEF RouteInv, RouteOrder
      <3>2. PICK m : item[x].shop = {m}
        BY <3>1 DEF Items, Owners
      <3>3. Cardinality({m}) = 1
        BY FS_Singleton
      <3>4. QED
        BY <3>1, <3>2, <3>3 DEF Items
    <2>4. \A s \in DOMAIN replies : replies[s] \in 0..Len(item)
      BY <2>1 DEF RouteInv, RouteShape, RouteOrder
    <2>5. (\A n \in Requests : got[n] \subseteq DOMAIN item) /\ routeFaults \in 0..MaxRouteFaults
      BY DEF RouteInv, RouteShape, RouteOrder
    <2>6. ASSUME NEW c \in Calls
          PROVE  /\ serving[c].stage \in {"idle", "run", "checked", "event", "store"}
                 /\ serving[c].made \in 0..Len(item)
                 /\ serving[c].stage # "idle" => serving[c].request \in Requests
      <3>1. serving[c] \in Servings /\ ProperServing(serving[c])
        BY DEF RouteInv, RouteShape, ServingOrder
      <3>2. QED
        BY <2>1, <3>1 DEF Servings, ProperServing
    <2>7. QED
      BY <2>2, <2>3, <2>4, <2>5, <2>6 DEF RoutesTypeOK
  <1>2. QED
    BY <1>1, RouteInvHolds, PTL

\* Nobody is answered with what a request of another merchant, route or header
\* created.
THEOREM AnswersAreOfTheirRequest == RoutesSpec => []AnswerIsOfRequest
  <1>1. RouteInv => AnswerIsOfRequest
    BY DEF RouteInv
  <1>2. QED
    BY <1>1, RouteInvHolds, PTL

\* A key creates one thing, but for calls that overlap another one with it, and
\* for answers lost before they could be stored.
THEOREM RetriesRunOnce == RoutesSpec => []RetriesCostFailures
  <1>1. RouteInv => RetriesCostFailures
    <2> SUFFICES ASSUME RouteInv, NEW s \in DOMAIN replies
                 PROVE  Cardinality(Unraced(s)) <= 1 + routeFaults
      BY DEF RetriesCostFailures, Unraced
    <2>1. Cardinality(Unraced(s)) <= IF Spare(s) THEN routeFaults ELSE routeFaults + 1
      BY DEF RouteInv, RunsCost
    <2>2. Unraced(s) \in SUBSET (DOMAIN item)
      BY DEF Unraced, CreatedIn
    <2>3. Cardinality(Unraced(s)) \in Nat /\ routeFaults \in Nat
      BY <2>2, ItemsAreFinite DEF RouteInv, RouteShape
    <2> HIDE DEF Unraced, Spare
    <2>4. QED
      BY <2>1, <2>3
  <1>2. QED
    BY <1>1, RouteInvHolds, PTL

\* What is created is announced once, or not at all after a failure, or is yet
\* to be.
THEOREM CreatedIsAnnouncedOnce == RoutesSpec => []AnnouncedOnce
  <1>1. RouteInv => AnnouncedOnce
    <2> SUFFICES ASSUME RouteInv PROVE AnnouncedOnce
      OBVIOUS
    <2>1. \A x \in DOMAIN item : item[x].announced <= 1
      BY ItemsAreFinite DEF RouteInv, Items
    <2>2. Cardinality(Silent) <= routeFaults
      BY DEF RouteInv, SilenceCosts
    <2>3. QED
      BY <2>1, <2>2 DEF AnnouncedOnce, Silent, Due
  <1>2. QED
    BY <1>1, RouteInvHolds, PTL

\* An archived link is never live again, and gets no more sessions than had
\* checked it by then.
THEOREM ArchivedStaysOver == RoutesSpec => ArchivedIsOver
  <1> DEFINE Stays == \A x \in DOMAIN item : item[x].status = "archived" =>
                        /\ x \in DOMAIN item' /\ item'[x].status = "archived"
                        /\ item'[x].closing = item[x].closing
  <1> DEFINE Over == \A x \in DOMAIN item : item[x].status = "archived" =>
                       /\ item'[x].status = "archived"
                       /\ Cardinality({y \in DOMAIN item' : item'[y].late /\ item'[y].target = x})
                            <= item[x].closing
  <1>1. ASSUME RouteInv, NEW c \in Calls, NEW shop, NEW told, Create(c, shop, told) PROVE Stays
    <2>1. item \in Seq(Items)
      BY <1>1 DEF RouteInv, RouteShape
    <2>2. PICK z : item' = Append(item, z)
      BY <1>1 DEF Create
    <2>3. \A x \in DOMAIN item : x \in DOMAIN item' /\ item'[x] = item[x]
      BY <2>1, <2>2
    <2>4. QED
      BY <2>3
  <1>2. ASSUME RouteInv, NEW n \in Requests, NEW of, NEW from, NEW to, "archived" \notin from,
               Change(n, of, from, to)
        PROVE  Stays
    <2>1. DOMAIN item' = DOMAIN item /\ item[asked[n].target].status \in from
      BY <1>2 DEF Change
    <2>2. \A x \in DOMAIN item : x # asked[n].target => item'[x] = item[x]
      BY <1>2 DEF Change
    <2>3. QED
      BY <1>2, <2>1, <2>2
  <1>3. ASSUME RouteInv, NEW c \in Calls, RecordCreation(c) PROVE Stays
    <2>1. CASE UNCHANGED item
      BY <2>1
    <2>2. CASE item' = [item EXCEPT ![serving[c].made].announced = @ + 1]
      <3>1. \A x \in DOMAIN item : item[x] \in Items
        BY <1>3, ItemsAreFinite DEF RouteInv
      <3>2. ASSUME NEW x \in DOMAIN item
            PROVE  x \in DOMAIN item' /\ item'[x].status = item[x].status /\ item'[x].closing = item[x].closing
        BY <2>2, <3>1 DEF Items
      <3>3. QED
        BY <3>2
    <2>3. QED
      BY <1>3, <2>1, <2>2 DEF RecordCreation
  <1>4. ASSUME UNCHANGED item PROVE Stays
    BY <1>4
  <1> HIDE DEF Stays
  <1>5. ASSUME RouteInv, RoutesNext PROVE Stays
    <2>1. ASSUME NEW n \in Requests, Ask(n) \/ Replay(n) PROVE Stays
      BY <1>4, <2>1 DEF Ask, Replay
    <2>2. ASSUME NEW n \in Requests, NEW c \in Calls,
                 LookUpAnswer(c, n) \/ HandleCreatePublicCheckoutSession(c, n)
          PROVE  Stays
      BY <1>4, <2>2 DEF LookUpAnswer, HandleCreatePublicCheckoutSession
    <2>3. ASSUME NEW n \in Requests,
                 HandleUpdatePaymentLink(n) \/ HandleArchivePaymentLink(n)
                 \/ HandlePauseSubscription(n) \/ HandleResumeSubscription(n)
          PROVE  Stays
      BY <1>2, <1>5, <2>3 DEF HandleUpdatePaymentLink, HandleArchivePaymentLink, HandlePauseSubscription,
                              HandleResumeSubscription
    <2>4. ASSUME NEW c \in Calls,
                 HandleCreatePaymentLink(c) \/ HandleCreateSubscription(c)
                 \/ HandleCreateWebhookEndpoint(c) \/ CreateSession(c)
          PROVE  Stays
      BY <1>1, <1>5, <2>4 DEF HandleCreatePaymentLink, HandleCreateSubscription, HandleCreateWebhookEndpoint,
                              CreateSession
    <2>5. ASSUME NEW c \in Calls, CheckLink(c) \/ StoreAnswer(c) \/ LoseCall(c) PROVE Stays
      BY <1>4, <2>5 DEF CheckLink, StoreAnswer, LoseCall
    <2>6. QED
      BY <1>3, <1>5, <2>1, <2>2, <2>3, <2>4, <2>5 DEF RoutesNext
  <1>6. ASSUME RouteInv, RouteInv', RoutesNext PROVE Over
    <2> SUFFICES ASSUME NEW x \in DOMAIN item, item[x].status = "archived"
                 PROVE  item'[x].status = "archived" /\ Cardinality(LateOf(x)') <= item[x].closing
      BY DEF LateOf
    <2>1. x \in DOMAIN item' /\ item'[x].status = "archived" /\ item'[x].closing = item[x].closing
      BY <1>5, <1>6 DEF Stays
    <2>2. Cardinality(LateOf(x)') + Cardinality(CheckedOn(x)') <= item'[x].closing
      BY <1>6, <2>1 DEF RouteInv, LateWereChecked
    <2>3. LateOf(x)' \subseteq DOMAIN item' /\ CheckedOn(x)' \subseteq Calls
      BY DEF LateOf, CheckedOn
    <2>4. IsFiniteSet(DOMAIN item')
      <3>1. Len(item') \in Nat /\ DOMAIN item' = 1..Len(item')
        BY <1>6 DEF RouteInv, RouteShape
      <3>2. QED
        BY <3>1, FS_Interval
    <2>5. Cardinality(LateOf(x)') \in Nat /\ Cardinality(CheckedOn(x)') \in Nat
      BY <2>3, <2>4, FS_Subset, FS_CardinalityType
    <2>6. item[x].closing \in Nat
      BY <1>6, ItemsAreFinite DEF RouteInv, Items
    <2> HIDE DEF LateOf, CheckedOn
    <2>7. QED
      BY <2>1, <2>2, <2>5, <2>6
  <1>7. RouteInv /\ RouteInv' /\ [RoutesNext]_routesVars => [Over]_routesVars
    BY <1>6
  <1>8. QED
    BY <1>7, RouteInvHolds, PTL DEF RoutesSpec, ArchivedIsOver

\* Any replicas and callers: who acts was let in.
THEOREM AccessStaysLimited == GatewaySpec => []AccessIsLimited
  BY OneBootstrapMerchant, RevokedKeysAdmitNobody, PTL DEF AccessIsLimited

\* Any requests, repeated and overlapping in any order: each has the answer of
\* its own, and no more effects than overlaps and failures account for.
THEOREM RepeatsDoNoHarm == RoutesSpec => []RepeatsAreHarmless
  BY AnswersAreOfTheirRequest, RetriesRunOnce, CreatedIsAnnouncedOnce, PTL DEF RepeatsAreHarmless
=============================================================================
