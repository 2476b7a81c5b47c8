------------------------------- MODULE Access -------------------------------
(***************************************************************************)
(* Who may call the API: the merchant and administrator that the replicas  *)
(* of auth-service bootstrap, the token pairs an administrator gets, and   *)
(* the API keys of a merchant.  JWTs are never revoked, API keys are.      *)
(***************************************************************************)
EXTENDS Integers, FiniteSets

CONSTANTS
  AuthReplicas,  \* replicas of auth-service
  Merchants,     \* identities for merchants
  ApiKeys,       \* identities for API keys
  AccessTTL,     \* JWT_ACCESS_TTL
  RefreshTTL,    \* JWT_REFRESH_TTL
  MaxClock,      \* bound on the time that passes
  MaxFaults      \* bound on failures

ASSUME AccessAssumption ==
  /\ IsFiniteSet(AuthReplicas)
  /\ AccessTTL \in Nat \ {0} /\ RefreshTTL \in Nat \ {0}
  /\ MaxClock \in Nat /\ MaxFaults \in Nat

VARIABLES
  replica,     \* where a replica of auth-service is
  merchants,   \* merchants with an administrator, all of the configured email
  contended,   \* history: two replicas were bootstrapping at once
  clock,
  tokens,      \* the JWTs that were issued
  issued,      \* history: when the last pair was issued
  apiKey,      \* api_keys: status and owner
  settlement,  \* merchants with a settlement_address
  announced,   \* events enqueued
  faults

bootVars == <<replica, merchants, contended>>
tokenVars == <<clock, tokens, issued>>
keyVars == <<apiKey, settlement, announced>>
accessVars == <<bootVars, tokenVars, keyVars, faults>>

NoKey == [status |-> "absent", owner |-> {}]

Jwts == [type : {"access", "refresh"}, merchant : Merchants,
         expires : 0 .. MaxClock + AccessTTL + RefreshTTL]

AccessInit ==
  /\ replica = [r \in AuthReplicas |-> "down"]
  /\ merchants = {}
  /\ contended = FALSE
  /\ clock = 0
  /\ tokens = {}
  /\ issued = 0
  /\ apiKey = [k \in ApiKeys |-> NoKey]
  /\ settlement = {}
  /\ announced = {}
  /\ faults = 0

\* A statement, a call or a process fails: one of at most MaxFaults.
Fault == faults < MaxFaults /\ faults' = faults + 1

-----------------------------------------------------------------------------
(* EnsureBootstrap, when a replica starts *)

\* The users are counted outside of the transaction that adds one.
CountUsers(r) ==
  /\ replica[r] = "down"
  /\ replica' = [replica EXCEPT ![r] = IF merchants = {} THEN "bootstrapping" ELSE "up"]
  /\ contended' = (contended \/ /\ merchants = {}
                                /\ \E q \in AuthReplicas \ {r} : replica[q] = "bootstrapping")
  /\ UNCHANGED <<merchants, tokenVars, keyVars, faults>>

\* Merchant, administrator and user.signed_up are one transaction.  The email
\* is unique within a merchant only.
CommitBootstrap(r) ==
  /\ replica[r] = "bootstrapping"
  /\ \E m \in Merchants \ merchants :
       /\ merchants' = merchants \cup {m}
       /\ announced' = announced \cup {<<"user.signed_up", m>>}
  /\ replica' = [replica EXCEPT ![r] = "up"]
  /\ UNCHANGED <<contended, tokenVars, apiKey, settlement, faults>>

\* A bootstrap that fails ends the process, as a crash does.
StopReplica(r) ==
  /\ replica[r] # "down"
  /\ Fault
  /\ replica' = [replica EXCEPT ![r] = "down"]
  /\ UNCHANGED <<merchants, contended, tokenVars, keyVars>>

Serving == \E r \in AuthReplicas : replica[r] = "up"

-----------------------------------------------------------------------------
(* Tokens *)

TimePasses ==
  /\ clock < MaxClock
  /\ clock' = clock + 1
  /\ UNCHANGED <<bootVars, tokens, issued, keyVars, faults>>

Issue(m) ==
  /\ tokens' = tokens \cup {[type |-> "access", merchant |-> m, expires |-> clock + AccessTTL],
                            [type |-> "refresh", merchant |-> m, expires |-> clock + RefreshTTL]}
  /\ issued' = clock
  /\ UNCHANGED <<bootVars, clock, keyVars, faults>>

\* The password is right.  LIMIT 1 picks any administrator of the email.
Login ==
  /\ Serving
  /\ \E m \in merchants : Issue(m)

\* ParseJWT and lookupTokenUserRole: signature, expiry and type are right and
\* the user still exists.
Valid(t, type) == t.type = type /\ clock < t.expires /\ t.merchant \in merchants

Refresh ==
  /\ Serving
  /\ \E t \in tokens : Valid(t, "refresh") /\ Issue(t.merchant)

-----------------------------------------------------------------------------
(* API keys and settings of merchant m; the event is enqueued after the       *)
(* statement and an error of it is dropped                                    *)

Announce(event) ==
  \/ announced' = announced \cup {event} /\ UNCHANGED faults
  \/ Fault /\ UNCHANGED announced

CreateApiKey(m, k) ==
  /\ apiKey[k] = NoKey
  /\ apiKey' = [apiKey EXCEPT ![k] = [status |-> "live", owner |-> {m}]]
  /\ Announce(<<"api_key.created", k>>)
  /\ UNCHANGED <<bootVars, tokenVars, settlement>>

\* Keys of others, and revoked ones, are not found.
RevokeApiKey(m, k) ==
  /\ apiKey[k] = [status |-> "live", owner |-> {m}]
  /\ apiKey' = [apiKey EXCEPT ![k].status = "revoked"]
  /\ Announce(<<"api_key.revoked", k>>)
  /\ UNCHANGED <<bootVars, tokenVars, settlement>>

UpdateMerchantSettings(m) ==
  /\ m \in merchants
  /\ settlement' = settlement \cup {m}
  /\ Announce(<<"merchant.settings_updated", m>>)
  /\ UNCHANGED <<bootVars, tokenVars, apiKey>>

\* Seeded fault of LiveKey: revoked keys are found too.
StoredKey(k) == apiKey[k].status # "absent"

\* What ValidateCredential finds by the hash of a key.
LiveKey(k) == apiKey[k].status = "live"

AccessNext ==
  \/ \E r \in AuthReplicas : CountUsers(r) \/ CommitBootstrap(r) \/ StopReplica(r)
  \/ TimePasses \/ Login \/ Refresh

-----------------------------------------------------------------------------
\* AccessTypeOK: only merchants that exist have tokens, keys and settings.
AccessTypeOK ==
  /\ replica \in [AuthReplicas -> {"down", "bootstrapping", "up"}]
  /\ merchants \subseteq Merchants
  /\ contended \in BOOLEAN
  /\ clock \in 0 .. MaxClock /\ issued \in 0 .. clock
  /\ tokens \subseteq Jwts /\ \A t \in tokens : t.merchant \in merchants
  /\ \A k \in ApiKeys :
       \/ apiKey[k] = NoKey
       \/ \E m \in merchants : apiKey[k] \in [status : {"live", "revoked"}, owner : {{m}}]
  /\ settlement \subseteq merchants
  /\ faults \in 0 .. MaxFaults

\* However often replicas start, fail and restart, there is one bootstrap
\* merchant, unless two replicas were bootstrapping at once; then there is at
\* most one for each replica.
BootstrapHappensOnce ==
  /\ Cardinality(merchants) <= Cardinality(AuthReplicas)
  /\ ~contended => Cardinality(merchants) <= 1
=============================================================================
