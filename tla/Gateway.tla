------------------------------- MODULE Gateway -------------------------------
(***************************************************************************)
(* Authenticated calls through api-gateway, with withIdempotency around    *)
(* the operation that creates something: here POST /v1/api_keys, as for    *)
(* links, sessions, products, webhook endpoints and subscriptions.  The    *)
(* answer of a first call is looked up before the operation and stored     *)
(* after it, in statements of their own.                                   *)
(***************************************************************************)
EXTENDS Access

CONSTANTS Callers,   \* concurrent calls
          IdemKeys   \* values of the header Idempotency-Key

ASSUME GatewayAssumption == IsFiniteSet(Callers)

VARIABLES
  call,        \* stage, merchant and subject of a call
  stored,      \* idempotency_keys: the API key answered, by merchant and header
  runs,        \* history: times the operation was started for a header
  overlaps,    \* history: times it was started while another call ran it
  lateUses     \* history: calls served with an API key after its revocation

gatewayVars == <<accessVars, call, stored, runs, overlaps, lateUses>>
idemVars == <<stored, runs, overlaps>>

Scopes == Merchants \X IdemKeys

NoCall == [stage |-> "idle", merchant |-> {}, header |-> {}, key |-> {}]

GatewayInit ==
  /\ AccessInit
  /\ call = [c \in Callers |-> NoCall]
  /\ stored = [s \in Scopes |-> {}]
  /\ runs = [s \in Scopes |-> 0]
  /\ overlaps = [s \in Scopes |-> 0]
  /\ lateUses = [k \in ApiKeys |-> 0]

-----------------------------------------------------------------------------
(* authn: ValidateCredential, and the requester in the context *)

\* A call with an access token: requireUser admits it.
AuthenticateUser(c) ==
  /\ Serving
  /\ call[c].stage = "idle"
  /\ \E t \in tokens :
       /\ Valid(t, "access")
       /\ call' = [call EXCEPT ![c] = [NoCall EXCEPT !.stage = "user", !.merchant = {t.merchant}]]
  /\ UNCHANGED <<accessVars, idemVars, lateUses>>

\* A call with an API key; last_used_at is written after the key was found.
AuthenticateKey(c) ==
  /\ Serving
  /\ call[c].stage = "idle"
  /\ \E k \in ApiKeys :
       /\ LiveKey(k)
       /\ call' = [call EXCEPT ![c] = [NoCall EXCEPT !.stage = "api_key", !.merchant = apiKey[k].owner,
                                                     !.key = {k}]]
  /\ UNCHANGED <<accessVars, idemVars, lateUses>>

\* The handler of a call with an API key runs, the key revoked or not by now.
ServeKey(c) ==
  /\ call[c].stage = "api_key"
  /\ lateUses' = [k \in ApiKeys |->
                    IF call[c].key = {k} /\ apiKey[k].status = "revoked" THEN lateUses[k] + 1
                    ELSE lateUses[k]]
  /\ call' = [call EXCEPT ![c] = NoCall]
  /\ UNCHANGED <<accessVars, idemVars>>

-----------------------------------------------------------------------------
(* withIdempotency around handleCreateAPIKey *)

\* The calls that have missed the stored answer and have not stored theirs.
Running(s) == {c \in Callers : /\ call[c].stage \in {"run", "store"}
                               /\ s \in call[c].merchant \X call[c].header}

\* Seeded fault of LookUp: nothing is looked up.
LookUpNothing(c, i) ==
  /\ call[c].stage = "user"
  /\ \E m \in call[c].merchant : LET s == <<m, i>> IN
       /\ call' = [call EXCEPT ![c].stage = "run", ![c].header = {i}]
       /\ runs' = [runs EXCEPT ![s] = @ + 1]
       /\ overlaps' = [overlaps EXCEPT ![s] = IF Running(s) # {} THEN @ + 1 ELSE @]
  /\ UNCHANGED <<accessVars, stored, lateUses>>

\* A stored answer is returned, whatever became of the API key in it.
LookUp(c, i) ==
  /\ call[c].stage = "user"
  /\ \E m \in call[c].merchant : LET s == <<m, i>> IN
       IF stored[s] # {}
         THEN /\ call' = [call EXCEPT ![c] = NoCall]
              /\ UNCHANGED <<runs, overlaps>>
         ELSE /\ call' = [call EXCEPT ![c].stage = "run", ![c].header = {i}]
              /\ runs' = [runs EXCEPT ![s] = @ + 1]
              /\ overlaps' = [overlaps EXCEPT ![s] = IF Running(s) # {} THEN @ + 1 ELSE @]
  /\ UNCHANGED <<accessVars, stored, lateUses>>

\* Without the header the operation just runs.
RunUnkeyed(c) ==
  /\ call[c].stage = "user"
  /\ \E m \in call[c].merchant, k \in ApiKeys : CreateApiKey(m, k)
  /\ call' = [call EXCEPT ![c] = NoCall]
  /\ UNCHANGED <<idemVars, lateUses>>

Run(c) ==
  /\ call[c].stage = "run"
  /\ \E m \in call[c].merchant, k \in ApiKeys :
       /\ CreateApiKey(m, k)
       /\ call' = [call EXCEPT ![c].stage = "store", ![c].key = {k}]
  /\ UNCHANGED <<idemVars, lateUses>>

\* The answer is stored, ON CONFLICT DO NOTHING, and sent; the error of a
\* failed insert is dropped.
Store(c) ==
  /\ call[c].stage = "store"
  /\ \E s \in call[c].merchant \X call[c].header :
       \/ /\ stored' = [stored EXCEPT ![s] = IF @ = {} THEN call[c].key ELSE @]
          /\ UNCHANGED faults
       \/ Fault /\ UNCHANGED stored
  /\ call' = [call EXCEPT ![c] = NoCall]
  /\ UNCHANGED <<bootVars, tokenVars, keyVars, runs, overlaps, lateUses>>

\* The operation is refused, or the gateway fails: no answer is stored.
CallFails(c) ==
  /\ call[c].stage # "idle"
  /\ Fault
  /\ call' = [call EXCEPT ![c] = NoCall]
  /\ UNCHANGED <<bootVars, tokenVars, keyVars, idemVars, lateUses>>

-----------------------------------------------------------------------------
(* Handlers without a header *)

HandleRevoke(c) ==
  /\ call[c].stage = "user"
  /\ \E m \in call[c].merchant, k \in ApiKeys : RevokeApiKey(m, k)
  /\ call' = [call EXCEPT ![c] = NoCall]
  /\ UNCHANGED <<idemVars, lateUses>>

HandleUpdateSettings(c) ==
  /\ call[c].stage = "user"
  /\ \E m \in call[c].merchant : UpdateMerchantSettings(m)
  /\ call' = [call EXCEPT ![c] = NoCall]
  /\ UNCHANGED <<idemVars, lateUses>>

GatewayNext ==
  \/ AccessNext /\ UNCHANGED <<call, stored, runs, overlaps, lateUses>>
  \/ \E c \in Callers :
       \/ AuthenticateUser(c) \/ AuthenticateKey(c) \/ ServeKey(c)
       \/ \E i \in IdemKeys : LookUp(c, i)
       \/ RunUnkeyed(c) \/ Run(c) \/ Store(c) \/ CallFails(c)
       \/ HandleRevoke(c) \/ HandleUpdateSettings(c)

GatewaySpec == GatewayInit /\ [][GatewayNext]_gatewayVars

-----------------------------------------------------------------------------
\* GatewayTypeOK: calls act for merchants that exist, and an answer that is
\* stored or about to be names an API key of its merchant.
GatewayTypeOK ==
  /\ AccessTypeOK
  /\ \A c \in Callers :
       /\ call[c].stage \in {"idle", "user", "api_key", "run", "store"}
       /\ call[c].stage # "idle" => \E m \in merchants : call[c].merchant = {m}
       /\ call[c].stage \in {"run", "store"} => \E i \in IdemKeys : call[c].header = {i}
       /\ call[c].stage \in {"api_key", "store"} =>
            \E k \in ApiKeys : call[c].key = {k} /\ apiKey[k].owner = call[c].merchant
  /\ \A s \in Scopes :
       stored[s] # {} => \E k \in ApiKeys : stored[s] = {k} /\ apiKey[k].owner = {s[1]}
  /\ runs \in [Scopes -> Nat] /\ overlaps \in [Scopes -> Nat]
  /\ lateUses \in [ApiKeys -> Nat]

\* The operation behind an Idempotency-Key is run once, but for runs that
\* overlapped another one and runs after one that failed, or whose answer
\* could not be stored.
EffectOncePerKey == \A s \in Scopes : runs[s] <= 1 + overlaps[s] + faults

\* The answer that is returned for an Idempotency-Key never changes, and a
\* call that finds none stored runs the operation for its own.
AnswerIsKept == [][\A s \in Scopes : stored[s] # {} => stored'[s] = stored[s]]_gatewayVars

\* A call is admitted with a JWT only until AccessTTL after the last login or
\* refresh: a refresh token is no way in.
AdmittedIsFresh ==
  [][\A c \in Callers :
       call[c].stage = "idle" /\ call'[c].stage = "user" => clock < issued + AccessTTL]_gatewayVars

\* Only calls that were already admitted use an API key after its revocation,
\* each of them once.
LateUsesWereAdmitted == \A k \in ApiKeys : lateUses[k] <= Cardinality(Callers)

\* Who acts was let in: as many merchants as were bootstrapped at once, and
\* with a revoked key only calls that were under way.
AccessIsLimited == BootstrapHappensOnce /\ LateUsesWereAdmitted
=============================================================================
