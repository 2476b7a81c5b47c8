---------------------------- MODULE Subscriptions ----------------------------
(***************************************************************************)
(* Subscriptions against prepaid vaults: the RPCs that create, pause and   *)
(* resume one, and the replicas of subscription-service that charge the    *)
(* cycles that are due. A pass locks what it read (cycle, subscription and *)
(* vault), so that what it writes is applied when it commits.              *)
(***************************************************************************)
EXTENDS Integers, FiniteSets

CONSTANTS Subs,           \* subscriptions
          Schedulers,     \* replicas of the scheduler
          Plans,          \* requests: amount of a cycle, vault maximum and remainder
          MaxCycles,      \* bound on the cycles of a subscription
          MaxSubFaults    \* bound on failures of the database and processes

ASSUME CyclesAssumption == MaxCycles \in Nat \ {0} /\ MaxSubFaults \in Nat
ASSUME PlansAssumption == Plans \subseteq [amount : Int, max : Int, remaining : Int]

CycleIndex == 1 .. MaxCycles

VARIABLES subscription,  \* status
          price,         \* amount of the cycles
          granted,       \* history: what the vault held at first
          remaining,     \* remaining_amount of the vault
          cycle,         \* status and retry_count of the cycles, by index
          ripe,          \* subscriptions whose cycle has due_at <= NOW()
          locked,        \* subscriptions in the transaction of a scheduler
          nestedExec,    \* whether statements inside an open row set take effect
          subEvents,     \* events enqueued
          subFaults

subVars == <<subscription, price, granted, remaining, cycle, ripe, locked, nestedExec,
             subEvents, subFaults>>

NoCycle == [status |-> "absent", retries |-> 0]
DueCycle == [status |-> "due", retries |-> 0]

SubFault ==
  /\ subFaults < MaxSubFaults
  /\ subFaults' = subFaults + 1

SubInit ==
  /\ subscription = [s \in Subs |-> "absent"]
  /\ price = [s \in Subs |-> 0]
  /\ granted = [s \in Subs |-> 0]
  /\ remaining = [s \in Subs |-> 0]
  /\ cycle = [s \in Subs |-> [i \in CycleIndex |-> NoCycle]]
  /\ ripe = {}
  /\ locked = [k \in Schedulers |-> {}]
  /\ nestedExec \in BOOLEAN
  /\ subEvents = {}
  /\ subFaults = 0

\* The vault a request asks for: its maximum unless a remainder is given,
\* which may be more than the maximum.
Grant(p) == IF p.remaining <= 0 THEN p.max ELSE p.remaining

\* CreateSubscription: one transaction with the vault, the first cycle and
\* the event. Refused requests change nothing.
CreateSubscription(s, p) ==
  /\ subscription[s] = "absent"
  /\ p.amount > 0 /\ p.max > 0
  /\ subscription' = [subscription EXCEPT ![s] = "active"]
  /\ price' = [price EXCEPT ![s] = p.amount]
  /\ granted' = [granted EXCEPT ![s] = Grant(p)]
  /\ remaining' = [remaining EXCEPT ![s] = Grant(p)]
  /\ cycle' = [cycle EXCEPT ![s][1] = DueCycle]
  /\ subEvents' = subEvents \union {<<"subscription.created", s>>}
  /\ UNCHANGED <<ripe, locked, nestedExec, subFaults>>

Unlocked(s) == \A k \in Schedulers : s \notin locked[k]

\* The event of a change is enqueued after it, and the error is dropped.
Announce(kind, s) ==
  \/ subEvents' = subEvents \union {<<kind, s>>} /\ UNCHANGED subFaults
  \/ SubFault /\ UNCHANGED subEvents

\* PauseSubscription: its update waits for a scheduler that has locked the row.
PauseSubscription(s) ==
  /\ subscription[s] = "active" /\ Unlocked(s)
  /\ subscription' = [subscription EXCEPT ![s] = "paused"]
  /\ Announce("subscription.paused", s)
  /\ UNCHANGED <<price, granted, remaining, cycle, ripe, locked, nestedExec>>

ResumeSubscription(s) ==
  /\ subscription[s] \in {"paused", "past_due"} /\ Unlocked(s)
  /\ subscription' = [subscription EXCEPT ![s] = "active"]
  /\ Announce("subscription.resumed", s)
  /\ UNCHANGED <<price, granted, remaining, cycle, ripe, locked, nestedExec>>

IsDue(s) == \E i \in CycleIndex : cycle[s][i].status = "due"

\* The cycle that is due.
Current(s) == CHOOSE i \in CycleIndex : cycle[s][i].status = "due"

\* due_at of the cycle passes; a first_billing_at may lie in the past.
BillingDateComes(s) ==
  /\ IsDue(s) /\ s \notin ripe
  /\ ripe' = ripe \union {s}
  /\ UNCHANGED <<subscription, price, granted, remaining, cycle, locked, nestedExec,
                 subEvents, subFaults>>

\* What the query of process selects.
Billable == {s \in ripe : subscription[s] = "active" /\ IsDue(s)}

\* The query of process: FOR UPDATE SKIP LOCKED. MaxCycles bounds the model.
SelectDue(k) ==
  LET S == {s \in Billable : Unlocked(s) /\ Current(s) < MaxCycles} IN
  /\ locked[k] = {} /\ S # {}
  /\ locked' = [locked EXCEPT ![k] = S]
  /\ UNCHANGED <<subscription, price, granted, remaining, cycle, ripe, nestedExec,
                 subEvents, subFaults>>

\* Whether the vault, which stays active, pays for a cycle.
Covered(s) == remaining[s] >= price[s]

\* Seeded fault of Charge: a cycle that failed has a successor too.
ChargeOn(s) ==
  LET i == Current(s) IN
  [cycle[s] EXCEPT
    ![i] = [status |-> IF Covered(s) THEN "paid" ELSE "failed",
            retries |-> IF Covered(s) THEN @.retries ELSE @.retries + 1],
    ![i + 1] = IF @ = NoCycle THEN DueCycle ELSE @]

\* The cycles of a subscription after its cycle was charged: the next one is
\* inserted, ON CONFLICT DO NOTHING, or the cycle has failed.
Charge(s) ==
  LET i == Current(s) IN
  IF Covered(s)
    THEN [cycle[s] EXCEPT ![i].status = "paid",
                          ![i + 1] = IF @ = NoCycle THEN DueCycle ELSE @]
    ELSE [cycle[s] EXCEPT ![i] = [status |-> "failed", retries |-> @.retries + 1]]

\* The transaction of a pass commits. Its statements run while its rows are
\* open and their errors are dropped.
CommitPass(k) ==
  LET S == IF nestedExec THEN locked[k] ELSE {} IN
  /\ locked[k] # {}
  /\ locked' = [locked EXCEPT ![k] = {}]
  /\ remaining' = [s \in Subs |-> IF s \in S /\ Covered(s) THEN remaining[s] - price[s]
                                  ELSE remaining[s]]
  /\ cycle' = [s \in Subs |-> IF s \in S THEN Charge(s) ELSE cycle[s]]
  /\ subscription' = [s \in Subs |-> IF s \in S /\ ~Covered(s) /\ cycle[s][Current(s)].retries + 1 >= 3
                                     THEN "past_due" ELSE subscription[s]]
  /\ ripe' = ripe \ S
  /\ subEvents' = subEvents \union
       {<<IF Covered(s) THEN "subscription.debit_succeeded" ELSE "subscription.cycle_due", s>> : s \in S}
  /\ UNCHANGED <<price, granted, nestedExec, subFaults>>

\* A statement or the commit fails, or the process dies: nothing is applied.
AbortPass(k) ==
  /\ locked[k] # {}
  /\ SubFault
  /\ locked' = [locked EXCEPT ![k] = {}]
  /\ UNCHANGED <<subscription, price, granted, remaining, cycle, ripe, nestedExec, subEvents>>

SubNext ==
  \/ \E s \in Subs :
       \/ \E p \in Plans : CreateSubscription(s, p)
       \/ PauseSubscription(s) \/ ResumeSubscription(s) \/ BillingDateComes(s)
  \/ \E k \in Schedulers : SelectDue(k) \/ CommitPass(k) \/ AbortPass(k)

SubSpec == SubInit /\ [][SubNext]_subVars

\* The ticker starts pass after pass, and a transaction ends.
SubFairness ==
  /\ WF_subVars(\E k \in Schedulers : SelectDue(k))
  /\ \A k \in Schedulers : WF_subVars(CommitPass(k))

-----------------------------------------------------------------------------
\* Every variable has its type.
SubTypeOK ==
  /\ subscription \in [Subs -> {"absent", "active", "paused", "past_due"}]
  /\ price \in [Subs -> Nat] /\ granted \in [Subs -> Nat] /\ remaining \in [Subs -> Nat]
  /\ cycle \in [Subs -> [CycleIndex -> [status : {"absent", "due", "paid", "failed"},
                                        retries : Nat]]]
  /\ ripe \subseteq Subs
  /\ locked \in [Schedulers -> SUBSET Subs]
  /\ nestedExec \in BOOLEAN
  /\ subEvents \subseteq {"subscription.created", "subscription.paused", "subscription.resumed",
                          "subscription.debit_succeeded", "subscription.cycle_due"} \X Subs
  /\ subFaults \in 0 .. MaxSubFaults

\* However many schedulers run and fail, a vault has lost the price of every
\* paid cycle once, and never more than was granted.
VaultIsConserved ==
  \A s \in Subs :
    granted[s] - remaining[s] =
      price[s] * Cardinality({i \in CycleIndex : cycle[s][i].status = "paid"})

\* Cycles are billed in order and none is left out: before any cycle all are
\* paid. So at most one is due, and nothing is billed after a cycle failed.
CyclesInOrder ==
  \A s \in Subs, i, j \in CycleIndex :
    i < j /\ cycle[s][j].status # "absent" => cycle[s][i].status = "paid"

\* Passes, pauses and resumptions interleave, and still the vault pays once for
\* each of an unbroken run of cycles.
BillingIsExact == CyclesInOrder /\ VaultIsConserved

\* No cycle is paid or failed while its subscription is paused, though a pass
\* may have selected it before.
PausedIsNotCharged ==
  [][\A s \in Subs, i \in CycleIndex :
       cycle[s][i].status = "due" /\ cycle'[s][i].status # "due"
         => subscription[s] = "active"]_subVars

\* What README.md:85 says of the service: a due cycle of an active subscription is
\* charged or fails, unless it is paused first.  Where the driver refuses the
\* statements of the pass (conn busy, subscription_scheduler.go:77) it is not.
DueIsProcessed ==
  \A s \in Subs, i \in CycleIndex \ {MaxCycles} :
    s \in ripe /\ subscription[s] = "active" /\ cycle[s][i].status = "due"
      ~> cycle[s][i].status # "due" \/ subscription[s] # "active"
=============================================================================
