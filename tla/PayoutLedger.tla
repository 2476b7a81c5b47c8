---------------------------- MODULE PayoutLedger ----------------------------
(***************************************************************************)
(* What the payout worker promises to merchants, payout by payout.  A      *)
(* payout has a total and owes the sweeps of its items, which are those of *)
(* its total or, where their inserts were refused, none.  No intent is     *)
(* owed twice, only what is owed is swept, only what was swept is settled, *)
(* and a payout is announced once, when all it owes was swept.             *)
(* PayoutScheduler implements it.                                          *)
(***************************************************************************)
EXTENDS Naturals

CONSTANTS Intents, Payouts

VARIABLES total,      \* the intents whose amounts a payout's total is made of
          owed,       \* the intents a payout has items for
          swept,      \* intents whose deposit address was swept
          settled,    \* intents with status settled
          announced   \* payout.completed events of a payout

ledgerVars == <<total, owed, swept, settled, announced>>

OwedAnywhere == UNION {owed[p] : p \in Payouts}

LedgerInit ==
  /\ total = [p \in Payouts |-> {}]
  /\ owed = [p \in Payouts |-> {}]
  /\ swept = {}
  /\ settled = {}
  /\ announced = [p \in Payouts |-> 0]

\* A payout is made of intents that no payout owes yet, and keeps its total; it
\* owes all of them, or nothing.
Bill(p, S, T) ==
  /\ total[p] = {} /\ owed[p] = {} /\ announced[p] = 0
  /\ S \cap OwedAnywhere = {}
  /\ T \in {S, {}}
  /\ total' = [total EXCEPT ![p] = S]
  /\ owed' = [owed EXCEPT ![p] = T]
  /\ UNCHANGED <<swept, settled, announced>>

\* The first sweep of an intent that is owed.
Sweep(i) ==
  /\ i \in OwedAnywhere
  /\ swept' = swept \cup {i}
  /\ UNCHANGED <<total, owed, settled, announced>>

Settle(i) ==
  /\ i \in swept
  /\ settled' = settled \cup {i}
  /\ UNCHANGED <<total, owed, swept, announced>>

\* A late assessment takes the status back, which undoes neither sweep nor item.
Reopen(i) ==
  /\ settled' = settled \ {i}
  /\ UNCHANGED <<total, owed, swept, announced>>

Announce(p) ==
  /\ announced[p] = 0
  /\ owed[p] \subseteq swept
  /\ announced' = [announced EXCEPT ![p] = 1]
  /\ UNCHANGED <<total, owed, swept, settled>>

LedgerNext ==
  \/ \E p \in Payouts : Announce(p) \/ \E S, T \in SUBSET Intents : Bill(p, S, T)
  \/ \E i \in Intents : Sweep(i) \/ Settle(i) \/ Reopen(i)

LedgerSpec == LedgerInit /\ [][LedgerNext]_ledgerVars
=============================================================================
