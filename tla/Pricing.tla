------------------------------ MODULE Pricing ------------------------------
(***************************************************************************)
(* Which status a payment intent gets for an amount received.  Amounts are *)
(* counted in the 10^-8 units that round8 rounds to, tolerances in basis   *)
(* points (the default, 0.25%, is 25).                                     *)
(***************************************************************************)
EXTENDS Integers

AtLeastZero(v) == IF v < 0 THEN 0 ELSE v

\* n / d rounded to the nearest unit, halves up, for n >= 0 and d > 0.
Rounded(n, d) == (2 * n + d) \div (2 * d)

ComputeBounds(expectedAmount, tolerance) ==
  LET expected == AtLeastZero(expectedAmount)
      percent == AtLeastZero(tolerance)
  IN  [min |-> Rounded(AtLeastZero(expected * (10000 - percent)), 10000),
       max |-> Rounded(expected * (10000 + percent), 10000)]

\* Seeded fault: the lower bound itself is too little.
ResolveIntentStatusStrictly(expectedAmount, receivedAmount, tolerance, confirmations, required) ==
  LET bounds == ComputeBounds(expectedAmount, tolerance)
  IN  CASE receivedAmount <= 0 -> "awaiting_funds"
        [] receivedAmount > 0 /\ receivedAmount <= bounds.min -> "partial"
        [] receivedAmount > 0 /\ receivedAmount > bounds.max -> "overpaid"
        [] OTHER -> IF confirmations < required THEN "awaiting_funds" ELSE "confirmed"

ResolveIntentStatus(expectedAmount, receivedAmount, tolerance, confirmations, required) ==
  LET bounds == ComputeBounds(expectedAmount, tolerance)
  IN  CASE receivedAmount <= 0 -> "awaiting_funds"
        [] receivedAmount > 0 /\ receivedAmount < bounds.min -> "partial"
        [] receivedAmount > 0 /\ receivedAmount > bounds.max -> "overpaid"
        [] OTHER -> IF confirmations < required THEN "awaiting_funds" ELSE "confirmed"

IntentStatusIsPaid(status) == status \in {"confirmed", "overpaid", "settled"}
=============================================================================
