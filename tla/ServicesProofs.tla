--------------------------- MODULE ServicesProofs ---------------------------
(***************************************************************************)
(* Proofs about Pricing and Quote, for every price, tolerance and amount;  *)
(* about Listings, for lists of any length and whatever happens to them    *)
(* while they are read; and about all services behind the API next to each *)
(* other: each behaves as it does alone.                                   *)
(***************************************************************************)
EXTENDS MCServices, GatewayProofs, SessionsProofs

-----------------------------------------------------------------------------
(* Amounts *)

\* A rounded quotient is within half a unit of the exact one, and does not
\* pass an integer that the exact one does not pass.
LEMMA RoundedIsNear ==
  ASSUME NEW n \in Nat
  PROVE  /\ Rounded(n, 10000) \in Nat
         /\ 10000 * Rounded(n, 10000) <= n + 5000
         /\ n < 10000 * Rounded(n, 10000) + 5000
         /\ \A r \in Nat : /\ n <= 10000 * r => Rounded(n, 10000) <= r
                           /\ 10000 * r <= n => r <= Rounded(n, 10000)
  BY DEF Rounded

\* A quotient by any divisor, rounded, is within half a divisor of the exact one.
LEMMA QuotientIsNear ==
  ASSUME NEW n \in Nat, NEW d \in Nat \ {0}
  PROVE  /\ Rounded(n, d) \in Nat
         /\ 2 * (Rounded(n, d) * d) <= 2 * n + d
         /\ 2 * n < 2 * (Rounded(n, d) * d) + d
  <1> DEFINE m == 2 * n + d
             k == 2 * d
             q == m \div k
  <1>1. m \in Nat /\ k \in Nat /\ k > 0
    OBVIOUS
  <1> HIDE DEF m, k
  <1>2. q \in Int /\ k * q <= m /\ m < k * q + k
    BY <1>1
  <1> HIDE DEF q
  <1>3. q \in Nat
    <2> SUFFICES ASSUME q < 0
                 PROVE  FALSE
      BY <1>2
    <2>1. k * q <= -k
      BY <1>1, <1>2
    <2>2. QED
      BY <1>1, <1>2, <2>1
  <1>4. k * q = 2 * (q * d)
    BY <1>3 DEF k
  <1>5. Rounded(n, d) = q
    BY DEF Rounded, q, m, k
  <1>6. q * d \in Nat
    BY <1>3
  <1>7. QED
    BY <1>2, <1>3, <1>4, <1>5, <1>6 DEF m, k

\* The bounds lie around the price, as far from it as the tolerance allows.
LEMMA BoundsAreNear ==
  ASSUME NEW e \in Nat, NEW t \in Int
  PROVE  LET b == ComputeBounds(e, t)
             allowed == e * AtLeastZero(t)
         IN  /\ b.min \in Nat /\ b.max \in Nat /\ b.min <= b.max
             /\ 10000 * e <= 10000 * b.min + allowed + 5000
             /\ 10000 * b.max <= 10000 * e + allowed + 5000
             /\ \A r \in Nat : /\ 10000 * e <= 10000 * r + allowed => b.min <= r
                               /\ 10000 * r <= 10000 * e + allowed => r <= b.max
  <1> DEFINE p == AtLeastZero(t)
             low == AtLeastZero(e * (10000 - p))
             high == e * (10000 + p)
  <1>1. p \in Nat /\ e * p \in Nat
    BY DEF AtLeastZero
  <1>2. /\ e * (10000 - p) = 10000 * e - e * p
        /\ high = 10000 * e + e * p
    BY <1>1
  <1>3. /\ low \in Nat /\ high \in Nat
        /\ 10000 * e - e * p <= low
        /\ low = 0 \/ low = 10000 * e - e * p
    BY <1>1, <1>2 DEF AtLeastZero
  <1>4. ComputeBounds(e, t) = [min |-> Rounded(low, 10000), max |-> Rounded(high, 10000)]
    BY DEF ComputeBounds, AtLeastZero
  <1> HIDE DEF p, low, high
  <1>5. /\ Rounded(low, 10000) \in Nat
        /\ low < 10000 * Rounded(low, 10000) + 5000
        /\ \A r \in Nat : low <= 10000 * r => Rounded(low, 10000) <= r
    BY <1>3, RoundedIsNear
  <1>6. /\ Rounded(high, 10000) \in Nat
        /\ 10000 * Rounded(high, 10000) <= high + 5000
        /\ \A r \in Nat : 10000 * r <= high => r <= Rounded(high, 10000)
    <2>1. high \in Nat
      BY <1>3
    <2>2. QED
      BY <2>1, RoundedIsNear
  <1>7. Rounded(low, 10000) <= e /\ e <= Rounded(high, 10000)
    <2>1. low <= 10000 * e /\ 10000 * e <= high
      BY <1>1, <1>2, <1>3
    <2>2. QED
      BY <1>5, <1>6, <2>1
  <1>8. QED
    <2> SUFFICES ASSUME NEW r \in Nat
                 PROVE  /\ 10000 * e <= 10000 * Rounded(low, 10000) + e * p + 5000
                        /\ 10000 * Rounded(high, 10000) <= 10000 * e + e * p + 5000
                        /\ 10000 * e <= 10000 * r + e * p => Rounded(low, 10000) <= r
                        /\ 10000 * r <= 10000 * e + e * p => r <= Rounded(high, 10000)
      BY <1>4, <1>5, <1>6, <1>7 DEF p
    <2>1. 10000 * e <= 10000 * r + e * p => low <= 10000 * r
      BY <1>1, <1>3
    <2>2. QED
      BY <1>1, <1>2, <1>3, <1>5, <1>6, <2>1

\* What it takes for an amount to be paid.
LEMMA PaidMeans ==
  ASSUME NEW e, NEW t, NEW r \in Nat, NEW c \in Nat, NEW q \in Nat,
         ComputeBounds(e, t).min \in Nat, ComputeBounds(e, t).max \in Nat,
         ComputeBounds(e, t).min <= ComputeBounds(e, t).max
  PROVE  IntentStatusIsPaid(ResolveIntentStatus(e, r, t, c, q))
           <=> /\ r > 0 /\ ComputeBounds(e, t).min <= r
               /\ r > ComputeBounds(e, t).max \/ c >= q
  <1> DEFINE b == ComputeBounds(e, t)
             s == ResolveIntentStatus(e, r, t, c, q)
  <1>1. s = CASE r <= 0 -> "awaiting_funds"
              [] r > 0 /\ r < b.min -> "partial"
              [] r > 0 /\ r > b.max -> "overpaid"
              [] OTHER -> IF c < q THEN "awaiting_funds" ELSE "confirmed"
    BY DEF ResolveIntentStatus
  <1> SUFFICES IntentStatusIsPaid(s) <=> /\ r > 0 /\ b.min <= r
                                         /\ r > b.max \/ c >= q
    OBVIOUS
  <1>2. b.min \in Nat /\ b.max \in Nat /\ b.min <= b.max
    OBVIOUS
  <1> HIDE DEF b, s
  <1>3. QED
    BY <1>1, <1>2 DEF IntentStatusIsPaid

-----------------------------------------------------------------------------

\* Whatever the sources respond, a price is a positive number.
LEMMA PricesArePositive ==
  ASSUME NEW symbol \in Symbols, NEW answers \in [Sources -> Responses],
         NEW price \in TokenPrice(symbol, answers)
  PROVE  price \in Int /\ price > 0
  <1>1. \A x \in Sources : answers[x] \in Responses
    OBVIOUS
  <1>2. \A r \in Responses :
          \A q \in MidPrice(r) \cup BinanceTickerPrice(r) \cup BybitTickerPrice(r) : q \in Int /\ q > 0
    BY QuoteAssumption DEF MidPrice, BinanceTickerPrice, BybitTickerPrice
  <1>3. \E x \in Sources :
          price \in MidPrice(answers[x]) \cup BinanceTickerPrice(answers[x]) \cup BybitTickerPrice(answers[x])
    BY DEF TokenPrice, Sources, Symbols
  <1>4. QED
    BY <1>1, <1>2, <1>3

\* What is quoted is an amount, whichever sources answer.
LEMMA InitQuoteTypes == QuoteInit => QuoteTypeOK
  <1> SUFFICES ASSUME QuoteInit
               PROVE  expected \in Nat
    <2>1. \A n \in Nat : 0 \in 0..n
      OBVIOUS
    <2>2. QED
      BY <2>1, QuoteAssumption DEF QuoteInit, QuoteTypeOK
  <1>1. PICK fiat \in Fiats, symbol \in Symbols, answers \in [Sources -> Responses] :
          expected \in SettlementAmount(fiat, symbol, answers)
    BY DEF QuoteInit
  <1>2. fiat \in Int /\ fiat > 0
    BY <1>1, QuoteAssumption DEF SettlementAmount
  <1>3. CASE IsUSDStableToken(symbol)
    BY <1>1, <1>2, <1>3 DEF SettlementAmount
  <1>4. CASE ~IsUSDStableToken(symbol)
    <2>1. PICK price \in TokenPrice(symbol, answers) : expected = Rounded(fiat * PriceUnit, price)
      BY <1>1, <1>2, <1>4 DEF SettlementAmount
    <2>2. price \in Int /\ price > 0
      BY <1>1, PricesArePositive
    <2>3. fiat * PriceUnit \in Nat
      BY <1>2, QuoteAssumption
    <2>4. QED
      BY <2>1, <2>2, <2>3, QuotientIsNear
  <1>5. QED
    BY <1>3, <1>4

\* Prices and tolerances stay what they were, depths within bounds.
LEMMA NextQuoteTypes == QuoteTypeOK /\ [QuoteNext]_quoteVars => QuoteTypeOK'
  BY QuoteAssumption DEF QuoteTypeOK, QuoteNext, ReceiveMore, GetDeeper, quoteVars

\* The types are an invariant.
LEMMA TypeInvariant == QuoteSpec => []QuoteTypeOK
  BY InitQuoteTypes, NextQuoteTypes, PTL DEF QuoteSpec

\* What is confirmed lies between the bounds, which lie near the tolerance.
LEMMA ConfirmedMeansTolerable == QuoteTypeOK => ConfirmedIsWithinTolerance
  <1> SUFFICES ASSUME QuoteTypeOK, Status = "confirmed"
               PROVE  /\ 10000 * (expected - received) <= Allowed + 5000
                      /\ 10000 * (received - expected) <= Allowed + 5000
    BY DEF ConfirmedIsWithinTolerance
  <1> DEFINE b == ComputeBounds(expected, tolerance)
  <1>1. received \in Nat /\ expected \in Nat /\ tolerance \in Int
    BY QuoteAssumption DEF QuoteTypeOK
  <1>2. /\ b.min \in Nat /\ b.max \in Nat /\ Allowed \in Nat
        /\ 10000 * expected <= 10000 * b.min + Allowed + 5000
        /\ 10000 * b.max <= 10000 * expected + Allowed + 5000
    BY <1>1, BoundsAreNear DEF Allowed, AtLeastZero
  <1>3. b.min <= received /\ received <= b.max
    <2> HIDE DEF b
    <2>1. Status = CASE received <= 0 -> "awaiting_funds"
                     [] received > 0 /\ received < b.min -> "partial"
                     [] received > 0 /\ received > b.max -> "overpaid"
                     [] OTHER -> IF confirmations < Required THEN "awaiting_funds"
                                 ELSE "confirmed"
      BY DEF Status, ResolveIntentStatus, b
    <2>2. QED
      BY <1>1, <1>2, <2>1
  <1> HIDE DEF b
  <1>4. QED
    BY <1>1, <1>2, <1>3

\* ResolveIntentStatus confirms only amounts within the tolerance, rounding
\* aside, for any price and tolerance.
THEOREM OnlyTolerableIsConfirmed == QuoteSpec => []ConfirmedIsWithinTolerance
  BY ConfirmedMeansTolerable, TypeInvariant, PTL

\* What is within the tolerance lies between the bounds.
LEMMA TolerableMeansEnough == QuoteTypeOK => WithinToleranceIsAccepted
  <1> SUFFICES ASSUME QuoteTypeOK, received > 0,
                      10000 * (expected - received) <= Allowed,
                      10000 * (received - expected) <= Allowed
               PROVE  Status = IF confirmations < Required THEN "awaiting_funds"
                               ELSE "confirmed"
    BY DEF WithinToleranceIsAccepted
  <1> DEFINE b == ComputeBounds(expected, tolerance)
  <1>1. received \in Nat /\ expected \in Nat /\ tolerance \in Int /\ Allowed \in Nat
    <2>1. received \in Nat /\ expected \in Nat /\ tolerance \in Int
      BY QuoteAssumption DEF QuoteTypeOK
    <2>2. QED
      BY <2>1 DEF Allowed, AtLeastZero
  <1>2. /\ b.min \in Nat /\ b.max \in Nat
        /\ 10000 * expected <= 10000 * received + Allowed => b.min <= received
        /\ 10000 * received <= 10000 * expected + Allowed => received <= b.max
    <2>1. /\ b.min \in Nat /\ b.max \in Nat
          /\ \A r \in Nat : /\ 10000 * expected <= 10000 * r + Allowed => b.min <= r
                            /\ 10000 * r <= 10000 * expected + Allowed => r <= b.max
      BY <1>1, BoundsAreNear DEF Allowed, AtLeastZero
    <2> HIDE DEF b
    <2>2. QED
      BY <1>1, <2>1
  <1> HIDE DEF b
  <1>3. b.min <= received /\ received <= b.max
    BY <1>1, <1>2
  <1>4. QED
    BY <1>1, <1>2, <1>3 DEF Status, ResolveIntentStatus, b

\* An amount within the tolerance is never partial or overpaid, for any price
\* and tolerance.
THEOREM TolerableIsAccepted == QuoteSpec => []WithinToleranceIsAccepted
  BY TolerableMeansEnough, TypeInvariant, PTL

\* More money or more confirmations never make a paid quote unpaid, for any
\* price and tolerance.
THEOREM PaidStaysPaid == QuoteSpec => PaidIsKept
  <1>1. QuoteTypeOK /\ QuoteTypeOK' /\ [QuoteNext]_quoteVars
          => [IntentStatusIsPaid(Status) => IntentStatusIsPaid(Status')]_quoteVars
    <2> SUFFICES ASSUME QuoteTypeOK, QuoteTypeOK', QuoteNext, IntentStatusIsPaid(Status)
                 PROVE  IntentStatusIsPaid(Status')
      BY DEF quoteVars
    <2> DEFINE b == ComputeBounds(expected, tolerance)
    <2>1. /\ received \in Nat /\ received' \in Nat /\ received <= received'
          /\ confirmations \in Nat /\ confirmations' \in Nat /\ confirmations <= confirmations'
          /\ expected' = expected /\ tolerance' = tolerance
      BY QuoteAssumption DEF QuoteNext, ReceiveMore, GetDeeper, QuoteTypeOK
    <2>2. b.min \in Nat /\ b.max \in Nat /\ b.min <= b.max
      <3>1. expected \in Nat /\ tolerance \in Int
        BY QuoteAssumption DEF QuoteTypeOK
      <3>2. QED
        BY <3>1, BoundsAreNear
    <2>3. /\ received > 0 /\ b.min <= received
          /\ received > b.max \/ confirmations >= Required
      BY <2>1, <2>2, QuoteAssumption, PaidMeans DEF Status
    <2>4. Status' = ResolveIntentStatus(expected, received', tolerance, confirmations', Required)
      BY <2>1 DEF Status
    <2>5. /\ received' > 0 /\ b.min <= received'
          /\ received' > b.max \/ confirmations' >= Required
      <3> HIDE DEF b
      <3>1. QED
        BY <2>1, <2>2, <2>3, QuoteAssumption
    <2>6. QED
      BY <2>1, <2>2, <2>4, <2>5, QuoteAssumption, PaidMeans
  <1>2. QED
    BY <1>1, TypeInvariant, PTL DEF QuoteSpec, PaidIsKept

\* The bounds of what was quoted.
LEMMA BoundsOfQuote ==
  ASSUME QuoteTypeOK
  PROVE  LET b == ComputeBounds(expected, tolerance)
         IN  /\ b.min \in Nat /\ b.max \in Nat
             /\ \A r \in Nat : /\ 10000 * expected <= 10000 * r + Allowed => b.min <= r
                               /\ 10000 * r <= 10000 * expected + Allowed => r <= b.max
  <1>1. expected \in Nat /\ tolerance \in Int
    BY QuoteAssumption DEF QuoteTypeOK
  <1> DEFINE b == ComputeBounds(expected, tolerance)
             a == expected * AtLeastZero(tolerance)
  <1>2. /\ b.min \in Nat /\ b.max \in Nat
        /\ \A r \in Nat : /\ 10000 * expected <= 10000 * r + a => b.min <= r
                          /\ 10000 * r <= 10000 * expected + a => r <= b.max
    BY <1>1, BoundsAreNear
  <1>3. Allowed = a
    BY DEF Allowed
  <1> HIDE DEF a, b
  <1>4. QED
    BY <1>2, <1>3 DEF b

\* What is proposed lies between the bounds, and is a number of base units.
LEMMA ProposedMeansAccepted == QuoteTypeOK => ProposedIsAccepted
  <1>1. ASSUME QuoteTypeOK, 5000 * BaseUnit <= Allowed, Proposed > 0
        PROVE  ResolveIntentStatus(expected, Proposed, tolerance, Required, Required)
                 = "confirmed"
    <2> DEFINE b == ComputeBounds(expected, tolerance)
    <2>1. expected \in Nat /\ tolerance \in Int /\ Allowed \in Nat
      <3>1. expected \in Nat /\ tolerance \in Int
        BY <1>1, QuoteAssumption DEF QuoteTypeOK
      <3>2. QED
        BY <3>1 DEF Allowed, AtLeastZero
    <2>2. /\ Proposed \in Nat
          /\ 2 * Proposed <= 2 * expected + BaseUnit
          /\ 2 * expected < 2 * Proposed + BaseUnit
      <3>1. BaseUnit \in Nat \ {0}
        BY QuoteAssumption
      <3>2. /\ Rounded(expected, BaseUnit) \in Nat
            /\ 2 * (Rounded(expected, BaseUnit) * BaseUnit) <= 2 * expected + BaseUnit
            /\ 2 * expected < 2 * (Rounded(expected, BaseUnit) * BaseUnit) + BaseUnit
        BY <2>1, <3>1, QuotientIsNear
      <3>3. QED
        BY <3>1, <3>2 DEF Proposed
    <2>3. /\ 10000 * expected <= 10000 * Proposed + Allowed
          /\ 10000 * Proposed <= 10000 * expected + Allowed
      BY <1>1, <2>1, <2>2, QuoteAssumption
    <2>4. /\ b.min \in Nat /\ b.max \in Nat
          /\ b.min <= Proposed /\ Proposed <= b.max
      <3>1. /\ b.min \in Nat /\ b.max \in Nat
            /\ \A r \in Nat : /\ 10000 * expected <= 10000 * r + Allowed => b.min <= r
                              /\ 10000 * r <= 10000 * expected + Allowed => r <= b.max
        BY <1>1, BoundsOfQuote
      <3> HIDE DEF b
      <3>2. QED
        BY <2>2, <2>3, <3>1
    <2> HIDE DEF b
    <2>5. QED
      BY <2>2, <2>4, <1>1, QuoteAssumption DEF ResolveIntentStatus, b
  <1>2. ASSUME QuoteTypeOK, Proposed > 0
        PROVE  BaseUnits(Proposed) # {}
    <2> DEFINE n == Rounded(expected, BaseUnit)
    <2>1. n \in Nat /\ BaseUnit \in Nat \ {0}
      BY <1>2, QuoteAssumption, QuotientIsNear DEF QuoteTypeOK
    <2>2. Proposed = n * BaseUnit
      BY DEF Proposed
    <2> HIDE DEF n
    <2>3. n > 0 /\ n <= n * BaseUnit
      BY <1>2, <2>1, <2>2
    <2>4. n \in 1..Proposed /\ n * BaseUnit = Proposed
      BY <2>1, <2>2, <2>3
    <2>5. QED
      BY <2>4 DEF BaseUnits
  <1>3. QED
    BY <1>1, <1>2 DEF ProposedIsAccepted

\* The wallet is proposed an amount that is confirmed, for any price, base unit
\* and tolerance, unless half a base unit is more than the tolerance; and the
\* amount has base units to pay out.
THEOREM ProposalIsAccepted == QuoteSpec => []ProposedIsAccepted
  BY ProposedMeansAccepted, TypeInvariant, PTL

\* Any price, tolerance and token: what is quoted, paid and paid out agree.
THEOREM QuotesAreHonored == QuoteSpec => []QuoteIsHonored
  BY OnlyTolerableIsConfirmed, TolerableIsAccepted, ProposalIsAccepted, PTL DEF QuoteIsHonored

-----------------------------------------------------------------------------
(* Ranks in a list *)

USE ListingsAssumption

Above(S, x) == {y \in S : y > x}

\* How many rows of S a list shows before x.
Rank(S, x) == Cardinality(Above(S, x))

\* Ranks are numbers.
LEMMA RankIsNat ==
  ASSUME NEW S, IsFiniteSet(S), NEW x
  PROVE  IsFiniteSet(Above(S, x)) /\ Rank(S, x) \in Nat
  <1>1. IsFiniteSet(Above(S, x))
    BY FS_Subset DEF Above
  <1>2. QED
    BY <1>1, FS_CardinalityType DEF Rank

\* A newer row is shown first.
LEMMA NewerIsFirst ==
  ASSUME NEW S \in SUBSET Int, IsFiniteSet(S), NEW x \in Int, NEW y \in S, x < y
  PROVE  Rank(S, y) < Rank(S, x)
  <1>1. Above(S, y) \cup {y} \subseteq Above(S, x) /\ y \notin Above(S, y)
    <2>1. \A z \in S : z > y => z > x
      BY S \subseteq Int, y \in Int
    <2>2. y > x /\ ~(y > y)
      BY y \in Int
    <2>3. QED
      BY <2>1, <2>2 DEF Above
  <1>2. IsFiniteSet(Above(S, x)) /\ IsFiniteSet(Above(S, y))
    BY RankIsNat
  <1>3. Cardinality(Above(S, y) \cup {y}) = Cardinality(Above(S, y)) + 1
    BY <1>1, <1>2, FS_AddElement
  <1>4. Cardinality(Above(S, y) \cup {y}) <= Cardinality(Above(S, x))
    BY <1>1, <1>2, FS_Subset
  <1>5. Rank(S, y) \in Nat /\ Rank(S, x) \in Nat
    BY RankIsNat
  <1>6. QED
    BY <1>3, <1>4, <1>5 DEF Rank

\* No two rows have the same rank.
LEMMA RanksDiffer ==
  ASSUME NEW S \in SUBSET Int, IsFiniteSet(S), NEW x \in S, NEW y \in S, Rank(S, x) = Rank(S, y)
  PROVE  x = y
  <1>1. Rank(S, x) \in Nat
    BY RankIsNat
  <1>2. ~(x < y) /\ ~(y < x)
    BY <1>1, NewerIsFirst
  <1>3. QED
    BY <1>2

\* A new row moves older ones down by one place.
LEMMA NewRowMoves ==
  ASSUME NEW S \in SUBSET Int, IsFiniteSet(S), NEW z \in Int, z \notin S, NEW x \in Int
  PROVE  Rank(S \cup {z}, x) = IF z > x THEN Rank(S, x) + 1 ELSE Rank(S, x)
  <1>1. CASE z > x
    <2>1. Above(S \cup {z}, x) = Above(S, x) \cup {z} /\ z \notin Above(S, x)
      BY <1>1 DEF Above
    <2>2. IsFiniteSet(Above(S, x))
      BY RankIsNat
    <2>3. Cardinality(Above(S, x) \cup {z}) = Cardinality(Above(S, x)) + 1
      BY <2>1, <2>2, FS_AddElement
    <2>4. QED
      BY <1>1, <2>1, <2>3 DEF Rank
  <1>2. CASE ~(z > x)
    <2>1. Above(S \cup {z}, x) = Above(S, x)
      BY <1>2 DEF Above
    <2>2. QED
      BY <1>2, <2>1 DEF Rank
  <1>3. QED
    BY <1>1, <1>2

\* Ranks are below the length of the list, and none of them is left out.
LEMMA RanksAreDense ==
  ASSUME NEW S \in SUBSET Int, IsFiniteSet(S)
  PROVE  /\ \A x \in S : Rank(S, x) \in 0 .. (Cardinality(S) - 1)
         /\ \A n \in 0 .. (Cardinality(S) - 1) : \E x \in S : Rank(S, x) = n
  <1> DEFINE n == Cardinality(S)
             f == [x \in S |-> Rank(S, x)]
  <1>1. n \in Nat
    BY FS_CardinalityType
  <1>2. ASSUME NEW x \in S PROVE Rank(S, x) \in 0 .. (n - 1)
    <2>1. Above(S, x) \subseteq S \ {x}
      BY DEF Above
    <2>2. IsFiniteSet(S \ {x}) /\ Cardinality(S \ {x}) = n - 1
      BY FS_RemoveElement
    <2>3. Rank(S, x) <= n - 1
      BY <2>1, <2>2, FS_Subset DEF Rank
    <2>4. Rank(S, x) \in Nat
      BY RankIsNat
    <2>5. QED
      BY <1>1, <2>3, <2>4
  <1>3. f \in Injection(S, 0 .. (n - 1))
    <2>1. f \in [S -> 0 .. (n - 1)]
      BY <1>2
    <2>2. \A x, y \in S : f[x] = f[y] => x = y
      BY RanksDiffer
    <2>3. QED
      BY <2>1, <2>2 DEF Injection, IsInjective
  <1>4. IsFiniteSet(0 .. (n - 1)) /\ Cardinality(0 .. (n - 1)) = n
    BY <1>1, FS_Interval
  <1>5. f \in Surjection(S, 0 .. (n - 1))
    BY <1>3, <1>4, FS_Injection
  <1>6. \A m \in 0 .. (n - 1) : \E x \in S : f[x] = m
    BY <1>5 DEF Surjection
  <1>7. QED
    BY <1>2, <1>6

\* A page with rows behind it is full.
LEMMA PagesAreFull ==
  ASSUME NEW S \in SUBSET Int, IsFiniteSet(S), NEW o \in Nat, NEW l \in Nat,
         NEW x \in S, Rank(S, x) >= o + l
  PROVE  Cardinality({y \in S : Rank(S, y) \in o .. (o + l - 1)}) = l
  <1> DEFINE P == {y \in S : Rank(S, y) \in o .. (o + l - 1)}
             f == [y \in P |-> Rank(S, y)]
  <1>1. IsFiniteSet(P)
    BY FS_Subset
  <1>2. f \in [P -> o .. (o + l - 1)]
    OBVIOUS
  <1>3. \A y, z \in P : f[y] = f[z] => y = z
    BY RanksDiffer
  <1>4. f \in Injection(P, o .. (o + l - 1))
    BY <1>2, <1>3 DEF Injection, IsInjective
  <1>5. Cardinality(S) \in Nat /\ Rank(S, x) \in 0 .. (Cardinality(S) - 1)
    BY RanksAreDense, FS_CardinalityType
  <1>6. \A m \in o .. (o + l - 1) : m \in 0 .. (Cardinality(S) - 1)
    BY <1>5
  <1>7. \A m \in o .. (o + l - 1) : \E y \in P : f[y] = m
    BY <1>6, RanksAreDense
  <1>8. f \in Surjection(P, o .. (o + l - 1))
    BY <1>2, <1>7 DEF Surjection
  <1>9. IsFiniteSet(o .. (o + l - 1)) /\ Cardinality(o .. (o + l - 1)) = l
    BY FS_Interval
  <1>10. QED
    BY <1>4, <1>8, <1>9, FS_Injection

-----------------------------------------------------------------------------
(* The reader *)

ReaderRecords ==
  [stage : {"idle", "reading", "done"}, limit : Limits \cup {0}, offset : Nat,
   atStart : SUBSET Rows, seen : SUBSET Rows, repeats : Nat, inserted : Nat, deleted : Nat]

\* Rows that the reader has passed over, whether it can know or not,
Skipped ==
  {x \in (reader.atStart \cap Listed) \ reader.seen :
     Rank(Listed, x) < reader.offset \/ \E y \in reader.seen : y < x}

\* and those that have moved back behind its next offset.
Returning == {x \in reader.seen \cap Listed : Rank(Listed, x) >= reader.offset}

ListingInv ==
  /\ ListingTypeOK /\ reader \in ReaderRecords
  /\ reader.stage = "idle" => reader = NoReader
  /\ reader.stage = "reading" =>
       /\ list \in {"keys", "cycles"} => reader.offset = 0
       /\ Cardinality(Skipped) <= reader.deleted
       /\ reader.repeats + Cardinality(Returning) <= reader.inserted
  /\ reader.stage = "done" => ListIsReadOnce

\* What is counted is finite.
LEMMA ListsAreFinite ==
  ASSUME reader.seen \subseteq Rows
  PROVE  /\ Listed \in SUBSET Int /\ IsFiniteSet(Listed) /\ Cardinality(Listed) \in Nat
         /\ IsFiniteSet(Skipped) /\ Cardinality(Skipped) \in Nat
         /\ IsFiniteSet(Returning) /\ Cardinality(Returning) \in Nat
         /\ IsFiniteSet(Missed) /\ Cardinality(Missed) \in Nat
  <1>1. IsFiniteSet(Rows) /\ Rows \subseteq Int
    BY FS_Interval DEF Rows, ListingsAssumption
  <1>2. Listed \subseteq Rows /\ Skipped \subseteq Rows /\ Returning \subseteq Rows /\ Missed \subseteq Rows
    BY DEF Listed, Skipped, Returning, Missed
  <1>3. IsFiniteSet(Listed) /\ IsFiniteSet(Skipped) /\ IsFiniteSet(Returning) /\ IsFiniteSet(Missed)
    BY <1>1, <1>2, FS_Subset
  <1>4. QED
    BY <1>1, <1>2, <1>3, FS_CardinalityType

\* A set that grows by one element at most has at most one more.
LEMMA GrowsByOne ==
  ASSUME NEW S, NEW T, NEW x, IsFiniteSet(S), T \subseteq S \cup {x}
  PROVE  Cardinality(T) <= Cardinality(S) + 1
  <1>1. Cardinality(S) \in Nat
    BY FS_CardinalityType
  <1>2. /\ IsFiniteSet(S \cup {x})
        /\ Cardinality(S \cup {x}) = IF x \in S THEN Cardinality(S) ELSE Cardinality(S) + 1
    BY FS_AddElement
  <1>3. IsFiniteSet(T) /\ Cardinality(T) <= Cardinality(S \cup {x})
    BY <1>2, FS_Subset
  <1>4. Cardinality(T) \in Nat /\ Cardinality(S \cup {x}) \in Nat
    BY <1>2, <1>3, FS_CardinalityType
  <1>5. QED
    BY <1>1, <1>2, <1>3, <1>4

\* Nobody reads at first.
LEMMA InitListingInv == ListingInit => ListingInv
  <1> SUFFICES ASSUME ListingInit PROVE ListingInv
    OBVIOUS
  <1>1. /\ list \in Lists /\ row \in [Rows -> {"unborn", "listed"}] /\ reader = NoReader
        /\ \A x, y \in Rows : x < y /\ row[y] = "listed" => row[x] = "listed"
    BY DEF ListingInit
  <1>2. NoReader \in ReaderRecords /\ NoReader.stage = "idle"
    BY DEF NoReader, ReaderRecords
  <1>3. ListingTypeOK
    BY <1>1, <1>2 DEF ListingTypeOK, ReaderRecords, NoReader, RowStage
  <1>4. QED
    BY <1>1, <1>2, <1>3 DEF ListingInv

\* A row is inserted, begun before.
LEMMA CommitInsertKeeps ==
  ASSUME ListingInv, NEW z \in Rows, CommitInsert(z) PROVE ListingInv'
  <1>1. row \in [Rows -> RowStage] /\ reader \in ReaderRecords /\ ListingTypeOK
    BY DEF ListingInv, ListingTypeOK
  <1>2. row[z] = "begun" /\ row' = [row EXCEPT ![z] = "listed"] /\ list' = list
    BY DEF CommitInsert
  <1>3. \A x \in Rows : row'[x] = IF x = z THEN "listed" ELSE row[x]
    BY <1>1, <1>2
  <1>4. Listed' = Listed \cup {z} /\ z \notin Listed
    BY <1>2, <1>3 DEF Listed
  <1>5. z \notin reader.atStart \cup reader.seen
    BY <1>1, <1>2 DEF ListingTypeOK
  <1>6. reader' = IF reader.stage = "reading" THEN [reader EXCEPT !.inserted = @ + 1] ELSE reader
    BY DEF CommitInsert, During
  <1>7. /\ reader' \in ReaderRecords /\ reader'.stage = reader.stage /\ reader'.limit = reader.limit
        /\ reader'.offset = reader.offset /\ reader'.atStart = reader.atStart
        /\ reader'.seen = reader.seen /\ reader'.repeats = reader.repeats
        /\ reader'.deleted = reader.deleted
        /\ reader'.inserted = IF reader.stage = "reading" THEN reader.inserted + 1 ELSE reader.inserted
    BY <1>1, <1>6 DEF ReaderRecords
  <1>8. ListingTypeOK'
    <2>1. row' \in [Rows -> RowStage]
      BY <1>1, <1>2 DEF RowStage
    <2>2. \A x, y \in Rows : x < y /\ row'[x] = "unborn" => row'[y] = "unborn"
      BY <1>1, <1>2, <1>3 DEF ListingTypeOK
    <2>3. reader'.atStart \cup reader'.seen \subseteq {x \in Rows : row'[x] \in {"listed", "deleted"}}
      BY <1>1, <1>3, <1>7 DEF ListingTypeOK
    <2>4. QED
      BY <1>1, <1>2, <1>7, <2>1, <2>2, <2>3 DEF ListingTypeOK, ReaderRecords
  <1>9. Listed \in SUBSET Int /\ IsFiniteSet(Listed) /\ z \in Int
    BY <1>1, ListsAreFinite DEF ReaderRecords, Rows
  <1>10. \A x \in Int : /\ Rank(Listed', x) \in {Rank(Listed, x), Rank(Listed, x) + 1}
                        /\ Rank(Listed, x) \in Nat
    BY <1>4, <1>9, NewRowMoves, RankIsNat
  <1>11. Skipped' \subseteq Skipped
    <2> SUFFICES ASSUME NEW x \in Skipped' PROVE x \in Skipped
      OBVIOUS
    <2>1. /\ x \in reader.atStart /\ x \in Listed' /\ x \notin reader.seen
          /\ Rank(Listed', x) < reader.offset \/ \E y \in reader.seen : y < x
      BY <1>7 DEF Skipped
    <2>2. x \in Listed /\ x \in Int
      BY <1>4, <1>5, <1>9, <2>1
    <2>3. Rank(Listed', x) < reader.offset => Rank(Listed, x) < reader.offset
      BY <1>1, <1>10, <2>2 DEF ReaderRecords
    <2>4. QED
      BY <2>1, <2>2, <2>3 DEF Skipped
  <1>12. \E w : Returning' \subseteq Returning \cup {w}
    <2> DEFINE W == {x \in Listed : Rank(Listed, x) = reader.offset - 1}
               w == CHOOSE w \in W : TRUE
    <2>1. \A x \in W : x = w
      BY <1>9, RanksDiffer
    <2>2. ASSUME NEW x \in Returning' PROVE x \in Returning \cup W
      <3>1. x \in reader.seen /\ x \in Listed' /\ Rank(Listed', x) >= reader.offset
        BY <1>7, <2>2 DEF Returning
      <3>2. x \in Listed /\ x \in Int
        BY <1>4, <1>5, <1>9, <3>1
      <3>3. Rank(Listed, x) >= reader.offset \/ Rank(Listed, x) = reader.offset - 1
        BY <1>1, <1>10, <3>1, <3>2 DEF ReaderRecords
      <3>4. QED
        BY <3>1, <3>2, <3>3 DEF Returning
    <2> HIDE DEF W, w
    <2>3. Returning' \subseteq Returning \cup {w}
      BY <2>1, <2>2
    <2>4. QED
      BY <2>3
  <1>13. Missed' \subseteq Missed
    BY <1>2, <1>4, <1>5, <1>7 DEF Missed
  <1>14. reader.seen \subseteq Rows /\ reader'.seen \subseteq Rows
    BY <1>1, <1>7 DEF ReaderRecords
  <1>15. CASE reader.stage = "reading"
    <2>1. Cardinality(Skipped') <= Cardinality(Skipped) /\ Cardinality(Skipped') \in Nat
      BY <1>11, <1>14, ListsAreFinite, FS_Subset, FS_CardinalityType
    <2>2. Cardinality(Returning') <= Cardinality(Returning) + 1
      BY <1>12, <1>14, ListsAreFinite, GrowsByOne
    <2>3. Cardinality(Returning') \in Nat
      <3>1. IsFiniteSet(Rows)
        BY FS_Interval DEF Rows, ListingsAssumption
      <3>2. Returning' \subseteq Rows
        BY <1>14 DEF Returning
      <3>3. QED
        BY <3>1, <3>2, FS_Subset, FS_CardinalityType
    <2>4. /\ Cardinality(Skipped) \in Nat /\ Cardinality(Returning) \in Nat
          /\ reader.repeats \in Nat /\ reader.inserted \in Nat /\ reader.deleted \in Nat
      BY <1>1, <1>14, ListsAreFinite DEF ReaderRecords
    <2>5. Cardinality(Skipped') <= reader'.deleted
      BY <1>7, <1>15, <2>1, <2>4 DEF ListingInv
    <2>6. reader'.repeats + Cardinality(Returning') <= reader'.inserted
      BY <1>7, <1>15, <2>2, <2>3, <2>4 DEF ListingInv
    <2>7. QED
      BY <1>2, <1>7, <1>8, <1>15, <2>5, <2>6 DEF ListingInv
  <1>16. CASE reader.stage = "done"
    <2>1. Cardinality(Missed') <= Cardinality(Missed) /\ Cardinality(Missed') \in Nat /\ Cardinality(Missed) \in Nat
      BY <1>13, <1>14, ListsAreFinite, FS_Subset, FS_CardinalityType
    <2>2. ListIsReadOnce'
      BY <1>1, <1>7, <1>16, <2>1 DEF ListingInv, ListIsReadOnce, MissedCostDeletions, RepeatsCostInserts, ReaderRecords
    <2>3. QED
      BY <1>7, <1>8, <1>16, <2>2 DEF ListingInv
  <1>17. CASE reader.stage = "idle"
    BY <1>6, <1>7, <1>8, <1>17 DEF ListingInv
  <1>18. QED
    BY <1>1, <1>15, <1>16, <1>17 DEF ReaderRecords

\* A row is deleted.
LEMMA DeleteRowKeeps ==
  ASSUME ListingInv, NEW z \in Rows, DeleteRow(z) PROVE ListingInv'
  <1>1. row \in [Rows -> RowStage] /\ reader \in ReaderRecords /\ ListingTypeOK
    BY DEF ListingInv, ListingTypeOK
  <1>2. row[z] = "listed" /\ row' = [row EXCEPT ![z] = "deleted"] /\ list' = list /\ list = "products"
    BY DEF DeleteRow
  <1>3. \A x \in Rows : row'[x] = IF x = z THEN "deleted" ELSE row[x]
    BY <1>1, <1>2
  <1>4. Listed' = Listed \ {z} /\ z \in Listed
    BY <1>2, <1>3 DEF Listed
  <1>5. reader' = IF reader.stage = "reading" THEN [reader EXCEPT !.deleted = @ + 1] ELSE reader
    BY DEF DeleteRow, During
  <1>6. /\ reader' \in ReaderRecords /\ reader'.stage = reader.stage /\ reader'.limit = reader.limit
        /\ reader'.offset = reader.offset /\ reader'.atStart = reader.atStart
        /\ reader'.seen = reader.seen /\ reader'.repeats = reader.repeats
        /\ reader'.inserted = reader.inserted
        /\ reader'.deleted = IF reader.stage = "reading" THEN reader.deleted + 1 ELSE reader.deleted
    BY <1>1, <1>5 DEF ReaderRecords
  <1>7. ListingTypeOK'
    <2>1. row' \in [Rows -> RowStage]
      BY <1>1, <1>2 DEF RowStage
    <2>2. \A x, y \in Rows : x < y /\ row'[x] = "unborn" => row'[y] = "unborn"
      BY <1>1, <1>2, <1>3 DEF ListingTypeOK
    <2>3. reader'.atStart \cup reader'.seen \subseteq {x \in Rows : row'[x] \in {"listed", "deleted"}}
      BY <1>1, <1>3, <1>6 DEF ListingTypeOK
    <2>4. QED
      BY <1>1, <1>2, <1>6, <2>1, <2>2, <2>3 DEF ListingTypeOK, ReaderRecords
  <1>8. reader.seen \subseteq Rows /\ reader'.seen \subseteq Rows
    BY <1>1, <1>6 DEF ReaderRecords
  <1>9. Listed \in SUBSET Int /\ IsFiniteSet(Listed) /\ Listed' \in SUBSET Int /\ IsFiniteSet(Listed')
    BY <1>8, ListsAreFinite, <1>4, FS_Subset
  <1>10. \A x \in Int : /\ Rank(Listed, x) \in {Rank(Listed', x), Rank(Listed', x) + 1}
                        /\ Rank(Listed', x) \in Nat
    <2>1. Listed = Listed' \cup {z} /\ z \notin Listed' /\ z \in Int
      BY <1>4, <1>9
    <2>2. \A x \in Int : Rank(Listed' \cup {z}, x) = IF z > x THEN Rank(Listed', x) + 1 ELSE Rank(Listed', x)
      BY <1>9, <2>1, NewRowMoves
    <2>3. QED
      BY <1>9, <2>1, <2>2, RankIsNat
  <1>11. \E w : Skipped' \subseteq Skipped \cup {w}
    <2> DEFINE W == {x \in Listed : Rank(Listed, x) = reader.offset}
               w == CHOOSE w \in W : TRUE
    <2>1. \A x \in W : x = w
      BY <1>9, RanksDiffer
    <2>2. ASSUME NEW x \in Skipped' PROVE x \in Skipped \cup W
      <3>1. /\ x \in reader.atStart /\ x \in Listed' /\ x \notin reader.seen
            /\ Rank(Listed', x) < reader.offset \/ \E y \in reader.seen : y < x
        BY <1>6, <2>2 DEF Skipped
      <3>2. x \in Listed /\ x \in Int
        BY <1>4, <1>9, <3>1
      <3>3. Rank(Listed', x) < reader.offset
              => Rank(Listed, x) < reader.offset \/ Rank(Listed, x) = reader.offset
        BY <1>1, <1>10, <3>2 DEF ReaderRecords
      <3>4. QED
        BY <3>1, <3>2, <3>3 DEF Skipped
    <2> HIDE DEF W, w
    <2>3. Skipped' \subseteq Skipped \cup {w}
      BY <2>1, <2>2
    <2>4. QED
      BY <2>3
  <1>12. Returning' \subseteq Returning
    <2> SUFFICES ASSUME NEW x \in Returning' PROVE x \in Returning
      OBVIOUS
    <2>1. x \in reader.seen /\ x \in Listed' /\ Rank(Listed', x) >= reader.offset
      BY <1>6 DEF Returning
    <2>2. x \in Listed /\ x \in Int
      BY <1>4, <1>9, <2>1
    <2>3. Rank(Listed, x) >= reader.offset
      BY <1>1, <1>10, <2>1, <2>2 DEF ReaderRecords
    <2>4. QED
      BY <2>1, <2>2, <2>3 DEF Returning
  <1>13. Missed' \subseteq Missed
    BY <1>2, <1>4, <1>6 DEF Missed
  <1>14. CASE reader.stage = "reading"
    <2>1. Cardinality(Returning') <= Cardinality(Returning) /\ Cardinality(Returning') \in Nat
      BY <1>8, <1>12, ListsAreFinite, FS_Subset, FS_CardinalityType
    <2>2. Cardinality(Skipped') <= Cardinality(Skipped) + 1
      BY <1>8, <1>11, ListsAreFinite, GrowsByOne
    <2>3. Cardinality(Skipped') \in Nat
      <3>1. IsFiniteSet(Rows)
        BY FS_Interval DEF Rows, ListingsAssumption
      <3>2. Skipped' \subseteq Rows
        BY <1>4 DEF Skipped, Listed
      <3>3. QED
        BY <3>1, <3>2, FS_Subset, FS_CardinalityType
    <2>4. /\ Cardinality(Skipped) \in Nat /\ Cardinality(Returning) \in Nat
          /\ reader.repeats \in Nat /\ reader.inserted \in Nat /\ reader.deleted \in Nat
      BY <1>1, <1>8, ListsAreFinite DEF ReaderRecords
    <2>5. Cardinality(Skipped') <= reader'.deleted
      BY <1>6, <1>14, <2>2, <2>3, <2>4 DEF ListingInv
    <2>6. reader'.repeats + Cardinality(Returning') <= reader'.inserted
      BY <1>6, <1>14, <2>1, <2>4 DEF ListingInv
    <2>7. QED
      BY <1>2, <1>6, <1>7, <1>14, <2>5, <2>6 DEF ListingInv
  <1>15. CASE reader.stage = "done"
    <2>1. Cardinality(Missed') <= Cardinality(Missed) /\ Cardinality(Missed') \in Nat /\ Cardinality(Missed) \in Nat
      BY <1>8, <1>13, ListsAreFinite, FS_Subset, FS_CardinalityType
    <2>2. ListIsReadOnce'
      BY <1>1, <1>6, <1>15, <2>1 DEF ListingInv, ListIsReadOnce, MissedCostDeletions, RepeatsCostInserts, ReaderRecords
    <2>3. QED
      BY <1>6, <1>7, <1>15, <2>2 DEF ListingInv
  <1>16. CASE reader.stage = "idle"
    BY <1>5, <1>6, <1>7, <1>16 DEF ListingInv
  <1>17. QED
    BY <1>1, <1>14, <1>15, <1>16 DEF ReaderRecords

\* The transaction of an insert starts, or a reader does, and no list changes.
LEMMA StartKeeps ==
  ASSUME ListingInv, (\E x \in Rows : BeginInsert(x)) \/ StartReading \/ UNCHANGED listingVars
  PROVE  ListingInv'
  <1>1. row \in [Rows -> RowStage] /\ reader \in ReaderRecords /\ ListingTypeOK
    BY DEF ListingInv, ListingTypeOK
  <1>2. ASSUME Listed' = Listed, ListingTypeOK', UNCHANGED <<list, reader>> PROVE ListingInv'
    <2>1. Skipped' = Skipped /\ Returning' = Returning /\ Missed' = Missed
      BY <1>2 DEF Skipped, Returning, Missed
    <2>2. ListIsReadOnce' = ListIsReadOnce
      BY <1>2, <2>1 DEF ListIsReadOnce, MissedCostDeletions, RepeatsCostInserts
    <2>3. QED
      BY <1>2, <2>1, <2>2 DEF ListingInv
  <1>3. ASSUME NEW x \in Rows, BeginInsert(x) PROVE ListingInv'
    <2>1. /\ row[x] = "unborn" /\ \A y \in 1 .. (x - 1) : row[y] # "unborn"
          /\ row' = [row EXCEPT ![x] = "begun"] /\ UNCHANGED <<list, reader>>
      BY <1>3 DEF BeginInsert
    <2>2. \A y \in Rows : row'[y] = IF y = x THEN "begun" ELSE row[y]
      BY <1>1, <2>1
    <2>3. Listed' = Listed
      BY <2>1, <2>2 DEF Listed
    <2>4. row' \in [Rows -> RowStage]
      BY <1>1, <2>1 DEF RowStage
    <2>5. \A y, z \in Rows : y < z /\ row'[y] = "unborn" => row'[z] = "unborn"
      <3> SUFFICES ASSUME NEW y \in Rows, NEW z \in Rows, y < z, row'[y] = "unborn"
                   PROVE  row'[z] = "unborn"
        OBVIOUS
      <3>1. row[y] = "unborn" /\ y # x
        BY <2>2
      <3>2. row[z] = "unborn"
        BY <1>1, <3>1 DEF ListingTypeOK
      <3>3. ~(y < x)
        BY <2>1, <3>1 DEF Rows
      <3>4. z # x
        BY <3>3
      <3>5. QED
        BY <2>2, <3>2, <3>4
    <2>6. reader'.atStart \cup reader'.seen \subseteq {y \in Rows : row'[y] \in {"listed", "deleted"}}
      BY <1>1, <2>1, <2>2 DEF ListingTypeOK
    <2>7. ListingTypeOK'
      BY <1>1, <2>1, <2>4, <2>5, <2>6 DEF ListingTypeOK
    <2>8. QED
      BY <1>2, <2>1, <2>3, <2>7
  <1>4. CASE StartReading
    <2>1. PICK limit \in Limits :
            reader' = [NoReader EXCEPT !.stage = "reading", !.limit = limit, !.atStart = Listed]
      BY <1>4 DEF StartReading
    <2>2. UNCHANGED <<list, row>> /\ Listed' = Listed /\ Listed \subseteq Rows
      BY <1>4 DEF StartReading, Listed
    <2>3. /\ reader' \in ReaderRecords /\ reader'.stage = "reading" /\ reader'.limit = limit
          /\ reader'.offset = 0 /\ reader'.seen = {} /\ reader'.atStart = Listed
          /\ reader'.repeats = 0 /\ reader'.inserted = 0 /\ reader'.deleted = 0
      BY <2>1, <2>2 DEF NoReader, ReaderRecords
    <2>4. ListingTypeOK'
      BY <1>1, <2>2, <2>3 DEF ListingTypeOK, Listed
    <2>5. Returning' = {}
      BY <2>3 DEF Returning
    <2>6. Skipped' = {}
      <3>1. \A x : ~(Rank(Listed, x) < 0)
        <4>1. IsFiniteSet(Listed)
          BY <1>1, ListsAreFinite DEF ReaderRecords
        <4>2. \A x : Rank(Listed, x) \in Nat
          BY <4>1, RankIsNat
        <4>3. QED
          BY <4>2
      <3>2. QED
        BY <2>2, <2>3, <3>1 DEF Skipped
    <2>7. QED
      BY <2>2, <2>3, <2>4, <2>5, <2>6, FS_EmptySet DEF ListingInv
  <1>5. CASE UNCHANGED listingVars
    BY <1>1, <1>2, <1>5 DEF listingVars, ListingTypeOK, Listed
  <1>6. QED
    BY <1>3, <1>4, <1>5

\* Whatever list is read, an answer is the page at the offset that was asked
\* for, of the limit that it says; of keys and cycles there is one page.
LEMMA AnswerIsPage ==
  ASSUME ListingInv, reader.stage = "reading"
  PROVE  LET a == Answer(reader.limit, reader.offset) IN
         /\ a.limit \in Nat \ {0}
         /\ a.rows = {x \in Listed : Rank(Listed, x) \in reader.offset .. (reader.offset + a.limit - 1)}
         /\ list = "keys" => a.limit = Cardinality(a.rows) + 1
  <1> DEFINE a == Answer(reader.limit, reader.offset)
             n == Effective(reader.limit)
  <1>1. reader.limit \in Int /\ reader.offset \in Nat /\ reader.seen \subseteq Rows
    <2>1. reader.limit \in Limits \cup {0} /\ reader.offset \in Nat /\ reader.seen \subseteq Rows
      BY DEF ListingInv, ReaderRecords
    <2>2. Limits \cup {0} \subseteq Int
      BY DEF ListingsAssumption
    <2>3. QED
      BY <2>1, <2>2
  <1>2. n \in 1 .. Ceiling /\ n \in Nat \ {0} /\ Effective(n) = n
    BY <1>1 DEF Effective, ListingsAssumption
  <1>3. \A o \in Nat, l \in Nat : Page(o, l) = {x \in Listed : Rank(Listed, x) \in o .. (o + l - 1)}
    BY DEF Page, Rank, Above
  <1>4. CASE list \in {"products", "payments", "links"}
    <2>1. a.rows = Page(reader.offset, n) /\ a.limit = n
      BY <1>2, <1>4 DEF Answer, HandleListProducts, HandleListPayments, HandleListPaymentLinks, ListPaymentLinks
    <2> HIDE DEF a, n
    <2>2. a.rows = {x \in Listed : Rank(Listed, x) \in reader.offset .. (reader.offset + a.limit - 1)}
      BY <1>1, <1>2, <1>3, <2>1
    <2>3. QED
      BY <1>2, <1>4, <2>1, <2>2 DEF a
  <1>5. CASE list = "cycles"
    <2>1. a.rows = Page(0, n) /\ a.limit = n
      BY <1>2, <1>5 DEF Answer, HandleGetSubscriptionCycles, GetSubscriptionCycles
    <2>2. reader.offset = 0
      BY <1>5 DEF ListingInv
    <2> HIDE DEF a, n
    <2>3. a.rows = {x \in Listed : Rank(Listed, x) \in reader.offset .. (reader.offset + a.limit - 1)}
      BY <1>1, <1>2, <1>3, <2>1, <2>2
    <2>4. QED
      BY <1>2, <1>5, <2>1, <2>3 DEF a
  <1>6. CASE list = "keys"
    <2>1. a.rows = Listed /\ a.limit = Cardinality(Listed) + 1
      BY <1>6 DEF Answer, HandleListApiKeys, ListApiKeys
    <2>2. reader.offset = 0
      BY <1>6 DEF ListingInv
    <2>3. Cardinality(Listed) \in Nat
      BY <1>1, ListsAreFinite
    <2>4. \A x \in Listed : Rank(Listed, x) \in 0 .. (Cardinality(Listed) - 1)
      BY <1>1, ListsAreFinite, RanksAreDense
    <2> HIDE DEF a, n
    <2>5. \A x \in Listed : Rank(Listed, x) \in reader.offset .. (reader.offset + a.limit - 1)
      BY <2>1, <2>2, <2>3, <2>4
    <2>6. QED
      BY <1>6, <2>1, <2>3, <2>5 DEF a
  <1>7. list \in {"payments", "links", "products", "keys", "cycles"}
    BY DEF ListingInv, ListingTypeOK, ListingsAssumption
  <1>8. QED
    BY <1>4, <1>5, <1>6, <1>7

\* The reader is shown a page.
LEMMA ReadPageKeeps ==
  ASSUME ListingInv, ReadPage PROVE ListingInv'
  <1> DEFINE a == Answer(reader.limit, reader.offset)
             l == a.limit
             P == a.rows
             o == reader.offset
             next == IF Cardinality(P) = l /\ list # "cycles" THEN "reading" ELSE "done"
  <1>1. row \in [Rows -> RowStage] /\ reader \in ReaderRecords /\ ListingTypeOK /\ reader.stage = "reading"
    BY DEF ListingInv, ListingTypeOK, ReadPage
  <1>2. UNCHANGED <<list, row>> /\ Listed' = Listed /\ Listed \subseteq Rows
    BY DEF ReadPage, Listed
  <1>3. reader' = [reader EXCEPT !.stage = next, !.offset = o + l, !.seen = reader.seen \cup P,
                                 !.repeats = reader.repeats + Cardinality(P \cap reader.seen)]
    BY <1>1 DEF ReadPage, ReaderRecords
  <1>4. /\ l \in Nat \ {0} /\ P = {x \in Listed : Rank(Listed, x) \in o .. (o + l - 1)}
        /\ list = "keys" => l = Cardinality(P) + 1
    BY <1>1, AnswerIsPage
  <1>5. next \in {"reading", "done"} /\ (next = "reading" <=> Cardinality(P) = l /\ list # "cycles")
    OBVIOUS
  <1> HIDE DEF a, l, P, next
  <1>6. /\ reader.seen \subseteq Rows /\ o \in Nat /\ reader.repeats \in Nat /\ P \subseteq Rows
        /\ reader.inserted \in Nat /\ reader.deleted \in Nat
    BY <1>1, <1>2, <1>4 DEF ReaderRecords
  <1>7. /\ Listed \in SUBSET Int /\ IsFiniteSet(Listed) /\ IsFiniteSet(Skipped) /\ IsFiniteSet(Returning)
        /\ Cardinality(Skipped) \in Nat /\ Cardinality(Returning) \in Nat
    BY <1>6, ListsAreFinite
  <1>8. IsFiniteSet(P) /\ Cardinality(P) \in Nat
    BY <1>4, <1>7, FS_Subset, FS_CardinalityType
  <1>9. IsFiniteSet(P \cap reader.seen) /\ Cardinality(P \cap reader.seen) \in Nat
    BY <1>8, FS_Subset, FS_CardinalityType
  <1>10. /\ reader' \in ReaderRecords /\ reader'.stage = next /\ reader'.offset = o + l
         /\ reader'.limit = reader.limit /\ reader'.atStart = reader.atStart
         /\ reader'.seen = reader.seen \cup P
         /\ reader'.repeats = reader.repeats + Cardinality(P \cap reader.seen)
         /\ reader'.inserted = reader.inserted /\ reader'.deleted = reader.deleted
    <2>1. /\ o + l \in Nat /\ reader.seen \cup P \in SUBSET Rows
          /\ reader.repeats + Cardinality(P \cap reader.seen) \in Nat
      BY <1>4, <1>6, <1>9
    <2> DEFINE m == o + l
               k == reader.repeats + Cardinality(P \cap reader.seen)
               T == reader.seen \cup P
    <2>2. m \in Nat /\ k \in Nat /\ T \in SUBSET Rows
      BY <2>1
    <2>3. reader' = [reader EXCEPT !.stage = next, !.offset = m, !.seen = T, !.repeats = k]
      BY <1>3
    <2> HIDE DEF m, k, T
    <2>4. /\ reader' \in ReaderRecords /\ reader'.stage = next /\ reader'.offset = m
          /\ reader'.limit = reader.limit /\ reader'.atStart = reader.atStart /\ reader'.seen = T
          /\ reader'.repeats = k /\ reader'.inserted = reader.inserted /\ reader'.deleted = reader.deleted
      BY <1>1, <1>5, <2>2, <2>3 DEF ReaderRecords
    <2>5. QED
      BY <2>4 DEF m, k, T
  <1>11. ListingTypeOK'
    <2>1. \A x \in P : x \in Rows /\ row[x] \in {"listed", "deleted"}
      BY <1>4 DEF Listed
    <2>2. QED
      BY <1>1, <1>2, <1>5, <1>10, <2>1 DEF ListingTypeOK, ReaderRecords
  <1>12. \A x \in Listed : Rank(Listed, x) \in Nat
    BY <1>7, RankIsNat
  <1>13. Skipped' \subseteq Skipped
    <2> SUFFICES ASSUME NEW x \in Skipped' PROVE x \in Skipped
      OBVIOUS
    <2>1. /\ x \in reader.atStart /\ x \in Listed /\ x \notin reader.seen /\ x \notin P
          /\ Rank(Listed, x) < o + l \/ \E y \in reader.seen \cup P : y < x
      BY <1>2, <1>10 DEF Skipped
    <2>2. Rank(Listed, x) < o + l => Rank(Listed, x) < o
      BY <1>4, <1>6, <1>12, <2>1
    <2>3. ASSUME NEW y \in P, y < x PROVE Rank(Listed, x) < o
      <3>1. y \in Listed /\ Rank(Listed, y) < o + l
        <4>1. y \in Listed /\ Rank(Listed, y) \in o .. (o + l - 1)
          BY <1>4
        <4>2. \A m, n, k : m \in Nat /\ n \in Nat /\ k \in m .. (m + n - 1) => k < m + n
          OBVIOUS
        <4>3. QED
          BY <1>4, <1>6, <4>1, <4>2
      <3>2. y \in Int
        BY <1>7, <3>1
      <3>3. Rank(Listed, x) < Rank(Listed, y)
        BY <1>7, <2>1, <2>3, <3>1, <3>2, NewerIsFirst
      <3>4. QED
        BY <1>4, <1>6, <1>12, <2>1, <2>2, <3>1, <3>3
    <2>4. QED
      BY <2>1, <2>2, <2>3 DEF Skipped
  <1>14. Cardinality(Skipped') <= reader'.deleted /\ Cardinality(Skipped') \in Nat /\ IsFiniteSet(Skipped')
    <2>1. IsFiniteSet(Skipped') /\ Cardinality(Skipped') <= Cardinality(Skipped) /\ Cardinality(Skipped') \in Nat
      BY <1>7, <1>13, FS_Subset, FS_CardinalityType
    <2>2. QED
      BY <1>1, <1>6, <1>7, <1>10, <2>1 DEF ListingInv
  <1>15. reader'.repeats + Cardinality(Returning') <= reader'.inserted /\ Cardinality(Returning') \in Nat
    <2>1. Returning' \cup (P \cap reader.seen) \subseteq Returning
      <3>1. ASSUME NEW x \in Returning' PROVE x \in Returning
        <4>1. x \in reader.seen \cup P /\ x \in Listed /\ Rank(Listed, x) >= o + l
          BY <1>2, <1>10 DEF Returning
        <4>2. x \notin P /\ Rank(Listed, x) >= o
          BY <1>4, <1>6, <1>12, <4>1
        <4>3. QED
          BY <4>1, <4>2 DEF Returning
      <3>2. ASSUME NEW x \in P \cap reader.seen PROVE x \in Returning
        BY <1>4, <1>6, <1>12 DEF Returning
      <3>3. QED
        BY <3>1, <3>2
    <2>2. Returning' \cap (P \cap reader.seen) = {}
      <3>1. ASSUME NEW x \in Returning' PROVE x \notin P
        <4>1. x \in Listed /\ Rank(Listed, x) >= o + l
          BY <1>2, <1>10 DEF Returning
        <4>2. QED
          BY <1>4, <1>6, <1>12, <4>1
      <3>2. QED
        BY <3>1
    <2>3. IsFiniteSet(Returning') /\ Cardinality(Returning') \in Nat
      BY <1>7, <2>1, FS_Subset, FS_CardinalityType
    <2>4. Cardinality(Returning' \cup (P \cap reader.seen))
            = Cardinality(Returning') + Cardinality(P \cap reader.seen)
      <3>1. Cardinality(Returning' \cup (P \cap reader.seen))
              = Cardinality(Returning') + Cardinality(P \cap reader.seen)
                  - Cardinality(Returning' \cap (P \cap reader.seen))
        BY <1>9, <2>3, FS_Union
      <3>2. Cardinality(Returning' \cup (P \cap reader.seen))
              = Cardinality(Returning') + Cardinality(P \cap reader.seen) - 0
        BY <2>2, <3>1, FS_EmptySet
      <3>3. QED
        BY <1>9, <2>3, <3>2
    <2>5. Cardinality(Returning' \cup (P \cap reader.seen)) <= Cardinality(Returning)
      BY <1>7, <2>1, FS_Subset
    <2>6. reader.repeats + Cardinality(Returning) <= reader.inserted
      BY <1>1 DEF ListingInv
    <2>7. QED
      BY <1>6, <1>7, <1>9, <1>10, <2>3, <2>4, <2>5, <2>6
  <1>16. CASE next = "reading"
    <2>1. list \notin {"keys", "cycles"}
      BY <1>4, <1>5, <1>8, <1>16
    <2>2. QED
      BY <1>2, <1>10, <1>11, <1>14, <1>15, <1>16, <2>1 DEF ListingInv
  <1>17. CASE next = "done"
    <2>1. Missed' \subseteq Skipped'
      <3> SUFFICES ASSUME NEW x \in Missed' PROVE x \in Skipped'
        OBVIOUS
      <3>1. /\ x \in reader'.atStart \cap Listed' /\ x \notin reader'.seen /\ x \in Listed
            /\ (\E y \in reader'.seen : y < x) \/ list # "cycles"
        BY <1>2 DEF Missed
      <3>2. CASE \E y \in reader'.seen : y < x
        BY <3>1, <3>2 DEF Skipped
      <3>3. CASE list # "cycles"
        <4>1. Cardinality(P) # l
          BY <1>5, <1>17, <3>3
        <4>2. ~(Rank(Listed, x) >= o + l)
          BY <1>4, <1>6, <1>7, <3>1, <4>1, PagesAreFull
        <4>3. Rank(Listed, x) < o + l
          BY <1>4, <1>6, <1>12, <3>1, <4>2
        <4>4. QED
          BY <1>2, <1>10, <3>1, <4>3 DEF Skipped
      <3>4. QED
        BY <3>1, <3>2, <3>3
    <2>2. Cardinality(Missed') <= Cardinality(Skipped') /\ Cardinality(Missed') \in Nat
      BY <1>14, <2>1, FS_Subset, FS_CardinalityType
    <2>3. Cardinality(Missed') <= reader'.deleted
      BY <1>6, <1>10, <1>14, <2>2
    <2>4. reader'.repeats <= reader'.inserted
      BY <1>6, <1>9, <1>10, <1>15
    <2>5. ListIsReadOnce'
      BY <2>3, <2>4 DEF ListIsReadOnce, MissedCostDeletions, RepeatsCostInserts
    <2>6. QED
      BY <1>10, <1>11, <1>17, <2>5 DEF ListingInv
  <1>18. QED
    BY <1>5, <1>16, <1>17

\* The invariant always holds.
LEMMA AlwaysListingInv == ListingSpec => []ListingInv
  <1>1. ListingInv /\ [ListingNext]_listingVars => ListingInv'
    BY CommitInsertKeeps, DeleteRowKeeps, StartKeeps, ReadPageKeeps DEF ListingNext
  <1>2. QED
    BY <1>1, InitListingInv, PTL DEF ListingSpec

\* However rows come and go, lists keep their order and readers see only rows
\* that were inserted.
THEOREM ListsAreTyped == ListingSpec => []ListingTypeOK
  <1>1. ListingInv => ListingTypeOK
    BY DEF ListingInv
  <1>2. QED
    BY <1>1, AlwaysListingInv, PTL

\* Whatever limit a merchant asks for and however many rows come and go while
\* he reads, he misses a row only for one that was deleted, and reads one twice
\* only for one that was inserted.
THEOREM ListsAreReadOnce == ListingSpec => []ListIsReadOnce
  <1>1. ASSUME ListingInv PROVE ListIsReadOnce
    <2>1. CASE reader.stage = "idle"
      <3>1. reader.seen = {} /\ reader.repeats = 0 /\ reader.inserted = 0 /\ reader.deleted = 0
        BY <1>1, <2>1 DEF ListingInv, NoReader
      <3>2. Missed = {}
        BY <2>1, <3>1 DEF Missed
      <3>3. QED
        BY <3>1, <3>2, FS_EmptySet DEF ListIsReadOnce, MissedCostDeletions, RepeatsCostInserts
    <2>2. CASE reader.stage = "reading"
      <3>1. Missed \subseteq Skipped
        BY <2>2 DEF Missed, Skipped
      <3>2. /\ reader.seen \subseteq Rows /\ reader.deleted \in Nat /\ reader.repeats \in Nat
            /\ reader.inserted \in Nat
        BY <1>1 DEF ListingInv, ReaderRecords
      <3>3. /\ Cardinality(Missed) <= Cardinality(Skipped) /\ Cardinality(Missed) \in Nat
            /\ Cardinality(Skipped) \in Nat /\ Cardinality(Returning) \in Nat
        BY <3>1, <3>2, ListsAreFinite, FS_Subset
      <3>4. /\ Cardinality(Skipped) <= reader.deleted
            /\ reader.repeats + Cardinality(Returning) <= reader.inserted
        BY <1>1, <2>2 DEF ListingInv
      <3>5. QED
        BY <3>2, <3>3, <3>4 DEF ListIsReadOnce, MissedCostDeletions, RepeatsCostInserts
    <2>3. CASE reader.stage = "done"
      BY <1>1, <2>3 DEF ListingInv
    <2>4. QED
      BY <1>1, <2>1, <2>2, <2>3 DEF ListingInv, ReaderRecords
  <1>2. QED
    BY <1>1, AlwaysListingInv, PTL

-----------------------------------------------------------------------------
(* All services behind one gateway *)

\* Customers come in the storefront only.
VisitorAway == service # "storefront" => visitor = NoVisitor

\* A step of a service does, to the rows of each, what it does alone or nothing.
LEMMA ServicesAreApart ==
  ASSUME VisitorAway, [Next]_vars
  PROVE  /\ VisitorAway'
         /\ [GatewayNext]_gatewayVars /\ [StorefrontNext]_storefrontVars /\ [QuoteNext]_quoteVars
         /\ [ListingNext]_listingVars /\ [RoutesNext]_routesVars
  <1>1. CASE service \in {"auth", "gateway"} /\ (AuthSteps \/ GatewaySteps)
             /\ UNCHANGED <<service, storefrontVars, quoteVars, listingVars, routesVars>>
    BY <1>1 DEF VisitorAway, AuthSteps, GatewaySteps, GatewayNext, callVars, storefrontVars
  <1>2. CASE service \in {"catalog", "sessions", "statistics"} /\ UNCHANGED visitor /\ NoteEdits
             /\ (CatalogSteps \/ SessionSteps \/ StatisticsSteps)
             /\ UNCHANGED <<service, gatewayVars, quoteVars, listingVars, routesVars>>
    <2>1. SessionsNext
      BY <1>2 DEF CatalogSteps, SessionSteps, StatisticsSteps, SessionsNext, buyVars
    <2>2. visitor.stage = "away" /\ visitor' = visitor
      BY <1>2 DEF VisitorAway, NoVisitor
    <2>3. Meanwhile
      BY <1>2, <2>1, <2>2 DEF Meanwhile
    <2>4. QED
      BY <1>2, <2>3 DEF VisitorAway, StorefrontNext
  <1>3. CASE service = "storefront" /\ StorefrontSteps
             /\ UNCHANGED <<service, gatewayVars, quoteVars, listingVars, routesVars>>
    <2>1. StorefrontNext
      BY <1>3 DEF StorefrontSteps
    <2>2. QED
      BY <1>3, <2>1 DEF VisitorAway
  <1>4. CASE UNCHANGED <<service, gatewayVars, storefrontVars>>
             /\ [QuoteNext]_quoteVars /\ [ListingNext]_listingVars /\ [RoutesNext]_routesVars
    BY <1>4 DEF VisitorAway, storefrontVars
  <1>5. RoutesSteps => RoutesNext
    BY DEF RoutesSteps
  <1>6. QED
    BY <1>1, <1>2, <1>3, <1>4, <1>5 DEF Next, vars

\* The services together do, to the rows of each, what it does alone.
LEMMA ServicesAreIndependent ==
  Spec => GatewaySpec /\ SessionsSpec /\ StorefrontSpec /\ ListingSpec /\ RoutesSpec
  <1>1. Init => /\ VisitorAway /\ GatewayInit /\ SessionsInit /\ StorefrontInit /\ RoutesInit
                /\ ListingInit
    BY IdleAssumption DEF Init, VisitorAway, StorefrontInit, ListingInit
  <1>2. Spec => GatewaySpec /\ StorefrontSpec /\ ListingSpec /\ RoutesSpec
    BY <1>1, ServicesAreApart, PTL
    DEF Spec, GatewaySpec, StorefrontSpec, ListingSpec, RoutesSpec
  <1>3. StorefrontSpec => SessionsSpec
    BY AlwaysStorefrontInv, CustomerSteps, PTL DEF StorefrontSpec, SessionsSpec
  <1>4. QED
    BY <1>2, <1>3

\* What is not quoted has its type, too.
LEMMA QuotesAreTyped == Spec => []QuoteTypeOK
  <1>1. Init => VisitorAway /\ QuoteTypeOK
    BY InitQuoteTypes, IdleAssumption, QuoteAssumption
    DEF Init, VisitorAway, StorefrontInit, QuoteTypeOK
  <1>2. QED
    BY <1>1, ServicesAreApart, NextQuoteTypes, PTL DEF Spec

\* Whatever is called, edited, bought, quoted and listed, each service keeps to
\* its types.
THEOREM ServicesAreTyped == Spec => []TypesOK
  BY ServicesAreIndependent, QuotesAreTyped, CallsAreTyped, CatalogIsTyped, SessionsAreTyped,
     VisitsAreTyped, ListsAreTyped, RequestsAreTyped, PTL DEF TypesOK

\* Next to each other the services keep what each of them promises, of access,
\* of effects that happen once, of products, links, quotes, pages and lists.
THEOREM ServicesAreSafe ==
  Spec => [](/\ AccessIsLimited /\ EffectOncePerKey /\ ProductsAreWhole /\ AdmittedWasOpen
             /\ QuoteIsHonored /\ PageIsHonored /\ ListIsReadOnce /\ RepeatsAreHarmless)
  <1>1. QuoteTypeOK => QuoteIsHonored
    BY ConfirmedMeansTolerable, TolerableMeansEnough, ProposedMeansAccepted DEF QuoteIsHonored
  <1>2. QED
    BY <1>1, ServicesAreIndependent, QuotesAreTyped, AccessStaysLimited, OneRunPerHeader,
       ProductsAreComplete, OnlyOpenLinksAdmit, PagesAreHonored, ListsAreReadOnce,
       RepeatsDoNoHarm, PTL
=============================================================================
