------------------------------- MODULE Quote -------------------------------
(***************************************************************************)
(* A session's amount is quoted in its token and paid: the sources of a    *)
(* price are asked in turn, the wallet is proposed a transaction, money    *)
(* arrives and gets deeper, and the pricing rules are asked for the status *)
(* each time; at last the payout worker counts it in base units.  Amounts  *)
(* are in the units of module Pricing.                                     *)
(***************************************************************************)
EXTENDS Pricing

CONSTANTS
  Fiats,       \* amounts in dollars, link price and adjustment, to be quoted
  Responses,   \* what a source of a price may respond
  PriceUnit,   \* what a price of one dollar is answered as
  BaseUnit,    \* the base unit of the token: 100 for 6 decimals
  Tolerances,  \* tolerances, in basis points; the environment may set any
  MaxReceived, \* bound: money received
  Required     \* required_confirmations

ASSUME QuoteAssumption ==
  /\ Fiats \subseteq Int
  /\ \A r \in Responses : r.ok \in BOOLEAN /\ r.index \subseteq Int /\ r.last \subseteq Int
  /\ PriceUnit \in Nat \ {0} /\ BaseUnit \in Nat \ {0}
  /\ Tolerances \subseteq Int
  /\ MaxReceived \in Nat
  /\ Required \in Nat \ {0}

VARIABLES expected, tolerance, received, confirmations

quoteVars == <<expected, tolerance, received, confirmations>>

\* A stable token, one with several sources, one with one and one with none.
Symbols == {"USDC", "HYPE", "ETH", "TON"}
Sources == {"hyperliquid", "bybit linear", "bybit spot", "binance"}

\* hyperliquidMidPrice and binanceTickerPrice: the one price of a response, if
\* its status is good and it has one that is positive.
MidPrice(r) == {price \in r.last : r.ok /\ price > 0}
BinanceTickerPrice(r) == {price \in r.last : r.ok /\ price > 0}

\* bybitTickerPrice prefers the index price, and an index price of zero is no
\* reason to look at the last one.
BybitTickerPrice(r) == {price \in IF r.index # {} THEN r.index ELSE r.last : r.ok /\ price > 0}

\* tokenUSDPrice, firstAvailableTokenUSDPrice: the sources after the first that
\* has a price are not asked, and without one there is no price.
TokenPrice(symbol, answers) ==
  LET mid == MidPrice(answers["hyperliquid"])
      linear == BybitTickerPrice(answers["bybit linear"])
  IN  CASE symbol = "HYPE" /\ mid # {} -> mid
        [] symbol = "HYPE" /\ mid = {} /\ linear # {} -> linear
        [] symbol = "HYPE" /\ mid = {} /\ linear = {} -> BybitTickerPrice(answers["bybit spot"])
        [] symbol = "ETH" -> BinanceTickerPrice(answers["binance"])
        [] OTHER -> {}

IsUSDStableToken(symbol) == symbol = "USDC"

\* settlementAmountForToken: a stable token is a dollar, another one has its
\* price; nothing is quoted without a positive one.
SettlementAmount(fiat, symbol, answers) ==
  IF fiat <= 0 THEN {}
  ELSE IF IsUSDStableToken(symbol) THEN {fiat}
  ELSE {Rounded(fiat * PriceUnit, price) : price \in TokenPrice(symbol, answers)}

QuoteInit ==
  /\ \E fiat \in Fiats, symbol \in Symbols, answers \in [Sources -> Responses] :
       expected \in SettlementAmount(fiat, symbol, answers)
  /\ tolerance \in Tolerances
  /\ received = 0
  /\ confirmations = 0

ReceiveMore ==
  /\ received < MaxReceived
  /\ received' = received + 1
  /\ UNCHANGED <<expected, tolerance, confirmations>>

GetDeeper ==
  /\ confirmations < Required
  /\ confirmations' = confirmations + 1
  /\ UNCHANGED <<expected, tolerance, received>>

QuoteNext == ReceiveMore \/ GetDeeper

QuoteSpec == QuoteInit /\ [][QuoteNext]_quoteVars

Status == ResolveIntentStatus(expected, received, tolerance, confirmations, Required)

\* What browserWalletTransaction proposes to transfer: the amount with as many
\* decimals as the token has, in base units.
Proposed == Rounded(expected, BaseUnit) * BaseUnit

\* decimalToBaseUnits of the payout executor: an amount of nothing, or with more
\* decimals than the token has, is refused.
BaseUnits(amount) == {n \in 1..amount : n * BaseUnit = amount}

-----------------------------------------------------------------------------
(* Properties *)

\* QuoteTypeOK: what is quoted is an amount, depths go up to Required.
QuoteTypeOK ==
  /\ expected \in Nat
  /\ tolerance \in Tolerances
  /\ received \in 0..MaxReceived
  /\ confirmations \in 0..Required

\* Ten thousand times the deviation the tolerance allows.
Allowed == expected * AtLeastZero(tolerance)

\* Only an amount within the tolerance, give or take half a unit of rounding,
\* is confirmed.
ConfirmedIsWithinTolerance ==
  Status = "confirmed" =>
    /\ 10000 * (expected - received) <= Allowed + 5000
    /\ 10000 * (received - expected) <= Allowed + 5000

\* An amount that is within the tolerance before rounding is accepted: it is
\* neither too little nor too much.
WithinToleranceIsAccepted ==
  /\ received > 0
  /\ 10000 * (expected - received) <= Allowed
  /\ 10000 * (received - expected) <= Allowed
  => Status = IF confirmations < Required THEN "awaiting_funds" ELSE "confirmed"

\* Neither more money nor more confirmations make a paid quote unpaid.
PaidIsKept ==
  [][IntentStatusIsPaid(Status) => IntentStatusIsPaid(Status')]_quoteVars

\* A customer who signs what the wallet is proposed has paid, unless the
\* amount is so small that half a base unit is more than the tolerance allows,
\* and what he paid is never refused by the payout worker.
ProposedIsAccepted ==
  Proposed > 0 =>
    /\ 5000 * BaseUnit <= Allowed =>
         ResolveIntentStatus(expected, Proposed, tolerance, Required, Required) = "confirmed"
    /\ BaseUnits(Proposed) # {}

\* Quoting, paying and paying out agree on what is enough.
QuoteIsHonored == ConfirmedIsWithinTolerance /\ WithinToleranceIsAccepted /\ ProposedIsAccepted
=============================================================================
