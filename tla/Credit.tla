------------------------------- MODULE Credit -------------------------------
(* Borrowing against collateral in the isolated market: the arithmetic of    *)
(* core's risk module, and the three places that judge an action by it: the  *)
(* screen's projection, the adapter's quote and the adapter's lifecycle.     *)
(*                                                                           *)
(* A reading is the evidence they share: the position, the two prices, the   *)
(* vault. It is taken at a moment of its own, ages while the user looks at   *)
(* the screen, and is taken again after the settlement.                      *)
EXTENDS Integers

CONSTANTS
  Bps, BorrowLtv, LiquidationLtv, Buffer,   \* the scale of the ratios, and the market's parameters in it
  CollateralUnit, DebtUnit,                 \* 10^decimals of the two assets
  CollateralPrices, DebtPrices,             \* what the oracle may say
  MaxHeld, MaxAmount                        \* bounds on what is held and on what is asked for

ASSUME CreditAssumption ==
  /\ {Bps, CollateralUnit, DebtUnit, BorrowLtv} \subseteq Nat \ {0}
  /\ {Buffer, MaxHeld, MaxAmount} \subseteq Nat
  /\ CollateralPrices \subseteq Nat \ {0} /\ DebtPrices \subseteq Nat \ {0}
  /\ BorrowLtv < LiquidationLtv /\ LiquidationLtv \in 5..(10 * Bps)   \* up to the ratio of a debt without collateral

VARIABLES
  reading,        \* the evidence in hand
  creditQuote,    \* the intent a quote was given for
  sent,           \* the wallet has broadcast it
  settlement,     \* the event found on the chain
  creditShown     \* the lifecycle's state and the next action it asks for

creditVars == <<reading, creditQuote, sent, settlement, creditShown>>

Unknown == -1
WholeDebt == -2   \* the amount "max" of a repayment
NoReading == [oracle |-> "none"]
NoIntent == [action |-> "none", amount |-> 0, add |-> 0]
NoSettlement == [of |-> "none", moved |-> 0, canonical |-> FALSE]
NoLifecycle == [state |-> "none", next |-> "none"]

Intents ==
  [action : {"supply", "withdraw_supply"}, amount : 1..MaxAmount, add : {0}]
  \cup [action : {"borrow"}, amount : 1..MaxAmount, add : 0..1]
  \cup [action : {"repay"}, amount : (1..MaxAmount) \cup {WholeDebt}, add : {0}]

\* debt is what the position snapshot holds, accrued what the protocol would ask for now.
Readings ==
  {r \in [oracle : {"fresh", "disputed", "stale"}, known : BOOLEAN, collateral : 0..MaxHeld, debt : 0..MaxHeld,
          accrued : 0..(MaxHeld + 1), price : CollateralPrices, debtPrice : DebtPrices,
          liquidity : {Unknown, 0, MaxAmount}, paused : BOOLEAN] :
     /\ r.accrued \in {r.debt, r.debt + 1} /\ (r.debt = 0 => r.accrued = 0)
     /\ ~r.known => r.collateral = 0 /\ r.debt = 0}

CreditInit ==
  /\ reading = NoReading /\ creditQuote = NoIntent /\ sent = FALSE
  /\ settlement = NoSettlement /\ creditShown = NoLifecycle

---------------------------------------------------------------------------
(* core: amounts and risk. *)

MulDivDown(value, numerator, denominator) == (value * numerator) \div denominator
MulDivUp(value, numerator, denominator) == (value * numerator + denominator - 1) \div denominator

CollateralUsd(amount, price) == MulDivDown(amount, price, CollateralUnit)
\* The mutated form: the debt is rounded down.
DebtUsdDown(amount, price) == MulDivDown(amount, price, DebtUnit)
DebtUsd(amount, price) == MulDivUp(amount, price, DebtUnit)

\* computeHealth on fresh prices. The ratios of nothing to nothing are sentinels of ten times the scale.
Health(collateral, debt, r) ==
  LET cUsd == CollateralUsd(collateral, r.price)
      dUsd == DebtUsd(debt, r.debtPrice)
      limit == IF BorrowLtv > Buffer THEN BorrowLtv - Buffer ELSE 0
      ltv == IF cUsd = 0 THEN Bps * 10 ELSE MulDivUp(dUsd, Bps, cUsd)
      factor == IF dUsd = 0 THEN Bps * 10 ELSE MulDivDown(cUsd * LiquidationLtv, 1, dUsd)
  IN  [collateralUsd |-> cUsd, debtUsd |-> dUsd, ltv |-> ltv, factor |-> factor,
       maxBorrow |-> MulDivDown(MulDivDown(cUsd, limit, Bps), DebtUnit, r.debtPrice),
       healthy |-> factor >= Bps /\ ltv <= BorrowLtv,
       withinBuffer |-> dUsd = 0 \/ ltv <= limit]

AtLeastZero(n) == IF n < 0 THEN 0 ELSE n

CollateralDelta(intent) ==
  CASE intent.action = "supply" -> intent.amount
    [] intent.action = "withdraw_supply" -> -intent.amount
    [] OTHER -> intent.add

DebtDelta(intent) ==
  CASE intent.action = "borrow" -> intent.amount
    [] intent.action = "repay" -> -intent.amount
    [] OTHER -> 0

ProjectedHealth(intent, debt, r) ==
  Health(AtLeastZero(r.collateral + CollateralDelta(intent)), AtLeastZero(debt + DebtDelta(intent)), r)

\* settleRepayAmount: nothing to repay, or more than is owed, settles to Unknown.
SettleRepay(requested, debt) ==
  IF debt <= 0 THEN Unknown
  ELSE IF requested = WholeDebt THEN debt
  ELSE IF requested > debt THEN Unknown
  ELSE requested

Settled(intent, debt) ==
  IF intent.action = "repay" THEN [intent EXCEPT !.amount = SettleRepay(intent.amount, debt)] ELSE intent

---------------------------------------------------------------------------
(* riskReport: what the risk screen says of a position and offers for it. *)

Liquidatable(h) == h.debtUsd > 0 /\ h.ltv >= LiquidationLtv

ProtectiveActions(h, r, requested) ==
  {"supply", "repay"}
  \cup IF h.healthy THEN {"withdraw_supply"} ELSE {}
  \cup IF h.healthy /\ ~r.paused /\ (r.liquidity # Unknown /\ requested <= r.liquidity) THEN {"borrow"} ELSE {}

\* What the position would be if the collateral's price fell and everything else held still. Nothing is
\* worked out from prices that are stale or disputed, or for a position that could not be read.
Shifts == {-((Bps * tenths) \div 10) : tenths \in {1, 2, 3, 5}}
ShiftedPrice(price, shift) == (price * (Bps + shift)) \div Bps
Stressed(r, shift) == Health(r.collateral, r.debt, [r EXCEPT !.price = ShiftedPrice(@, shift)])
WouldLiquidate(r, shift) == r.oracle = "fresh" /\ r.known /\ Stressed(r, shift).ltv >= LiquidationLtv

\* checkAlertTrigger once the user has switched it on, with the threshold it starts from: a health factor
\* below five quarters, or prices that cannot be used.
AlertTriggered(r) ==
  LET h == Health(r.collateral, r.debt, r)
  IN  r.oracle # "fresh" \/ (h.debtUsd > 0 /\ h.factor * 4 < Bps * 5)

---------------------------------------------------------------------------
(* Evidence. *)

\* A load, or a reload: what was shown is gone until it is worked out from the new evidence.
ReadMarketRisk ==
  /\ reading = NoReading
  /\ \E r \in Readings : reading' = r
  /\ creditShown' = NoLifecycle
  /\ UNCHANGED <<creditQuote, sent, settlement>>

\* The user waits: the prices grow older than the three minutes they are good for.
OracleAges ==
  /\ reading # NoReading /\ reading.oracle \in {"fresh", "disputed"}
  /\ reading' = [reading EXCEPT !.oracle = "aged"]
  /\ UNCHANGED <<creditQuote, sent, settlement, creditShown>>

---------------------------------------------------------------------------
(* projectBorrow: what blocks the screen's button. *)

ScreenAllows(intent, r) ==
  LET i == Settled(intent, r.debt)
  IN  /\ r.oracle = "fresh" /\ r.known
      /\ i.amount > 0
      /\ intent.action = "borrow" /\ r.liquidity # Unknown => i.amount <= r.liquidity
      /\ r.collateral + CollateralDelta(i) >= 0
      /\ ProjectedHealth(i, r.debt, r).healthy

\* quoteSafety: what the quote's own snapshots say once there is one.
QuoteSafety(intent, r) == ~r.paused /\ (intent.action = "borrow" => r.liquidity # Unknown)

---------------------------------------------------------------------------
(* quoteCredit and the plan built with it. *)

\* The mutated form: no action is quoted from an unhealthy position.
HealthBlocksAll(intent, h) == ~h.healthy
HealthBlocks(intent, h) == intent.action \in {"borrow", "withdraw_supply"} /\ ~h.healthy

Quotable(intent, r) ==
  LET i == Settled(intent, r.debt)
      h == ProjectedHealth(i, r.debt, r)
  IN  /\ r.oracle = "fresh"                       \* the API refuses a dispute, the adapter a stale price
      /\ r.known \/ intent.action = "supply"
      /\ i.amount > 0
      /\ ~HealthBlocks(i, h)
      /\ i.action = "borrow" =>
           /\ ~r.paused
           /\ r.collateral + i.add > 0
           /\ r.debt + i.amount <= h.maxBorrow
           /\ r.liquidity # Unknown => i.amount <= r.liquidity

QuoteCredit(intent) ==
  /\ reading # NoReading /\ creditQuote = NoIntent /\ Quotable(intent, reading)
  /\ creditQuote' = intent
  /\ UNCHANGED <<reading, sent, settlement, creditShown>>

SignCredit ==
  /\ creditQuote # NoIntent /\ ~sent /\ reading # NoReading
  /\ ScreenAllows(creditQuote, reading) /\ QuoteSafety(creditQuote, reading)
  /\ sent' = TRUE
  /\ UNCHANGED <<reading, creditQuote, settlement, creditShown>>

DiscardQuote ==
  /\ creditQuote # NoIntent /\ ~sent /\ creditQuote' = NoIntent /\ creditShown' = NoLifecycle
  /\ reading' = NoReading
  /\ UNCHANGED <<sent, settlement>>

\* The market's event, which may name another amount when the debt has grown; a fork takes it back.
SettlementSeen ==
  /\ sent
  /\ \/ /\ settlement = NoSettlement
        /\ \E moved \in 1..MaxAmount :
             settlement' = [of |-> creditQuote.action, moved |-> moved, canonical |-> FALSE]
     \/ settlement # NoSettlement /\ settlement' = [settlement EXCEPT !.canonical = ~@]
  /\ UNCHANGED <<reading, creditQuote, sent, creditShown>>

---------------------------------------------------------------------------
(* evaluateGraniteCredit, in the order of its returns. It measures health    *)
(* against the accrued debt and the cap against the debt of the snapshot.    *)

BorrowBlocked(i, r, h) ==
  \/ r.collateral + i.add <= 0
  \/ ~h.healthy \/ r.debt + i.amount > h.maxBorrow

CreditState(intent, r) ==
  LET i == Settled(intent, r.accrued)
      h == ProjectedHealth(i, r.accrued, r)
  IN  IF r.oracle = "stale" \/ ~r.known THEN "unavailable"
      ELSE IF i.amount = Unknown THEN "health_blocked"
      ELSE IF r.oracle = "aged" THEN "oracle_stale"
      ELSE IF i.action = "borrow" /\ r.paused THEN "paused"
      ELSE IF i.action = "borrow" /\ r.liquidity # Unknown /\ i.amount > r.liquidity THEN "liquidity_blocked"
      ELSE IF i.action = "borrow" /\ BorrowBlocked(i, r, h) THEN "health_blocked"
      ELSE IF i.action = "withdraw_supply" /\ ~h.healthy THEN "health_blocked"
      ELSE IF settlement = NoSettlement THEN (IF sent THEN "submitted" ELSE "awaiting_signature")
      ELSE IF ~settlement.canonical THEN "confirming"
      ELSE IF settlement.moved # i.amount THEN "reconciliation_failed"
      ELSE "reconciled"

NextActionOf(state) ==
  CASE state = "awaiting_signature" -> "SIGN"
    [] state \in {"submitted", "confirming"} -> "WAIT"
    [] state = "reconciliation_failed" -> "CONTACT_SUPPORT"
    [] state = "reconciled" -> "COMPLETE"
    [] OTHER -> "UNAVAILABLE"

\* The evidence is passed in and not kept.
EvaluateGraniteCredit ==
  /\ creditQuote # NoIntent /\ reading # NoReading
  /\ LET state == CreditState(creditQuote, reading) IN creditShown' = [state |-> state, next |-> NextActionOf(state)]
  /\ reading' = NoReading
  /\ UNCHANGED <<creditQuote, sent, settlement>>

CreditNext ==
  \/ ReadMarketRisk \/ OracleAges \/ \E intent \in Intents : QuoteCredit(intent)
  \/ SignCredit \/ DiscardQuote \/ SettlementSeen \/ EvaluateGraniteCredit

CreditSpec == CreditInit /\ [][CreditNext]_creditVars

---------------------------------------------------------------------------
(* Properties *)

CreditTypeOK ==
  /\ reading = NoReading \/ reading.oracle \in {"fresh", "disputed", "stale", "aged"}
  /\ creditQuote \in Intents \cup {NoIntent} /\ sent \in BOOLEAN
  /\ creditShown.next \in {"none", "SIGN", "WAIT", "CONTACT_SUPPORT", "COMPLETE", "UNAVAILABLE"}

\* What the action leaves, in exact arithmetic: debt at its price over collateral at its price, against a
\* ratio, cross-multiplied so that nothing is rounded.
ExactlyWithin(collateral, debt, r, ratio) ==
  debt * r.debtPrice * CollateralUnit * Bps <= ratio * collateral * r.price * DebtUnit

SafeAfter(intent, debt, r) ==
  LET i == Settled(intent, debt)
      collateral == r.collateral + CollateralDelta(i)
      left == debt + DebtDelta(i)
  IN  /\ i.action \in {"borrow", "withdraw_supply"} =>
            collateral >= 0 /\ ExactlyWithin(collateral, left, r, BorrowLtv) /\ ~Liquidatable(ProjectedHealth(i, debt, r))
      /\ i.action = "repay" => left >= 0

\* Neither gate lets a borrow or a withdrawal through that leaves the position above the borrow limit in
\* exact arithmetic, or liquidatable, or a repayment above the debt: every rounding of usdNotional, of the
\* ratios and of the cap is against the borrower. Besides, what the adapter quotes for a borrow or a
\* withdrawal the screen does not block on the same reading.
SafeToSign ==
  [][/\ creditQuote' # creditQuote /\ creditQuote' # NoIntent =>
          /\ SafeAfter(creditQuote', reading.debt, reading)
          /\ creditQuote'.action \in {"borrow", "withdraw_supply"} /\ creditQuote'.add = 0 =>
               ScreenAllows(creditQuote', reading)
     /\ creditShown'.next = "SIGN" /\ creditShown # creditShown' =>
          SafeAfter(creditQuote, reading.accrued, reading)]_creditVars

\* A position in trouble is shown as such and offered the way out. On fresh prices and a known position:
\* what the risk report lists as protective (repaying what is owed, adding collateral) is quoted, whatever
\* the health; a position past the threshold raises the alert and fails every scenario of a fall; and no
\* rounding of price or ratio hides a fall that liquidates in exact arithmetic.
TroubleIsAnswered ==
  reading # NoReading /\ reading.oracle = "fresh" /\ reading.known =>
    LET now == Health(reading.collateral, reading.debt, reading)
    IN  /\ \A intent \in Intents :
             (/\ intent.action \in ProtectiveActions(now, reading, intent.amount)
              /\ intent.action \in {"supply", "repay"}
              /\ intent.action = "repay" => SettleRepay(intent.amount, reading.debt) # Unknown)
             => Quotable(intent, reading)
        /\ Liquidatable(now) => AlertTriggered(reading)
        /\ \A shift \in Shifts :
             LET moved == ShiftedPrice(reading.price, shift)
             IN  \/ Liquidatable(now)
                 \/ /\ reading.debt > 0
                    /\ reading.debt * reading.debtPrice * CollateralUnit * Bps
                         >= LiquidationLtv * reading.collateral * moved * DebtUnit
                 => WouldLiquidate(reading, shift)
=============================================================================
