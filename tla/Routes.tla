-------------------------------- MODULE Routes --------------------------------
(***************************************************************************)
(* The two adapters whose answer is a market's rate: Zest supply and redeem *)
(* (adapters/src/zest/earn.ts, earnLifecycle.ts) and the Bitflow swap       *)
(* (adapters/src/bitflow/swap.ts, swapLifecycle.ts).                        *)
(*                                                                          *)
(* A trade is quoted, planned, possibly planned again by POST /v1/plans     *)
(* from fresh reads and another intent, signed, executed by the chain at    *)
(* the rate of that moment, possibly forked out and executed again, and     *)
(* judged by the lifecycle at any time. Everything the rate depends on      *)
(* moves in between.                                                        *)
(***************************************************************************)
EXTENDS Integers

CONSTANTS Trades,        \* subset of "supply", "withdraw_supply", "swap"
          TradeAmounts, VaultRates, PoolPrices, Slippages,
          RouteBps,      \* basis points in a whole
          MaxSlippage,   \* MAX_SLIPPAGE_BPS
          VaultCap, RouteLife, TradeLife,
          MaxRouteTime, MaxRouteMoves, MaxReplans, MaxRouteForks  \* bounds

ASSUME RoutesAssumption ==
    /\ TradeAmounts \subseteq Nat \ {0} /\ PoolPrices \subseteq Nat \ {0}
    /\ VaultRates \subseteq (Nat \ {0}) \X (Nat \ {0})
    /\ Trades \subseteq {"supply", "withdraw_supply", "swap"} /\ RouteBps # 0
    /\ {RouteBps, MaxSlippage, VaultCap, RouteLife, TradeLife} \subseteq Nat /\ Slippages \subseteq Nat
    /\ {MaxRouteTime, MaxRouteMoves, MaxReplans, MaxRouteForks} \subseteq Nat

VARIABLES vault,      \* rate (shares over assets), totalAssets, the two pauses
          poolPrice,  \* what the pool gives for a unit now
          route,      \* the swap snapshot the reads hold
          routeTime, routeMoves, replans, routeForks,
          tradeQuote, tradePlan,
          signedTrade,\* the plan the wallet has broadcast
          tradeKnown, \* the API has its report (broadcastKnown)
          fill,       \* the settlement the chain has, canonical or not
          lifecycle   \* what the last evaluation answered

routeVars == <<vault, poolPrice, route, routeTime, routeMoves, replans, routeForks, tradeQuote,
               tradePlan, signedTrade, tradeKnown, fill, lifecycle>>
marketVars == <<vault, poolPrice, route, routeTime, routeMoves>>

NoTrade == [action |-> "none", paid |-> 0, out |-> 0, minimum |-> 0, expires |-> 0]
NoTradePlan == [action |-> "none", amount |-> 0, minOut |-> 0, sendAtMost |-> 0, receiveAtLeast |-> 0]
NoFill == [state |-> "none", paid |-> 0, out |-> 0]
Judged(state, next) == [state |-> state, next |-> next, complete |-> state = "reconciled"]

MulDiv(value, numerator, denominator) == (value * numerator) \div denominator
SharesForAssets(assets) == MulDiv(assets, vault.rate[1], vault.rate[2])
AssetsForShares(shares) == MulDiv(shares, vault.rate[2], vault.rate[1])
MinOutFromSpot(out, slippage) == MulDiv(out, RouteBps - slippage, RouteBps)

RoutesInit ==
    /\ vault = [rate |-> <<1, 1>>, total |-> 0, pausedDeposit |-> FALSE, pausedRedeem |-> FALSE]
    /\ poolPrice = 2 /\ route = [amountIn |-> 0, out |-> 0, at |-> 0]
    /\ routeTime = 0 /\ routeMoves = 0 /\ replans = 0 /\ routeForks = 0
    /\ tradeQuote = NoTrade /\ tradePlan = NoTradePlan /\ signedTrade = NoTradePlan
    /\ tradeKnown = FALSE /\ fill = NoFill /\ lifecycle = Judged("none", "WAIT")

---------------------------------------------------------------------------
(* The market *)

MarketMoves ==
    /\ routeMoves < MaxRouteMoves /\ routeMoves' = routeMoves + 1
    /\ \/ \E rate \in VaultRates : vault' = [vault EXCEPT !.rate = rate] /\ UNCHANGED poolPrice
       \/ \E a \in TradeAmounts : vault' = [vault EXCEPT !.total = @ + a] /\ UNCHANGED poolPrice
       \/ vault' = [vault EXCEPT !.pausedDeposit = ~@] /\ UNCHANGED poolPrice
       \/ vault' = [vault EXCEPT !.pausedRedeem = ~@] /\ UNCHANGED poolPrice
       \/ poolPrice' \in PoolPrices /\ UNCHANGED vault
    /\ UNCHANGED <<route, routeTime, replans, routeForks, tradeQuote, tradePlan, signedTrade, tradeKnown, fill, lifecycle>>

RouteIsObserved == \E a \in TradeAmounts :
    /\ route' = [amountIn |-> a, out |-> a * poolPrice, at |-> routeTime]
    /\ UNCHANGED <<vault, poolPrice, routeTime, routeMoves, replans, routeForks, tradeQuote, tradePlan,
                   signedTrade, tradeKnown, fill, lifecycle>>

RouteTick == /\ routeTime < MaxRouteTime /\ routeTime' = routeTime + 1
             /\ UNCHANGED <<vault, poolPrice, route, routeMoves, replans, routeForks, tradeQuote, tradePlan,
                            signedTrade, tradeKnown, fill, lifecycle>>

---------------------------------------------------------------------------
(* Quote and plan *)

RouteFresh == routeTime - route.at <= RouteLife

\* assertRoute: the snapshot is fresh and for this amount; the floor is the slippage's, never below the maximum's.
RouteServes(amount, slippage) ==
    /\ RouteFresh /\ route.amountIn = amount /\ slippage \in 0..MaxSlippage
    /\ MinOutFromSpot(route.out, slippage) > 0

VaultServes(action, amount) ==
    IF action = "supply" THEN ~vault.pausedDeposit /\ vault.total + amount <= VaultCap ELSE ~vault.pausedRedeem

Preview(action, amount) ==
    CASE action = "supply" -> SharesForAssets(amount)
      [] action = "withdraw_supply" -> AssetsForShares(amount)
      [] OTHER -> route.out

Quoted(action, amount, slippage) ==
    [action |-> action, paid |-> amount, out |-> Preview(action, amount),
     minimum |-> IF action = "swap" THEN MinOutFromSpot(route.out, slippage) ELSE Preview(action, amount),
     expires |-> routeTime + TradeLife]

\* The floor passed to the contract: the vault's is the quote's, the router's is computed from the route now.
ContractFloor(q, slippage) == IF q.action = "swap" THEN MinOutFromSpot(route.out, slippage) ELSE q.minimum

\* The mutated form: the swap's plan does not say what must be received.
ReceiveAtLeastNothing(q) == 0

\* Only the swap's plan has a receive condition, with the quote's minimum.
ReceiveAtLeast(q) == IF q.action = "swap" THEN q.minimum ELSE 0

\* buildEarnPlan, buildSwapPlan: the amount is the intent's, the send condition the quote's.
PlanOf(q, amount, slippage) ==
    [action |-> q.action, amount |-> amount, minOut |-> ContractFloor(q, slippage),
     sendAtMost |-> q.paid, receiveAtLeast |-> ReceiveAtLeast(q)]

\* quoteAndPlan: quote and plan from one set of reads.
QuoteAndPlan == \E action \in Trades, amount \in TradeAmounts, slippage \in Slippages :
    /\ tradeQuote = NoTrade
    /\ IF action = "swap" THEN RouteServes(amount, slippage) ELSE VaultServes(action, amount)
    /\ tradeQuote' = Quoted(action, amount, slippage)
    /\ tradePlan' = PlanOf(tradeQuote', amount, slippage)
    /\ UNCHANGED <<marketVars, replans, routeForks, signedTrade, tradeKnown, fill, lifecycle>>

\* POST /v1/plans: the caller brings the quote and an intent of its own; the reads are new. The vault's
\* pause and cap are not looked at again, the swap's route is.
MintPlan == \E amount \in TradeAmounts, slippage \in Slippages :
    /\ tradeQuote # NoTrade /\ signedTrade = NoTradePlan /\ replans < MaxReplans /\ replans' = replans + 1
    /\ tradeQuote.action = "swap" => RouteServes(amount, slippage)
    /\ tradePlan' = PlanOf(tradeQuote, amount, slippage)
    /\ UNCHANGED <<marketVars, routeForks, tradeQuote, signedTrade, tradeKnown, fill, lifecycle>>

---------------------------------------------------------------------------
(* Signature and chain *)

SignTrade == /\ tradePlan # NoTradePlan /\ signedTrade = NoTradePlan
             /\ routeTime < tradeQuote.expires
             /\ signedTrade' = tradePlan /\ tradeKnown' \in BOOLEAN
             /\ UNCHANGED <<marketVars, replans, routeForks, tradeQuote, tradePlan, fill, lifecycle>>

Yields(p) == CASE p.action = "supply" -> SharesForAssets(p.amount)
               [] p.action = "withdraw_supply" -> AssetsForShares(p.amount)
               [] OTHER -> p.amount * poolPrice

\* The contract refuses below its floor, deny mode refuses what the conditions do not allow.
ChainAccepts(p) ==
    /\ p.action = "swap" \/ VaultServes(p.action, p.amount)
    /\ Yields(p) >= p.minOut
    /\ p.amount <= p.sendAtMost /\ Yields(p) >= p.receiveAtLeast

ChainExecutes ==
    /\ signedTrade # NoTradePlan /\ fill.state \in {"none", "forked"}
    /\ fill' = IF ChainAccepts(signedTrade)
               THEN [state |-> "canonical", paid |-> signedTrade.amount, out |-> Yields(signedTrade)]
               ELSE [NoFill EXCEPT !.state = "aborted"]
    /\ vault' = IF fill'.state = "canonical" /\ signedTrade.action = "supply"
                THEN [vault EXCEPT !.total = @ + signedTrade.amount] ELSE vault
    /\ UNCHANGED <<poolPrice, route, routeTime, routeMoves, replans, routeForks, tradeQuote, tradePlan, signedTrade,
                   tradeKnown, lifecycle>>

ChainForks ==
    /\ fill.state = "canonical" /\ routeForks < MaxRouteForks /\ routeForks' = routeForks + 1
    /\ fill' = [fill EXCEPT !.state = "forked"]
    /\ vault' = IF signedTrade.action = "supply" THEN [vault EXCEPT !.total = @ - signedTrade.amount] ELSE vault
    /\ UNCHANGED <<poolPrice, route, routeTime, routeMoves, replans, tradeQuote, tradePlan, signedTrade, tradeKnown,
                   lifecycle>>

---------------------------------------------------------------------------
(* evaluateZestEarn, evaluateBitflowSwap *)

Settlement == fill.state \in {"canonical", "forked"}

Unsettled == IF tradeKnown THEN Judged("submitted", "WAIT") ELSE Judged("awaiting_signature", "SIGN")

\* The market is judged before the settlement: a pause, or a cap the supply itself has filled, hides it.
ZestBlocked ==
    IF tradeQuote.action = "supply" THEN vault.pausedDeposit \/ vault.total + tradeQuote.paid > VaultCap
    ELSE vault.pausedRedeem

\* A supply must have minted what the rate of now previews; a redemption only needs its minimum.
ZestMatches ==
    /\ fill.paid = tradeQuote.paid
    /\ IF tradeQuote.action = "supply" THEN fill.out = SharesForAssets(tradeQuote.paid)
       ELSE fill.out >= tradeQuote.minimum

EvaluateZestEarn ==
    /\ tradeQuote.action \in {"supply", "withdraw_supply"}
    /\ lifecycle' =
         IF ZestBlocked THEN Judged("blocked", "UNAVAILABLE")
         ELSE IF ~Settlement THEN Unsettled
         ELSE IF fill.state = "forked" THEN Judged("confirming", "WAIT")
         ELSE IF ZestMatches THEN Judged("reconciled", "COMPLETE")
         ELSE Judged("reconciliation_failed", "CONTACT_SUPPORT")
    /\ UNCHANGED <<marketVars, replans, routeForks, tradeQuote, tradePlan, signedTrade, tradeKnown, fill>>

\* assertBitflowRoute, also after the swap has settled: the snapshot is fresh, the quote has not expired,
\* the route is for the amount and still gives the minimum.
BitflowRouteStands ==
    /\ RouteFresh /\ routeTime <= tradeQuote.expires
    /\ route.amountIn = tradeQuote.paid /\ route.out >= tradeQuote.minimum

BitflowMatches == fill.paid = tradeQuote.paid /\ fill.out >= tradeQuote.minimum

EvaluateBitflowSwap ==
    /\ tradeQuote.action = "swap"
    /\ lifecycle' =
         IF ~BitflowRouteStands THEN Judged("route_changed", "REQUOTE")
         ELSE IF ~Settlement THEN Unsettled
         ELSE IF fill.state = "forked" THEN Judged("confirming", "WAIT")
         ELSE IF BitflowMatches THEN Judged("reconciled", "COMPLETE")
         ELSE Judged("reconciliation_failed", "CONTACT_SUPPORT")
    /\ UNCHANGED <<marketVars, replans, routeForks, tradeQuote, tradePlan, signedTrade, tradeKnown, fill>>

RoutesNext ==
    \/ MarketMoves \/ RouteIsObserved \/ RouteTick
    \/ QuoteAndPlan \/ MintPlan
    \/ SignTrade \/ ChainExecutes \/ ChainForks
    \/ EvaluateZestEarn \/ EvaluateBitflowSwap

RoutesSpec == RoutesInit /\ [][RoutesNext]_routeVars

---------------------------------------------------------------------------
\* Amounts are natural numbers and counters stay within their bounds.
RoutesTypeOK ==
    /\ vault.total \in Nat /\ vault.rate \in VaultRates \cup {<<1, 1>>}
    /\ {tradeQuote.paid, tradeQuote.minimum, tradePlan.amount, fill.paid, fill.out} \subseteq Nat
    /\ routeTime \in 0..MaxRouteTime /\ routeMoves \in 0..MaxRouteMoves
    /\ replans \in 0..MaxReplans /\ routeForks \in 0..MaxRouteForks
    /\ fill.state \in {"none", "canonical", "forked", "aborted"}

\* Whatever moved between the quote, the plan, the signature and the block, the chain never takes more
\* than the quote's input nor gives less than the minimum it showed ("min-out is enforced onchain",
\* swap.ts explainRisk); and an evaluation that says complete saw a canonical settlement of the whole input.
FloorKept ==
    /\ [](fill.state = "canonical" => fill.paid <= tradeQuote.paid /\ fill.out >= tradeQuote.minimum)
    /\ [][lifecycle' # lifecycle /\ lifecycle'.complete =>
             fill.state = "canonical" /\ fill.paid = tradeQuote.paid]_routeVars

=============================================================================
