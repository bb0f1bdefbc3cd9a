---------------------------- MODULE Performance ----------------------------
(* What an owner is said to have earned in a vault                         *)
(* (packages/core/src/performance.ts over                                   *)
(* packages/database/src/performance.ts and the route of                    *)
(* apps/api/src/app.ts): cash flows taken from completed workflows as they  *)
(* were quoted, positions taken from snapshots, in separate statements.     *)
(*                                                                          *)
(* One owner, one market, one workflow at a time beside moves made outside  *)
(* the platform.  No share rate is stored, so the API passes none.  Amounts *)
(* are multiples a share is worth, so that nothing is lost in rounding.     *)
EXTENDS Integers, Sequences, FiniteSets

CONSTANTS
  ShareRates,        \* what a share may be worth; it only rises
  SupplyAmounts, QuotedFees,
  MaxOwnerMoves,     \* bound on quotes and on moves outside the platform
  MaxObservations    \* bound on the position snapshots

ASSUME PerformanceAssumption ==
  /\ ShareRates \subseteq Nat \ {0} /\ ShareRates # {} /\ SupplyAmounts \subseteq Nat /\ QuotedFees \subseteq Nat
  /\ \A a \in SupplyAmounts, r \in ShareRates : a % r = 0
  /\ {MaxOwnerMoves, MaxObservations} \subseteq Nat

VARIABLES
  shareRate, heldShares,
  pendingMove,       \* the workflow under way, with its quote
  cashFlows,         \* the totals of the cash flows of completed workflows
  observations,      \* position snapshots: a quantity of the supplied asset, or unknown
  truth,             \* what the owner has paid in by workflows and has got out by any way
  answer,            \* the performance shown, or what its first statement has read
  ownerMoves

performanceVars == <<shareRate, heldShares, pendingMove, cashFlows, observations, truth, answer, ownerMoves>>

AtLeast(x, low) == IF x > low THEN x ELSE low
UnknownQuantity == -1
NoMove == [stage |-> "none", action |-> "none", amount |-> 0, shares |-> 0, fee |-> 0]
NoFlows == [deposits |-> 0, withdrawals |-> 0, fees |-> 0]
NoAnswer == [stage |-> "none", cashFlows |-> NoFlows, earned |-> 0, unattributed |-> 0, points |-> <<>>, ahead |-> 0]

PerformanceInit ==
  /\ shareRate = CHOOSE r \in ShareRates : \A s \in ShareRates : r <= s
  /\ heldShares = 0 /\ pendingMove = NoMove /\ cashFlows = NoFlows /\ observations = <<>>
  /\ truth = [paid |-> 0, received |-> 0] /\ answer = NoAnswer /\ ownerMoves = 0

Worth(shares) == shares * shareRate

-----------------------------------------------------------------------------
(* The vault, the owner and the worker. *)

RateRises ==
  /\ \E r \in ShareRates : r > shareRate /\ shareRate' = r
  /\ UNCHANGED <<heldShares, pendingMove, cashFlows, observations, truth, answer, ownerMoves>>

\* A supply is quoted by its input, a withdrawal by what its shares are worth at the time.
QuoteMove ==
  /\ pendingMove = NoMove /\ ownerMoves < MaxOwnerMoves /\ ownerMoves' = ownerMoves + 1
  /\ \E fee \in QuotedFees :
       \/ \E a \in SupplyAmounts :
            pendingMove' = [stage |-> "quoted", action |-> "supply", amount |-> a, shares |-> 0, fee |-> fee]
       \/ \E n \in 1..heldShares :
            pendingMove' = [stage |-> "quoted", action |-> "withdraw_supply", amount |-> Worth(n), shares |-> n, fee |-> fee]
  /\ UNCHANGED <<shareRate, heldShares, cashFlows, observations, truth, answer>>

\* The transaction executes at the rate of its block.
Execute ==
  /\ pendingMove.stage = "quoted" /\ pendingMove' = [pendingMove EXCEPT !.stage = "executed"]
  /\ \/ /\ pendingMove.action = "supply"
        /\ heldShares' = heldShares + pendingMove.amount \div shareRate
        /\ truth' = [truth EXCEPT !.paid = @ + pendingMove.amount]
     \/ /\ pendingMove.action = "withdraw_supply" /\ pendingMove.shares <= heldShares
        /\ heldShares' = heldShares - pendingMove.shares
        /\ truth' = [truth EXCEPT !.received = @ + Worth(pendingMove.shares)]
  /\ UNCHANGED <<shareRate, cashFlows, observations, answer, ownerMoves>>

\* The workflow is COMPLETED: its cash flows are those of its quote.
FlowsWith(move) ==
  [deposits |-> cashFlows.deposits + (IF move.action = "supply" THEN move.amount ELSE 0),
   withdrawals |-> cashFlows.withdrawals + (IF move.action = "withdraw_supply" THEN move.amount ELSE 0),
   fees |-> cashFlows.fees + move.fee]

Complete ==
  /\ pendingMove.stage = "executed"
  /\ cashFlows' = FlowsWith(pendingMove) /\ pendingMove' = NoMove
  /\ UNCHANGED <<shareRate, heldShares, observations, truth, answer, ownerMoves>>

\* The workflow ends otherwise: what it may have paid in then has no cash flow, like a transfer from outside.
EndUncompleted ==
  /\ pendingMove # NoMove /\ pendingMove' = NoMove
  /\ truth' = IF pendingMove.stage = "executed" /\ pendingMove.action = "supply"
              THEN [truth EXCEPT !.paid = @ - pendingMove.amount] ELSE truth
  /\ UNCHANGED <<shareRate, heldShares, cashFlows, observations, answer, ownerMoves>>

\* Shares come from or go to another address, or are redeemed without the platform.
MoveOutside ==
  /\ ownerMoves < MaxOwnerMoves /\ ownerMoves' = ownerMoves + 1
  /\ \/ heldShares' = heldShares + 1 /\ UNCHANGED truth
     \/ /\ heldShares > 0 /\ heldShares' = heldShares - 1
        /\ truth' = [truth EXCEPT !.received = @ + Worth(1)]
  /\ UNCHANGED <<shareRate, pendingMove, cashFlows, observations, answer>>

ObservePosition ==
  /\ Len(observations) < MaxObservations
  /\ \E quantity \in {Worth(heldShares), UnknownQuantity} : observations' = Append(observations, quantity)
  /\ UNCHANGED <<shareRate, heldShares, pendingMove, cashFlows, truth, answer, ownerMoves>>

-----------------------------------------------------------------------------
(* The answer: getEarnPerformanceData, then attributeCashFlowYield. *)

\* Without a share rate there is no appreciation, only what was withdrawn beyond what was deposited, less
\* every fee, whatever asset it was in.
GainsBeyondDeposits(f) ==
  LET over == AtLeast(f.withdrawals - f.deposits, 0) IN AtLeast(over - f.fees, 0)
\* The mutated form: a withdrawal is a gain.
GainsOfWithdrawals(f) == AtLeast(f.withdrawals - f.fees, 0)
RealizedGains(f) == GainsBeyondDeposits(f)

\* The latest snapshot is the position, and an unknown one is taken as zero.
CurrentValue == IF observations = <<>> THEN 0 ELSE AtLeast(observations[Len(observations)], 0)

\* What is held beyond the net deposits, which may be negative.
UnattributedInflow(f) == AtLeast(CurrentValue - (f.deposits - f.withdrawals), 0)

CostBasis(f) == AtLeast(f.deposits - f.withdrawals, 0)

\* buildPerformanceChartSeries: two observations or none, and what each holds beyond the cost basis.
Points(f) ==
  IF Len(observations) < 2 THEN <<>>
  ELSE [i \in DOMAIN observations |-> AtLeast(AtLeast(observations[i], 0) - CostBasis(f), 0)]

ReadCashFlows ==
  /\ answer.stage = "none"
  /\ answer' = [NoAnswer EXCEPT !.stage = "flows", !.cashFlows = cashFlows,
                                !.ahead = truth.received + Worth(heldShares) - truth.paid]
  /\ UNCHANGED <<shareRate, heldShares, pendingMove, cashFlows, observations, truth, ownerMoves>>

ShowPerformance ==
  /\ answer.stage = "flows"
  /\ answer' = [answer EXCEPT !.stage = "shown", !.earned = RealizedGains(answer.cashFlows),
                              !.unattributed = UnattributedInflow(answer.cashFlows), !.points = Points(answer.cashFlows)]
  /\ UNCHANGED <<shareRate, heldShares, pendingMove, cashFlows, observations, truth, ownerMoves>>

\* One answer is followed to its end: what comes after does not change it.
PerformanceNext ==
  /\ answer.stage # "shown"
  /\ \/ RateRises \/ QuoteMove \/ Execute \/ Complete \/ EndUncompleted \/ MoveOutside
     \/ ObservePosition \/ ReadCashFlows \/ ShowPerformance

PerformanceSpec == PerformanceInit /\ [][PerformanceNext]_performanceVars

-----------------------------------------------------------------------------

\* Shares, cash flows, snapshots and the answer keep their types, and nothing is negative.
PerformanceTypeOK ==
  /\ shareRate \in ShareRates /\ heldShares \in Nat /\ ownerMoves \in 0..MaxOwnerMoves
  /\ cashFlows \in [deposits : Nat, withdrawals : Nat, fees : Nat] /\ truth \in [paid : Nat, received : Nat]
  /\ observations \in Seq(Nat \union {UnknownQuantity})
  /\ answer.stage \in {"none", "flows", "shown"} /\ answer.earned \in Nat /\ answer.unattributed \in Nat
  /\ answer.points \in Seq(Nat) /\ Len(answer.points) # 1

\* Nobody is told of a yield that is not there: what is shown as earned is at most what the owner was ahead,
\* got out and still held less what completed or running workflows had paid in, when the cash flows were
\* read, though workflows end without completing, shares move outside the platform and the position is read
\* later (attributeCashFlowYield).
EarnedIsAhead == answer.stage = "shown" => answer.earned <= AtLeast(answer.ahead, 0)
=============================================================================
