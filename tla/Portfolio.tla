------------------------------ MODULE Portfolio ------------------------------
(***************************************************************************)
(* The portfolio of one address: what the observer writes about it         *)
(* (apps/worker/src/owners.ts, positions.ts, prices.ts), the latest rows    *)
(* the API reads (packages/database/src/positions.ts) and the accounting    *)
(* and valuation of GET /v1/portfolio (apps/api/src/app.ts,                *)
(* packages/core/src/accounting.ts, valuation.ts).                         *)
(*                                                                         *)
(* The address holds sBTC and USDC, shares of an earn vault (the receipt    *)
(* token in its wallet is those shares) and a USDC loan. Rows are           *)
(* overwritten one by one, each at the moment it is read, and the four      *)
(* queries of a request are four separate reads. `transfers` numbers  *)
(* the states of the address; a row keeps in `seen` the number it was read at. *)
(***************************************************************************)
EXTENDS Integers, FiniteSets, FiniteSetsExt, Sequences

CONSTANTS ShareWorth,       \* sBTC units one vault share is worth
          PriceUnit,        \* 10 ^ decimals: units of an asset in the quoted unit
          PriceSources,     \* independent oracles
          FeedPrices,       \* prices an oracle publishes
          MaxSpreadPercent, \* disagreement the quorum tolerates
          MaxMoves,         \* bound: transfers of the address
          MaxWrites         \* bound: rows written and market changes

ASSUME PortfolioAssumption ==
    /\ {ShareWorth, PriceUnit} \cup FeedPrices \subseteq Nat \ {0} /\ FeedPrices # {}
    /\ {MaxSpreadPercent, MaxMoves, MaxWrites} \subseteq Nat

FirstSource == CHOOSE source \in PriceSources : TRUE

VARIABLES stocks,      \* what the address really holds and owes
          transfers,   \* how many transfers were made so far
          changed,     \* the move that last changed each stock
          positionRows, balanceRows, feedRows, \* the latest rows of each table
          listed,      \* the vault market has a capability that is not disabled
          view,        \* what the request in progress has read
          writes

portfolioVars == <<stocks, transfers, changed, positionRows, balanceRows, feedRows, listed, view, writes>>

NotKnown == -1   \* a null quantity or price; a known one is never negative
Absent == [quantity |-> NotKnown, seen |-> -1]

Tokens == {"sbtc", "usdc", "receipt"}
Feeds == {"BTC/USD", "sBTC/USD", "USDC/USD"}
VaultPosition == [market |-> "vault", kind |-> "supplied", asset |-> "sbtc"]
VaultInShares == [VaultPosition EXCEPT !.asset = "receipt"]
PoolPosition == [market |-> "pool", kind |-> "supplied", asset |-> "sbtc"]
LoanPosition == [market |-> "pool", kind |-> "debt", asset |-> "usdc"]
PositionKeys == {VaultPosition, VaultInShares, PoolPosition, LoanPosition}

Queries == {"positions", "balances", "markets", "prices"}
Unread == [q \in {} |-> 0]

\* The tables as one earlier pass over the same address left them.
PortfolioInit ==
    /\ stocks = [sbtc |-> ShareWorth, usdc |-> 1, shares |-> 1, loan |-> 1]
    /\ transfers = 0
    /\ changed = [stock \in DOMAIN stocks |-> 0]
    /\ positionRows = [key \in PositionKeys |->
                        CASE key = VaultPosition -> [quantity |-> ShareWorth, seen |-> 0]
                          [] key = LoanPosition -> [quantity |-> 1, seen |-> 0]
                          [] OTHER -> Absent]
    /\ balanceRows = [token \in Tokens |->
                        [quantity |-> IF token = "sbtc" THEN ShareWorth ELSE 1, seen |-> 0]]
    /\ feedRows = [feed \in Feeds |->
                     IF feed = "sBTC/USD" THEN [source \in {} |-> 0]
                     ELSE [source \in {FirstSource} |-> [price |-> Min(FeedPrices), stale |-> FALSE]]]
    /\ listed = TRUE
    /\ view = Unread
    /\ writes = 0

---------------------------------------------------------------------------
(* The address *)

Transfer(new) ==
    /\ transfers < MaxMoves
    /\ \A s \in DOMAIN new : new[s] >= 0
    /\ stocks' = new
    /\ transfers' = transfers + 1
    /\ changed' = [s \in DOMAIN stocks |-> IF new[s] = stocks[s] THEN changed[s] ELSE transfers + 1]
    /\ UNCHANGED <<positionRows, balanceRows, feedRows, listed, view, writes>>

SupplyOrRedeem == \E n \in {-1, 1} :
    Transfer([stocks EXCEPT !.sbtc = @ - n * ShareWorth, !.shares = @ + n])
BorrowOrRepay == \E n \in {-1, 1} : Transfer([stocks EXCEPT !.usdc = @ + n, !.loan = @ + n])

---------------------------------------------------------------------------
(* The writers of the tables *)

Writing == writes < MaxWrites /\ writes' = writes + 1

InsertPosition(key, quantity) ==
    /\ Writing
    /\ positionRows' = [positionRows EXCEPT ![key] = [quantity |-> quantity, seen |-> transfers]]
    /\ UNCHANGED <<stocks, transfers, changed, balanceRows, feedRows, listed, view>>

\* The vault is asked for the shares and then for their worth; either read can fail. Without the
\* worth the row is kept in shares, under the receipt asset, which is another key of the table.
ProjectVault ==
    /\ listed
    /\ \/ InsertPosition(VaultPosition, stocks.shares * ShareWorth)
       \/ InsertPosition(VaultInShares, stocks.shares)
       \/ InsertPosition(VaultPosition, NotKnown)

\* No read per address exists for a market that is not a vault: unknown, never zero.
ProjectPool == InsertPosition(PoolPosition, NotKnown)

\* Debt rows and wallet balances come from writers outside the worker.
LoanIsRecorded == \E quantity \in {stocks.loan, NotKnown} : InsertPosition(LoanPosition, quantity)

WalletBalance(token) == IF token = "receipt" THEN stocks.shares ELSE stocks[token]

BalanceIsRecorded == \E token \in Tokens : \E quantity \in {WalletBalance(token), NotKnown} :
    /\ Writing
    /\ balanceRows' = [balanceRows EXCEPT ![token] = [quantity |-> quantity, seen |-> transfers]]
    /\ UNCHANGED <<stocks, transfers, changed, positionRows, feedRows, listed, view>>

\* A reading that is unknown, or published too long ago, is stored as stale.
InsertPrice == \E feed \in Feeds, source \in PriceSources :
    \E row \in [price : FeedPrices, stale : {FALSE}] \cup [price : {NotKnown}, stale : {TRUE}] :
        /\ Writing
        /\ feedRows' = [feedRows EXCEPT ![feed] =
                           [s \in DOMAIN @ \cup {source} |-> IF s = source THEN row ELSE @[s]]]
        /\ UNCHANGED <<stocks, transfers, changed, positionRows, balanceRows, listed, view>>

CapabilityOfVault == /\ Writing
                     /\ listed' = ~listed
                     /\ UNCHANGED <<stocks, transfers, changed, positionRows, balanceRows, feedRows, view>>

---------------------------------------------------------------------------
(* Prices: readings of one feed are agreed or withheld *)

Usable(rows) == {source \in DOMAIN rows : ~rows[source].stale /\ rows[source].price > 0}
UsablePrices(rows) == {rows[source].price : source \in Usable(rows)}

\* The spread is rounded up before it is compared.
Disagree(rows) ==
    LET lowest == Min(UsablePrices(rows)) IN
    /\ Cardinality(DOMAIN rows) > 1
    /\ (Max(UsablePrices(rows)) - lowest) * 100 > MaxSpreadPercent * lowest

\* The reading at index length / 2 of the sorted ones.
MedianPrice(rows) ==
    LET middle == Cardinality(Usable(rows)) \div 2 IN
    CHOOSE p \in UsablePrices(rows) :
        /\ Cardinality({s \in Usable(rows) : rows[s].price < p}) <= middle
        /\ middle < Cardinality({s \in Usable(rows) : rows[s].price <= p})

Quorum(rows) == IF Usable(rows) = {} \/ Disagree(rows) THEN NotKnown ELSE MedianPrice(rows)

\* BTC and sBTC feeds both price sBTC: the first verified one in the route's order is taken.
FeedsOf(asset) == CASE asset = "sbtc" -> <<"BTC/USD", "sBTC/USD">>
                    [] asset = "usdc" -> <<"USDC/USD">>
                    [] asset = "receipt" -> << >>
PriceOf(asset) ==
    LET agreed == {i \in DOMAIN FeedsOf(asset) : Quorum(view["prices"][FeedsOf(asset)[i]]) # NotKnown}
    IN IF agreed = {} THEN NotKnown ELSE Quorum(view["prices"][FeedsOf(asset)[Min(agreed)]])

---------------------------------------------------------------------------
(* The accounting *)

Stored(rows) == {key \in DOMAIN rows : rows[key] # Absent}

\* A wallet balance of a listed market's receipt is evidence; everything else counts.
WalletEntries == {[id |-> [market |-> "wallet", kind |-> "wallet", asset |-> token], asset |-> token, debt |-> FALSE,
                   quantity |-> view["balances"][token].quantity] :
                     token \in Stored(view["balances"]) \ view["markets"]}
PositionEntries == {[id |-> key, asset |-> key.asset, debt |-> key.kind = "debt",
                     quantity |-> view["positions"][key].quantity] :
                       key \in Stored(view["positions"])}
EntriesOf(debt) == {e \in WalletEntries : ~debt} \cup {e \in PositionEntries : e.debt = debt}
AssetsOf(debt) == {e.asset : e \in EntriesOf(debt)}

\* One unknown entry makes the whole quantity of that asset unknown.
QuantityOf(debt, asset) ==
    LET counted == {e \in EntriesOf(debt) : e.asset = asset} IN
    IF \E e \in counted : e.quantity = NotKnown THEN NotKnown
    ELSE MapThenSumSet(LAMBDA e : e.quantity, counted)

ValuedAssets(debt) ==
    {a \in AssetsOf(debt) : QuantityOf(debt, a) # NotKnown /\ PriceOf(a) # NotKnown}
Gross(debt) ==
    MapThenSumSet(LAMBDA a : (QuantityOf(debt, a) * PriceOf(a)) \div PriceUnit, ValuedAssets(debt))

HasUnknown == \E e \in EntriesOf(FALSE) \cup EntriesOf(TRUE) : e.quantity = NotKnown
NoTotal(debt) == AssetsOf(debt) # {} /\ ValuedAssets(debt) = {}
NetWorth == Gross(FALSE) - Gross(TRUE)

\* The mutated form: an unknown entry is left to the coverage of its asset.
IsCompleteByCoverage ==
    LET assets == AssetsOf(FALSE) \cup AssetsOf(TRUE) IN
    /\ assets # {} /\ ~NoTotal(FALSE) /\ ~NoTotal(TRUE)
    /\ Cardinality(ValuedAssets(FALSE) \cup ValuedAssets(TRUE)) = Cardinality(assets)

IsComplete ==
    LET assets == AssetsOf(FALSE) \cup AssetsOf(TRUE) IN
    /\ assets # {} /\ ~HasUnknown /\ ~NoTotal(FALSE) /\ ~NoTotal(TRUE)
    /\ Cardinality(ValuedAssets(FALSE) \cup ValuedAssets(TRUE)) = Cardinality(assets)

---------------------------------------------------------------------------
(* What the pages make of the same rows *)

\* A receipt is listed beside the position it stands for.
PageRows ==
    LET row(id, kind, stored) == [id |-> id, asset |-> id.asset, kind |-> kind, quantity |-> stored.quantity]
    IN {row([market |-> "wallet", kind |-> "wallet", asset |-> token],
            IF token \in view["markets"] THEN "receipt" ELSE "wallet", view["balances"][token]) :
          token \in Stored(view["balances"])}
         \cup {row(key, key.kind, view["positions"][key]) : key \in Stored(view["positions"])}

\* A running total per asset, which one unknown row makes unknown for good. Receipts are not added.
TotalOf(rows) ==
    FoldSet(LAMBDA row, running : IF running = NotKnown \/ row.quantity = NotKnown THEN NotKnown
                                  ELSE running + row.quantity, 0, rows)
PageNet(asset) ==
    LET of(kinds) == TotalOf({row \in PageRows : row.asset = asset /\ row.kind \in kinds})
        held == of({"wallet", "supplied"})
        owed == of({"debt"})
    IN IF NotKnown \in {held, owed} THEN NotKnown ELSE held - owed

\* The share of each market in what the markets hold: of one asset, and only when all of it is known.
\* In hundredths, for the ten-thousandths of the code.
Comparable == {row \in PageRows : row.kind = "supplied"}
Concentration ==
    LET total == TotalOf(Comparable)
    IN IF Cardinality({e.asset : e \in Comparable}) # 1 \/ total \in {NotKnown, 0} THEN [shares |-> {}, total |-> NotKnown]
       ELSE [shares |-> {[of |-> e.id, share |-> (e.quantity * 100) \div total] : e \in Comparable}, total |-> total]

---------------------------------------------------------------------------
(* The request: four queries in any order, then the answer *)

TableOf(query) == CASE query = "positions" -> positionRows
                    [] query = "balances" -> balanceRows
                    [] query = "markets" -> IF listed THEN {"receipt"} ELSE {}
                    [] query = "prices" -> feedRows

ReadTable == \E query \in Queries \ DOMAIN view :
    /\ view' = [q \in DOMAIN view \cup {query} |-> IF q = query THEN TableOf(q) ELSE view[q]]
    /\ UNCHANGED <<stocks, transfers, changed, positionRows, balanceRows, feedRows, listed, writes>>

AnswerPortfolio == /\ DOMAIN view = Queries
                   /\ view' = Unread
                   /\ UNCHANGED <<stocks, transfers, changed, positionRows, balanceRows, feedRows, listed, writes>>

PortfolioNext ==
    \/ SupplyOrRedeem \/ BorrowOrRepay
    \/ ProjectVault \/ ProjectPool \/ LoanIsRecorded \/ BalanceIsRecorded
    \/ InsertPrice \/ CapabilityOfVault
    \/ ReadTable \/ AnswerPortfolio

PortfolioSpec == PortfolioInit /\ [][PortfolioNext]_portfolioVars

---------------------------------------------------------------------------
(* Rows are snapshots of states the address has been in, and a request reads tables. *)
PortfolioTypeOK ==
    /\ stocks \in [{"sbtc", "usdc", "shares", "loan"} -> Nat]
    /\ transfers \in 0..MaxMoves /\ changed \in [DOMAIN stocks -> 0..transfers]
    /\ writes \in 0..MaxWrites /\ listed \in BOOLEAN
    /\ \A key \in PositionKeys : positionRows[key].seen \in -1..transfers
    /\ \A token \in Tokens : balanceRows[token].seen \in -1..transfers
    /\ DOMAIN view \subseteq Queries

\* Every stock has a row among those read, under whatever key, that was read since it last changed.
SeenNow ==
    LET now(row, stock) == row.seen >= changed[stock] IN
    /\ \A token \in {"sbtc", "usdc"} : now(view["balances"][token], token)
    /\ now(view["positions"][LoanPosition], "loan")
    /\ \E key \in {VaultPosition, VaultInShares} : now(view["positions"][key], "shares")

TrueWorth ==
    (stocks.sbtc + stocks.shares * ShareWorth) * PriceOf("sbtc")
      + (stocks.usdc - stocks.loan) * PriceOf("usdc")

\* A portfolio reported complete, with each stock read since it last changed, is what the
\* address is worth at the agreed prices, to the rounding of the valued lines, and so are the totals
\* of the page, exactly: no claim is counted twice through its receipt or an older row, and no unknown
\* part is taken for zero (evaluatePortfolioAccounting; "zero is not assumed", "not double-counted").
\* Shares, where they are shown, are of the whole that the markets hold.
CompleteIsExact ==
    (DOMAIN view = Queries) =>
      /\ (IsComplete /\ SeenNow) =>
           LET slack == 2 * PriceUnit
               error == NetWorth * PriceUnit - TrueWorth
           IN /\ -slack < error /\ error < slack
              /\ TrueWorth = MapThenSumSet(LAMBDA a : PageNet(a) * PriceOf(a), AssetsOf(FALSE) \cup AssetsOf(TRUE))
              /\ Concentration.total \in {NotKnown, stocks.shares * ShareWorth}
      /\ Concentration.total # NotKnown =>
           LET sum == MapThenSumSet(LAMBDA slice : slice.share, Concentration.shares)
           IN 100 - Cardinality(Concentration.shares) < sum /\ sum <= 100

=============================================================================
