------------------------------ MODULE Effects ------------------------------
(* What a transaction is read as moving, and what is made of it: the events *)
(* the watched contracts emit (apps/worker/src/ingest.ts, clarity.ts), what *)
(* the adapters say they mean (packages/adapters/src), and the verdict of   *)
(* apps/worker/src/reconciliation.ts on a workflow by the quote's output.   *)
(*                                                                          *)
(* One workflow of one or two steps.  A step's transaction emits at most    *)
(* one event that is watched, and it is the planned one or another one: the *)
(* host reports the txid.  The pool core and the sBTC registry are not      *)
(* among the watched contracts (packages/config/src/deployments.ts pins     *)
(* the router and the entry contracts, which emit nothing), so a swap's and *)
(* an sBTC withdrawal's own transactions show no event.                     *)
EXTENDS Integers, Sequences, FiniteSets, FiniteSetsExt

CONSTANTS FlowActions, MaxEffectAmount, MaxEffectForks

ASSUME EffectsAssumption ==
  /\ FlowActions \subseteq {"zest_supply", "zest_withdraw", "granite_supply", "granite_withdraw", "granite_borrow",
                            "granite_borrow_with_collateral", "granite_repay", "swap", "withdraw_sbtc"}
  /\ MaxEffectAmount \in Nat \ {0} /\ MaxEffectForks \in Nat

VARIABLES
  promise,        \* what the quote says will come back, and to whom the plan sends it
  emitted,        \* the event of each step's transaction on the chain
  onChain,        \* the steps whose transaction is in a block
  reportedSteps,  \* the steps whose txid was reported
  confirmedSteps,
  eventRows,      \* what is stored of each step's event
  eventPage,      \* the events the running pass has still to look at, newest first
  verdict,
  effectForks

effectVars == <<promise, emitted, onChain, reportedSteps, confirmedSteps, eventRows, eventPage, verdict, effectForks>>
chainOfEffects == <<emitted, onChain, effectForks>>

EffectAmounts == 1..MaxEffectAmount
Someone == {"owner", "another"}
PlanSteps == 1..2

\* The logs of the two watched contracts. `who` is the principal the log names: the vault's recipient, the
\* market's account. An asset the registry does not pin has no identity.
VaultEvents == [on : {"v0-vault-sbtc"}, act : {"deposit", "redeem", "system-borrow"}, assets : EffectAmounts,
                shares : EffectAmounts, who : Someone]
MarketEvents == [on : {"v0-8-market"}, act : {"collateral-add", "collateral-remove", "borrow", "repay"},
                 asset : {"sbtc", "usdcx", "unpinned"}, assets : EffectAmounts, who : Someone]
Silent == [on |-> "nothing watched"]
NoPromise == [action |-> "none"]
NotStored == [raw |-> FALSE, activity |-> FALSE, attributed |-> FALSE, canonical |-> FALSE]

EffectsInit ==
  /\ promise = NoPromise /\ emitted = [k \in PlanSteps |-> Silent] /\ onChain = {} /\ reportedSteps = {}
  /\ confirmedSteps = {} /\ eventRows = [k \in PlanSteps |-> NotStored] /\ eventPage = <<>>
  /\ verdict = "none" /\ effectForks = 0

-----------------------------------------------------------------------------
(* Quotes and plans. *)

\* The asset of the quote's first expected output; a repayment has none, collateral supplied has itself.
ExpectedAsset(action) ==
  CASE action = "zest_supply" -> "zsbtc"
    [] action \in {"zest_withdraw", "granite_supply", "granite_withdraw"} -> "sbtc"
    [] action \in {"granite_borrow", "granite_borrow_with_collateral", "swap"} -> "usdcx"
    [] action = "withdraw_sbtc" -> "btc"
    [] action = "granite_repay" -> "none"

StepsOf(action) == IF action = "granite_borrow_with_collateral" THEN 1..2 ELSE {1}

\* Granite's minimum is the quoted amount, the others may be asked for less. A plan may send its output to another
\* than the owner; the market's log names the account wherever the asset goes, so this is of the vault and swaps only.
QuoteAction == \E action \in FlowActions, quantity, minimum \in EffectAmounts, to \in Someone :
  /\ promise = NoPromise
  /\ IF action \in {"zest_supply", "zest_withdraw", "swap"} THEN minimum <= quantity ELSE minimum = quantity
  /\ to = "owner" \/ action \in {"zest_supply", "zest_withdraw", "swap", "withdraw_sbtc"}
  /\ promise' = [action |-> action, asset |-> ExpectedAsset(action), quantity |-> quantity, minimum |-> minimum,
                 to |-> to]
  /\ UNCHANGED <<chainOfEffects, reportedSteps, confirmedSteps, eventRows, eventPage, verdict>>

\* What the contracts log of the planned calls; the vault enforces the minimum.
PlannedEvents(step) ==
  CASE promise.action = "zest_supply" ->
         {e \in VaultEvents : e.act = "deposit" /\ e.shares >= promise.minimum /\ e.who = promise.to}
    [] promise.action = "zest_withdraw" ->
         {e \in VaultEvents : e.act = "redeem" /\ e.assets >= promise.minimum /\ e.who = promise.to}
    [] promise.action = "granite_supply" \/ (promise.action = "granite_borrow_with_collateral" /\ step = 1) ->
         {e \in MarketEvents : e.act = "collateral-add" /\ e.asset = "sbtc" /\ e.assets = promise.quantity /\ e.who = "owner"}
    [] promise.action = "granite_withdraw" ->
         {e \in MarketEvents : e.act = "collateral-remove" /\ e.asset = "sbtc" /\ e.assets = promise.quantity /\ e.who = "owner"}
    [] promise.action = "granite_borrow" \/ (promise.action = "granite_borrow_with_collateral" /\ step = 2) ->
         {e \in MarketEvents : e.act = "borrow" /\ e.asset = "usdcx" /\ e.assets = promise.quantity /\ e.who = "owner"}
    [] promise.action = "granite_repay" ->
         {e \in MarketEvents : e.act = "repay" /\ e.asset = "usdcx" /\ e.assets = promise.quantity /\ e.who = "owner"}
    [] promise.action \in {"swap", "withdraw_sbtc"} -> {Silent}

-----------------------------------------------------------------------------
(* The chain and the host. *)

\* Bound: a transaction the plan does not ask for moves one unit, or nothing that is watched.
OtherEvents == {e \in VaultEvents : e.assets = 1 /\ e.shares = 1} \union {e \in MarketEvents : e.assets = 1} \union {Silent}

\* The transaction a step is reported with executes: the planned one, or another one of the host's. Bound: one of a
\* workflow's transactions is another one.
Executes(step) ==
  /\ promise # NoPromise /\ step \in StepsOf(promise.action) \ onChain
  /\ step = 2 => 1 \in confirmedSteps
  /\ \E event \in PlannedEvents(step) \union OtherEvents :
       /\ event \in PlannedEvents(step) \/ \A k \in PlanSteps \ {step} : emitted[k] \in PlannedEvents(k) \union {Silent}
       /\ emitted' = [emitted EXCEPT ![step] = event]
  /\ onChain' = onChain \union {step}
  /\ UNCHANGED <<promise, reportedSteps, confirmedSteps, eventRows, eventPage, verdict, effectForks>>

ReportsTxid(step) ==
  /\ step \in onChain \ reportedSteps /\ reportedSteps' = reportedSteps \union {step}
  /\ UNCHANGED <<promise, chainOfEffects, confirmedSteps, eventRows, eventPage, verdict>>

\* advanceSubmittedWorkflows saw the transaction succeed, with the confirmations it asks for.
ConfirmsStep(step) ==
  /\ step \in (onChain \intersect reportedSteps) \ confirmedSteps /\ confirmedSteps' = confirmedSteps \union {step}
  /\ UNCHANGED <<promise, chainOfEffects, reportedSteps, eventRows, eventPage, verdict>>

\* A fork takes the transaction's block away, and ingestion rewinds what it had stored of it.
ForkTakes(step) ==
  /\ step \in onChain /\ eventPage = <<>> /\ effectForks < MaxEffectForks /\ effectForks' = effectForks + 1
  /\ onChain' = onChain \ {step}
  /\ eventRows' = [eventRows EXCEPT ![step].canonical = FALSE]
  /\ UNCHANGED <<promise, emitted, reportedSteps, confirmedSteps, eventPage, verdict>>

-----------------------------------------------------------------------------
(* ingestEvents, for one watched contract. *)

\* contractEvents: the page, newest first. `stored` marks the event whose row this pass has just inserted.
ReadEventPage(contract) ==
  /\ eventPage = <<>>
  /\ \E listed \in {<<1>>, <<2>>, <<2, 1>>} :
       /\ {listed[place] : place \in DOMAIN listed} = {k \in PlanSteps : emitted[k].on = contract}
       /\ eventPage' = [place \in DOMAIN listed |-> [step |-> listed[place], stored |-> FALSE]]
  /\ UNCHANGED <<promise, chainOfEffects, reportedSteps, confirmedSteps, eventRows, verdict>>

\* An event that is stored ends the page; one whose transaction is in no block is passed over.
LookAtEffect ==
  /\ eventPage # <<>> /\ ~Head(eventPage).stored
  /\ LET k == Head(eventPage).step IN
     \/ eventRows[k].raw /\ eventPage' = <<>> /\ UNCHANGED eventRows
     \/ ~eventRows[k].raw /\ k \notin onChain /\ eventPage' = Tail(eventPage) /\ UNCHANGED eventRows
     \/ /\ ~eventRows[k].raw /\ k \in onChain
        /\ eventRows' = [eventRows EXCEPT ![k].raw = TRUE, ![k].canonical = TRUE]
        /\ eventPage' = [eventPage EXCEPT ![1].stored = TRUE]
  /\ UNCHANGED <<promise, chainOfEffects, reportedSteps, confirmedSteps, verdict>>

\* The workflow that reported the transaction by now is the one the activity is attributed to.
RecordActivity ==
  /\ eventPage # <<>> /\ Head(eventPage).stored
  /\ LET k == Head(eventPage).step IN
     eventRows' = [eventRows EXCEPT ![k].activity = TRUE, ![k].attributed = k \in reportedSteps]
  /\ eventPage' = Tail(eventPage)
  /\ UNCHANGED <<promise, chainOfEffects, reportedSteps, confirmedSteps, verdict>>

\* The provider or the process fails in the middle of the page.
PageFails ==
  /\ eventPage # <<>> /\ eventPage' = <<>>
  /\ UNCHANGED <<promise, chainOfEffects, reportedSteps, confirmedSteps, eventRows, verdict>>

-----------------------------------------------------------------------------
(* The decoders, and the verdict. *)

Effect(direction, asset, quantity, whose) ==
  IF asset = "unpinned" THEN {} ELSE {[direction |-> direction, asset |-> asset, quantity |-> quantity, owner |-> whose]}

\* The mutated form: the deposited amount is read as the shares minted.
DepositEffectsOfAmount(e) == Effect("out", "sbtc", e.assets, e.who) \union Effect("in", "zsbtc", e.assets, e.who)

DepositEffects(e) == Effect("out", "sbtc", e.assets, e.who) \union Effect("in", "zsbtc", e.shares, e.who)

\* What the adapters make of a log: the vault's dealings with the market are nobody's activity.
VaultEffects(e) ==
  CASE e.act = "deposit" -> DepositEffects(e)
    [] e.act = "redeem" -> Effect("in", "sbtc", e.assets, e.who) \union Effect("out", "zsbtc", e.shares, e.who)
    [] e.act = "system-borrow" -> {}

MarketEffects(e) ==
  Effect(IF e.act \in {"collateral-remove", "borrow"} THEN "in" ELSE "out", e.asset, e.assets, e.who)

EffectsOf(e) ==
  IF e = Silent THEN {} ELSE IF e.on = "v0-vault-sbtc" THEN VaultEffects(e) ELSE MarketEffects(e)

\* listWorkflowEffects: what the steps' attributed activities moved, while they are canonical.
WorkflowEffects ==
  UNION {{[of |-> k, moved |-> m] : m \in EffectsOf(emitted[k])} :
           k \in {k \in PlanSteps : eventRows[k].activity /\ eventRows[k].attributed /\ eventRows[k].canonical}}

Received == {f \in WorkflowEffects : f.moved.direction = "in" /\ f.moved.asset = promise.asset /\ f.moved.owner = "owner"}

\* reconciliationDecision: "none" waits.
ReconciliationDecision ==
  IF promise.asset = "none" \/ WorkflowEffects = {} THEN "none"
  ELSE IF Received # {} /\ MapThenSumSet(LAMBDA f : f.moved.quantity, Received) >= promise.minimum
       THEN "completed" ELSE "action_required"

\* reconcileConfirmedWorkflows, of a tick whose ingestion is over.
Judge ==
  /\ eventPage = <<>> /\ promise # NoPromise /\ verdict = "none"
  /\ confirmedSteps = StepsOf(promise.action)
  /\ ReconciliationDecision # "none" /\ verdict' = ReconciliationDecision
  /\ UNCHANGED <<promise, chainOfEffects, reportedSteps, confirmedSteps, eventRows, eventPage>>

EffectsNext ==
  \/ QuoteAction
  \/ \E step \in PlanSteps : Executes(step) \/ ReportsTxid(step) \/ ConfirmsStep(step) \/ ForkTakes(step)
  \/ \E contract \in {"v0-vault-sbtc", "v0-8-market"} : ReadEventPage(contract)
  \/ LookAtEffect \/ RecordActivity \/ PageFails
  \/ Judge

EffectsSpec == EffectsInit /\ [][EffectsNext]_effectVars

-----------------------------------------------------------------------------
(* Properties. *)

\* An activity is recorded of a stored event only, and attributed only to a step whose txid was reported.
EffectsTypeOK ==
  /\ promise.action \in FlowActions \union {"none"}
  /\ \A k \in PlanSteps : emitted[k] \in VaultEvents \union MarketEvents \union {Silent}
  /\ confirmedSteps \subseteq reportedSteps /\ onChain \subseteq PlanSteps
  /\ \A k \in PlanSteps :
       /\ eventRows[k] \in [raw : BOOLEAN, activity : BOOLEAN, attributed : BOOLEAN, canonical : BOOLEAN]
       /\ (eventRows[k].activity \/ eventRows[k].canonical) => eventRows[k].raw
       /\ eventRows[k].attributed => k \in reportedSteps
  /\ \A place \in DOMAIN eventPage : eventPage[place] \in [step : PlanSteps, stored : BOOLEAN]
  /\ verdict \in {"none", "completed", "action_required"} /\ effectForks \in 0..MaxEffectForks

\* What the chain gave the owner, or the owner's account, of the quoted asset in a step, whatever was read of it.
GivenToOwner(k) ==
  IF k \notin onChain \/ emitted[k] = Silent THEN 0
  ELSE LET e == emitted[k] IN
       IF e.who # "owner" THEN 0
       ELSE IF e.act = "deposit" /\ promise.asset = "zsbtc" THEN e.shares
       ELSE IF e.act = "redeem" /\ promise.asset = "sbtc" THEN e.assets
       ELSE IF e.act \in {"borrow", "collateral-remove"} /\ promise.asset = e.asset THEN e.assets ELSE 0

AsPlanned == \A k \in StepsOf(promise.action) : emitted[k] \in PlannedEvents(k)

\* When a workflow completes, the transactions reported for it, on the chain as it is followed at that moment, have
\* given its owner at least the minimum of the quoted asset: neither a fork, a torn pass, a stranger's credit nor
\* another asset stands in for it. And a single-step plan with a receipt for its owner, executed as planned, is not
\* blamed (reconciliation.ts; the exceptions are PlannedIsNotBlamed's).
VerdictFits == [][verdict' # verdict =>
  /\ verdict' = "completed" => GivenToOwner(1) + GivenToOwner(2) >= promise.minimum
  /\ verdict' = "action_required" =>
       ~(AsPlanned /\ promise.action \in {"zest_supply", "zest_withdraw", "granite_withdraw", "granite_borrow"}
           /\ promise.to = "owner")]_effectVars

\* A workflow whose every step executed as planned, for its owner, is not sent to support: ACTION_REQUIRED is for a
\* chain that disagrees (reconciliation.ts, the pilot checklist's B1).
PlannedIsNotBlamed == [][verdict' # verdict /\ verdict' = "action_required" => ~(AsPlanned /\ promise.to = "owner")]_effectVars
=============================================================================
