------------------------------- MODULE Screens -------------------------------
(***************************************************************************)
(* The approval flow of the web app's four action screens                  *)
(* (apps/web/src/earnScreen.tsx, borrowScreen.tsx, depositBtcScreen.tsx,   *)
(* swapScreen.tsx): get a quote, press sign, start a workflow, validate the *)
(* plan, open the wallet, report its answer, read the workflow again.      *)
(*                                                                         *)
(* One page of one kind is open. Each await of the handler is a value of    *)
(* `phase`: time passes, the server moves the workflow and the page can be  *)
(* reloaded between two of them, and each call may fail with or without     *)
(* having taken effect. What the page holds (quote, started, shown) is kept *)
(* apart from what it stores (saved) and what the server knows (flows).     *)
(***************************************************************************)
EXTENDS Integers, Sequences

CONSTANTS Screen,        \* "earn", "borrow", "bridge" or "swap": the page that is opened
          QuoteSeconds,  \* life of a quote
          RefreshMargin, \* what the swap screen wants left of it
          MaxSeconds, MaxQuotes, MaxStarts, MaxAsks, MaxReloads \* bounds

Kinds == {"earn", "borrow", "bridge", "swap"}

ASSUME ScreensAssumption ==
    /\ Screen \subseteq Kinds
    /\ {QuoteSeconds, RefreshMargin, MaxSeconds, MaxQuotes, MaxStarts, MaxAsks, MaxReloads} \subseteq Nat

VARIABLES page,      \* the kind of the open screen, or "closed"
          seconds,   \* the clock
          phase,     \* which await the handler is at; "idle" when it is not busy
          held,      \* the quote the handler closed over when its button was pressed
          target,    \* the workflow it has started, or asks about again
          minted,    \* quotes the server has minted
          quote,     \* the one the page holds, 0 when none
          started,   \* the workflow the page has started, 0 when none
          shown,     \* the state the page last read for the workflow it follows
          saved,     \* the workflow in local storage, 0 when none
          remembered,\* the one that was there when the page was loaded
          flows,     \* workflows of the server: the quote, the state, the broadcasts the wallet made
          seen,      \* workflows this page has shown to be past the signature
          asks, reloads

screenVars == <<page, seconds, phase, held, target, minted, quote, started, shown, saved, remembered,
                flows, seen, asks, reloads>>
pageMemory == <<quote, started, shown, remembered>>
serverRows == <<minted, flows>>
handler == <<held, target>>

ScreensInit ==
    /\ page = "closed" /\ seconds = 0 /\ phase = "idle" /\ held = 0 /\ target = 0
    /\ minted = << >> /\ quote = 0 /\ started = 0 /\ shown = "none"
    /\ saved = 0 /\ remembered = 0
    /\ flows = << >> /\ seen = {} /\ asks = 0 /\ reloads = 0

OpenPage == /\ page = "closed"
            /\ page' \in Screen
            /\ UNCHANGED <<seconds, phase, handler, pageMemory, saved, serverRows, seen, asks, reloads>>

SecondPasses == /\ seconds < MaxSeconds
                /\ seconds' = seconds + 1
                /\ UNCHANGED <<page, phase, handler, pageMemory, saved, serverRows, seen, asks, reloads>>

---------------------------------------------------------------------------
(* What the page shows *)

Followed == IF started # 0 THEN started ELSE remembered

\* A state outside the table needs a human; it is never taken for finished.
StageOf(state) ==
    CASE state = "none" -> "review"
      [] state = "AWAITING_SIGNATURE" -> "signing"
      [] state = "SUBMITTED" -> "confirming"
      [] state = "COMPLETED" -> "done"
      [] OTHER -> "recovery"

SecondsLeft(q) == minted[q].expires - seconds
Expired(q) == SecondsLeft(q) <= 0

\* Where the form is rendered. The borrow and swap cards are never hidden; the bridge keeps its form
\* only while it follows no workflow.
EarnForm == StageOf(shown) = "review"
BridgeForm == StageOf(shown) = "review" /\ Followed = 0

FormShown == /\ page = "earn" => EarnForm
             /\ page = "bridge" => BridgeForm

\* When the sign button is live: the bridge does not look at the expiry, the swap keeps a margin.
EarnSignable == ~Expired(quote)
BorrowSignable == ~Expired(quote)
SwapSignable == SecondsLeft(quote) > RefreshMargin

Signable ==
    /\ quote # 0 /\ FormShown /\ minted[quote].executable
    /\ page = "earn" => EarnSignable
    /\ page = "borrow" => BorrowSignable
    /\ page = "swap" => SwapSignable

---------------------------------------------------------------------------
(* Quotes *)

AskQuote == /\ page # "closed" /\ phase = "idle" /\ FormShown /\ Len(minted) < MaxQuotes
            /\ phase' = "quoting"
            /\ UNCHANGED <<page, seconds, handler, pageMemory, saved, serverRows, seen, asks, reloads>>

QuoteAnswers ==
    /\ phase = "quoting" /\ phase' = "idle"
    /\ \/ \E executable \in BOOLEAN :
            /\ minted' = Append(minted, [expires |-> seconds + QuoteSeconds, executable |-> executable])
            /\ quote' = Len(minted')
       \/ UNCHANGED <<minted, quote>>
    /\ UNCHANGED <<page, seconds, handler, started, shown, remembered, saved, flows, seen, asks, reloads>>

LatestUnfinished == IF flows = << >> \/ flows[Len(flows)].state = "COMPLETED" THEN 0
                    ELSE Len(flows)

EditEarn == page = "earn" /\ EarnForm
EditBorrow == page = "borrow"
EditSwap == page = "swap"

\* Switching the action, the direction or the amount drops the quote.
EditForm ==
    /\ EditEarn \/ EditBorrow \/ EditSwap
    /\ quote # 0 /\ quote' = 0
    /\ UNCHANGED <<page, seconds, phase, handler, started, shown, remembered, saved, serverRows, seen, asks, reloads>>

\* The bridge drops its workflow too, and then takes the latest unfinished one of the list, if the list
\* it has read shows it.
ResetBridge ==
    /\ page = "bridge" /\ quote' = 0 /\ started' = 0 /\ shown' = "none" /\ remembered' \in {0, LatestUnfinished}
    /\ UNCHANGED <<page, seconds, phase, handler, saved, serverRows, seen, asks, reloads>>

---------------------------------------------------------------------------
(* signAndSubmit / handleApprove, one await at a time *)

PressSign == /\ phase = "idle" /\ Signable /\ Len(flows) < MaxStarts
             /\ phase' = "starting" /\ held' = quote
             /\ UNCHANGED <<page, seconds, target, pageMemory, saved, serverRows, seen, asks, reloads>>

WithStarted == Append(flows, [quote |-> held, state |-> "AWAITING_SIGNATURE", broadcasts |-> 0])

EarnStarted == started' = target' /\ shown' = "AWAITING_SIGNATURE" /\ saved' = target'
BorrowStarted == EarnStarted
BridgeStarted == started' = target' /\ shown' = "AWAITING_SIGNATURE" /\ UNCHANGED saved

\* Every press makes a new idempotency key, so it always makes a new workflow. The swap screen keeps it to
\* itself until it has reported.
StartAnswers ==
    /\ phase = "starting" /\ phase' = "validating"
    /\ flows' = WithStarted /\ target' = Len(flows')
    /\ CASE page = "earn" -> EarnStarted
         [] page = "borrow" -> BorrowStarted
         [] page = "bridge" -> BridgeStarted
         [] page = "swap" -> UNCHANGED <<started, shown, saved>>
    /\ UNCHANGED <<page, seconds, held, minted, quote, remembered, seen, asks, reloads>>

StartFails == /\ phase = "starting" /\ phase' = "idle"
              /\ flows' \in {flows, WithStarted}
              /\ UNCHANGED <<page, seconds, handler, pageMemory, minted, saved, seen, asks, reloads>>

\* validatePlan: the quote is executable and neither it nor the plan has expired.
PlanValid(q) == minted[q].executable /\ ~Expired(q)

WalletOpens ==
    /\ phase = "validating" /\ asks < MaxAsks
    /\ IF PlanValid(held) THEN phase' = "signing" /\ asks' = asks + 1
       ELSE phase' = "idle" /\ UNCHANGED asks
    /\ UNCHANGED <<page, seconds, handler, pageMemory, saved, serverRows, seen, reloads>>

\* The user declines: nothing is reported. Or the wallet answers, with a transaction or with an error
\* that does not say whether it broadcast.
WalletAnswers ==
    /\ phase = "signing"
    /\ \/ phase' = "idle" /\ UNCHANGED flows
       \/ /\ phase' = "reportingTx"
          /\ flows' = [flows EXCEPT ![target].broadcasts = @ + 1]
       \/ /\ phase' = "reportingUnknown"
          /\ \E sent \in 0..1 : flows' = [flows EXCEPT ![target].broadcasts = @ + sent]
    /\ UNCHANGED <<page, seconds, handler, pageMemory, minted, saved, seen, asks, reloads>>

\* The first report of a step is recorded; a later one is answered with what is there.
Reported == IF flows[target].state # "AWAITING_SIGNATURE" THEN flows
            ELSE [flows EXCEPT ![target].state =
                     IF phase = "reportingTx" THEN "SUBMITTED" ELSE "BROADCAST_UNKNOWN"]

\* The mutated form: the swap screen keeps the quote it has sent.
AfterReportKeeps ==
    /\ phase' = IF page = "swap" THEN "idle" ELSE "refreshing"
    /\ IF page = "swap" THEN saved' = target /\ seen' = seen \cup {target} /\ shown' = "SUBMITTED" /\ UNCHANGED quote
       ELSE UNCHANGED <<saved, seen, quote, shown>>

\* The swap screen shows the answer, stores it and drops the quote; the others read the workflow again.
AfterReport ==
    /\ phase' = IF page = "swap" THEN "idle" ELSE "refreshing"
    /\ IF page = "swap"
       THEN saved' = target /\ seen' = seen \cup {target} /\ shown' = "SUBMITTED" /\ quote' = 0
       ELSE UNCHANGED <<saved, seen, quote, shown>>

ReportAnswers == /\ phase \in {"reportingTx", "reportingUnknown"}
                 /\ flows' = Reported
                 /\ AfterReport
                 /\ UNCHANGED <<page, seconds, handler, minted, started, remembered, asks, reloads>>

ReportFails == /\ phase \in {"reportingTx", "reportingUnknown"} /\ phase' = "idle"
               /\ flows' \in {flows, Reported}
               /\ UNCHANGED <<page, seconds, handler, pageMemory, minted, saved, seen, asks, reloads>>

---------------------------------------------------------------------------
(* Reading the workflow, asking again, leaving *)

\* A refresh swallows its failure and leaves the entry as it was. A finished or failed workflow is
\* removed from storage, not from what the page remembers.
ReadWorkflow ==
    /\ phase \in {"idle", "refreshing"} /\ phase' = "idle"
    /\ page # "swap" /\ Followed # 0
    /\ \/ /\ shown' = flows[Followed].state
          /\ seen' = IF shown' = "AWAITING_SIGNATURE" THEN seen ELSE seen \cup {Followed}
          /\ saved' = IF StageOf(shown') \in {"done", "recovery"} THEN 0 ELSE saved
       \/ phase = "refreshing" /\ UNCHANGED <<shown, seen, saved>>
    /\ UNCHANGED <<page, seconds, handler, quote, started, remembered, serverRows, asks, reloads>>

\* Only the earn screen can ask again, for the workflow it started and with the quote it still holds.
AskAgain == /\ page = "earn" /\ phase = "idle" /\ StageOf(shown) = "signing"
            /\ started # 0 /\ quote # 0
            /\ phase' = "validating" /\ held' = quote /\ target' = started
            /\ UNCHANGED <<page, seconds, pageMemory, saved, serverRows, seen, asks, reloads>>

\* After "Start Another" a workflow remembered from before is followed again.
ForgetEarn == page = "earn" /\ StageOf(shown) = "done"
ForgetBorrow == page = "borrow" /\ StageOf(shown) = "done"

StartAnother ==
    /\ phase = "idle" /\ (ForgetEarn \/ ForgetBorrow)
    /\ started' = 0 /\ quote' = 0 /\ shown' = (IF remembered = 0 THEN "none" ELSE shown)
    /\ UNCHANGED <<page, seconds, phase, handler, saved, remembered, serverRows, seen, asks, reloads>>

DismissSwap ==
    /\ phase = "idle" /\ page = "swap" /\ saved # 0 /\ saved' = 0 /\ shown' = "none"
    /\ UNCHANGED <<page, seconds, phase, handler, quote, started, remembered, serverRows, seen, asks, reloads>>

\* A reload keeps only what was stored; the bridge takes its latest unfinished workflow from the
\* server's list. A wallet that was open can still send.
Reload ==
    /\ page # "closed" /\ reloads < MaxReloads /\ reloads' = reloads + 1
    /\ phase' = "idle" /\ held' = 0 /\ target' = 0 /\ quote' = 0 /\ started' = 0 /\ shown' = "none"
    /\ remembered' = IF page = "bridge" THEN LatestUnfinished ELSE saved
    /\ \/ UNCHANGED flows
       \/ phase = "signing" /\ flows' = [flows EXCEPT ![target].broadcasts = @ + 1]
    /\ UNCHANGED <<page, seconds, minted, saved, seen, asks>>

\* The worker confirms a submitted workflow, or finds that it needs a human.
WorkerMoves == \E w \in DOMAIN flows, state \in {"COMPLETED", "ACTION_REQUIRED"} :
    /\ flows[w].state = "SUBMITTED"
    /\ flows' = [flows EXCEPT ![w].state = state]
    /\ UNCHANGED <<page, seconds, phase, handler, pageMemory, minted, saved, seen, asks, reloads>>

ScreensNext ==
    \/ OpenPage \/ SecondPasses
    \/ AskQuote \/ QuoteAnswers \/ EditForm \/ ResetBridge
    \/ PressSign \/ StartAnswers \/ StartFails \/ WalletOpens \/ WalletAnswers
    \/ ReportAnswers \/ ReportFails
    \/ ReadWorkflow \/ AskAgain \/ StartAnother \/ DismissSwap \/ Reload \/ WorkerMoves

ScreensSpec == ScreensInit /\ [][ScreensNext]_screenVars

---------------------------------------------------------------------------
\* The page refers to rows that exist, and counters stay within their bounds.
ScreensTypeOK ==
    /\ page \in Kinds \cup {"closed"} /\ seconds \in 0..MaxSeconds
    /\ {quote, held} \subseteq 0..Len(minted) /\ Len(minted) \in 0..MaxQuotes
    /\ {started, saved, remembered, target} \cup seen \subseteq 0..Len(flows)
    /\ Len(flows) \in 0..MaxStarts /\ asks \in 0..MaxAsks /\ reloads \in 0..MaxReloads
    /\ shown \in {"none", "AWAITING_SIGNATURE", "SUBMITTED", "BROADCAST_UNKNOWN", "COMPLETED",
                  "ACTION_REQUIRED"}

\* The wallet is opened only with a quote that is still valid at that moment, whatever passed between
\* the press and the end of the awaits ("Expired minted cannot reach signing", I36), and, on every
\* screen but the borrow screen, never with a quote the page has already shown to be sent ("that could
\* move your money twice", earnScreen).
WalletOpensOnce ==
    [][(phase # "signing" /\ phase' = "signing") =>
         /\ minted[held].expires > seconds
         /\ page = "borrow" \/ \A w \in seen : flows[w].quote # held]_screenVars

=============================================================================
