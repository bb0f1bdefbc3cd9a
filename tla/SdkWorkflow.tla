----------------------------- MODULE SdkWorkflow -----------------------------
(* A host application that keeps a workflow of its own with the SDK, asks    *)
(* the user's wallet itself and reads the chain itself: core's helpers       *)
(* (workflow.ts, borrowSafety.ts), the gate before the wallet (signing.ts)   *)
(* and the SDK's object around them (sdk/src/client.ts).                     *)
(*                                                                           *)
(* The host is taken to do what the hints say: it asks the wallet only when  *)
(* canSign, for the first unsigned step, behind assertReadyToSign, and it    *)
(* records what it is told or reads. The wallet, the chain and the reads are *)
(* not under its control.                                                    *)
EXTENDS Workflow, FiniteSets

CONSTANTS
  Steps,          \* the steps of a plan, in order: 1..n
  Quantities,     \* what a post-condition may name
  MaxInputs,      \* the amounts a quote takes in
  MaxSdkMoves     \* bound on the transitions recorded

ASSUME SdkAssumption ==
  /\ Steps \subseteq Nat \ {0} /\ IsFiniteSet(Steps) /\ Quantities \subseteq Nat \ {0}
  /\ {MaxInputs, MaxSdkMoves} \subseteq Nat

VARIABLES
  flow,         \* the workflow's state and the evidence prefix of its last transition
  moves,        \* transitions recorded
  input,        \* the quote's input: quantity -> how many amounts of it
  plan,         \* what each step's post-conditions let out, 0 for nothing
  expired,      \* the quote's time has run out
  asking,       \* the step the wallet was last asked for
  done,         \* the steps seen confirmed
  tx,           \* the transaction of each step: none, sent, mined, lost
  broadcasts    \* how many times each step was broadcast

sdkVars == <<flow, moves, input, plan, expired, asking, done, tx, broadcasts>>

Amounts == [Quantities -> 0..MaxInputs]
Plans == [Steps -> {0} \cup Quantities]
NoInput == [q \in Quantities |-> 0]
NoPlan == [s \in Steps |-> 0]

SdkInit ==
  /\ flow = [state |-> "DRAFT", evidence |-> "none"] /\ moves = 0
  /\ input = NoInput /\ plan = NoPlan /\ expired = FALSE
  /\ asking = 0 /\ done = {} /\ tx = [s \in Steps |-> "none"] /\ broadcasts = [s \in Steps |-> 0]

---------------------------------------------------------------------------
(* core/workflow.ts: the next action, and every transition with its guard. *)

NextActionFor(state, evidence) ==
  CASE state \in {"QUOTED", "AWAITING_SIGNATURE"} -> "SIGN"
    [] state = "BROADCAST_UNKNOWN" -> "RETRY_READ"
    [] state \in {"SUBMITTED", "CONFIRMING", "STEP_CONFIRMED", "RECONCILING"} ->
         IF evidence = "outage" THEN "RETRY_READ" ELSE "WAIT"
    [] state = "ACTION_REQUIRED" ->
         CASE evidence = "partial" -> "FOLLOW_UP" [] evidence = "outage" -> "RETRY_READ"
           [] evidence = "mismatch" -> "CONTACT_SUPPORT" [] OTHER -> "RECLAIM"
    [] state \in {"REORGED", "MANUAL_REVIEW"} -> "CONTACT_SUPPORT"
    [] state = "COMPLETED" -> "COMPLETE"
    [] state \in {"DRAFT", "EXPIRED"} -> "REQUOTE"
    [] OTHER -> "START_NEW"

CanSubmitWrite(state) == state = "AWAITING_SIGNATURE"

\* The hint a reload works from; signing is offered by both of its fields or by neither once quoted.
ResumeHint == [next |-> NextActionFor(flow.state, flow.evidence), canSign |-> CanSubmitWrite(flow.state)]

\* A transition with its evidence; a move the table does not list throws and leaves the workflow as it was.
MoveTo(to, evidence) ==
  /\ CanTransition(flow.state, to) /\ moves < MaxSdkMoves
  /\ flow' = [state |-> to, evidence |-> evidence] /\ moves' = moves + 1

---------------------------------------------------------------------------
(* core/signing.ts: a plan is bound to its quote when its send conditions    *)
(* use up the quote's input, each amount once. Every call is in deny mode,   *)
(* so nothing else can leave the account. The equality of ids, versions,     *)
(* networks and expiry, and the approved contracts, are taken as holding.    *)

SendsOf(p, q) == Cardinality({s \in Steps : p[s] = q})
EffectsBound(p) == \A q \in Quantities : SendsOf(p, q) = input[q]
PlanReady(p) == ~expired /\ EffectsBound(p)

---------------------------------------------------------------------------
(* sdk/src/client.ts *)

RecordQuote ==
  /\ \E amounts \in Amounts : amounts # NoInput /\ input' = amounts
  /\ MoveTo("QUOTED", "none")
  /\ UNCHANGED <<plan, expired, asking, done, tx, broadcasts>>

\* A plan for the quote; after a partial completion, the same plan again for what is left of it. (recordPlan
\* is a plain transition: called against a CONTACT_SUPPORT hint it would reopen signing as well.)
RecordPlan ==
  /\ \E p \in Plans : PlanReady(p) /\ plan' = p
  /\ ResumeHint.next = "SIGN" \/ (ResumeHint.next = "FOLLOW_UP" /\ plan' = plan)
  /\ MoveTo("AWAITING_SIGNATURE", "none")
  /\ UNCHANGED <<input, expired, asking, done, tx, broadcasts>>

QuoteExpires ==
  /\ flow.state # "DRAFT" /\ ~expired /\ expired' = TRUE
  /\ UNCHANGED <<flow, moves, input, plan, asking, done, tx, broadcasts>>

\* Each step depends on those before it.
DependenciesDone(s) == \A earlier \in Steps : earlier < s => earlier \in done
\* The mutated form: a step that is done is offered again.
UnsignedStepsOfPlan == {s \in Steps : DependenciesDone(s)}
UnsignedSteps == {s \in Steps : s \notin done /\ DependenciesDone(s)}
FirstUnsigned(s) == s \in UnsignedSteps /\ \A other \in UnsignedSteps : s <= other

\* parkPartialCompletion and recordRejection: a rejection keeps a confirmed prefix.
WalletRejects(s) ==
  /\ IF done # {} THEN MoveTo("ACTION_REQUIRED", "partial") ELSE MoveTo("USER_REJECTED", "none")
  /\ asking' = s
  /\ UNCHANGED <<tx, broadcasts>>

\* inspectWalletResult BROADCAST, then recordBroadcast.
WalletBroadcasts(s) ==
  /\ MoveTo("SUBMITTED", "none")
  /\ asking' = s /\ tx' = [tx EXCEPT ![s] = "sent"] /\ broadcasts' = [broadcasts EXCEPT ![s] = @ + 1]

\* UNKNOWN, then recordUnknownBroadcast: it may or may not have been sent.
WalletIsUnclear(s) ==
  /\ CanRecordUnknown(flow.state) /\ MoveTo("BROADCAST_UNKNOWN", "none")
  /\ asking' = s
  /\ \/ UNCHANGED <<tx, broadcasts>>
     \/ tx' = [tx EXCEPT ![s] = "sent"] /\ broadcasts' = [broadcasts EXCEPT ![s] = @ + 1]

AskWallet(s) ==
  /\ ResumeHint.canSign /\ FirstUnsigned(s) /\ PlanReady(plan)
  /\ WalletRejects(s) \/ WalletBroadcasts(s) \/ WalletIsUnclear(s)
  /\ UNCHANGED <<input, plan, expired, done>>

\* The request the host sent is lost after the wallet has answered: unclear too, from a later state.
LosesSight ==
  /\ flow.state \in {"SUBMITTED", "CONFIRMING"} /\ CanRecordUnknown(flow.state) /\ MoveTo("BROADCAST_UNKNOWN", "none")
  /\ UNCHANGED <<input, plan, expired, asking, done, tx, broadcasts>>

\* resolveUnknownBroadcast; a read may miss a transaction that was sent.
ResolveUnknownBroadcast ==
  /\ flow.state = "BROADCAST_UNKNOWN"
  /\ (tx[asking] # "none" /\ MoveTo("SUBMITTED", "none")) \/ MoveTo("MANUAL_REVIEW", "none")
  /\ UNCHANGED <<input, plan, expired, asking, done, tx, broadcasts>>

BeginConfirming ==
  /\ flow.state \in {"SUBMITTED", "ACTION_REQUIRED", "REORGED"} /\ MoveTo("CONFIRMING", "none")
  /\ UNCHANGED <<input, plan, expired, asking, done, tx, broadcasts>>

\* markStepConfirmed.
MarkStepConfirmed ==
  /\ flow.state = "CONFIRMING" /\ asking # 0 /\ tx[asking] = "mined"
  /\ MoveTo("STEP_CONFIRMED", "none") /\ done' = done \cup {asking}
  /\ UNCHANGED <<input, plan, expired, asking, tx, broadcasts>>

\* continueAfterConfirmedStep: two transitions in one call when unsigned steps remain.
ContinueAfterConfirmedStep ==
  /\ flow.state = "CONFIRMING" /\ asking # 0 /\ tx[asking] = "mined"
  /\ done' = done \cup {asking} /\ Steps \ (done \cup {asking}) # {}
  /\ CanTransition("CONFIRMING", "STEP_CONFIRMED") /\ CanTransition("STEP_CONFIRMED", "AWAITING_SIGNATURE")
  /\ moves + 1 < MaxSdkMoves /\ moves' = moves + 2
  /\ flow' = [state |-> "AWAITING_SIGNATURE", evidence |-> "none"]
  /\ UNCHANGED <<input, plan, expired, asking, tx, broadcasts>>

BeginReconciling ==
  /\ flow.state \in {"STEP_CONFIRMED", "REORGED", "ACTION_REQUIRED", "MANUAL_REVIEW"} /\ MoveTo("RECONCILING", "none")
  /\ UNCHANGED <<input, plan, expired, asking, done, tx, broadcasts>>

\* completeFromReconciliation: the positions match only when every step is mined.
CompleteFromReconciliation ==
  /\ flow.state = "RECONCILING"
  /\ \/ (\A s \in Steps : tx[s] = "mined") /\ MoveTo("COMPLETED", "none")
     \/ MoveTo("ACTION_REQUIRED", "mismatch")
  /\ UNCHANGED <<input, plan, expired, asking, done, tx, broadcasts>>

RecordProviderOutage ==
  /\ flow.state \in {"SUBMITTED", "CONFIRMING", "STEP_CONFIRMED", "RECONCILING", "BROADCAST_UNKNOWN"}
  /\ MoveTo(IF flow.state = "STEP_CONFIRMED" THEN "RECONCILING" ELSE flow.state, "outage")
  /\ UNCHANGED <<input, plan, expired, asking, done, tx, broadcasts>>

ApplyReorg ==
  /\ flow.state # "REORGED" /\ MoveTo("REORGED", "none")
  /\ UNCHANGED <<input, plan, expired, asking, done, tx, broadcasts>>

ResumeAfterReorg ==
  /\ flow.state = "REORGED" /\ MoveTo("RECONCILING", "none")
  /\ UNCHANGED <<input, plan, expired, asking, done, tx, broadcasts>>

\* The chain mines what was sent, drops it, or takes a mined one back.
ChainMoves ==
  /\ \E s \in Steps :
       \/ tx[s] = "sent" /\ \E fate \in {"mined", "lost"} : tx' = [tx EXCEPT ![s] = fate]
       \/ tx[s] = "mined" /\ tx' = [tx EXCEPT ![s] = "sent"]
  /\ UNCHANGED <<flow, moves, input, plan, expired, asking, done, broadcasts>>

SdkNext ==
  \/ RecordQuote \/ RecordPlan \/ QuoteExpires \/ \E s \in Steps : AskWallet(s)
  \/ LosesSight \/ ResolveUnknownBroadcast \/ BeginConfirming \/ MarkStepConfirmed \/ ContinueAfterConfirmedStep
  \/ BeginReconciling \/ CompleteFromReconciliation \/ RecordProviderOutage \/ ApplyReorg \/ ResumeAfterReorg
  \/ ChainMoves

SdkSpec == SdkInit /\ [][SdkNext]_sdkVars

---------------------------------------------------------------------------
(* Properties *)

SdkTypeOK ==
  /\ flow.state \in States /\ moves \in 0..MaxSdkMoves /\ done \subseteq Steps /\ asking \in Steps \cup {0}
  /\ plan \in Plans /\ tx \in [Steps -> {"none", "sent", "mined", "lost"}]

LetOut == [q \in Quantities |-> Cardinality({s \in Steps : plan[s] = q /\ broadcasts[s] > 0})]

\* Whatever wallet, reads and chain do, a host that follows the hints lets out no more than the quote took
\* in: no step is broadcast twice (an unclear answer, an outage, a fork or a review never lead back to the
\* wallet for it), and together the steps let out each quoted amount at most once. A workflow labelled
\* rejected has broadcast nothing.
SpentWithinQuote ==
  /\ \A s \in Steps : broadcasts[s] <= 1
  /\ \A q \in Quantities : LetOut[q] <= input[q]
  /\ flow.state = "USER_REJECTED" => \A s \in Steps : broadcasts[s] = 0
=============================================================================
