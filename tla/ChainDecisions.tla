--------------------------- MODULE ChainDecisions ---------------------------
(***************************************************************************)
(* The two pure decisions of the worker: how far chain evidence moves a    *)
(* submitted workflow (apps/worker/src/confirmations.ts), and whether the  *)
(* effects attributed to a confirmed one settle it (reconciliation.ts).    *)
(***************************************************************************)
EXTENDS Workflow, Integers, FiniteSetsExt

(***************************************************************************)
(* What one reading says of a transaction.  The Hiro statuses are grouped  *)
(* as the code groups them; "absent" is a provider with no record of it.   *)
(*   block      a block height is reported (null while in the mempool)     *)
(*   canonical  Hiro says canonical and the stored block at that height,   *)
(*              if any, has the same hash                                  *)
(*   ahead      the checkpoint is above the transaction's block            *)
(***************************************************************************)
Statuses == {"absent", "pending", "success", "aborted", "dropped"}
TransactionEvidence ==
    [status : Statuses, block : BOOLEAN, canonical : BOOLEAN, ahead : BOOLEAN]

Evidence(status, block, canonical, ahead) ==
    [status |-> status, block |-> block,
     canonical |-> canonical, ahead |-> ahead]

\* Faulty variant: the tip counts as confirmation.
ConfirmedPathAtTip(state, ahead, isFinalStep) ==
    (IF state = "SUBMITTED" THEN <<"CONFIRMING">> ELSE <<>>)
        \o IF isFinalStep THEN <<"STEP_CONFIRMED">>
           ELSE <<"STEP_CONFIRMED", "AWAITING_SIGNATURE">>

\* The states a canonical success moves a workflow through.
ConfirmedPath(state, ahead, isFinalStep) ==
    LET confirming == IF state = "SUBMITTED" THEN <<"CONFIRMING">> ELSE <<>>
        ending == IF isFinalStep THEN <<"STEP_CONFIRMED">>
                  ELSE <<"STEP_CONFIRMED", "AWAITING_SIGNATURE">>
    IN  IF ahead THEN confirming \o ending ELSE confirming

\* The early returns of confirmationDecision, in their order: the block height
\* is looked at before the status, so "dropped" is only reached with a block.
ConfirmationDecision(state, tx, isFinalStep) ==
    IF state \notin {"SUBMITTED", "CONFIRMING"} THEN <<>>
    ELSE IF tx.status \in {"absent", "pending"} \/ ~tx.block THEN <<>>
    ELSE IF tx.status = "aborted" THEN <<"FAILED">>
    ELSE IF tx.status = "dropped" THEN <<"ACTION_REQUIRED">>
    ELSE IF ~tx.canonical THEN <<"REORGED">>
    ELSE ConfirmedPath(state, tx.ahead, isFinalStep)

(***************************************************************************)
(* quoted says whether the quote records an expected output, effects is    *)
(* the set of steps whose canonical activity is attributed to the          *)
(* workflow, credit[k] what step k credits its owner in the quoted asset   *)
(* (0 for a step that only moves something out), minimum the signed floor, *)
(* 0 when there is none.  The quoted amount itself is recorded as evidence *)
(* and never enforced, so it is not a parameter.                           *)
(***************************************************************************)
Observed(steps, credit) == MapThenSumSet(LAMBDA k : credit[k], steps)

\* Faulty variant: judges what the plan should have credited.
ReconciliationDecisionByPlan(quoted, effects, credit, minimum) ==
    IF ~quoted \/ effects = {} THEN "wait"
    ELSE IF Observed(DOMAIN credit, credit) < minimum THEN "mismatch"
    ELSE "matched"

ReconciliationDecision(quoted, effects, credit, minimum) ==
    LET received == {k \in effects : credit[k] > 0}
    IN  IF ~quoted \/ effects = {} THEN "wait"
        ELSE IF received = {} \/ Observed(received, credit) < minimum
        THEN "mismatch"
        ELSE "matched"

\* Faulty variant: jumps over RECONCILING.
ReconciliationPathDirect(state, verdict) ==
    <<IF verdict = "matched" THEN "COMPLETED" ELSE "ACTION_REQUIRED">>

\* completeFromReconciliation passes through RECONCILING when it is not there.
ReconciliationPath(state, verdict) ==
    (IF state = "STEP_CONFIRMED" THEN <<"RECONCILING">> ELSE <<>>)
        \o <<IF verdict = "matched" THEN "COMPLETED" ELSE "ACTION_REQUIRED">>

=============================================================================
