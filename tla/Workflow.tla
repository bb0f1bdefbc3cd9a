------------------------------ MODULE Workflow ------------------------------
(***************************************************************************)
(* The workflow state machine of packages/core: the table of allowed moves *)
(* and the guard each helper adds to it.  Pure definitions; Execution.tla  *)
(* runs them against the database.                                         *)
(*                                                                         *)
(* Left out: the wording of reasons and evidence, timestamps, and the      *)
(* next-action hint, which is a function of the state and of an evidence   *)
(* prefix.                                                                 *)
(***************************************************************************)
EXTENDS Naturals, Sequences

States ==
    {"DRAFT", "QUOTED", "AWAITING_SIGNATURE", "BROADCAST_UNKNOWN", "SUBMITTED",
     "CONFIRMING", "STEP_CONFIRMED", "RECONCILING", "ACTION_REQUIRED",
     "REORGED", "MANUAL_REVIEW", "COMPLETED", "EXPIRED", "USER_REJECTED",
     "FAILED"}

\* The moves the table lists, state by state.
ALLOWED == [s \in States |->
    CASE s = "DRAFT" -> {"QUOTED", "EXPIRED", "FAILED"}
      [] s = "QUOTED" -> {"AWAITING_SIGNATURE", "EXPIRED", "FAILED"}
      [] s = "AWAITING_SIGNATURE" ->
           {"SUBMITTED", "BROADCAST_UNKNOWN", "USER_REJECTED", "EXPIRED",
            "FAILED", "ACTION_REQUIRED"}
      [] s = "BROADCAST_UNKNOWN" ->
           {"SUBMITTED", "CONFIRMING", "BROADCAST_UNKNOWN", "MANUAL_REVIEW",
            "FAILED"}
      [] s = "SUBMITTED" ->
           {"CONFIRMING", "BROADCAST_UNKNOWN", "SUBMITTED", "REORGED",
            "FAILED", "ACTION_REQUIRED"}
      [] s = "CONFIRMING" ->
           {"STEP_CONFIRMED", "REORGED", "BROADCAST_UNKNOWN", "CONFIRMING",
            "ACTION_REQUIRED", "FAILED"}
      [] s = "STEP_CONFIRMED" ->
           {"RECONCILING", "AWAITING_SIGNATURE", "REORGED", "ACTION_REQUIRED"}
      [] s = "RECONCILING" ->
           {"COMPLETED", "STEP_CONFIRMED", "REORGED", "ACTION_REQUIRED",
            "RECONCILING", "FAILED"}
      [] s = "ACTION_REQUIRED" ->
           {"CONFIRMING", "AWAITING_SIGNATURE", "RECONCILING",
            "MANUAL_REVIEW", "FAILED"}
      [] s = "REORGED" ->
           {"RECONCILING", "CONFIRMING", "MANUAL_REVIEW", "FAILED"}
      [] s = "MANUAL_REVIEW" -> {"RECONCILING", "FAILED"}
      [] s = "COMPLETED" -> {"REORGED"}
      [] OTHER -> {}]

\* One persisted transition.
Move == [from : States, to : States]

\* transition() accepts the move; otherwise it throws PLAN_INVALID.
CanTransition(from, to) == to \in ALLOWED[from]

\* recordUnknownBroadcast() narrows the table to three source states.
CanRecordUnknown(from) ==
    /\ from \in {"AWAITING_SIGNATURE", "SUBMITTED", "CONFIRMING"}
    /\ CanTransition(from, "BROADCAST_UNKNOWN")

\* The transitions of walking from a state through a list of states.
MovesAlong(from, path) ==
    [i \in 1..Len(path) |->
        [from |-> IF i = 1 THEN from ELSE path[i - 1], to |-> path[i]]]

\* The moves startWorkflow records before the workflow row is inserted.
AdmissionPath == <<"QUOTED", "AWAITING_SIGNATURE">>

=============================================================================
