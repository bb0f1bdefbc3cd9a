---------------------------- MODULE MCExecution ----------------------------
(***************************************************************************)
(* Execution on small plans.  Each .cfg names one of the plans below.      *)
(***************************************************************************)
EXTENDS Execution

\* A borrow: collateral goes in first, the second step credits the owner.
BorrowPlan == <<0, 2>>

\* A supply, swap or withdrawal: one step that credits the owner.
SinglePlan == <<2>>

=============================================================================
