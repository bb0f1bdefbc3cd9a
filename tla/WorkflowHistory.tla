--------------------------- MODULE WorkflowHistory ---------------------------
(***************************************************************************)
(* What a workflow promises whoever reads it, whichever process writes it: *)
(* the history only grows, it is a walk through the allowed moves, and the *)
(* state shown beside it is where that walk ended.  A workflow starts with *)
(* the history the API gives it at admission.                              *)
(*                                                                         *)
(* This is core's transition(), which appends to the list it validates     *)
(* against.  Execution.tla, where several processes write the two tables   *)
(* this history is stored in, is shown to implement it.                    *)
(***************************************************************************)
EXTENDS Workflow

VARIABLES
    state,  \* the workflow's state, "NONE" before admission
    log     \* its transitions, oldest first

vars == <<state, log>>

\* A history in which every move is allowed and starts where the last ended.
Walk(moves) ==
    \A i \in DOMAIN moves :
        /\ CanTransition(moves[i].from, moves[i].to)
        /\ moves[i].from = IF i = 1 THEN "DRAFT" ELSE moves[i - 1].to

Init ==
    /\ state = "NONE"
    /\ log = <<>>

\* createWorkflow and the two transitions before the row is inserted.
Admit ==
    /\ state = "NONE"
    /\ log' = MovesAlong("DRAFT", AdmissionPath)
    /\ state' = "AWAITING_SIGNATURE"

\* Any number of transition() calls, stored together.
Extend ==
    /\ state # "NONE"
    /\ log' \in Seq(Move)
    /\ Len(log') > Len(log)
    /\ \A i \in DOMAIN log : log'[i] = log[i]
    /\ Walk(log')
    /\ state' = log'[Len(log')].to

Next == Admit \/ Extend

Spec == Init /\ [][Next]_vars

=============================================================================
