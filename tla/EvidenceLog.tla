----------------------------- MODULE EvidenceLog -----------------------------
(***************************************************************************)
(* applyBlock and applyReorg of packages/core/src/ingestion.ts, which the  *)
(* ingestion design names as the behaviour the worker implements: a block  *)
(* is taken when it continues the checkpoint, a reorg makes everything     *)
(* above the common ancestor noncanonical and goes back to it.             *)
(*                                                                         *)
(* A block is the sequence of the forks its ancestors and itself belong    *)
(* to, oldest first: its parent is all but its last element, its height    *)
(* its length, and equal sequences are equal hashes.                       *)
(***************************************************************************)
EXTENDS Naturals, Sequences, SequencesExt

CONSTANT NoBlock  \* the checkpoint before the first block

VARIABLES
    blocks,     \* every block ever taken
    canonical,  \* those marked canonical
    checkpoint

vars == <<blocks, canonical, checkpoint>>

Init ==
    /\ blocks = {}
    /\ canonical = {}
    /\ checkpoint = NoBlock

ApplyBlock(b) ==
    /\ checkpoint # NoBlock => Front(b) = checkpoint
    /\ blocks' = blocks \cup {b}
    /\ canonical' = canonical \cup {b}
    /\ checkpoint' = b

ApplyReorg(ancestor) ==
    /\ ancestor \in blocks
    /\ canonical' = {b \in canonical : Len(b) <= Len(ancestor)}
    /\ checkpoint' = ancestor
    /\ UNCHANGED blocks

\* The block is the one the checkpoint moves to, the ancestor one of those taken.
Next == ApplyBlock(checkpoint') \/ ApplyReorg(checkpoint')

Spec == Init /\ [][Next]_vars

=============================================================================
