---------------------------- MODULE MCIngestion ----------------------------
(***************************************************************************)
(* Ingestion on a short chain.  The number of events is the largest one.   *)
(***************************************************************************)
EXTENDS Ingestion

CONSTANT NEvents

NumberedEvents == 1..NEvents

=============================================================================
