--------------------------- MODULE SbtcWithdrawal ---------------------------
(* A withdrawal of sBTC to Bitcoin, from its quote to the state and the      *)
(* accounting the adapter shows (packages/adapters/src/sbtc/withdraw.ts,     *)
(* withdrawalLifecycle.ts).                                                  *)
(*                                                                           *)
(* Four pieces of evidence are read at moments of their own: the request in  *)
(* the registry, Emily's record, the signers' completion and the Bitcoin     *)
(* output. Whatever identifies the transfer (ids, sender, recipient, hashes) *)
(* is one comparison: a piece is of this transfer or not.                    *)
EXTENDS Integers

CONSTANTS
  WithdrawalAmount, WithdrawalMaxFee,
  Dust, PerWithdrawalCap,
  Payouts,                \* the Bitcoin transactions a sweep may end up in
  MaxWithdrawalForks

ASSUME SbtcWithdrawalAssumption ==
  /\ {WithdrawalAmount, WithdrawalMaxFee, Dust, PerWithdrawalCap, MaxWithdrawalForks} \subseteq Nat
  /\ Payouts \subseteq Nat \ {0}

VARIABLES
  withdrawal,       \* "none", or "locked": the request transaction was sent and locked amount and fee
  registry,         \* the request in the registry: pending, accepted or rejected
  emilyRequest,     \* Emily's record: status, and the payout and fee of its fulfilment
  completion,       \* the accept event: payout, fee
  payout,           \* the Bitcoin transaction that pays: confirmations, what it pays
  read,             \* the evidence
  withdrawalShown,  \* the state and accounting shown last
  withdrawalForks

withdrawalVars == <<withdrawal, registry, emilyRequest, completion, payout, read, withdrawalShown, withdrawalForks>>

Nothing == [is |-> "none"]
NotShown == [state |-> "none", debit |-> 0, refund |-> 0, returned |-> 0, received |-> 0]

WithdrawalInit ==
  /\ withdrawal = "none" /\ registry = "none" /\ emilyRequest = Nothing /\ completion = Nothing
  /\ payout = Nothing
  /\ read = [request |-> "none", emily |-> Nothing, completion |-> Nothing, payout |-> Nothing]
  /\ withdrawalShown = NotShown /\ withdrawalForks = 0

Locked == WithdrawalAmount + WithdrawalMaxFee

---------------------------------------------------------------------------
(* The quote: above dust, within the cap; the plan locks amount and fee. *)

QuoteWithdraw ==
  /\ withdrawal = "none" /\ WithdrawalAmount > Dust /\ WithdrawalAmount <= PerWithdrawalCap
  /\ withdrawal' = "locked" /\ registry' = "pending"
  /\ UNCHANGED <<emilyRequest, completion, payout, read, withdrawalShown, withdrawalForks>>

---------------------------------------------------------------------------
(* The world. *)

EmilyAccepts ==
  /\ withdrawal = "locked"
  /\ \/ emilyRequest = Nothing /\ emilyRequest' = [is |-> "pending", payout |-> 0, fee |-> 0]
     \/ emilyRequest.is = "pending" /\ emilyRequest' = [emilyRequest EXCEPT !.is = "accepted"]
     \/ emilyRequest.is = "pending" /\ registry = "rejected" /\ emilyRequest' = [emilyRequest EXCEPT !.is = "failed"]
     \/ /\ emilyRequest.is = "accepted" /\ completion # Nothing
        /\ \E fee \in {completion.fee, completion.fee + 1} :
             emilyRequest' = [is |-> "confirmed", payout |-> completion.payout, fee |-> fee]
  /\ UNCHANGED <<withdrawal, registry, completion, payout, read, withdrawalShown, withdrawalForks>>

\* The signers sweep on Bitcoin first. What the transaction pays is theirs to say.
Sweep ==
  /\ registry = "pending" /\ payout = Nothing
  /\ \E tx \in Payouts, pays \in {WithdrawalAmount - 1, WithdrawalAmount} :
       payout' = [is |-> tx, pays |-> pays, confirmations |-> 0]
  /\ UNCHANGED <<withdrawal, registry, emilyRequest, completion, read, withdrawalShown, withdrawalForks>>

Confirm ==
  /\ payout # Nothing /\ payout.confirmations = 0 /\ payout' = [payout EXCEPT !.confirmations = 1]
  /\ UNCHANGED <<withdrawal, registry, emilyRequest, completion, read, withdrawalShown, withdrawalForks>>

\* A Bitcoin fork takes the confirmation back, and another sweep may take the output's place.
PayoutForks ==
  /\ withdrawalForks < MaxWithdrawalForks /\ withdrawalForks' = withdrawalForks + 1
  /\ payout # Nothing /\ payout.confirmations = 1
  /\ \E tx \in Payouts : payout' = [payout EXCEPT !.is = tx, !.confirmations = 0]
  /\ UNCHANGED <<withdrawal, registry, emilyRequest, completion, read, withdrawalShown>>

\* accept-withdrawal-request settles the request and names the payout, in one Stacks transaction.
Accept ==
  /\ registry = "pending" /\ payout # Nothing /\ payout.confirmations = 1
  /\ registry' = "accepted"
  /\ \E fee \in 0..(WithdrawalMaxFee + 1) : completion' = [is |-> "accepted", payout |-> payout.is, fee |-> fee]
  /\ UNCHANGED <<withdrawal, emilyRequest, payout, read, withdrawalShown, withdrawalForks>>

Reject ==
  /\ registry = "pending" /\ payout = Nothing /\ registry' = "rejected"
  /\ UNCHANGED <<withdrawal, emilyRequest, completion, payout, read, withdrawalShown, withdrawalForks>>

---------------------------------------------------------------------------
(* Reading, one piece at a time. Emily may time out or answer for another transfer. *)

ReadRequest == read' = [read EXCEPT !.request = registry]
ReadEmilyRequest == read' = [read EXCEPT !.emily = Nothing] \/ read' = [read EXCEPT !.emily = emilyRequest]
                    \/ read' = [read EXCEPT !.emily = [is |-> "other"]]
ReadCompletion == read' = [read EXCEPT !.completion = completion]
ReadPayout == read' = [read EXCEPT !.payout = payout]

ReadPiece ==
  /\ withdrawal = "locked"
  /\ ReadRequest \/ ReadEmilyRequest \/ ReadCompletion \/ ReadPayout
  /\ UNCHANGED <<withdrawal, registry, emilyRequest, completion, payout, withdrawalShown, withdrawalForks>>

---------------------------------------------------------------------------
(* evaluateSbtcWithdrawal *)

EmilyMismatch(e) == e.emily.is = "other"
CompletionMismatch(e) == e.completion # Nothing /\ e.completion.fee > WithdrawalMaxFee

PayoutMismatch(e) ==
  /\ e.payout # Nothing
  /\ \/ e.payout.pays # WithdrawalAmount
     \/ e.completion # Nothing /\ e.payout.is # e.completion.payout
     \/ e.emily.is = "confirmed" /\ e.payout.is # e.emily.payout

FulfilmentMismatch(e) ==
  e.emily.is = "confirmed" /\ e.completion # Nothing
  /\ (e.emily.payout # e.completion.payout \/ e.emily.fee # e.completion.fee)

\* Pieces that contradict each other, each of this transfer.
Contradiction(e) ==
  \/ e.completion # Nothing /\ e.request # "accepted"
  \/ e.payout # Nothing /\ e.completion = Nothing
  \/ e.emily.is = "failed" /\ (e.request = "accepted" \/ e.completion # Nothing)
  \/ e.emily.is = "confirmed" /\ e.request = "rejected"

HasMismatchInPieces(e) == EmilyMismatch(e) \/ CompletionMismatch(e) \/ Contradiction(e)
HasMismatch(e) ==
  EmilyMismatch(e) \/ CompletionMismatch(e) \/ PayoutMismatch(e) \/ FulfilmentMismatch(e) \/ Contradiction(e)

WithdrawalState(e) ==
  IF HasMismatch(e) THEN "reconciliation_failed"
  ELSE IF e.request = "rejected" THEN "rejected"
  ELSE IF e.completion # Nothing /\ e.payout # Nothing /\ e.payout.confirmations > 0 THEN "reconciled"
  ELSE IF e.completion # Nothing \/ e.emily.is = "confirmed" THEN "payout_confirming"
  ELSE IF e.emily.is = "failed" THEN "signer_rejection_pending"
  ELSE IF e.request # "none" \/ e.emily.is \in {"accepted", "pending"} THEN "signer_processing"
  ELSE "request_confirming"

\* A release whose registry no longer enables withdrawals shows every one of them as unavailable.
EvaluateSbtcWithdrawal(available) ==
  /\ withdrawal = "locked"
  /\ LET state == IF available THEN WithdrawalState(read) ELSE "unavailable"
         settled == state = "reconciled"
     IN  withdrawalShown' = [state    |-> state,
                             debit    |-> IF settled THEN WithdrawalAmount + read.completion.fee ELSE 0,
                             refund   |-> IF settled THEN WithdrawalMaxFee - read.completion.fee ELSE 0,
                             returned |-> IF state = "rejected" THEN Locked ELSE 0,
                             received |-> IF settled THEN read.payout.pays ELSE 0]
  /\ UNCHANGED <<withdrawal, registry, emilyRequest, completion, payout, read, withdrawalForks>>

WithdrawalNext ==
  \/ QuoteWithdraw \/ EmilyAccepts \/ Sweep \/ Confirm \/ PayoutForks \/ Accept \/ Reject
  \/ ReadPiece \/ \E available \in BOOLEAN : EvaluateSbtcWithdrawal(available)

WithdrawalSpec == WithdrawalInit /\ [][WithdrawalNext]_withdrawalVars

---------------------------------------------------------------------------
(* Properties *)

WithdrawalTypeOK ==
  /\ withdrawal \in {"none", "locked"} /\ registry \in {"none", "pending", "accepted", "rejected"}
  /\ withdrawalShown.state \in {"none", "unavailable", "request_confirming", "signer_processing",
                                "signer_rejection_pending", "payout_confirming", "rejected", "reconciliation_failed", "reconciled"}

\* Every base unit that was locked is accounted for when a withdrawal is shown as closed, whenever its four
\* pieces were read: paid in full on Bitcoin with the rest refunded, or returned whole after a rejection
\* with nothing paid. A withdrawal shown as closed one way is never shown as closed the other way.
WithdrawalAddsUp ==
  /\ [](/\ withdrawalShown.state = "reconciled" =>
             /\ registry = "accepted" /\ withdrawalShown.debit + withdrawalShown.refund = Locked
             /\ withdrawalShown.refund >= 0 /\ withdrawalShown.received = WithdrawalAmount
             /\ withdrawalShown.debit = WithdrawalAmount + completion.fee
        /\ withdrawalShown.state = "rejected" => registry = "rejected" /\ payout = Nothing
                                                 /\ withdrawalShown.returned = Locked)
  /\ [][withdrawalShown.state = "rejected" => withdrawalShown'.state # "reconciled"]_withdrawalVars
=============================================================================
