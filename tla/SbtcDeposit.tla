----------------------------- MODULE SbtcDeposit -----------------------------
(* A Bitcoin deposit for sBTC, from its quote to the state the adapter shows *)
(* for it (packages/adapters/src/sbtc/deposit.ts, depositLifecycle.ts).      *)
(*                                                                           *)
(* The lifecycle is a function of three pieces of evidence: Emily's record   *)
(* of what the signers did, the Bitcoin transaction, and the mint found on   *)
(* Stacks. Each is read at a moment of its own while the world goes on, and  *)
(* Emily may time out or answer for something else.                          *)
EXTENDS Integers

CONSTANTS
  DepositAmounts, SignerFees,   \* what a user may deposit, and the largest signer fee they accept
  DepositMinimum,               \* Emily's perDepositMinimum
  LockTime,                     \* the Bitcoin height from which a deposit can be reclaimed
  MaxDepositForks               \* bound on forks of either chain

ASSUME SbtcDepositAssumption ==
  /\ DepositAmounts \subseteq Nat /\ SignerFees \subseteq Nat
  /\ {DepositMinimum, LockTime, MaxDepositForks} \subseteq Nat

VARIABLES
  deposit,          \* the metadata kept of the deposit, and what its quote promised
  emily,            \* the signers' record
  confirmations,    \* of the Bitcoin transaction
  btcTip,
  mint,             \* the mint on Stacks
  evidence,         \* what has been read
  depositShown,     \* the state shown last
  depositForks

depositVars == <<deposit, emily, confirmations, btcTip, mint, evidence, depositShown, depositForks>>

NoAmount == -1
NoDeposit == [amount |-> 0, maxFee |-> 0, promised |-> 0]
NoRecord == [status |-> "none", matches |-> TRUE, fee |-> NoAmount]
NoMint == [amount |-> NoAmount, canonical |-> TRUE]
NoSighting == [confirmations |-> 0, tip |-> NoAmount]

DepositInit ==
  /\ deposit = NoDeposit /\ emily = NoRecord /\ confirmations = 0 /\ btcTip = 0 /\ mint = NoMint
  /\ evidence = [emily |-> NoRecord, bitcoin |-> NoSighting, mint |-> NoMint]
  /\ depositShown = "none" /\ depositForks = 0

Sent == deposit # NoDeposit

---------------------------------------------------------------------------
(* The quote and its plan: the fee is bounded by the amount in the output,  *)
(* and goes as it is into the plan and so into the deposit's metadata.      *)

QuotedOutput(amount, maxFee) == amount - (IF maxFee > amount THEN amount ELSE maxFee)

QuoteDeposit(amount, maxFee) ==
  /\ ~Sent /\ amount > 0 /\ amount >= DepositMinimum
  /\ deposit' = [amount |-> amount, maxFee |-> maxFee, promised |-> QuotedOutput(amount, maxFee)]
  /\ UNCHANGED <<emily, confirmations, btcTip, mint, evidence, depositShown, depositForks>>

---------------------------------------------------------------------------
(* The world: Bitcoin, the signers, Stacks. *)

BitcoinBlock ==
  /\ Sent /\ btcTip < LockTime + 1 /\ btcTip' = btcTip + 1
  /\ confirmations' \in IF confirmations = 0 THEN {0, 1} ELSE {confirmations}
  /\ UNCHANGED <<deposit, emily, mint, evidence, depositShown, depositForks>>

BitcoinForks ==
  /\ depositForks < MaxDepositForks /\ depositForks' = depositForks + 1
  /\ confirmations > 0 /\ confirmations' = 0
  /\ UNCHANGED <<deposit, emily, btcTip, mint, evidence, depositShown>>

SignersMove ==
  /\ Sent
  /\ \/ emily.status = "none" /\ emily' = [emily EXCEPT !.status = "pending"]
     \/ emily.status = "pending" /\ \E s \in {"accepted", "failed", "rbf"} : emily' = [emily EXCEPT !.status = s]
     \/ /\ emily.status = "accepted"
        /\ \E fee \in {NoAmount} \cup SignerFees : emily' = [emily EXCEPT !.status = "confirmed", !.fee = fee]
  /\ UNCHANGED <<deposit, confirmations, btcTip, mint, evidence, depositShown, depositForks>>

\* Signers may mint any amount; the lifecycle is what holds it to the fee.
Minted ==
  /\ emily.status \in {"accepted", "confirmed"} /\ mint = NoMint
  /\ \E amount \in 0..(deposit.amount + 1) : mint' = [amount |-> amount, canonical |-> TRUE]
  /\ UNCHANGED <<deposit, emily, confirmations, btcTip, evidence, depositShown, depositForks>>

StacksForks ==
  /\ depositForks < MaxDepositForks /\ depositForks' = depositForks + 1
  /\ mint # NoMint /\ mint.canonical /\ mint' = [mint EXCEPT !.canonical = FALSE]
  /\ UNCHANGED <<deposit, emily, confirmations, btcTip, evidence, depositShown>>

---------------------------------------------------------------------------
(* Reading. fetchEmilyDeposit answers nothing for a 404; a time-out leaves  *)
(* nothing too.                                                              *)

ReadEmily ==
  /\ Sent
  /\ \E answer \in {NoRecord} \cup {[emily EXCEPT !.matches = m] : m \in BOOLEAN} :
       evidence' = [evidence EXCEPT !.emily = IF emily.status = "none" THEN NoRecord ELSE answer]
  /\ UNCHANGED <<deposit, emily, confirmations, btcTip, mint, depositShown, depositForks>>

ReadBitcoin ==
  /\ Sent /\ evidence' = [evidence EXCEPT !.bitcoin = [confirmations |-> confirmations, tip |-> btcTip]]
  /\ UNCHANGED <<deposit, emily, confirmations, btcTip, mint, depositShown, depositForks>>

ReadMint ==
  /\ Sent /\ evidence' = [evidence EXCEPT !.mint = mint]
  /\ UNCHANGED <<deposit, emily, confirmations, btcTip, mint, depositShown, depositForks>>

---------------------------------------------------------------------------
(* evaluateSbtcDeposit *)

ExpectedMinimumBelowFee == IF deposit.maxFee >= deposit.amount THEN 0 ELSE deposit.amount - deposit.maxFee - 1
ExpectedMinimum == IF deposit.maxFee >= deposit.amount THEN 0 ELSE deposit.amount - deposit.maxFee

MintMatches(e) ==
  e.mint # NoMint => /\ e.mint.canonical
                     /\ e.mint.amount >= ExpectedMinimum /\ e.mint.amount <= deposit.amount

\* The fee of Emily's fulfilment against the one the mint took.
FeesAgree(e) ==
  e.mint # NoMint /\ MintMatches(e) /\ e.emily.fee # NoAmount => e.emily.fee = deposit.amount - e.mint.amount

\* The lock height comes with Emily's record, the current one with the transaction.
ReclaimAvailable(e) ==
  e.mint = NoMint /\ e.emily.status # "none" /\ e.bitcoin.tip # NoAmount /\ e.bitcoin.tip >= LockTime

DepositState(e) ==
  IF ~e.emily.matches \/ ~MintMatches(e) \/ ~FeesAgree(e) THEN "reconciliation_failed"
  ELSE IF e.mint # NoMint THEN "reconciled"
  ELSE CASE e.emily.status = "rbf"    -> "replaced"
         [] e.emily.status = "failed" -> "failed"
         [] OTHER -> IF ReclaimAvailable(e) THEN "reclaimable"
                     ELSE CASE e.emily.status = "confirmed" -> "mint_pending"
                            [] e.emily.status = "accepted"  -> "signer_processing"
                            [] OTHER -> IF e.bitcoin.confirmations > 0 THEN "confirming" ELSE "submitted"

EvaluateSbtcDeposit ==
  /\ Sent /\ depositShown' = DepositState(evidence)
  /\ UNCHANGED <<deposit, emily, confirmations, btcTip, mint, evidence, depositForks>>

DepositNext ==
  \/ \E amount \in DepositAmounts, maxFee \in SignerFees : QuoteDeposit(amount, maxFee)
  \/ BitcoinBlock \/ BitcoinForks \/ SignersMove \/ Minted \/ StacksForks
  \/ ReadEmily \/ ReadBitcoin \/ ReadMint \/ EvaluateSbtcDeposit

DepositSpec == DepositInit /\ [][DepositNext]_depositVars

---------------------------------------------------------------------------
(* Properties *)

DepositTypeOK ==
  /\ btcTip \in 0..(LockTime + 1) /\ confirmations \in 0..1
  /\ emily.status \in {"none", "pending", "accepted", "confirmed", "failed", "rbf"}
  /\ depositShown \in {"none", "submitted", "confirming", "signer_processing", "mint_pending", "reclaimable",
                       "replaced", "failed", "reconciliation_failed", "reconciled"}

\* A deposit shown as complete has been minted for at least what its quote promised, whenever the three
\* pieces of evidence were read, and is never again shown as waiting or as reclaimable: neither a signer
\* that reports failure or a replacement later, nor an Emily that stops answering, nor the lock height
\* undo it (reconciliation_failed can follow: a fork, or a record of something else).
CompleteDepositStays ==
  /\ [](depositShown = "reconciled" => /\ mint # NoMint
                                       /\ mint.amount \in deposit.promised..deposit.amount)
  /\ [][depositShown = "reconciled" => depositShown' \in {"reconciled", "reconciliation_failed"}]_depositVars
=============================================================================
