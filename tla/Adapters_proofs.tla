-------------------------- MODULE Adapters_proofs --------------------------
(* What is proved of the adapters and of the portfolio read beside them,    *)
(* for any amounts, prices, rates and parameters of the market: a deposit   *)
(* that is complete was minted, a closed withdrawal adds up, a route pays   *)
(* at least what its quote promised, credit is not signed for into danger,  *)
(* nor trouble hidden, and a complete portfolio is worth what it says.      *)
EXTENDS SbtcDeposit, SbtcWithdrawal, Routes, Credit, Portfolio, Sums_proofs

---------------------------------------------------------------------------
(* SbtcDeposit *)

DepositStates == {"none", "submitted", "confirming", "signer_processing", "mint_pending", "reclaimable",
                  "replaced", "failed", "reconciliation_failed", "reconciled"}
SignerStates == {"none", "pending", "accepted", "confirmed", "failed", "rbf"}
MintRecord == [amount : Nat \union {NoAmount}, canonical : BOOLEAN]

DepositTypes ==
  /\ deposit \in [amount : Nat, maxFee : Nat, promised : Nat]
  /\ btcTip \in 0..(LockTime + 1) /\ confirmations \in 0..1
  /\ emily \in [status : SignerStates, matches : BOOLEAN, fee : Nat \union {NoAmount}]
  /\ mint \in MintRecord /\ evidence.mint \in MintRecord /\ DOMAIN evidence = {"emily", "bitcoin", "mint"}
  /\ depositShown \in DepositStates

\* The fee is within the amount, and nothing happens before the deposit is sent.
QuoteIsKept ==
  /\ deposit # NoDeposit => deposit.promised = QuotedOutput(deposit.amount, deposit.maxFee)
  /\ deposit = NoDeposit => emily.status = "none" /\ mint = NoMint

\* The evidence of a mint is of the mint there is, though a fork may have taken it away.
EvidenceIsOfTheMint ==
  evidence.mint # NoMint => mint # NoMint /\ mint.amount = evidence.mint.amount

CompleteWasMinted ==
  depositShown = "reconciled" => /\ evidence.mint # NoMint
                                 /\ mint.amount \in deposit.promised..deposit.amount

DepositOK == DepositTypes /\ QuoteIsKept /\ EvidenceIsOfTheMint /\ CompleteWasMinted

\* What a mint may have taken is what the quote allowed.
LEMMA MatchingMintKeepsPromise ==
  ASSUME DepositOK, Sent, evidence.mint # NoMint, MintMatches(evidence)
  PROVE  mint.amount \in deposit.promised..deposit.amount
<1>1. mint.amount \in Nat \union {NoAmount} /\ mint.amount = evidence.mint.amount
  BY DEF DepositOK, DepositTypes, MintRecord, EvidenceIsOfTheMint
<1>2. deposit.amount \in Nat /\ deposit.maxFee \in Nat
  BY DEF DepositOK, DepositTypes
<1>3. mint.amount >= ExpectedMinimum /\ mint.amount <= deposit.amount
  BY <1>1 DEF MintMatches
<1>4. deposit.promised = ExpectedMinimum
  BY <1>2 DEF DepositOK, QuoteIsKept, QuotedOutput, ExpectedMinimum, Sent
<1>5. mint.amount \in Int
  BY <1>1 DEF NoAmount
<1> QED BY <1>2, <1>3, <1>4, <1>5 DEF ExpectedMinimum

\* A mint that was read leaves two states to show.
LEMMA MintedIsFinal ==
  ASSUME evidence.mint # NoMint
  PROVE  /\ DepositState(evidence) \in {"reconciled", "reconciliation_failed"}
         /\ DepositState(evidence) = "reconciled" => MintMatches(evidence)
BY DEF DepositState

LEMMA UnmintedIsNotComplete ==
  ASSUME evidence.mint = NoMint
  PROVE  DepositState(evidence) \in DepositStates \ {"reconciled"}
<1>1. PICK failing \in BOOLEAN : failing = (~evidence.emily.matches \/ ~MintMatches(evidence) \/ ~FeesAgree(evidence))
  OBVIOUS
<1> QED BY <1>1 DEF DepositState, DepositStates

LEMMA DepositStarts ==
  ASSUME DepositInit
  PROVE  DepositOK
<1>1. LockTime \in Nat
  BY SbtcDepositAssumption
<1> QED BY <1>1 DEF DepositInit, DepositOK, DepositTypes, QuoteIsKept, EvidenceIsOfTheMint, CompleteWasMinted, NoDeposit, NoRecord,
  NoMint, NoAmount, MintRecord, SignerStates, DepositStates

LEMMA QuoteKeepsDeposit ==
  ASSUME DepositOK, NEW amount \in DepositAmounts, NEW maxFee \in SignerFees, QuoteDeposit(amount, maxFee)
  PROVE  DepositOK'
<1>1. amount \in Nat /\ maxFee \in Nat
  BY SbtcDepositAssumption
<1>2. deposit' = [amount |-> amount, maxFee |-> maxFee, promised |-> QuotedOutput(amount, maxFee)]
      /\ deposit = NoDeposit /\ QuotedOutput(amount, maxFee) \in Nat
  BY <1>1 DEF QuoteDeposit, Sent, QuotedOutput
<1>3. UNCHANGED <<emily, confirmations, btcTip, mint, evidence, depositShown, depositForks>>
  BY DEF QuoteDeposit
<1>4. mint = NoMint /\ evidence.mint = NoMint
  BY <1>2 DEF DepositOK, QuoteIsKept, EvidenceIsOfTheMint
<1>5. deposit'.amount = amount /\ deposit'.maxFee = maxFee /\ deposit'.promised = QuotedOutput(amount, maxFee)
      /\ deposit' \in [amount : Nat, maxFee : Nat, promised : Nat] /\ deposit' # NoDeposit
  BY <1>1, <1>2 DEF QuoteDeposit, NoDeposit
<1>6. DepositTypes' /\ EvidenceIsOfTheMint'
  BY <1>3, <1>5 DEF DepositOK, DepositTypes, EvidenceIsOfTheMint
<1>7. QuoteIsKept'
  BY <1>5 DEF QuoteIsKept, QuotedOutput
<1>8. CompleteWasMinted'
  BY <1>3, <1>4 DEF DepositOK, CompleteWasMinted
<1> QED BY <1>6, <1>7, <1>8 DEF DepositOK

\* The two chains and the signers, while the deposit keeps what its quote said.
LEMMA WorldKeepsDeposit ==
  ASSUME DepositOK, BitcoinBlock \/ BitcoinForks \/ SignersMove \/ Minted \/ StacksForks
  PROVE  DepositOK' /\ UNCHANGED <<deposit, evidence, depositShown>>
<1>1. UNCHANGED <<deposit, evidence, depositShown>>
  BY DEF BitcoinBlock, BitcoinForks, SignersMove, Minted, StacksForks
<1>2. LockTime \in Nat /\ SignerFees \subseteq Nat
  BY SbtcDepositAssumption
<1>3. CASE BitcoinBlock \/ BitcoinForks
  BY <1>1, <1>2, <1>3 DEF BitcoinBlock, BitcoinForks, DepositOK, DepositTypes, QuoteIsKept, QuotedOutput, EvidenceIsOfTheMint, CompleteWasMinted
<1>4. CASE SignersMove
  <2>1. UNCHANGED <<confirmations, btcTip, mint>> /\ deposit # NoDeposit
    BY <1>4 DEF SignersMove, Sent
  <2>2. emily' \in [status : SignerStates, matches : BOOLEAN, fee : Nat \union {NoAmount}]
    BY <1>2, <1>4 DEF SignersMove, DepositOK, DepositTypes, SignerStates
  <2> QED BY <1>1, <2>1, <2>2 DEF DepositOK, DepositTypes, QuoteIsKept, QuotedOutput, EvidenceIsOfTheMint, CompleteWasMinted
<1>5. CASE Minted
  <2>1. UNCHANGED <<confirmations, btcTip, emily>> /\ mint = NoMint /\ evidence.mint = NoMint /\ deposit # NoDeposit
    BY <1>5 DEF Minted, DepositOK, EvidenceIsOfTheMint, QuoteIsKept
  <2>2. mint' \in MintRecord
    <3>1. PICK amount \in 0..(deposit.amount + 1) : mint' = [amount |-> amount, canonical |-> TRUE]
      BY <1>5 DEF Minted
    <3>2. amount \in Nat
      BY <3>1 DEF DepositOK, DepositTypes
    <3> QED BY <3>1, <3>2 DEF MintRecord
  <2> QED BY <1>1, <2>1, <2>2 DEF DepositOK, DepositTypes, QuoteIsKept, QuotedOutput, EvidenceIsOfTheMint, CompleteWasMinted
<1>6. CASE StacksForks
  <2>1. UNCHANGED <<confirmations, btcTip, emily>> /\ mint # NoMint /\ mint' = [mint EXCEPT !.canonical = FALSE]
    BY <1>6 DEF StacksForks
  <2>2. mint' \in MintRecord /\ mint'.amount = mint.amount /\ mint' # NoMint
    BY <2>1 DEF DepositOK, DepositTypes, MintRecord, NoMint
  <2>3. deposit # NoDeposit
    BY <2>1 DEF DepositOK, QuoteIsKept
  <2> QED BY <1>1, <2>1, <2>2, <2>3 DEF DepositOK, DepositTypes, QuoteIsKept, QuotedOutput, EvidenceIsOfTheMint, CompleteWasMinted
<1> QED BY <1>1, <1>3, <1>4, <1>5, <1>6

\* A mint that was read once is read again.
LEMMA ReadingKeepsDeposit ==
  ASSUME DepositOK, ReadEmily \/ ReadBitcoin \/ ReadMint
  PROVE  DepositOK' /\ depositShown' = depositShown
<1>1. UNCHANGED <<deposit, emily, confirmations, btcTip, mint, depositShown>>
  BY DEF ReadEmily, ReadBitcoin, ReadMint
<1>2. DOMAIN evidence' = DOMAIN evidence /\ evidence'.mint \in {evidence.mint, mint}
  BY DEF ReadEmily, ReadBitcoin, ReadMint, DepositOK, DepositTypes
<1>3. evidence.mint # NoMint => evidence'.mint # NoMint
  BY <1>2 DEF DepositOK, EvidenceIsOfTheMint
<1> QED BY <1>1, <1>2, <1>3 DEF DepositOK, DepositTypes, QuoteIsKept, QuotedOutput, EvidenceIsOfTheMint, CompleteWasMinted

LEMMA EvaluationKeepsDeposit ==
  ASSUME DepositOK, EvaluateSbtcDeposit
  PROVE  /\ DepositOK'
         /\ depositShown = "reconciled" => depositShown' \in {"reconciled", "reconciliation_failed"}
<1>1. UNCHANGED <<deposit, emily, confirmations, btcTip, mint, evidence>> /\ Sent /\ depositShown' = DepositState(evidence)
  BY DEF EvaluateSbtcDeposit
<1>2. DepositState(evidence) \in DepositStates
  BY MintedIsFinal, UnmintedIsNotComplete DEF DepositStates
<1>3. DepositState(evidence) = "reconciled" => evidence.mint # NoMint /\ mint.amount \in deposit.promised..deposit.amount
  BY <1>1, MintedIsFinal, UnmintedIsNotComplete, MatchingMintKeepsPromise
<1>4. DepositOK'
  BY <1>1, <1>2, <1>3 DEF DepositOK, DepositTypes, QuoteIsKept, QuotedOutput, EvidenceIsOfTheMint, CompleteWasMinted
<1>5. depositShown = "reconciled" => evidence.mint # NoMint
  BY DEF DepositOK, CompleteWasMinted
<1> QED BY <1>1, <1>4, <1>5, MintedIsFinal

LEMMA DepositStep ==
  ASSUME DepositOK, [DepositNext]_depositVars
  PROVE  DepositOK' /\ (depositShown = "reconciled" => depositShown' \in {"reconciled", "reconciliation_failed"})
<1>1. CASE UNCHANGED depositVars
  BY <1>1 DEF depositVars, DepositOK, DepositTypes, QuoteIsKept, QuotedOutput, EvidenceIsOfTheMint, CompleteWasMinted
<1>2. ASSUME NEW amount \in DepositAmounts, NEW maxFee \in SignerFees, QuoteDeposit(amount, maxFee)
      PROVE  DepositOK' /\ depositShown' = depositShown
  BY <1>2, QuoteKeepsDeposit DEF QuoteDeposit
<1>3. CASE BitcoinBlock \/ BitcoinForks \/ SignersMove \/ Minted \/ StacksForks
  BY <1>3, WorldKeepsDeposit
<1>4. CASE ReadEmily \/ ReadBitcoin \/ ReadMint
  BY <1>4, ReadingKeepsDeposit
<1>5. CASE EvaluateSbtcDeposit
  BY <1>5, EvaluationKeepsDeposit
<1> QED BY <1>1, <1>2, <1>3, <1>4, <1>5 DEF DepositNext

\* evaluateSbtcDeposit: whatever the fees, the lock height and the forks, and in whatever order the three pieces of
\* evidence are read, a deposit shown as complete was minted as quoted and stays complete.
THEOREM CompleteDepositIsMinted == DepositSpec => []DepositTypeOK /\ CompleteDepositStays
<1>1. DepositOK => DepositTypeOK
  BY DEF DepositOK, DepositTypes, DepositTypeOK, SignerStates, DepositStates
<1>2. DepositOK => (depositShown = "reconciled" => /\ mint # NoMint
                                                   /\ mint.amount \in deposit.promised..deposit.amount)
  BY DEF DepositOK, CompleteWasMinted, EvidenceIsOfTheMint
<1>3. DepositOK /\ [DepositNext]_depositVars => DepositOK'
  BY DepositStep
<1>4. DepositOK /\ [DepositNext]_depositVars
        => [depositShown = "reconciled" => depositShown' \in {"reconciled", "reconciliation_failed"}]_depositVars
  BY DepositStep
<1> QED BY <1>1, <1>2, <1>3, <1>4, DepositStarts, PTL DEF DepositSpec, CompleteDepositStays

---------------------------------------------------------------------------
(* SbtcWithdrawal *)

WithdrawalStates == {"none", "unavailable", "request_confirming", "signer_processing", "signer_rejection_pending",
                     "payout_confirming", "rejected", "reconciliation_failed", "reconciled"}
RegistryStates == {"none", "pending", "accepted", "rejected"}
CompletionRecord == [is : {"accepted"}, payout : Payouts, fee : 0..(WithdrawalMaxFee + 1)]
PayoutRecord == [is : Payouts, pays : Int, confirmations : 0..1]

WithdrawalTypes ==
  /\ withdrawal \in {"none", "locked"} /\ registry \in RegistryStates
  /\ completion \in CompletionRecord \union {Nothing} /\ payout \in PayoutRecord \union {Nothing}
  /\ DOMAIN read = {"request", "emily", "completion", "payout"} /\ read.request \in RegistryStates
  /\ read.payout \in PayoutRecord \union {Nothing}
  /\ withdrawalShown.state \in WithdrawalStates

\* The registry settles a request once: with a completion, or with nothing paid.
SettledOnce ==
  /\ withdrawal = "none" => registry = "none"
  /\ completion # Nothing <=> registry = "accepted"
  /\ registry = "rejected" => payout = Nothing

\* A request read as settled is settled so, and a completion that was read is the one there is.
ReadIsSettled ==
  /\ read.request \in {"accepted", "rejected"} => registry = read.request
  /\ read.completion # Nothing => read.completion = completion

ShownAddsUp ==
  /\ withdrawalShown.state = "reconciled" =>
       /\ registry = "accepted" /\ withdrawalShown.debit + withdrawalShown.refund = Locked
       /\ withdrawalShown.refund >= 0 /\ withdrawalShown.received = WithdrawalAmount
       /\ withdrawalShown.debit = WithdrawalAmount + completion.fee
  /\ withdrawalShown.state = "rejected" => registry = "rejected" /\ payout = Nothing /\ withdrawalShown.returned = Locked

WithdrawalOK == WithdrawalTypes /\ SettledOnce /\ ReadIsSettled /\ ShownAddsUp

LEMMA NothingIsNoRecord == Nothing \notin CompletionRecord /\ Nothing \notin PayoutRecord
BY DEF Nothing, CompletionRecord, PayoutRecord

\* What a closed withdrawal was judged by.
LEMMA ClosedOnEvidence ==
  /\ WithdrawalState(read) \in WithdrawalStates
  /\ WithdrawalState(read) = "reconciled" =>
       /\ read.completion # Nothing /\ read.payout # Nothing /\ read.request = "accepted"
       /\ ~(read.completion.fee > WithdrawalMaxFee) /\ read.payout.pays = WithdrawalAmount
  /\ WithdrawalState(read) = "rejected" => read.request = "rejected"
<1>1. WithdrawalState(read) \in WithdrawalStates
  BY DEF WithdrawalState, WithdrawalStates
<1>2. WithdrawalState(read) = "reconciled" =>
        ~HasMismatch(read) /\ read.completion # Nothing /\ read.payout # Nothing
  BY DEF WithdrawalState
<1>3. WithdrawalState(read) = "rejected" => read.request = "rejected"
  BY DEF WithdrawalState
<1>4. ~HasMismatch(read) /\ read.completion # Nothing /\ read.payout # Nothing =>
        read.request = "accepted" /\ ~(read.completion.fee > WithdrawalMaxFee) /\ read.payout.pays = WithdrawalAmount
  BY DEF HasMismatch, CompletionMismatch, PayoutMismatch, Contradiction
<1> QED BY <1>1, <1>2, <1>3, <1>4

LEMMA WithdrawalStarts ==
  ASSUME WithdrawalInit
  PROVE  WithdrawalOK
BY DEF WithdrawalInit, WithdrawalOK, WithdrawalTypes, SettledOnce, ReadIsSettled, ShownAddsUp, NotShown, RegistryStates,
       WithdrawalStates

\* The request, the signers and Bitcoin: what was read of a settled request stays true of it.
LEMMA WorldKeepsWithdrawal ==
  ASSUME WithdrawalOK, QuoteWithdraw \/ EmilyAccepts \/ Sweep \/ Confirm \/ PayoutForks \/ Accept \/ Reject
  PROVE  WithdrawalOK' /\ withdrawalShown' = withdrawalShown
<1>1. UNCHANGED <<read, withdrawalShown>>
  BY DEF QuoteWithdraw, EmilyAccepts, Sweep, Confirm, PayoutForks, Accept, Reject
<1>2. WithdrawalAmount \in Nat /\ WithdrawalMaxFee \in Nat /\ Payouts \subseteq Nat
  <2>1. {WithdrawalAmount, WithdrawalMaxFee} \subseteq Nat
    BY SbtcWithdrawalAssumption
  <2> QED BY <2>1, SbtcWithdrawalAssumption
<1>3. CASE QuoteWithdraw \/ EmilyAccepts
  <2>1. UNCHANGED <<completion, payout>>
    BY <1>3 DEF QuoteWithdraw, EmilyAccepts
  <2>2. \/ withdrawal = "none" /\ withdrawal' = "locked" /\ registry' = "pending"
        \/ UNCHANGED <<withdrawal, registry>>
    BY <1>3 DEF QuoteWithdraw, EmilyAccepts
  <2> QED BY <1>1, <2>1, <2>2 DEF WithdrawalOK, WithdrawalTypes, SettledOnce, ReadIsSettled, ShownAddsUp, RegistryStates
<1>4. CASE Sweep \/ Confirm \/ PayoutForks
  <2>1. UNCHANGED <<withdrawal, registry, completion>>
    BY <1>4 DEF Sweep, Confirm, PayoutForks
  <2>2. payout' \in PayoutRecord /\ registry # "rejected"
    <3>1. CASE Sweep
      BY <1>2, <3>1 DEF Sweep, PayoutRecord
    <3>2. CASE Confirm \/ PayoutForks
      <4>1. payout \in PayoutRecord
        BY <3>2 DEF Confirm, PayoutForks, WithdrawalOK, WithdrawalTypes
      <4>2. payout' \in PayoutRecord
        <5>1. CASE payout' = [payout EXCEPT !.confirmations = 1]
          BY <4>1, <5>1 DEF PayoutRecord
        <5>2. CASE \E tx \in Payouts : payout' = [payout EXCEPT !.is = tx, !.confirmations = 0]
          <6>1. PICK tx \in Payouts : payout' = [payout EXCEPT !.is = tx, !.confirmations = 0]
            BY <5>2
          <6>2. payout.pays \in Int /\ payout' = [is |-> tx, pays |-> payout.pays, confirmations |-> 0]
            BY <4>1, <6>1 DEF PayoutRecord
          <6> QED BY <6>2 DEF PayoutRecord
        <5> QED BY <3>2, <5>1, <5>2 DEF Confirm, PayoutForks
      <4>3. payout # Nothing
        BY <3>2 DEF Confirm, PayoutForks
      <4> QED BY <4>2, <4>3 DEF WithdrawalOK, SettledOnce
    <3> QED BY <1>4, <3>1, <3>2
  <2> QED BY <1>1, <2>1, <2>2 DEF WithdrawalOK, WithdrawalTypes, SettledOnce, ReadIsSettled, ShownAddsUp
<1>5. CASE Accept
  <2>1. UNCHANGED <<withdrawal, payout>> /\ registry = "pending" /\ registry' = "accepted" /\ payout \in PayoutRecord
    BY <1>5 DEF Accept, WithdrawalOK, WithdrawalTypes
  <2>2. completion' \in CompletionRecord /\ completion = Nothing
    BY <1>5, <2>1 DEF Accept, CompletionRecord, PayoutRecord, WithdrawalOK, SettledOnce
  <2>3. read.completion = Nothing /\ read.request \notin {"accepted", "rejected"}
    BY <2>1, <2>2 DEF WithdrawalOK, ReadIsSettled
  <2> QED BY <1>1, <2>1, <2>2, <2>3, NothingIsNoRecord
          DEF WithdrawalOK, WithdrawalTypes, SettledOnce, ReadIsSettled, ShownAddsUp, RegistryStates
<1>6. CASE Reject
  <2>1. UNCHANGED <<withdrawal, payout, completion>> /\ registry = "pending" /\ registry' = "rejected" /\ payout = Nothing
    BY <1>6 DEF Reject
  <2> QED BY <1>1, <2>1 DEF WithdrawalOK, WithdrawalTypes, SettledOnce, ReadIsSettled, ShownAddsUp, RegistryStates
<1> QED BY <1>1, <1>3, <1>4, <1>5, <1>6

LEMMA ReadingKeepsWithdrawal ==
  ASSUME WithdrawalOK, ReadPiece
  PROVE  WithdrawalOK' /\ withdrawalShown' = withdrawalShown
<1>1. UNCHANGED <<withdrawal, registry, completion, payout, withdrawalShown>>
  BY DEF ReadPiece
<1>2. DOMAIN read' = DOMAIN read /\ read'.request \in {read.request, registry}
      /\ read'.completion \in {read.completion, completion} /\ read'.payout \in {read.payout, payout}
  BY DEF ReadPiece, ReadRequest, ReadEmilyRequest, ReadCompletion, ReadPayout, WithdrawalOK, WithdrawalTypes
<1> QED BY <1>1, <1>2 DEF WithdrawalOK, WithdrawalTypes, SettledOnce, ReadIsSettled, ShownAddsUp, RegistryStates

\* The accounting is of the fee the registry settled with.
LEMMA EvaluationKeepsWithdrawal ==
  ASSUME WithdrawalOK, NEW available \in BOOLEAN, EvaluateSbtcWithdrawal(available)
  PROVE  WithdrawalOK'
<1>1. UNCHANGED <<withdrawal, registry, completion, payout, read>>
  BY DEF EvaluateSbtcWithdrawal
<1>2. PICK state \in WithdrawalStates : state = IF available THEN WithdrawalState(read) ELSE "unavailable"
  BY ClosedOnEvidence DEF WithdrawalStates
<1>3. withdrawalShown' = [state    |-> state,
                          debit    |-> IF state = "reconciled" THEN WithdrawalAmount + read.completion.fee ELSE 0,
                          refund   |-> IF state = "reconciled" THEN WithdrawalMaxFee - read.completion.fee ELSE 0,
                          returned |-> IF state = "rejected" THEN Locked ELSE 0,
                          received |-> IF state = "reconciled" THEN read.payout.pays ELSE 0]
  BY <1>2 DEF EvaluateSbtcWithdrawal
<1>4. WithdrawalAmount \in Nat /\ WithdrawalMaxFee \in Nat
  <2>1. {WithdrawalAmount, WithdrawalMaxFee} \subseteq Nat
    BY SbtcWithdrawalAssumption
  <2> QED BY <2>1
<1>5. WithdrawalTypes' /\ SettledOnce' /\ ReadIsSettled'
  BY <1>1, <1>3 DEF WithdrawalOK, WithdrawalTypes, SettledOnce, ReadIsSettled
<1>6. ASSUME state = "reconciled"
      PROVE  /\ registry = "accepted" /\ withdrawalShown'.debit + withdrawalShown'.refund = Locked
             /\ withdrawalShown'.refund >= 0 /\ withdrawalShown'.received = WithdrawalAmount
             /\ withdrawalShown'.debit = WithdrawalAmount + completion.fee
  <2>1. read.completion # Nothing /\ read.request = "accepted" /\ ~(read.completion.fee > WithdrawalMaxFee)
        /\ read.payout.pays = WithdrawalAmount
    BY <1>2, <1>6, ClosedOnEvidence
  <2>2. read.completion = completion /\ registry = "accepted"
    BY <2>1 DEF WithdrawalOK, ReadIsSettled
  <2>3. completion \in CompletionRecord
    BY <2>1, <2>2 DEF WithdrawalOK, WithdrawalTypes
  <2>4. PICK fee \in Nat : fee = completion.fee /\ fee <= WithdrawalMaxFee
    BY <1>4, <2>1, <2>2, <2>3 DEF CompletionRecord
  <2>5. withdrawalShown'.debit = WithdrawalAmount + fee /\ withdrawalShown'.refund = WithdrawalMaxFee - fee
        /\ withdrawalShown'.received = WithdrawalAmount
    BY <1>3, <1>6, <2>1, <2>2, <2>4
  <2> QED BY <1>4, <2>2, <2>4, <2>5 DEF Locked
<1>7. ASSUME state = "rejected" PROVE registry = "rejected" /\ payout = Nothing /\ withdrawalShown'.returned = Locked
  <2>1. read.request = "rejected"
    BY <1>2, <1>7, ClosedOnEvidence
  <2> QED BY <1>3, <1>7, <2>1 DEF WithdrawalOK, ReadIsSettled, SettledOnce
<1>8. withdrawalShown'.state = state
  BY <1>3
<1>9. ShownAddsUp'
  BY <1>1, <1>6, <1>7, <1>8 DEF ShownAddsUp, Locked
<1> QED BY <1>5, <1>9 DEF WithdrawalOK

LEMMA WithdrawalStep ==
  ASSUME WithdrawalOK, [WithdrawalNext]_withdrawalVars
  PROVE  WithdrawalOK' /\ (withdrawalShown.state = "rejected" => withdrawalShown'.state # "reconciled")
<1>1. WithdrawalOK'
  <2>1. CASE UNCHANGED withdrawalVars
    BY <2>1 DEF withdrawalVars, WithdrawalOK, WithdrawalTypes, SettledOnce, ReadIsSettled, ShownAddsUp
  <2>2. CASE WithdrawalNext
    BY <2>2, WorldKeepsWithdrawal, ReadingKeepsWithdrawal, EvaluationKeepsWithdrawal DEF WithdrawalNext
  <2> QED BY <2>1, <2>2
<1>2. withdrawalShown.state = "rejected" => registry = "rejected"
  BY DEF WithdrawalOK, ShownAddsUp
<1>3. withdrawalShown'.state = "reconciled" => registry' = "accepted"
  BY <1>1 DEF WithdrawalOK, ShownAddsUp
<1>4. registry = "rejected" => registry' # "accepted"
  <2>1. registry = "rejected" => withdrawal # "none"
    BY DEF WithdrawalOK, SettledOnce
  <2> QED BY <2>1 DEF WithdrawalNext, withdrawalVars, QuoteWithdraw, EmilyAccepts, Sweep, Confirm, PayoutForks, Accept, Reject,
             ReadPiece, EvaluateSbtcWithdrawal
<1> QED BY <1>1, <1>2, <1>3, <1>4

\* evaluateSbtcWithdrawal: for every amount and fee and however the four pieces of evidence are read, a closed
\* withdrawal accounts for every unit it locked, and one closed by a rejection is never shown as paid.
THEOREM ClosedWithdrawalAddsUp == WithdrawalSpec => []WithdrawalTypeOK /\ WithdrawalAddsUp
<1>1. WithdrawalOK => WithdrawalTypeOK
  BY DEF WithdrawalOK, WithdrawalTypes, WithdrawalTypeOK, RegistryStates, WithdrawalStates
<1>2. WithdrawalOK =>
        (/\ withdrawalShown.state = "reconciled" =>
              /\ registry = "accepted" /\ withdrawalShown.debit + withdrawalShown.refund = Locked
              /\ withdrawalShown.refund >= 0 /\ withdrawalShown.received = WithdrawalAmount
              /\ withdrawalShown.debit = WithdrawalAmount + completion.fee
         /\ withdrawalShown.state = "rejected" => registry = "rejected" /\ payout = Nothing
                                                  /\ withdrawalShown.returned = Locked)
  BY DEF WithdrawalOK, ShownAddsUp
<1>3. WithdrawalOK /\ [WithdrawalNext]_withdrawalVars => WithdrawalOK'
  BY WithdrawalStep
<1>4. WithdrawalOK /\ [WithdrawalNext]_withdrawalVars
        => [withdrawalShown.state = "rejected" => withdrawalShown'.state # "reconciled"]_withdrawalVars
  BY WithdrawalStep
<1> QED BY <1>1, <1>2, <1>3, <1>4, WithdrawalStarts, PTL DEF WithdrawalSpec, WithdrawalAddsUp

---------------------------------------------------------------------------
(* Routes *)

TradeActions == {"none", "supply", "withdraw_supply", "swap"}
QuoteRecord == [action : TradeActions, paid : Nat, out : Nat, minimum : Nat, expires : Nat]
PlanRecord == [action : TradeActions, amount : Nat, minOut : Int, sendAtMost : Nat, receiveAtLeast : Nat]
FillRecord == [state : {"none", "canonical", "forked", "aborted"}, paid : Nat, out : Nat]
VaultRecord == [rate : (Nat \ {0}) \X (Nat \ {0}), total : Nat, pausedDeposit : BOOLEAN, pausedRedeem : BOOLEAN]

RouteTypes ==
  /\ vault \in VaultRecord /\ vault.rate \in VaultRates \union {<<1, 1>>} /\ poolPrice \in Nat
  /\ route \in [amountIn : Nat, out : Nat, at : Nat]
  /\ routeTime \in 0..MaxRouteTime /\ routeMoves \in 0..MaxRouteMoves
  /\ replans \in 0..MaxReplans /\ routeForks \in 0..MaxRouteForks
  /\ tradeQuote \in QuoteRecord /\ tradePlan \in PlanRecord /\ signedTrade \in PlanRecord /\ fill \in FillRecord
  /\ tradeQuote # NoTrade => tradeQuote.action # "none"

\* A plan binds the contract, or the post-conditions, to what the quote showed.
BoundToQuote(p) ==
  p # NoTradePlan => /\ tradeQuote # NoTrade /\ p.sendAtMost = tradeQuote.paid
                     /\ p.minOut = tradeQuote.minimum \/ p.receiveAtLeast = tradeQuote.minimum

\* What is on the chain is of the plan that was signed, and a supply that is there is part of the vault.
FillIsSigned ==
  /\ fill.state # "none" => signedTrade # NoTradePlan
  /\ fill.state = "canonical" => fill.paid <= tradeQuote.paid /\ fill.out >= tradeQuote.minimum
  /\ fill.state = "canonical" /\ signedTrade.action = "supply" => vault.total >= signedTrade.amount

RoutesOK == RouteTypes /\ BoundToQuote(tradePlan) /\ BoundToQuote(signedTrade) /\ FillIsSigned

LEMMA BoundsOfRoutes ==
  /\ RouteBps \in Nat \ {0} /\ MaxSlippage \in Nat /\ VaultCap \in Nat /\ RouteLife \in Nat /\ TradeLife \in Nat
  /\ TradeAmounts \subseteq Nat \ {0} /\ PoolPrices \subseteq Nat \ {0} /\ VaultRates \subseteq (Nat \ {0}) \X (Nat \ {0})
  /\ MaxRouteTime \in Nat /\ MaxRouteMoves \in Nat /\ MaxReplans \in Nat /\ MaxRouteForks \in Nat
BY RoutesAssumption

LEMMA RateIsWhole == ASSUME NEW a \in Nat, NEW b \in Nat, NEW c \in Nat \ {0} PROVE MulDiv(a, b, c) \in Nat
<1>1. a * b \in Nat
  OBVIOUS
<1>2. ASSUME NEW n \in Nat PROVE n \div c \in Nat
  OBVIOUS
<1> QED BY <1>1, <1>2 DEF MulDiv

LEMMA SharesAndAssets ==
  ASSUME vault \in VaultRecord, NEW n \in Nat
  PROVE  SharesForAssets(n) \in Nat /\ AssetsForShares(n) \in Nat
<1>1. vault.rate[1] \in Nat \ {0} /\ vault.rate[2] \in Nat \ {0}
  BY DEF VaultRecord
<1> QED BY <1>1, RateIsWhole DEF SharesForAssets, AssetsForShares

\* What the chain pays is a natural number, whatever the rate has become.
LEMMA YieldIsWhole ==
  ASSUME RouteTypes, NEW p \in PlanRecord
  PROVE  Yields(p) \in Nat
<1>1. p.amount \in Nat /\ p.action \in TradeActions /\ poolPrice \in Nat
  BY DEF RouteTypes, PlanRecord
<1>2. SharesForAssets(p.amount) \in Nat /\ AssetsForShares(p.amount) \in Nat /\ p.amount * poolPrice \in Nat
  BY <1>1, SharesAndAssets DEF RouteTypes
<1> QED BY <1>2 DEF Yields

LEMMA PreviewIsWhole ==
  ASSUME RouteTypes, NEW action, NEW amount \in Nat
  PROVE  Preview(action, amount) \in Nat
<1>1. SharesForAssets(amount) \in Nat /\ AssetsForShares(amount) \in Nat /\ route.out \in Nat
  BY SharesAndAssets DEF RouteTypes
<1> QED BY <1>1 DEF Preview

LEMMA RoutesStart ==
  ASSUME RoutesInit
  PROVE  RoutesOK
<1>1. NoTrade \in QuoteRecord /\ NoTradePlan \in PlanRecord /\ NoFill \in FillRecord /\ NoFill.state = "none"
  BY DEF NoTrade, QuoteRecord, NoTradePlan, PlanRecord, NoFill, FillRecord, TradeActions
<1>2. vault \in VaultRecord /\ vault.rate \in VaultRates \union {<<1, 1>>}
  BY DEF RoutesInit, VaultRecord
<1> QED BY <1>1, <1>2, BoundsOfRoutes DEF RoutesInit, RoutesOK, RouteTypes, BoundToQuote, FillIsSigned

\* The market, the reads and the clock leave quote, plan and settlement alone.
LEMMA MarketKeepsRoutes ==
  ASSUME RoutesOK, MarketMoves \/ RouteIsObserved \/ RouteTick
  PROVE  RoutesOK' /\ lifecycle' = lifecycle
<1>1. UNCHANGED <<replans, routeForks, tradeQuote, tradePlan, signedTrade, tradeKnown, fill, lifecycle>>
  BY DEF MarketMoves, RouteIsObserved, RouteTick
<1>2. CASE MarketMoves
  <2>1. UNCHANGED <<route, routeTime>> /\ routeMoves' \in 0..MaxRouteMoves
    BY <1>2, BoundsOfRoutes DEF MarketMoves, RoutesOK, RouteTypes
  <2>2. vault' \in VaultRecord /\ vault'.rate \in VaultRates \union {<<1, 1>>} /\ vault'.total >= vault.total
    <3>1. vault \in VaultRecord /\ vault.rate \in VaultRates \union {<<1, 1>>} /\ vault.total \in Nat
      BY DEF RoutesOK, RouteTypes, VaultRecord
    <3>2. CASE \E rate \in VaultRates : vault' = [vault EXCEPT !.rate = rate]
      BY <3>1, <3>2, BoundsOfRoutes DEF VaultRecord
    <3>3. CASE \E a \in TradeAmounts : vault' = [vault EXCEPT !.total = @ + a]
      <4>1. PICK a \in Nat : vault' = [vault EXCEPT !.total = @ + a]
        BY <3>3, BoundsOfRoutes
      <4>2. PICK total \in Nat : total = vault.total + a
        BY <3>1
      <4>3. vault' = [vault EXCEPT !.total = total]
        BY <3>1, <4>1, <4>2
      <4> QED BY <3>1, <4>2, <4>3 DEF VaultRecord
    <3>4. CASE vault' = [vault EXCEPT !.pausedDeposit = ~@] \/ vault' = [vault EXCEPT !.pausedRedeem = ~@]
      <4>1. vault' = [vault EXCEPT !.pausedDeposit = ~vault.pausedDeposit]
            \/ vault' = [vault EXCEPT !.pausedRedeem = ~vault.pausedRedeem]
        BY <3>4
      <4>2. PICK paused \in BOOLEAN : vault' = [vault EXCEPT !.pausedDeposit = paused]
                                     \/ vault' = [vault EXCEPT !.pausedRedeem = paused]
        BY <4>1
      <4> QED BY <3>1, <4>2 DEF VaultRecord
    <3>5. CASE UNCHANGED vault
      BY <3>1, <3>5
    <3> QED BY <1>2, <3>2, <3>3, <3>4, <3>5 DEF MarketMoves
  <2>3. poolPrice' \in Nat
    BY <1>2, BoundsOfRoutes DEF MarketMoves, RoutesOK, RouteTypes
  <2>4. RouteTypes'
    BY <1>1, <2>1, <2>2, <2>3 DEF RoutesOK, RouteTypes
  <2>5. FillIsSigned'
    <3>1. vault.total \in Nat /\ vault'.total \in Nat /\ signedTrade.amount \in Nat
      BY <2>2 DEF RoutesOK, RouteTypes, VaultRecord, PlanRecord
    <3> QED BY <1>1, <2>2, <3>1 DEF RoutesOK, FillIsSigned
  <2> QED BY <1>1, <2>4, <2>5 DEF RoutesOK, BoundToQuote
<1>3. CASE RouteIsObserved
  <2>1. UNCHANGED <<vault, poolPrice, routeTime, routeMoves>>
    BY <1>3 DEF RouteIsObserved
  <2>2. PICK a \in Nat : route' = [amountIn |-> a, out |-> a * poolPrice, at |-> routeTime]
    BY <1>3, BoundsOfRoutes DEF RouteIsObserved
  <2>3. route' \in [amountIn : Nat, out : Nat, at : Nat]
    <3>1. a * poolPrice \in Nat /\ routeTime \in Nat
      BY BoundsOfRoutes DEF RoutesOK, RouteTypes
    <3> QED BY <2>2, <3>1
  <2> QED BY <1>1, <2>1, <2>3 DEF RoutesOK, RouteTypes, BoundToQuote, FillIsSigned
<1>4. CASE RouteTick
  <2>1. UNCHANGED <<vault, poolPrice, route, routeMoves>> /\ routeTime' \in 0..MaxRouteTime
    BY <1>4, BoundsOfRoutes DEF RouteTick, RoutesOK, RouteTypes
  <2> QED BY <1>1, <2>1 DEF RoutesOK, RouteTypes, BoundToQuote, FillIsSigned
<1> QED BY <1>1, <1>2, <1>3, <1>4

\* A plan made of a quote binds what the quote showed, whatever else the intent says.
LEMMA PlanBinds ==
  ASSUME RouteTypes, NEW q \in QuoteRecord, q.action # "none", NEW amount \in Nat, NEW slippage \in Nat
  PROVE  /\ PlanOf(q, amount, slippage) \in PlanRecord
         /\ PlanOf(q, amount, slippage).sendAtMost = q.paid
         /\ \/ PlanOf(q, amount, slippage).minOut = q.minimum
            \/ PlanOf(q, amount, slippage).receiveAtLeast = q.minimum
<1>1. q.action \in TradeActions /\ q.paid \in Nat /\ q.minimum \in Nat
  BY DEF QuoteRecord
<1>2. ContractFloor(q, slippage) \in Int
  <2>1. route.out * (RouteBps - slippage) \in Int /\ RouteBps \in Nat \ {0}
    BY BoundsOfRoutes DEF RouteTypes
  <2>2. ASSUME NEW n \in Int, NEW c \in Nat \ {0} PROVE n \div c \in Int
    OBVIOUS
  <2> QED BY <1>1, <2>1, <2>2 DEF ContractFloor, MinOutFromSpot, MulDiv
<1>3. ReceiveAtLeast(q) \in Nat
  BY <1>1 DEF ReceiveAtLeast
<1> QED BY <1>1, <1>2, <1>3 DEF PlanOf, PlanRecord, ContractFloor, ReceiveAtLeast

LEMMA PlanningKeepsRoutes ==
  ASSUME RoutesOK, QuoteAndPlan \/ MintPlan
  PROVE  RoutesOK' /\ lifecycle' = lifecycle
<1>1. UNCHANGED <<marketVars, routeForks, signedTrade, tradeKnown, fill, lifecycle>>
  BY DEF QuoteAndPlan, MintPlan
<1>2. signedTrade = NoTradePlan /\ fill.state = "none"
  BY DEF QuoteAndPlan, MintPlan, RoutesOK, BoundToQuote, FillIsSigned
<1>3. ASSUME NEW q \in QuoteRecord, tradeQuote' = q, q # NoTrade, q.action # "none",
             NEW p \in PlanRecord, tradePlan' = p, p.sendAtMost = q.paid, p.minOut = q.minimum \/ p.receiveAtLeast = q.minimum,
             replans' \in 0..MaxReplans
      PROVE  RoutesOK'
  <2>1. RouteTypes'
    BY <1>1, <1>3 DEF RoutesOK, RouteTypes, marketVars
  <2>2. BoundToQuote(tradePlan)' /\ BoundToQuote(signedTrade)' /\ FillIsSigned'
    BY <1>1, <1>2, <1>3 DEF BoundToQuote, FillIsSigned
  <2> QED BY <2>1, <2>2 DEF RoutesOK
<1>4. CASE QuoteAndPlan
  <2>1. PICK action \in Trades : \E amount \in TradeAmounts, slippage \in Slippages :
           /\ IF action = "swap" THEN RouteServes(amount, slippage) ELSE VaultServes(action, amount)
           /\ tradeQuote' = Quoted(action, amount, slippage)
           /\ tradePlan' = PlanOf(tradeQuote', amount, slippage)
    BY <1>4 DEF QuoteAndPlan
  <2>2. PICK amount \in TradeAmounts, slippage \in Slippages :
           /\ IF action = "swap" THEN RouteServes(amount, slippage) ELSE VaultServes(action, amount)
           /\ tradeQuote' = Quoted(action, amount, slippage)
           /\ tradePlan' = PlanOf(tradeQuote', amount, slippage)
    BY <2>1
  <2>3. amount \in Nat /\ slippage \in Nat /\ action \in TradeActions /\ action # "none"
    BY RoutesAssumption DEF TradeActions
  <2>4. PICK minimum \in Nat : minimum = IF action = "swap" THEN MinOutFromSpot(route.out, slippage) ELSE Preview(action, amount)
    <3>1. CASE action = "swap"
      <4>1. MinOutFromSpot(route.out, slippage) > 0
        BY <2>2, <3>1 DEF RouteServes
      <4>2. route.out * (RouteBps - slippage) \in Int /\ RouteBps \in Nat \ {0}
        BY <2>3, BoundsOfRoutes DEF RoutesOK, RouteTypes
      <4>3. ASSUME NEW n \in Int, NEW c \in Nat \ {0} PROVE n \div c \in Int
        OBVIOUS
      <4>4. MinOutFromSpot(route.out, slippage) \in Int
        BY <4>2, <4>3 DEF MinOutFromSpot, MulDiv
      <4> QED BY <3>1, <4>1, <4>4
    <3>2. CASE action # "swap"
      BY <2>3, <3>2, PreviewIsWhole DEF RoutesOK
    <3> QED BY <3>1, <3>2
  <2>5. Preview(action, amount) \in Nat /\ routeTime + TradeLife \in Nat
    BY <2>3, PreviewIsWhole, BoundsOfRoutes DEF RoutesOK, RouteTypes
  <2>6. tradeQuote' = [action |-> action, paid |-> amount, out |-> Preview(action, amount), minimum |-> minimum,
                       expires |-> routeTime + TradeLife]
    BY <2>2, <2>4 DEF Quoted
  <2>7. PICK q \in QuoteRecord : q = tradeQuote' /\ q.action = action
    BY <2>3, <2>4, <2>5, <2>6 DEF QuoteRecord
  <2>8. tradePlan' = PlanOf(q, amount, slippage) /\ replans' = replans
    BY <1>4, <2>2, <2>7 DEF QuoteAndPlan
  <2>9. q # NoTrade
    BY <2>3, <2>7 DEF NoTrade
  <2>10. PICK p \in PlanRecord : p = tradePlan' /\ p.sendAtMost = q.paid /\ (p.minOut = q.minimum \/ p.receiveAtLeast = q.minimum)
    BY <2>3, <2>7, <2>8, PlanBinds DEF RoutesOK
  <2>11. replans' \in 0..MaxReplans
    BY <2>8 DEF RoutesOK, RouteTypes
  <2> QED BY <1>1, <1>3, <2>3, <2>7, <2>9, <2>10, <2>11
<1>5. CASE MintPlan
  <2>1. PICK amount \in TradeAmounts, slippage \in Slippages : tradePlan' = PlanOf(tradeQuote, amount, slippage)
    BY <1>5 DEF MintPlan
  <2>2. amount \in Nat /\ slippage \in Nat
    BY RoutesAssumption
  <2>3. tradeQuote' = tradeQuote /\ tradeQuote # NoTrade /\ tradeQuote \in QuoteRecord /\ replans' \in 0..MaxReplans
    BY <1>5, BoundsOfRoutes DEF MintPlan, RoutesOK, RouteTypes
  <2>4. tradeQuote.action # "none"
    BY <2>3 DEF RoutesOK, RouteTypes
  <2>5. PICK p \in PlanRecord : /\ p = tradePlan' /\ p.sendAtMost = tradeQuote.paid
                                /\ p.minOut = tradeQuote.minimum \/ p.receiveAtLeast = tradeQuote.minimum
    BY <2>1, <2>2, <2>3, <2>4, PlanBinds DEF RoutesOK
  <2> QED BY <1>1, <1>3, <2>3, <2>4, <2>5
<1> QED BY <1>1, <1>4, <1>5

LEMMA SigningKeepsRoutes ==
  ASSUME RoutesOK, SignTrade
  PROVE  RoutesOK' /\ lifecycle' = lifecycle
<1>1. UNCHANGED <<vault, poolPrice, route, routeTime, routeMoves, replans, routeForks, tradeQuote, tradePlan, fill, lifecycle>>
      /\ signedTrade' = tradePlan /\ signedTrade = NoTradePlan
  BY DEF SignTrade, marketVars
<1>2. fill.state = "none"
  BY <1>1 DEF RoutesOK, FillIsSigned
<1> QED BY <1>1, <1>2 DEF RoutesOK, RouteTypes, BoundToQuote, FillIsSigned

\* The block's rate is the one that counts: the chain refuses what is below the floor.
LEMMA ExecutionKeepsRoutes ==
  ASSUME RoutesOK, ChainExecutes
  PROVE  RoutesOK' /\ lifecycle' = lifecycle
<1>1. UNCHANGED <<poolPrice, route, routeTime, routeMoves, replans, routeForks, tradeQuote, tradePlan, signedTrade, lifecycle>>
      /\ signedTrade # NoTradePlan
  BY DEF ChainExecutes
<1>2. signedTrade \in PlanRecord /\ tradeQuote \in QuoteRecord /\ vault \in VaultRecord
  BY DEF RoutesOK, RouteTypes
<1>3. PICK out \in Nat : out = Yields(signedTrade)
  BY <1>2, YieldIsWhole DEF RoutesOK
<1>4. PICK amount \in Nat : amount = signedTrade.amount
  BY <1>2 DEF PlanRecord
<1>5. CASE ChainAccepts(signedTrade)
  <2>1. fill' = [state |-> "canonical", paid |-> amount, out |-> out]
    BY <1>3, <1>4, <1>5 DEF ChainExecutes
  <2>2. fill' \in FillRecord /\ fill'.state = "canonical" /\ fill'.paid = amount /\ fill'.out = out
    BY <2>1 DEF FillRecord
  <2>3. out >= signedTrade.minOut /\ amount <= signedTrade.sendAtMost /\ out >= signedTrade.receiveAtLeast
    BY <1>3, <1>4, <1>5 DEF ChainAccepts
  <2>4. amount <= tradeQuote.paid /\ out >= tradeQuote.minimum
    BY <1>1, <2>3 DEF RoutesOK, BoundToQuote
  <2>5. vault' \in VaultRecord /\ vault'.rate = vault.rate /\ (signedTrade.action = "supply" => vault'.total >= amount)
    <3>1. CASE signedTrade.action = "supply"
      <4>1. PICK total \in Nat : total = vault.total + amount /\ total >= amount
        BY <1>2, <1>4 DEF VaultRecord
      <4>2. vault' = [vault EXCEPT !.total = total]
        BY <1>2, <1>4, <2>2, <3>1, <4>1 DEF ChainExecutes, VaultRecord
      <4> QED BY <1>2, <4>1, <4>2 DEF VaultRecord
    <3>2. CASE signedTrade.action # "supply"
      BY <1>2, <3>2 DEF ChainExecutes
    <3> QED BY <3>1, <3>2
  <2>6. RouteTypes'
    BY <1>1, <2>2, <2>5 DEF RoutesOK, RouteTypes
  <2> QED BY <1>1, <1>4, <2>2, <2>4, <2>5, <2>6 DEF RoutesOK, BoundToQuote, FillIsSigned
<1>6. CASE ~ChainAccepts(signedTrade)
  <2>1. fill' = [NoFill EXCEPT !.state = "aborted"]
    BY <1>6 DEF ChainExecutes
  <2>2. fill' \in FillRecord /\ fill'.state = "aborted"
    BY <2>1 DEF FillRecord, NoFill
  <2>3. vault' = vault
    BY <2>2 DEF ChainExecutes
  <2> QED BY <1>1, <2>2, <2>3 DEF RoutesOK, RouteTypes, BoundToQuote, FillIsSigned
<1> QED BY <1>1, <1>5, <1>6

LEMMA ForkKeepsRoutes ==
  ASSUME RoutesOK, ChainForks
  PROVE  RoutesOK' /\ lifecycle' = lifecycle
<1>1. UNCHANGED <<poolPrice, route, routeTime, routeMoves, replans, tradeQuote, tradePlan, signedTrade, lifecycle>>
      /\ fill.state = "canonical" /\ routeForks' \in 0..MaxRouteForks
  BY BoundsOfRoutes DEF ChainForks, RoutesOK, RouteTypes
<1>2. fill' = [fill EXCEPT !.state = "forked"]
  BY DEF ChainForks
<1>3. fill' \in FillRecord /\ fill'.state = "forked"
  BY <1>2 DEF RoutesOK, RouteTypes, FillRecord
<1>4. vault' \in VaultRecord /\ vault'.rate = vault.rate
  <2>1. vault \in VaultRecord /\ signedTrade.amount \in Nat /\ vault.total \in Nat
    BY DEF RoutesOK, RouteTypes, VaultRecord, PlanRecord
  <2>2. CASE signedTrade.action = "supply"
    <3>1. PICK total \in Nat : total = vault.total - signedTrade.amount
      BY <1>1, <2>1, <2>2 DEF RoutesOK, FillIsSigned
    <3>2. vault' = [vault EXCEPT !.total = total]
      BY <2>1, <2>2, <3>1 DEF ChainForks, VaultRecord
    <3> QED BY <2>1, <3>2 DEF VaultRecord
  <2>3. CASE signedTrade.action # "supply"
    BY <2>1, <2>3 DEF ChainForks
  <2> QED BY <2>2, <2>3
<1>5. RouteTypes'
  BY <1>1, <1>3, <1>4 DEF RoutesOK, RouteTypes
<1>6. signedTrade # NoTradePlan
  BY <1>1 DEF RoutesOK, FillIsSigned
<1> QED BY <1>1, <1>3, <1>5, <1>6 DEF RoutesOK, BoundToQuote, FillIsSigned

\* evaluateZestEarn and evaluateBitflowSwap say complete of a canonical settlement of the whole input alone.
LEMMA EvaluationKeepsRoutes ==
  ASSUME RoutesOK, EvaluateZestEarn \/ EvaluateBitflowSwap
  PROVE  RoutesOK' /\ (lifecycle'.complete => fill.state = "canonical" /\ fill.paid = tradeQuote.paid)
<1>1. UNCHANGED <<marketVars, replans, routeForks, tradeQuote, tradePlan, signedTrade, tradeKnown, fill>>
  BY DEF EvaluateZestEarn, EvaluateBitflowSwap
<1>2. RoutesOK'
  BY <1>1 DEF RoutesOK, RouteTypes, BoundToQuote, FillIsSigned, marketVars
<1>3. /\ ~Judged("blocked", "UNAVAILABLE").complete /\ ~Judged("route_changed", "REQUOTE").complete
      /\ ~Unsettled.complete /\ ~Judged("confirming", "WAIT").complete
      /\ ~Judged("reconciliation_failed", "CONTACT_SUPPORT").complete
  BY DEF Judged, Unsettled
<1>4. CASE EvaluateZestEarn
  <2>1. \/ fill.state = "canonical" /\ fill.paid = tradeQuote.paid
        \/ lifecycle' \in {Judged("blocked", "UNAVAILABLE"), Unsettled, Judged("confirming", "WAIT"),
                           Judged("reconciliation_failed", "CONTACT_SUPPORT")}
    BY <1>4 DEF EvaluateZestEarn, Settlement, ZestMatches
  <2> QED BY <1>2, <1>3, <2>1
<1>5. CASE EvaluateBitflowSwap
  <2>1. \/ fill.state = "canonical" /\ fill.paid = tradeQuote.paid
        \/ lifecycle' \in {Judged("route_changed", "REQUOTE"), Unsettled, Judged("confirming", "WAIT"),
                           Judged("reconciliation_failed", "CONTACT_SUPPORT")}
    BY <1>5 DEF EvaluateBitflowSwap, Settlement, BitflowMatches
  <2> QED BY <1>2, <1>3, <2>1
<1> QED BY <1>2, <1>4, <1>5

LEMMA RoutesStep ==
  ASSUME RoutesOK, [RoutesNext]_routeVars
  PROVE  /\ RoutesOK'
         /\ lifecycle' # lifecycle /\ lifecycle'.complete => fill.state = "canonical" /\ fill.paid = tradeQuote.paid
<1>1. CASE UNCHANGED routeVars
  BY <1>1 DEF routeVars, RoutesOK, RouteTypes, BoundToQuote, FillIsSigned
<1>2. CASE RoutesNext
  BY <1>2, MarketKeepsRoutes, PlanningKeepsRoutes, SigningKeepsRoutes, ExecutionKeepsRoutes, ForkKeepsRoutes,
     EvaluationKeepsRoutes DEF RoutesNext
<1> QED BY <1>1, <1>2

\* The vault's and the router's minimum and the post-conditions: whatever the rates, the slippage, the second plan and
\* the fork between the quote and the block, the owner pays at most what was quoted and gets at least the minimum.
THEOREM QuotedFloorHolds == RoutesSpec => []RoutesTypeOK /\ FloorKept
<1>1. RoutesOK => RoutesTypeOK
  BY DEF RoutesOK, RouteTypes, RoutesTypeOK, VaultRecord, QuoteRecord, PlanRecord, FillRecord
<1>2. RoutesOK => (fill.state = "canonical" => fill.paid <= tradeQuote.paid /\ fill.out >= tradeQuote.minimum)
  BY DEF RoutesOK, FillIsSigned
<1>3. RoutesOK /\ [RoutesNext]_routeVars => RoutesOK'
  BY RoutesStep
<1>4. RoutesOK /\ [RoutesNext]_routeVars =>
        [lifecycle' # lifecycle /\ lifecycle'.complete => fill.state = "canonical" /\ fill.paid = tradeQuote.paid]_routeVars
  BY RoutesStep
<1> QED BY <1>1, <1>2, <1>3, <1>4, RoutesStart, PTL DEF RoutesSpec, FloorKept

---------------------------------------------------------------------------
(* Credit *)

LEMMA MarketParameters ==
  /\ Bps \in Nat \ {0} /\ CollateralUnit \in Nat \ {0} /\ DebtUnit \in Nat \ {0} /\ BorrowLtv \in Nat \ {0}
  /\ Buffer \in Nat /\ MaxHeld \in Nat /\ MaxAmount \in Nat
  /\ CollateralPrices \subseteq Nat \ {0} /\ DebtPrices \subseteq Nat \ {0}
  /\ LiquidationLtv \in Nat /\ BorrowLtv < LiquidationLtv /\ LiquidationLtv >= 5 /\ LiquidationLtv <= 10 * Bps
<1>1. Bps \in Nat \ {0}
  BY CreditAssumption
<1> QED BY <1>1, CreditAssumption

\* The two roundings.
LEMMA RoundedDown ==
  ASSUME NEW n \in Nat, NEW c \in Nat \ {0}
  PROVE  n \div c \in Nat /\ (n \div c) * c <= n
<1>1. n \div c \in Nat
  OBVIOUS
<1>2. (n \div c) * c <= n
  OBVIOUS
<1> QED BY <1>1, <1>2

LEMMA RoundedUp ==
  ASSUME NEW n \in Nat, NEW c \in Nat \ {0}
  PROVE  /\ (n + c - 1) \div c \in Nat
         /\ ((n + c - 1) \div c) * c >= n
         /\ (((n + c - 1) \div c) - 1) * c < n
<1>1. PICK m \in Nat : m = n + c - 1
  OBVIOUS
<1>2. m \div c \in Nat
  OBVIOUS
<1>3. (m \div c) * c <= m
  OBVIOUS
<1>4. ((m \div c) + 1) * c > m
  OBVIOUS
<1>5. PICK q \in Nat : q = m \div c
  BY <1>2
<1>6. q * c \in Nat /\ (q + 1) * c = q * c + c /\ (q - 1) * c = q * c - c
  OBVIOUS
<1>7. q * c >= n /\ (q - 1) * c < n
  BY <1>1, <1>3, <1>4, <1>5, <1>6
<1> QED BY <1>1, <1>2, <1>5, <1>7

LEMMA Scales ==
  ASSUME NEW a \in Nat, NEW b \in Nat, NEW k \in Nat
  PROVE  a * k \in Nat /\ (a <= b => a * k <= b * k) /\ (a * k < b * k => a < b)
<1>1. a * k \in Nat
  OBVIOUS
<1>2. a <= b => a * k <= b * k
  OBVIOUS
<1>3. a * k < b * k => a < b
  OBVIOUS
<1> QED BY <1>1, <1>2, <1>3

\* What the numbers of a position are, in exact arithmetic.
LEMMA HealthOf ==
  ASSUME NEW c \in Nat, NEW d \in Nat, NEW r, r.price \in Nat, r.debtPrice \in Nat \ {0}, NEW h, h = Health(c, d, r)
  PROVE  /\ h.collateralUsd \in Nat /\ h.debtUsd \in Nat /\ h.ltv \in Nat /\ h.factor \in Nat
         /\ h.collateralUsd * CollateralUnit <= c * r.price
         /\ h.debtUsd * DebtUnit >= d * r.debtPrice
         /\ h.collateralUsd = 0 => h.ltv >= LiquidationLtv
         /\ h.collateralUsd # 0 => h.ltv * h.collateralUsd >= h.debtUsd * Bps
                                   /\ (h.ltv - 1) * h.collateralUsd < h.debtUsd * Bps
         /\ h.debtUsd # 0 => h.factor * h.debtUsd <= h.collateralUsd * LiquidationLtv
         /\ h.healthy <=> h.factor >= Bps /\ h.ltv <= BorrowLtv
<1>1. PICK cUsd \in Nat : cUsd = CollateralUsd(c, r.price) /\ cUsd * CollateralUnit <= c * r.price
  <2>1. PICK n \in Nat : n = c * r.price
    OBVIOUS
  <2>2. n \div CollateralUnit \in Nat /\ (n \div CollateralUnit) * CollateralUnit <= n
    BY MarketParameters, RoundedDown
  <2> QED BY <2>1, <2>2 DEF CollateralUsd, MulDivDown
<1>2. PICK dUsd \in Nat : dUsd = DebtUsd(d, r.debtPrice) /\ dUsd * DebtUnit >= d * r.debtPrice
  <2>1. PICK n \in Nat : n = d * r.debtPrice
    OBVIOUS
  <2>2. (n + DebtUnit - 1) \div DebtUnit \in Nat /\ ((n + DebtUnit - 1) \div DebtUnit) * DebtUnit >= n
    BY MarketParameters, RoundedUp
  <2> QED BY <2>1, <2>2 DEF DebtUsd, MulDivUp
<1>3. PICK ltv \in Nat :
        /\ ltv = IF cUsd = 0 THEN Bps * 10 ELSE MulDivUp(dUsd, Bps, cUsd)
        /\ cUsd # 0 => ltv * cUsd >= dUsd * Bps /\ (ltv - 1) * cUsd < dUsd * Bps
  <2>1. CASE cUsd = 0
    <3>1. Bps * 10 \in Nat
      BY MarketParameters
    <3> QED BY <2>1, <3>1
  <2>2. CASE cUsd # 0
    <3>1. PICK n \in Nat : n = dUsd * Bps
      BY MarketParameters
    <3>2. (n + cUsd - 1) \div cUsd \in Nat /\ ((n + cUsd - 1) \div cUsd) * cUsd >= n
          /\ (((n + cUsd - 1) \div cUsd) - 1) * cUsd < n
      BY <2>2, RoundedUp
    <3>3. MulDivUp(dUsd, Bps, cUsd) = (n + cUsd - 1) \div cUsd
      BY <3>1 DEF MulDivUp
    <3> QED BY <2>2, <3>1, <3>2, <3>3
  <2> QED BY <2>1, <2>2
<1>4. PICK factor \in Nat :
        /\ factor = IF dUsd = 0 THEN Bps * 10 ELSE MulDivDown(cUsd * LiquidationLtv, 1, dUsd)
        /\ dUsd # 0 => factor * dUsd <= cUsd * LiquidationLtv
  <2>1. CASE dUsd = 0
    <3>1. Bps * 10 \in Nat
      BY MarketParameters
    <3> QED BY <2>1, <3>1
  <2>2. CASE dUsd # 0
    <3>1. PICK n \in Nat : n = cUsd * LiquidationLtv
      BY MarketParameters
    <3>2. n \div dUsd \in Nat /\ (n \div dUsd) * dUsd <= n
      BY <2>2, RoundedDown
    <3>3. MulDivDown(cUsd * LiquidationLtv, 1, dUsd) = n \div dUsd
      BY <3>1 DEF MulDivDown
    <3> QED BY <2>2, <3>1, <3>2, <3>3
  <2> QED BY <2>1, <2>2
<1>5. h.collateralUsd = cUsd /\ h.debtUsd = dUsd /\ h.ltv = ltv /\ h.factor = factor
      /\ (h.healthy <=> factor >= Bps /\ ltv <= BorrowLtv)
  BY <1>1, <1>2, <1>3, <1>4 DEF Health
<1>6. cUsd = 0 => ltv >= LiquidationLtv
  BY <1>3, MarketParameters
<1> QED BY <1>1, <1>2, <1>3, <1>4, <1>5, <1>6

\* Debt over collateral against a ratio: roundings against the borrower carry over to exact arithmetic.
LEMMA CrossMultiplied ==
  ASSUME NEW c \in Nat, NEW d \in Nat, NEW cUnit \in Nat, NEW dUnit \in Nat, NEW cUsd \in Nat, NEW dUsd \in Nat,
         NEW ratio \in Nat, NEW bps \in Nat, cUsd * cUnit <= c, dUsd * dUnit >= d
  PROVE  /\ dUsd * bps <= ratio * cUsd => d * cUnit * bps <= ratio * c * dUnit
         /\ d * cUnit * bps >= ratio * c * dUnit /\ cUnit # 0 /\ dUnit # 0 => dUsd * bps >= ratio * cUsd
<1>1. PICK u \in Nat, e \in Nat : u = cUsd * cUnit /\ e = dUsd * dUnit /\ u <= c /\ d <= e
  OBVIOUS
<1>2. PICK k \in Nat, l \in Nat : k = cUnit * bps /\ l = ratio * dUnit
  OBVIOUS
<1>3. d * k <= e * k /\ u * l <= c * l
  BY <1>1, Scales
<1>4. d * cUnit * bps = d * k /\ ratio * c * dUnit = c * l
  BY <1>2
<1>5. PICK m \in Nat : m = cUnit * dUnit
  OBVIOUS
<1>6. PICK x \in Nat, y \in Nat : x = dUsd * bps /\ y = ratio * cUsd
  OBVIOUS
<1>7. e * k = x * m /\ u * l = y * m
  BY <1>1, <1>2, <1>5, <1>6
<1>8. x <= y => d * k <= c * l
  BY <1>3, <1>7, Scales
<1>9. d * k >= c * l /\ cUnit # 0 /\ dUnit # 0 => x >= y
  <2>1. SUFFICES ASSUME d * k >= c * l, cUnit # 0, dUnit # 0 PROVE x >= y
    OBVIOUS
  <2>2. m # 0 /\ x * m >= y * m
    BY <1>3, <1>5, <1>7, <2>1
  <2> QED BY <2>2
<1> QED BY <1>4, <1>6, <1>8, <1>9

\* What the model's readings are; an aged one too.
IsReading(r) ==
  r \in [oracle : {"fresh", "disputed", "stale", "aged"}, known : BOOLEAN, collateral : Nat, debt : Nat, accrued : Nat,
         price : Nat \ {0}, debtPrice : Nat \ {0}, liquidity : {Unknown, 0, MaxAmount}, paused : BOOLEAN]

CreditInv ==
  /\ reading = NoReading \/ IsReading(reading)
  /\ creditQuote \in Intents \cup {NoIntent}
  /\ sent \in BOOLEAN
  /\ creditShown.next \in {"none", "SIGN", "WAIT", "CONTACT_SUPPORT", "COMPLETE", "UNAVAILABLE"}

\* A healthy position has collateral, is within the borrow limit exactly, and cannot be liquidated.
LEMMA HealthyIsSafe ==
  ASSUME NEW c \in Nat, NEW d \in Nat, NEW r, r.price \in Nat, r.debtPrice \in Nat \ {0},
         NEW h, h = Health(c, d, r), h.healthy
  PROVE  /\ c # 0
         /\ ExactlyWithin(c, d, r, BorrowLtv)
         /\ ~Liquidatable(h)
<1>1. PICK cUsd \in Nat, dUsd \in Nat, ltv \in Nat, x \in Nat, y \in Nat :
        /\ cUsd = h.collateralUsd /\ dUsd = h.debtUsd /\ ltv = h.ltv /\ x = c * r.price /\ y = d * r.debtPrice
        /\ cUsd * CollateralUnit <= x /\ dUsd * DebtUnit >= y
        /\ cUsd = 0 => ltv >= LiquidationLtv
        /\ cUsd # 0 => ltv * cUsd >= dUsd * Bps
        /\ ltv <= BorrowLtv
  <2>1. /\ h.collateralUsd \in Nat /\ h.debtUsd \in Nat /\ h.ltv \in Nat
        /\ h.collateralUsd * CollateralUnit <= c * r.price
        /\ h.debtUsd * DebtUnit >= d * r.debtPrice
        /\ h.collateralUsd = 0 => h.ltv >= LiquidationLtv
        /\ h.collateralUsd # 0 => h.ltv * h.collateralUsd >= h.debtUsd * Bps
        /\ h.ltv <= BorrowLtv
    BY HealthOf
  <2>2. c * r.price \in Nat /\ d * r.debtPrice \in Nat
    OBVIOUS
  <2> QED BY <2>1, <2>2
<1>2. cUsd # 0
  BY <1>1, MarketParameters
<1>3. dUsd * Bps <= BorrowLtv * cUsd
  <2>1. ltv * cUsd <= BorrowLtv * cUsd
    BY <1>1, MarketParameters, Scales
  <2>2. dUsd * Bps \in Nat /\ ltv * cUsd \in Nat /\ BorrowLtv * cUsd \in Nat
    BY MarketParameters, Scales
  <2> QED BY <1>1, <1>2, <2>1, <2>2
<1>4. y * CollateralUnit * Bps <= BorrowLtv * x * DebtUnit
  <2>1. CollateralUnit \in Nat /\ DebtUnit \in Nat /\ BorrowLtv \in Nat /\ Bps \in Nat
    BY MarketParameters
  <2>2. cUsd * CollateralUnit <= x /\ dUsd * DebtUnit >= y
    BY <1>1
  <2>3. dUsd * Bps <= BorrowLtv * cUsd => y * CollateralUnit * Bps <= BorrowLtv * x * DebtUnit
    BY <2>1, <2>2, CrossMultiplied
  <2> QED BY <1>3, <2>3
<1>5. ExactlyWithin(c, d, r, BorrowLtv)
  <2>1. PICK p \in Nat, q \in Nat : p = r.price /\ q = r.debtPrice
    OBVIOUS
  <2>2. BorrowLtv * c * p = BorrowLtv * (c * p)
    BY MarketParameters
  <2> QED BY <1>1, <1>4, <2>1, <2>2 DEF ExactlyWithin
<1>6. c # 0
  <2>1. SUFFICES ASSUME c = 0 PROVE FALSE
    OBVIOUS
  <2>2. x = 0
    BY <1>1, <2>1
  <2>3. PICK k \in Nat \ {0} : k = CollateralUnit
    BY MarketParameters
  <2>4. cUsd * k > 0
    BY <1>2
  <2> QED BY <1>1, <2>2, <2>3, <2>4
<1>7. ~Liquidatable(h)
  BY <1>1, MarketParameters DEF Liquidatable
<1> QED BY <1>5, <1>6, <1>7

\* The intents, and what settling one comes to.
LEMMA Asked ==
  ASSUME NEW intent \in Intents, NEW debt \in Nat, NEW i, i = Settled(intent, debt)
  PROVE  /\ i.action = intent.action /\ i.add = intent.add
         /\ i.action \in {"supply", "withdraw_supply", "borrow", "repay"}
         /\ i.add \in 0..1
         /\ i.action # "repay" => i.amount = intent.amount /\ i.amount \in Nat \ {0}
         /\ i.action = "repay" => i.amount = SettleRepay(intent.amount, debt)
         /\ i.action = "repay" => \/ i.amount = Unknown
                                  \/ i.amount \in Nat \ {0} /\ i.amount <= debt
<1>1. /\ intent.action \in {"supply", "withdraw_supply", "borrow", "repay"} /\ intent.add \in 0..1
      /\ intent.action # "repay" => intent.amount \in 1..MaxAmount
      /\ intent.action = "repay" => intent.amount \in (1..MaxAmount) \cup {WholeDebt}
  BY MarketParameters DEF Intents
<1>2. DOMAIN intent = {"action", "amount", "add"}
  BY DEF Intents
<1>3. CASE intent.action = "repay"
  <2>1. i.action = intent.action /\ i.add = intent.add /\ i.amount = SettleRepay(intent.amount, debt)
    BY <1>2, <1>3 DEF Settled
  <2>2. \/ SettleRepay(intent.amount, debt) = Unknown
        \/ SettleRepay(intent.amount, debt) \in Nat \ {0} /\ SettleRepay(intent.amount, debt) <= debt
    BY <1>1, <1>3, MarketParameters DEF SettleRepay, Unknown, WholeDebt
  <2> QED BY <1>1, <1>3, <2>1, <2>2
<1>4. CASE intent.action # "repay"
  <2>1. i = intent
    BY <1>4 DEF Settled
  <2> QED BY <1>1, <1>4, <2>1, MarketParameters
<1> QED BY <1>3, <1>4

\* A healthy projection of a borrow or a withdrawal is safe to sign: nothing was clamped on the way to it.
LEMMA ProjectionIsSafe ==
  ASSUME NEW intent \in Intents, NEW r, IsReading(r), NEW debt \in Nat, NEW i, i = Settled(intent, debt),
         i.action \in {"borrow", "withdraw_supply"}, ProjectedHealth(i, debt, r).healthy
  PROVE  SafeAfter(intent, debt, r) /\ r.collateral + CollateralDelta(i) >= 0
<1>1. /\ i.add \in 0..1 /\ i.amount \in Nat \ {0}
  BY Asked
<1>2. CollateralDelta(i) \in Int /\ DebtDelta(i) \in Nat /\ (i.action = "borrow" => CollateralDelta(i) \in Nat)
  <2>1. CASE i.action = "borrow"
    BY <1>1, <2>1 DEF CollateralDelta, DebtDelta
  <2>2. CASE i.action = "withdraw_supply"
    BY <1>1, <2>2 DEF CollateralDelta, DebtDelta
  <2> QED BY <2>1, <2>2
<1>3. PICK c \in Int, d \in Nat : c = r.collateral + CollateralDelta(i) /\ d = debt + DebtDelta(i)
  BY <1>2 DEF IsReading
<1>4. PICK z \in Nat : z = AtLeastZero(c) /\ (c >= 0 => z = c) /\ (c < 0 => z = 0)
  BY DEF AtLeastZero
<1>5. PICK h : h = Health(z, d, r)
  OBVIOUS
<1>6. ProjectedHealth(i, debt, r) = h
  BY <1>3, <1>4, <1>5 DEF ProjectedHealth, AtLeastZero
<1>7. z # 0 /\ ExactlyWithin(z, d, r, BorrowLtv) /\ ~Liquidatable(h)
  <2>1. r.price \in Nat /\ r.debtPrice \in Nat \ {0}
    BY DEF IsReading
  <2>2. h.healthy
    BY <1>6
  <2> QED BY <1>5, <2>1, <2>2, HealthyIsSafe
<1>8. c >= 0 /\ z = c
  BY <1>4, <1>7
<1> QED BY <1>3, <1>6, <1>7, <1>8 DEF SafeAfter

LEMMA QuotedIsSafe ==
  ASSUME NEW intent \in Intents, NEW r, IsReading(r), Quotable(intent, r)
  PROVE  /\ SafeAfter(intent, r.debt, r)
         /\ intent.action \in {"borrow", "withdraw_supply"} /\ intent.add = 0 => ScreenAllows(intent, r)
<1>1. PICK i : i = Settled(intent, r.debt)
  OBVIOUS
<1>2. r.debt \in Nat
  BY DEF IsReading
<1>3. /\ i.action = intent.action /\ i.add = intent.add
      /\ i.action \in {"supply", "withdraw_supply", "borrow", "repay"}
      /\ i.action # "repay" => i.amount = intent.amount /\ i.amount \in Nat \ {0}
      /\ i.action = "repay" => i.amount = Unknown \/ (i.amount \in Nat \ {0} /\ i.amount <= r.debt)
  BY <1>1, <1>2, Asked
<1>4. /\ r.oracle = "fresh" /\ (r.known \/ intent.action = "supply") /\ i.amount > 0
      /\ ~HealthBlocks(i, ProjectedHealth(i, r.debt, r))
      /\ i.action = "borrow" => (r.liquidity # Unknown => i.amount <= r.liquidity)
  BY <1>1 DEF Quotable
<1>5. CASE i.action \in {"borrow", "withdraw_supply"}
  <2>1. ProjectedHealth(i, r.debt, r).healthy
    BY <1>4, <1>5 DEF HealthBlocks
  <2>2. SafeAfter(intent, r.debt, r) /\ r.collateral + CollateralDelta(i) >= 0
    BY <1>1, <1>2, <1>5, <2>1, ProjectionIsSafe
  <2>3. r.known
    BY <1>3, <1>4, <1>5
  <2>4. ScreenAllows(intent, r)
    BY <1>1, <1>3, <1>4, <2>1, <2>2, <2>3 DEF ScreenAllows
  <2> QED BY <2>2, <2>4
<1>6. CASE i.action = "repay"
  <2>1. i.amount \in Nat /\ i.amount <= r.debt
    BY <1>3, <1>4, <1>6 DEF Unknown
  <2>2. DebtDelta(i) = -i.amount
    BY <1>6 DEF DebtDelta
  <2>3. r.debt + DebtDelta(i) >= 0
    BY <1>2, <2>1, <2>2
  <2> QED BY <1>1, <1>3, <1>6, <2>3 DEF SafeAfter
<1>7. CASE i.action = "supply"
  BY <1>1, <1>3, <1>7 DEF SafeAfter
<1> QED BY <1>3, <1>5, <1>6, <1>7

LEMMA AskedToSignIsSafe ==
  ASSUME NEW intent \in Intents, NEW r, IsReading(r), NextActionOf(CreditState(intent, r)) = "SIGN"
  PROVE  SafeAfter(intent, r.accrued, r)
<1>1. CreditState(intent, r) = "awaiting_signature"
  BY DEF NextActionOf
<1>2. PICK i : i = Settled(intent, r.accrued)
  OBVIOUS
<1>3. PICK h : h = ProjectedHealth(i, r.accrued, r)
  OBVIOUS
<1>4. r.accrued \in Nat
  BY DEF IsReading
<1>5. /\ i.action \in {"supply", "withdraw_supply", "borrow", "repay"}
      /\ i.action = "repay" => i.amount = Unknown \/ (i.amount \in Nat \ {0} /\ i.amount <= r.accrued)
  BY <1>2, <1>4, Asked
<1>6. /\ i.amount # Unknown
      /\ ~(i.action = "borrow" /\ BorrowBlocked(i, r, h))
      /\ ~(i.action = "withdraw_supply" /\ ~h.healthy)
  BY <1>1, <1>2, <1>3 DEF CreditState
<1>7. CASE i.action \in {"borrow", "withdraw_supply"}
  <2>1. h.healthy
    BY <1>6, <1>7 DEF BorrowBlocked
  <2> QED BY <1>2, <1>3, <1>4, <1>7, <2>1, ProjectionIsSafe
<1>8. CASE i.action = "repay"
  <2>1. DebtDelta(i) = -i.amount
    BY <1>8 DEF DebtDelta
  <2>2. r.accrued + DebtDelta(i) >= 0
    BY <1>4, <1>5, <1>6, <1>8, <2>1
  <2> QED BY <1>2, <1>8, <2>2 DEF SafeAfter
<1>9. CASE i.action = "supply"
  BY <1>2, <1>9 DEF SafeAfter
<1> QED BY <1>5, <1>7, <1>8, <1>9

\* A fallen price, and the collateral's value at it.
LEMMA PriceFalls ==
  ASSUME NEW price \in Nat, NEW shift \in Shifts
  PROVE  ShiftedPrice(price, shift) \in Nat /\ ShiftedPrice(price, shift) <= price
<1>1. PICK tenths \in {1, 2, 3, 5} : shift = -((Bps * tenths) \div 10)
  BY DEF Shifts
<1>2. PICK b \in Nat \ {0} : b = Bps
  BY MarketParameters
<1>3. PICK fall \in Nat : fall = (b * tenths) \div 10 /\ fall <= b
  BY <1>1
<1>4. PICK left \in Nat : left = b - fall /\ left <= b /\ left = b + shift
  BY <1>1, <1>2, <1>3
<1>5. PICK n \in Nat : n = price * left /\ n <= price * b
  BY <1>4, Scales
<1>6. PICK q \in Nat : q = n \div b /\ q * b <= n
  BY RoundedDown
<1>7. q <= price
  <2>1. q * b <= price * b
    BY <1>5, <1>6
  <2> QED BY <2>1
<1> QED BY <1>2, <1>4, <1>5, <1>6, <1>7 DEF ShiftedPrice

LEMMA DivideKeepsOrder ==
  ASSUME NEW m \in Nat, NEW n \in Nat, m <= n, NEW c \in Nat \ {0}
  PROVE  m \div c <= n \div c
OBVIOUS

LEMMA WorthLess ==
  ASSUME NEW c \in Nat, NEW d \in Nat, NEW r, r.price \in Nat, r.debtPrice \in Nat \ {0},
         NEW s, s.price \in Nat, s.price <= r.price, s.debtPrice = r.debtPrice
  PROVE  /\ Health(c, d, s).collateralUsd <= Health(c, d, r).collateralUsd
         /\ Health(c, d, s).debtUsd = Health(c, d, r).debtUsd
<1>1. PICK m \in Nat, n \in Nat : m = c * s.price /\ n = c * r.price /\ m <= n
  <2>1. PICK p \in Nat, q \in Nat : p = s.price /\ q = r.price /\ p <= q
    OBVIOUS
  <2>2. c * p \in Nat /\ c * q \in Nat /\ c * p <= c * q
    BY <2>1, Scales
  <2> QED BY <2>1, <2>2
<1>2. m \div CollateralUnit <= n \div CollateralUnit
  BY <1>1, DivideKeepsOrder, MarketParameters
<1>3. CollateralUsd(c, s.price) <= CollateralUsd(c, r.price)
  BY <1>1, <1>2 DEF CollateralUsd, MulDivDown
<1>4. /\ Health(c, d, s).collateralUsd = CollateralUsd(c, s.price)
      /\ Health(c, d, r).collateralUsd = CollateralUsd(c, r.price)
      /\ Health(c, d, s).debtUsd = DebtUsd(d, s.debtPrice)
      /\ Health(c, d, r).debtUsd = DebtUsd(d, r.debtPrice)
  BY DEF Health
<1> QED BY <1>3, <1>4

\* Past the threshold the factor is below five quarters, whatever was rounded on the way.
LEMMA TroubleAlerts ==
  ASSUME NEW r, IsReading(r), Liquidatable(Health(r.collateral, r.debt, r))
  PROVE  AlertTriggered(r)
<1>1. PICK h : h = Health(r.collateral, r.debt, r)
  OBVIOUS
<1>2. r.price \in Nat /\ r.debtPrice \in Nat \ {0} /\ r.collateral \in Nat /\ r.debt \in Nat
  BY DEF IsReading
<1>3. /\ h.collateralUsd \in Nat /\ h.debtUsd \in Nat /\ h.ltv \in Nat /\ h.factor \in Nat
      /\ h.collateralUsd # 0 => (h.ltv - 1) * h.collateralUsd < h.debtUsd * Bps
      /\ h.debtUsd # 0 => h.factor * h.debtUsd <= h.collateralUsd * LiquidationLtv
  BY <1>1, <1>2, HealthOf
<1>4. PICK cUsd \in Nat, dUsd \in Nat, ltv \in Nat, factor \in Nat, limit \in Nat, bps \in Nat \ {0} :
        /\ cUsd = h.collateralUsd /\ dUsd = h.debtUsd /\ ltv = h.ltv /\ factor = h.factor
        /\ limit = LiquidationLtv /\ bps = Bps /\ limit >= 5
  BY <1>3, MarketParameters
<1>5. dUsd > 0 /\ ltv >= limit
  BY <1>1, <1>4 DEF Liquidatable
<1>6. factor * dUsd <= cUsd * limit
  BY <1>3, <1>4, <1>5
<1>7. factor * 4 < bps * 5
  <2>1. CASE cUsd = 0
    <3>1. factor * dUsd <= 0
      BY <1>6, <2>1
    <3>2. factor = 0
      BY <1>5, <3>1
    <3> QED BY <3>2
  <2>2. CASE cUsd # 0
    <3>1. (ltv - 1) * cUsd < dUsd * bps
      BY <1>3, <1>4, <2>2
    <3>2. PICK below \in Nat : below = limit - 1 /\ below <= ltv - 1 /\ below >= 4
      BY <1>4, <1>5
    <3>3. below * cUsd <= (ltv - 1) * cUsd
      BY <3>2, <1>5
    <3>4. PICK x \in Nat, y \in Nat, f \in Nat : x = below * cUsd /\ y = dUsd * bps /\ f = factor * dUsd /\ x < y
      <4>1. below * cUsd \in Nat /\ dUsd * bps \in Nat /\ factor * dUsd \in Nat /\ (ltv - 1) * cUsd \in Int
        OBVIOUS
      <4> QED BY <3>1, <3>3, <4>1
    <3>5. cUsd * limit = x + cUsd
      BY <3>2, <3>4
    <3>6. 4 * cUsd <= x
      BY <3>2, <3>4
    <3>7. 4 * f <= 4 * x + 4 * cUsd /\ 4 * x + 4 * cUsd <= 5 * x
      BY <1>6, <3>4, <3>5, <3>6
    <3>8. 4 * f < 5 * y
      BY <3>4, <3>7
    <3>9. (factor * 4) * dUsd = 4 * f /\ (bps * 5) * dUsd = 5 * y
      BY <3>4
    <3>10. PICK u \in Nat, v \in Nat : u = factor * 4 /\ v = bps * 5
      OBVIOUS
    <3>11. u * dUsd < v * dUsd
      BY <3>8, <3>9, <3>10
    <3> QED BY <3>10, <3>11, Scales
  <2> QED BY <2>1, <2>2
<1> QED BY <1>1, <1>4, <1>5, <1>7 DEF AlertTriggered

\* What liquidates now, or would in exact arithmetic at the fallen price, the scenario says so.
LEMMA FallIsShown ==
  ASSUME NEW r, IsReading(r), r.oracle = "fresh", r.known, NEW shift \in Shifts,
         NEW moved, moved = ShiftedPrice(r.price, shift),
         \/ Liquidatable(Health(r.collateral, r.debt, r))
         \/ r.debt * r.debtPrice * CollateralUnit * Bps >= LiquidationLtv * r.collateral * moved * DebtUnit
  PROVE  WouldLiquidate(r, shift)
<1>1. r.price \in Nat \ {0} /\ r.debtPrice \in Nat \ {0} /\ r.collateral \in Nat /\ r.debt \in Nat
  BY DEF IsReading
<1>2. moved \in Nat /\ moved <= r.price
  BY <1>1, PriceFalls
<1>3. PICK s : s = [r EXCEPT !.price = moved]
  OBVIOUS
<1>4. s.price = moved /\ s.debtPrice = r.debtPrice
  BY <1>1, <1>3 DEF IsReading
<1>5. Stressed(r, shift) = Health(r.collateral, r.debt, s)
  BY <1>3 DEF Stressed
<1>6. PICK h, g : h = Health(r.collateral, r.debt, r) /\ g = Health(r.collateral, r.debt, s)
  OBVIOUS
<1>7. /\ h.collateralUsd \in Nat /\ h.debtUsd \in Nat /\ h.ltv \in Nat
      /\ h.collateralUsd # 0 => (h.ltv - 1) * h.collateralUsd < h.debtUsd * Bps
  BY <1>1, <1>6, HealthOf
<1>8. /\ g.collateralUsd \in Nat /\ g.debtUsd \in Nat /\ g.ltv \in Nat
      /\ g.collateralUsd * CollateralUnit <= r.collateral * moved
      /\ g.debtUsd * DebtUnit >= r.debt * r.debtPrice
      /\ g.collateralUsd = 0 => g.ltv >= LiquidationLtv
      /\ g.collateralUsd # 0 => g.ltv * g.collateralUsd >= g.debtUsd * Bps
  <2>1. s.price \in Nat /\ s.debtPrice \in Nat \ {0}
    BY <1>1, <1>2, <1>4
  <2> QED BY <1>1, <1>4, <1>6, <2>1, HealthOf
<1>9. g.collateralUsd <= h.collateralUsd /\ g.debtUsd = h.debtUsd
  BY <1>1, <1>2, <1>4, <1>6, WorthLess
<1>10. PICK cUsd \in Nat, less \in Nat, dUsd \in Nat, was \in Nat, ltv \in Nat, limit \in Nat, bps \in Nat \ {0} :
         /\ cUsd = h.collateralUsd /\ less = g.collateralUsd /\ dUsd = g.debtUsd /\ dUsd = h.debtUsd
         /\ was = h.ltv /\ ltv = g.ltv /\ limit = LiquidationLtv /\ limit >= 5 /\ bps = Bps /\ less <= cUsd
  BY <1>7, <1>8, <1>9, MarketParameters
<1>11. ltv >= limit
  <2>1. CASE less = 0
    BY <1>8, <1>10, <2>1
  <2>2. CASE less # 0
    <3>1. ltv * less >= dUsd * bps
      BY <1>8, <1>10, <2>2
    <3>2. CASE Liquidatable(h)
      <4>1. was >= limit
        BY <1>10, <3>2 DEF Liquidatable
      <4>2. (was - 1) * cUsd < dUsd * bps
        BY <1>7, <1>10, <2>2
      <4>3. PICK before \in Nat, below \in Nat : before = was - 1 /\ below = limit - 1 /\ below <= before
        BY <1>10, <4>1
      <4>4. below * less <= before * less /\ before * less <= before * cUsd
        BY <1>10, <4>3, Scales
      <4>5. below * less < ltv * less
        BY <3>1, <4>2, <4>3, <4>4
      <4>6. below < ltv
        BY <4>5, Scales
      <4> QED BY <4>3, <4>6
    <3>3. CASE r.debt * r.debtPrice * CollateralUnit * Bps >= LiquidationLtv * r.collateral * moved * DebtUnit
      <4>1. PICK x \in Nat, y \in Nat : x = r.collateral * moved /\ y = r.debt * r.debtPrice
        <5>1. r.collateral * moved \in Nat /\ r.debt * r.debtPrice \in Nat
          BY <1>1, <1>2
        <5> QED BY <5>1
      <4>2. LiquidationLtv * r.collateral * moved = LiquidationLtv * x
        <5>1. PICK c \in Nat, p \in Nat : c = r.collateral /\ p = moved
          BY <1>1, <1>2
        <5>2. limit * c * p = limit * (c * p)
          OBVIOUS
        <5> QED BY <1>10, <4>1, <5>1, <5>2
      <4>3. y * CollateralUnit * Bps >= LiquidationLtv * x * DebtUnit
        BY <3>3, <4>1, <4>2
      <4>4. less * CollateralUnit <= x /\ dUsd * DebtUnit >= y
        BY <1>8, <1>10, <4>1
      <4>5. /\ CollateralUnit \in Nat /\ DebtUnit \in Nat /\ Bps \in Nat /\ LiquidationLtv \in Nat
            /\ CollateralUnit # 0 /\ DebtUnit # 0
        BY MarketParameters
      <4>6. dUsd * Bps >= LiquidationLtv * less
        BY <4>3, <4>4, <4>5, CrossMultiplied
      <4>7. ltv * less >= limit * less
        BY <1>10, <3>1, <4>6
      <4> QED BY <2>2, <4>7
    <3> QED BY <1>6, <3>2, <3>3
  <2> QED BY <2>1, <2>2
<1> QED BY <1>5, <1>6, <1>10, <1>11 DEF WouldLiquidate

LEMMA RepaymentIsQuoted ==
  ASSUME NEW r, IsReading(r), r.oracle = "fresh", r.known, NEW intent \in Intents, intent.action \in {"supply", "repay"},
         intent.action = "repay" => SettleRepay(intent.amount, r.debt) # Unknown
  PROVE  Quotable(intent, r)
<1>1. PICK i : i = Settled(intent, r.debt)
  OBVIOUS
<1>2. r.debt \in Nat
  BY DEF IsReading
<1>3. i.action \in {"supply", "repay"} /\ i.amount > 0
  BY <1>1, <1>2, Asked
<1> QED BY <1>1, <1>3 DEF Quotable, HealthBlocks

LEMMA TroubleHasAnAnswer ==
  ASSUME CreditInv
  PROVE  TroubleIsAnswered
<1>1. SUFFICES ASSUME reading # NoReading, reading.oracle = "fresh", reading.known
               PROVE  LET now == Health(reading.collateral, reading.debt, reading)
                      IN  /\ \A intent \in Intents :
                               (/\ intent.action \in ProtectiveActions(now, reading, intent.amount)
                                /\ intent.action \in {"supply", "repay"}
                                /\ intent.action = "repay" => SettleRepay(intent.amount, reading.debt) # Unknown)
                               => Quotable(intent, reading)
                          /\ Liquidatable(now) => AlertTriggered(reading)
                          /\ \A shift \in Shifts :
                               LET moved == ShiftedPrice(reading.price, shift)
                               IN  \/ Liquidatable(now)
                                   \/ /\ reading.debt > 0
                                      /\ reading.debt * reading.debtPrice * CollateralUnit * Bps
                                           >= LiquidationLtv * reading.collateral * moved * DebtUnit
                                   => WouldLiquidate(reading, shift)
  BY DEF TroubleIsAnswered
<1>2. IsReading(reading)
  BY <1>1 DEF CreditInv
<1> DEFINE now == Health(reading.collateral, reading.debt, reading)
<1>3. ASSUME NEW intent \in Intents, intent.action \in {"supply", "repay"},
             intent.action = "repay" => SettleRepay(intent.amount, reading.debt) # Unknown
      PROVE  Quotable(intent, reading)
  BY <1>1, <1>2, <1>3, RepaymentIsQuoted
<1>4. Liquidatable(now) => AlertTriggered(reading)
  BY <1>2, TroubleAlerts
<1>5. ASSUME NEW shift \in Shifts,
             \/ Liquidatable(now)
             \/ /\ reading.debt > 0
                /\ reading.debt * reading.debtPrice * CollateralUnit * Bps
                     >= LiquidationLtv * reading.collateral * ShiftedPrice(reading.price, shift) * DebtUnit
      PROVE  WouldLiquidate(reading, shift)
  <2>1. PICK moved : moved = ShiftedPrice(reading.price, shift)
    OBVIOUS
  <2> QED BY <1>1, <1>2, <1>5, <2>1, FallIsShown
<1> QED BY <1>3, <1>4, <1>5

LEMMA CreditStarts == CreditInit => CreditInv
<1>1. NoLifecycle.next = "none"
  BY DEF NoLifecycle
<1> QED BY <1>1 DEF CreditInit, CreditInv

LEMMA ReadingIsReading ==
  ASSUME NEW r \in Readings
  PROVE  IsReading(r)
<1>1. r \in [oracle : {"fresh", "disputed", "stale"}, known : BOOLEAN, collateral : 0..MaxHeld, debt : 0..MaxHeld,
             accrued : 0..(MaxHeld + 1), price : CollateralPrices, debtPrice : DebtPrices,
             liquidity : {Unknown, 0, MaxAmount}, paused : BOOLEAN]
  BY DEF Readings
<1>2. 0..MaxHeld \subseteq Nat /\ 0..(MaxHeld + 1) \subseteq Nat
  BY MarketParameters
<1> QED BY <1>1, <1>2, MarketParameters DEF IsReading

LEMMA CreditStep ==
  ASSUME CreditInv, [CreditNext]_creditVars
  PROVE  /\ CreditInv'
         /\ creditQuote' # creditQuote /\ creditQuote' # NoIntent =>
              /\ SafeAfter(creditQuote', reading.debt, reading)
              /\ creditQuote'.action \in {"borrow", "withdraw_supply"} /\ creditQuote'.add = 0 =>
                   ScreenAllows(creditQuote', reading)
         /\ creditShown'.next = "SIGN" /\ creditShown # creditShown' => SafeAfter(creditQuote, reading.accrued, reading)
<1> USE DEF CreditInv
<1>1. CASE ReadMarketRisk
  <2>1. IsReading(reading')
    BY <1>1, ReadingIsReading DEF ReadMarketRisk
  <2>2. creditShown'.next = "none" /\ creditQuote' = creditQuote /\ sent' = sent
    BY <1>1 DEF ReadMarketRisk, NoLifecycle
  <2> QED BY <2>1, <2>2
<1>2. CASE OracleAges
  <2>1. IsReading(reading)
    BY <1>2 DEF OracleAges
  <2>2. PICK r : r = [reading EXCEPT !.oracle = "aged"]
    OBVIOUS
  <2>3. IsReading(r)
    BY <2>1, <2>2 DEF IsReading
  <2>4. reading' = r /\ creditShown' = creditShown /\ creditQuote' = creditQuote /\ sent' = sent
    BY <1>2, <2>2 DEF OracleAges
  <2> QED BY <2>3, <2>4
<1>3. ASSUME NEW intent \in Intents, QuoteCredit(intent)
      PROVE  /\ CreditInv'
             /\ creditShown' = creditShown
             /\ SafeAfter(creditQuote', reading.debt, reading)
             /\ creditQuote'.action \in {"borrow", "withdraw_supply"} /\ creditQuote'.add = 0 =>
                  ScreenAllows(creditQuote', reading)
  <2>1. IsReading(reading) /\ Quotable(intent, reading) /\ creditQuote' = intent
        /\ UNCHANGED <<reading, sent, settlement, creditShown>>
    BY <1>3 DEF QuoteCredit
  <2>2. /\ SafeAfter(intent, reading.debt, reading)
        /\ intent.action \in {"borrow", "withdraw_supply"} /\ intent.add = 0 => ScreenAllows(intent, reading)
    BY <2>1, QuotedIsSafe
  <2> QED BY <2>1, <2>2
<1>4. CASE SignCredit
  BY <1>4 DEF SignCredit
<1>5. CASE DiscardQuote
  <2>1. creditShown'.next = "none" /\ creditQuote' = NoIntent /\ reading' = NoReading /\ sent' = sent
    BY <1>5 DEF DiscardQuote, NoLifecycle
  <2> QED BY <2>1
<1>6. CASE SettlementSeen
  BY <1>6 DEF SettlementSeen
<1>7. CASE EvaluateGraniteCredit
  <2>1. /\ creditQuote \in Intents /\ IsReading(reading)
        /\ reading' = NoReading /\ UNCHANGED <<creditQuote, sent, settlement>>
        /\ creditShown'.next = NextActionOf(CreditState(creditQuote, reading))
    BY <1>7 DEF EvaluateGraniteCredit
  <2>2. creditShown'.next \in {"SIGN", "WAIT", "CONTACT_SUPPORT", "COMPLETE", "UNAVAILABLE"}
    BY <2>1 DEF NextActionOf
  <2>3. creditShown'.next = "SIGN" => SafeAfter(creditQuote, reading.accrued, reading)
    BY <2>1, AskedToSignIsSafe
  <2> QED BY <2>1, <2>2, <2>3
<1>8. CASE UNCHANGED creditVars
  BY <1>8 DEF creditVars
<1> QED BY <1>1, <1>2, <1>3, <1>4, <1>5, <1>6, <1>7, <1>8 DEF CreditNext

LEMMA CreditAlways == CreditSpec => []CreditInv
<1>1. CreditInv /\ [CreditNext]_creditVars => CreditInv'
  BY CreditStep
<1> QED BY CreditStarts, <1>1, PTL DEF CreditSpec

\* On whatever parameters and prices, neither gate lets through what leaves the position unsafe in exact arithmetic.
THEOREM NothingUnsafeIsSigned == CreditSpec => []CreditTypeOK /\ SafeToSign
<1>1. CreditInv => CreditTypeOK
  BY DEF CreditInv, CreditTypeOK, IsReading
<1>2. CreditInv /\ [CreditNext]_creditVars =>
        [/\ creditQuote' # creditQuote /\ creditQuote' # NoIntent =>
              /\ SafeAfter(creditQuote', reading.debt, reading)
              /\ creditQuote'.action \in {"borrow", "withdraw_supply"} /\ creditQuote'.add = 0 =>
                   ScreenAllows(creditQuote', reading)
         /\ creditShown'.next = "SIGN" /\ creditShown # creditShown' =>
              SafeAfter(creditQuote, reading.accrued, reading)]_creditVars
  BY CreditStep
<1> QED BY CreditAlways, <1>1, <1>2, PTL DEF CreditSpec, SafeToSign

\* On whatever parameters and prices, a position in trouble is shown as such and offered the way out.
THEOREM NoTroubleIsHidden == CreditSpec => []TroubleIsAnswered
BY CreditAlways, TroubleHasAnAnswer, PTL

---------------------------------------------------------------------------
(* Portfolio *)

(***************************************************************************)
(* Sums of one and of two members, and the sums and running totals of      *)
(* Portfolio as sums of a map.                                             *)
(***************************************************************************)

LEMMA SumOfNone == ASSUME NEW c PROVE SumOf({}, c) = 0
BY FS_EmptySet, SumSteps

LEMMA SumOfOne ==
  ASSUME NEW x, NEW c, c[x] \in Int
  PROVE  SumOf({x}, c) = c[x]
<1>1. IsFiniteSet({x}) /\ {x} # {} /\ Pick({x}) = x
  BY FS_Singleton DEF Pick
<1>2. {x} \ {Pick({x})} = {}
  BY <1>1
<1>3. SumOf({x}, c) = c[x] + SumOf({}, c)
  BY <1>1, <1>2, SumSteps
<1> QED  BY <1>3, SumOfNone

LEMMA SumOfTwo ==
  ASSUME NEW x, NEW y, x # y, NEW c, c[x] \in Int, c[y] \in Int
  PROVE  SumOf({x, y}, c) = c[x] + c[y]
<1> DEFINE S == {x, y}
           p == Pick(S)
<1>1. IsFiniteSet(S) /\ S # {}
  <2>1. IsFiniteSet({x} \cup {y}) /\ {x} \cup {y} = S
    BY FS_Singleton, FS_AddElement
  <2> QED  BY <2>1
<1>2. p \in S
  BY <1>1, PickIsMember
<1>3. SumOf(S, c) = c[p] + SumOf(S \ {p}, c)
  <2> HIDE DEF S
  <2> QED  BY <1>1, SumSteps
<1> HIDE DEF p
<1>4. CASE p = x
  <2>1. S \ {p} = {y}
    BY <1>4
  <2> QED  BY <1>3, <1>4, <2>1, SumOfOne
<1>5. CASE p = y
  <2>1. S \ {p} = {x}
    BY <1>5
  <2>2. SumOf({x}, c) = c[x]
    BY SumOfOne
  <2>3. SumOf(S, c) = c[y] + c[x]
    BY <1>3, <1>5, <2>1, <2>2
  <2> QED  BY <2>3
<1> QED  BY <1>2, <1>4, <1>5

LEMMA EntriesAdd ==
  ASSUME NEW R, NEW c, c = [e \in R |-> e.quantity]
  PROVE  MapThenSumSet(LAMBDA e : e.quantity, R) = SumOf(R, c)
<1> DEFINE IsMapped(g) == g = [s \in SUBSET R |-> IF s = {} THEN 0 ELSE Pick(s).quantity + g[s \ {Pick(s)}]]
<1>1. \A s \in SUBSET R : s # {} => Pick(s).quantity = c[Pick(s)]
  BY PickIsMember
<1>2. \A g : [s \in SUBSET R |-> IF s = {} THEN 0 ELSE Pick(s).quantity + g[s \ {Pick(s)}]]
             = [s \in SUBSET R |-> IF s = {} THEN 0 ELSE c[Pick(s)] + g[s \ {Pick(s)}]]
  BY <1>1
<1>3. \A g : IsMapped(g) <=> IsFold(R, c, g)
  BY <1>2 DEF IsFold
<1>4. (CHOOSE g : IsMapped(g)) = (CHOOSE g : IsFold(R, c, g))
  BY <1>3
<1>5. MapThenSumSet(LAMBDA e : e.quantity, R) = (CHOOSE g : IsMapped(g))[R]
  BY DEF MapThenSumSet, MapThenFoldSet, Pick
<1> QED  BY <1>4, <1>5, SumIsFold

LEMMA SharesAdd ==
  ASSUME NEW R, NEW c, c = [e \in R |-> e.share]
  PROVE  MapThenSumSet(LAMBDA slice : slice.share, R) = SumOf(R, c)
<1> DEFINE IsMapped(g) == g = [s \in SUBSET R |-> IF s = {} THEN 0 ELSE Pick(s).share + g[s \ {Pick(s)}]]
<1>1. \A s \in SUBSET R : s # {} => Pick(s).share = c[Pick(s)]
  BY PickIsMember
<1>2. \A g : [s \in SUBSET R |-> IF s = {} THEN 0 ELSE Pick(s).share + g[s \ {Pick(s)}]]
             = [s \in SUBSET R |-> IF s = {} THEN 0 ELSE c[Pick(s)] + g[s \ {Pick(s)}]]
  BY <1>1
<1>3. \A g : IsMapped(g) <=> IsFold(R, c, g)
  BY <1>2 DEF IsFold
<1>4. (CHOOSE g : IsMapped(g)) = (CHOOSE g : IsFold(R, c, g))
  BY <1>3
<1>5. MapThenSumSet(LAMBDA slice : slice.share, R) = (CHOOSE g : IsMapped(g))[R]
  BY DEF MapThenSumSet, MapThenFoldSet, Pick
<1> QED  BY <1>4, <1>5, SumIsFold

\* What an asset adds to the gross value of its side.
LineValue(debt, asset) == (QuantityOf(debt, asset) * PriceOf(asset)) \div PriceUnit

LEMMA GrossIsSum ==
  ASSUME NEW debt, NEW R, R = ValuedAssets(debt), NEW c, c = [a \in R |-> LineValue(debt, a)]
  PROVE  Gross(debt) = SumOf(R, c)
<1> DEFINE IsMapped(g) == g = [s \in SUBSET R |-> IF s = {} THEN 0 ELSE LineValue(debt, Pick(s)) + g[s \ {Pick(s)}]]
<1>1. \A s \in SUBSET R : s # {} => LineValue(debt, Pick(s)) = c[Pick(s)]
  BY PickIsMember
<1>2. \A g : [s \in SUBSET R |-> IF s = {} THEN 0 ELSE LineValue(debt, Pick(s)) + g[s \ {Pick(s)}]]
             = [s \in SUBSET R |-> IF s = {} THEN 0 ELSE c[Pick(s)] + g[s \ {Pick(s)}]]
  BY <1>1
<1>3. \A g : IsMapped(g) <=> IsFold(R, c, g)
  BY <1>2 DEF IsFold
<1>4. (CHOOSE g : IsMapped(g)) = (CHOOSE g : IsFold(R, c, g))
  BY <1>3
<1>5. Gross(debt) = (CHOOSE g : IsMapped(g))[R]
  BY DEF Gross, MapThenSumSet, MapThenFoldSet, Pick, LineValue
<1> QED  BY <1>4, <1>5, SumIsFold

PageValue(asset) == PageNet(asset) * PriceOf(asset)

LEMMA PageValuesAdd ==
  ASSUME NEW R, NEW c, c = [a \in R |-> PageValue(a)]
  PROVE  MapThenSumSet(LAMBDA a : PageNet(a) * PriceOf(a), R) = SumOf(R, c)
<1> DEFINE IsMapped(g) == g = [s \in SUBSET R |-> IF s = {} THEN 0 ELSE PageValue(Pick(s)) + g[s \ {Pick(s)}]]
<1>1. \A s \in SUBSET R : s # {} => PageValue(Pick(s)) = c[Pick(s)]
  BY PickIsMember
<1>2. \A g : [s \in SUBSET R |-> IF s = {} THEN 0 ELSE PageValue(Pick(s)) + g[s \ {Pick(s)}]]
             = [s \in SUBSET R |-> IF s = {} THEN 0 ELSE c[Pick(s)] + g[s \ {Pick(s)}]]
  BY <1>1
<1>3. \A g : IsMapped(g) <=> IsFold(R, c, g)
  BY <1>2 DEF IsFold
<1>4. (CHOOSE g : IsMapped(g)) = (CHOOSE g : IsFold(R, c, g))
  BY <1>3
<1>5. MapThenSumSet(LAMBDA a : PageNet(a) * PriceOf(a), R) = (CHOOSE g : IsMapped(g))[R]
  BY DEF MapThenSumSet, MapThenFoldSet, Pick, PageValue
<1> QED  BY <1>4, <1>5, SumIsFold

RowQuantities == Nat \cup {NotKnown}

\* The running total of a page: the sum of its rows, and unknown as soon as one of them is.
LEMMA TotalIsSum ==
  ASSUME NEW R, IsFiniteSet(R), \A row \in R : row.quantity \in RowQuantities,
         NEW c, c = [row \in R |-> row.quantity]
  PROVE  TotalOf(R) = IF \E row \in R : row.quantity = NotKnown THEN NotKnown ELSE SumOf(R, c)
<1> DEFINE Adds(row, running) == IF running = NotKnown \/ row.quantity = NotKnown THEN NotKnown
                                 ELSE running + row.quantity
           IsTotal(g) == g = [s \in SUBSET R |-> IF s = {} THEN 0 ELSE Adds(Pick(s), g[s \ {Pick(s)}])]
           total == [s \in SUBSET R |-> IF \E row \in s : row.quantity = NotKnown THEN NotKnown ELSE SumOf(s, c)]
<1>1. ASSUME NEW s \in SUBSET R
      PROVE  total[s] = IF s = {} THEN 0 ELSE Adds(Pick(s), total[s \ {Pick(s)}])
  <2>1. CASE s = {}
    BY <2>1, SumOfNone
  <2>2. CASE s # {}
    <3> DEFINE x == Pick(s)
               rest == s \ {x}
    <3>1. x \in s /\ x \in R /\ rest \in SUBSET R
      BY <2>2, PickIsMember
    <3>2. IsFiniteSet(s) /\ IsFiniteSet(rest)
      BY <3>1, FS_Subset
    <3>3. SumOf(s, c) = c[x] + SumOf(rest, c)
      BY <2>2, <3>2, SumSteps
    <3>4. (~ \E row \in rest : row.quantity = NotKnown) => SumOf(rest, c) \in Nat
      BY <3>1, <3>2, SumType DEF RowQuantities
    <3>5. total[rest] = IF \E row \in rest : row.quantity = NotKnown THEN NotKnown ELSE SumOf(rest, c)
      BY <3>1
    <3>6. total[s] = IF \E row \in s : row.quantity = NotKnown THEN NotKnown ELSE SumOf(s, c)
      OBVIOUS
    <3>7. (\E row \in s : row.quantity = NotKnown) <=> (x.quantity = NotKnown \/ \E row \in rest : row.quantity = NotKnown)
      BY <3>1
    <3>8. c[x] = x.quantity /\ x.quantity \in RowQuantities
      BY <3>1
    <3> HIDE DEF total, x, rest
    <3>9. total[s] = Adds(x, total[rest])
      BY <3>3, <3>4, <3>5, <3>6, <3>7, <3>8 DEF RowQuantities, NotKnown
    <3> QED  BY <2>2, <3>9 DEF x, rest
  <2> QED  BY <2>1, <2>2
<1>2. total = [s \in SUBSET R |-> total[s]]
  OBVIOUS
<1>3. IsTotal(total)
  <2> HIDE DEF total
  <2> QED  BY <1>1, <1>2
<1> DEFINE chosen == CHOOSE g : IsTotal(g)
<1>4. IsTotal(chosen)
  BY <1>3
<1>5. TotalOf(R) = chosen[R]
  BY DEF TotalOf, FoldSet, MapThenFoldSet, Pick
<1> HIDE DEF chosen
<1> DEFINE Bad == {s \in SUBSET R : chosen[s] # total[s]}
<1>6. \A s \in SUBSET R : chosen[s] = IF s = {} THEN 0 ELSE Adds(Pick(s), chosen[s \ {Pick(s)}])
  <2> DEFINE g == [s \in SUBSET R |-> IF s = {} THEN 0 ELSE Adds(Pick(s), chosen[s \ {Pick(s)}])]
  <2>1. chosen = g
    BY <1>4
  <2>2. \A s \in SUBSET R : g[s] = IF s = {} THEN 0 ELSE Adds(Pick(s), chosen[s \ {Pick(s)}])
    OBVIOUS
  <2> HIDE DEF g, Adds
  <2> QED  BY <2>1, <2>2
<1>7. CASE Bad # {}
  <2>1. PICK s \in Bad : \A u \in Bad : u \subseteq s => u = s
    <3>1. Bad \in SUBSET (SUBSET R)
      OBVIOUS
    <3> HIDE DEF Bad
    <3> QED  BY <1>7, <3>1, SmallestSubset
  <2>2. s \in SUBSET R /\ chosen[s] # total[s]
    BY <2>1
  <2>3. s # {}
    BY <1>1, <1>6, <2>2
  <2>4. Pick(s) \in s /\ s \ {Pick(s)} \in SUBSET R /\ s \ {Pick(s)} # s
    BY <2>2, <2>3, PickIsMember
  <2>5. chosen[s \ {Pick(s)}] = total[s \ {Pick(s)}]
    BY <2>1, <2>4
  <2> HIDE DEF total, Adds
  <2> QED  BY <1>1, <1>6, <2>2, <2>3, <2>5
<1>8. CASE Bad = {}
  <2>1. chosen[R] = total[R]
    BY <1>8
  <2> QED  BY <1>5, <2>1
<1> QED  BY <1>7, <1>8

(***************************************************************************)
(* Prices: the median exists and is one of the readings.                   *)
(***************************************************************************)

\* What was read of the feeds: finitely many sources, known prices are numbers.
FeedOK(rows) ==
  /\ IsFiniteSet(DOMAIN rows)
  /\ \A source \in DOMAIN rows : rows[source].price \in RowQuantities

\* A finite set of readings has a highest one.
LEMMA HighestReading ==
  ASSUME NEW rows, NEW T, IsFiniteSet(T), T # {}, \A s \in T : rows[s].price \in Nat
  PROVE  \E s \in T : \A t \in T : rows[t].price <= rows[s].price
<1> DEFINE Above(s) == {t \in T : rows[t].price > rows[s].price}
           All == {Above(s) : s \in T}
<1>1. All # {} /\ All \in SUBSET (SUBSET T)
  OBVIOUS
<1>2. PICK top \in All : \A other \in All : other \subseteq top => other = top
  <2> HIDE DEF All
  <2> QED  BY <1>1, SmallestSubset
<1>3. PICK s \in T : top = Above(s)
  BY <1>2
<1>4. Above(s) = {}
  <2> SUFFICES ASSUME NEW t \in Above(s) PROVE FALSE
    OBVIOUS
  <2>1. t \in T /\ rows[t].price > rows[s].price /\ rows[t].price \in Nat /\ rows[s].price \in Nat
    OBVIOUS
  <2>2. Above(t) \subseteq Above(s) /\ t \notin Above(t)
    BY <2>1
  <2>3. Above(t) \in All
    BY <2>1
  <2> QED  BY <1>2, <1>3, <2>2, <2>3
<1>5. \A t \in T : rows[t].price <= rows[s].price
  BY <1>4
<1> QED  BY <1>5

LEMMA MedianIsAReading ==
  ASSUME NEW rows, FeedOK(rows), Usable(rows) # {}
  PROVE  MedianPrice(rows) \in UsablePrices(rows) /\ MedianPrice(rows) \in Nat \ {0}
<1> DEFINE U == Usable(rows)
           middle == Cardinality(U) \div 2
           Below(p) == {s \in U : rows[s].price < p}
           UpTo(p) == {s \in U : rows[s].price <= p}
<1>1. \A s \in U : rows[s].price \in Nat \ {0}
  BY DEF Usable, FeedOK, RowQuantities, NotKnown
<1>2. IsFiniteSet(U) /\ \A T \in SUBSET U : IsFiniteSet(T) /\ Cardinality(T) \in Nat
  BY FS_Subset, FS_CardinalityType DEF Usable, FeedOK
<1>3. Cardinality(U) \in Nat \ {0}
  BY <1>2, FS_EmptySet
<1>4. middle \in Nat /\ middle < Cardinality(U)
  <2>1. \A n \in Nat \ {0} : n \div 2 \in Nat /\ n \div 2 < n
    OBVIOUS
  <2> QED  BY <1>3, <2>1
<1> HIDE DEF U, middle
<1> DEFINE Enough == {s \in U : middle < Cardinality(UpTo(rows[s].price))}
           Parts == {UpTo(rows[s].price) : s \in Enough}
<1>5. Enough # {}
  <2>1. PICK s \in U : \A t \in U : rows[t].price <= rows[s].price
    BY <1>1, <1>2, <1>3, HighestReading DEF U
  <2>2. UpTo(rows[s].price) = U
    BY <2>1
  <2> QED  BY <1>4, <2>2
<1>6. PICK part \in Parts : \A other \in Parts : other \subseteq part => other = part
  <2>1. Parts # {} /\ Parts \in SUBSET (SUBSET U)
    BY <1>5
  <2> HIDE DEF Parts
  <2> QED  BY <1>2, <2>1, SmallestSubset
<1>7. PICK s \in Enough : part = UpTo(rows[s].price)
  BY <1>6
<1> DEFINE p == rows[s].price
<1>8. s \in U /\ p \in Nat \ {0} /\ middle < Cardinality(UpTo(p))
  BY <1>1, <1>7
<1>9. Cardinality(Below(p)) <= middle
  <2> SUFFICES ASSUME middle < Cardinality(Below(p)) PROVE FALSE
    BY <1>2, <1>4
  <2>1. IsFiniteSet(Below(p)) /\ Below(p) # {}
    BY <1>2, <1>4, FS_EmptySet
  <2>2. PICK t \in Below(p) : \A u \in Below(p) : rows[u].price <= rows[t].price
    <3>1. \A u \in Below(p) : rows[u].price \in Nat
      BY <1>1
    <3> HIDE DEF Below, p
    <3> QED  BY <2>1, <3>1, HighestReading
  <2>3. UpTo(rows[t].price) = Below(p)
    BY <1>1, <1>8, <2>2
  <2>4. t \in Enough /\ UpTo(rows[t].price) \in Parts
    BY <2>2, <2>3
  <2>5. Below(p) \subseteq UpTo(p) /\ s \in UpTo(p) /\ s \notin Below(p)
    BY <1>1, <1>8
  <2>6. UpTo(rows[t].price) = UpTo(p)
    BY <1>6, <1>7, <2>3, <2>4, <2>5
  <2> QED  BY <2>3, <2>5, <2>6
<1>10. \E q \in UsablePrices(rows) :
          /\ Cardinality({r \in Usable(rows) : rows[r].price < q}) <= Cardinality(Usable(rows)) \div 2
          /\ Cardinality(Usable(rows)) \div 2 < Cardinality({r \in Usable(rows) : rows[r].price <= q})
  <2>1. p \in UsablePrices(rows)
    BY <1>8 DEF UsablePrices, U
  <2> QED  BY <2>1, <1>8, <1>9 DEF U, middle
<1>11. MedianPrice(rows) \in UsablePrices(rows)
  BY <1>10 DEF MedianPrice
<1> QED  BY <1>1, <1>11 DEF UsablePrices, U

LEMMA QuorumIsAPrice ==
  ASSUME NEW rows, FeedOK(rows)
  PROVE  Quorum(rows) = NotKnown \/ Quorum(rows) \in Nat \ {0}
BY MedianIsAReading DEF Quorum

LEMMA PriceIsAPrice ==
  ASSUME NEW asset \in Tokens, \A feed \in Feeds : FeedOK(view["prices"][feed])
  PROVE  /\ PriceOf(asset) = NotKnown \/ PriceOf(asset) \in Nat \ {0}
         /\ PriceOf("receipt") = NotKnown
<1> DEFINE feeds(a) == FeedsOf(a)
           agreed(a) == {i \in DOMAIN feeds(a) : Quorum(view["prices"][feeds(a)[i]]) # NotKnown}
<1>1. FeedsOf("sbtc") = <<"BTC/USD", "sBTC/USD">> /\ FeedsOf("usdc") = <<"USDC/USD">> /\ FeedsOf("receipt") = << >>
  BY DEF FeedsOf
<1>2. agreed("receipt") = {}
  BY <1>1
<1>3. ASSUME NEW a \in Tokens, agreed(a) # {}
      PROVE  Quorum(view["prices"][feeds(a)[Min(agreed(a))]]) \in Nat \ {0}
  <2>1. DOMAIN feeds(a) \subseteq {1, 2} /\ \A i \in DOMAIN feeds(a) : feeds(a)[i] \in Feeds
    BY <1>1, <1>3 DEF Tokens, Feeds
  <2>2. Min(agreed(a)) \in agreed(a)
    <3>1. agreed(a) \subseteq {1, 2}
      BY <2>1
    <3>2. \E x \in agreed(a) : \A y \in agreed(a) : x <= y
      <4> HIDE DEF agreed
      <4>1. CASE 1 \in agreed(a)
        BY <3>1, <4>1
      <4>2. CASE 1 \notin agreed(a)
        BY <1>3, <3>1, <4>2
      <4> QED  BY <4>1, <4>2
    <3> HIDE DEF agreed
    <3> QED  BY <3>2 DEF Min
  <2> QED  BY <2>1, <2>2, QuorumIsAPrice
<1> QED  BY <1>2, <1>3 DEF PriceOf

(***************************************************************************)
(* What the tables and a request hold: every row is a snapshot of the      *)
(* address, and one read since its stock last changed has the stock's      *)
(* quantity or none.                                                       *)
(***************************************************************************)

Stocks == {"sbtc", "usdc", "shares", "loan"}
SnapshotRows == {Absent} \cup [quantity : RowQuantities, seen : 0..transfers]

Current(row, stock, value) == row.seen >= changed[stock] => row.quantity \in {value, NotKnown}

PositionsFit(rows) ==
  /\ rows \in [PositionKeys -> SnapshotRows]
  /\ Current(rows[VaultPosition], "shares", stocks.shares * ShareWorth)
  /\ Current(rows[LoanPosition], "loan", stocks.loan)
  /\ rows[PoolPosition].quantity = NotKnown
BalancesFit(rows) ==
  /\ rows \in [Tokens -> SnapshotRows]
  /\ Current(rows["sbtc"], "sbtc", stocks.sbtc)
  /\ Current(rows["usdc"], "usdc", stocks.usdc)
FeedsFit(rows) == rows \in [Feeds -> {r \in {rows[feed] : feed \in Feeds} : FeedOK(r)}]

StocksOK ==
  /\ stocks \in [Stocks -> Nat]
  /\ transfers \in 0..MaxMoves /\ changed \in [Stocks -> 0..transfers]
  /\ writes \in 0..MaxWrites /\ listed \in BOOLEAN

ViewOK ==
  /\ DOMAIN view \subseteq Queries
  /\ "positions" \in DOMAIN view => PositionsFit(view["positions"])
  /\ "balances" \in DOMAIN view => BalancesFit(view["balances"])
  /\ "markets" \in DOMAIN view => view["markets"] \subseteq {"receipt"}
  /\ "prices" \in DOMAIN view => FeedsFit(view["prices"])

PortfolioInv ==
  /\ StocksOK
  /\ PositionsFit(positionRows) /\ BalancesFit(balanceRows) /\ FeedsFit(feedRows)
  /\ ViewOK

LEMMA PortfolioInitSafe == PortfolioInit => PortfolioInv
<1> SUFFICES ASSUME PortfolioInit PROVE PortfolioInv
  OBVIOUS
<1> USE PortfolioAssumption DEF PortfolioInit, NotKnown, RowQuantities
<1>1. StocksOK
  BY DEF StocksOK, Stocks
<1>2. PositionsFit(positionRows)
  BY <1>1 DEF StocksOK, PositionsFit, Current, SnapshotRows, PositionKeys, VaultPosition, VaultInShares, PoolPosition, LoanPosition, Absent, Stocks
<1>3. BalancesFit(balanceRows)
  BY <1>1 DEF StocksOK, BalancesFit, Current, SnapshotRows, Tokens, Absent, Stocks
<1>4. FeedsFit(feedRows)
  <2>1. Min(FeedPrices) \in FeedPrices
    <3>1. FeedPrices \subseteq Nat /\ FeedPrices # {}
      OBVIOUS
    <3>2. PICK x \in FeedPrices : \A y \in FeedPrices : <<y, x>> \notin OpToRel(<, Nat)
      BY <3>1, NatLessThanWellFounded, WFMin
    <3>3. \A y \in FeedPrices : ~ (y < x)
      BY <3>1, <3>2 DEF OpToRel
    <3>4. \A y \in FeedPrices : x <= y
      BY <3>1, <3>3
    <3> QED  BY <3>4 DEF Min
  <2>2. IsFiniteSet({FirstSource}) /\ IsFiniteSet({})
    BY FS_Singleton, FS_EmptySet
  <2> QED  BY <2>1, <2>2 DEF FeedsFit, FeedOK, Feeds
<1>5. ViewOK
  BY DEF ViewOK, Unread, Queries
<1> QED  BY <1>1, <1>2, <1>3, <1>4, <1>5 DEF PortfolioInv

\* A transfer makes the rows of the stocks it changes old, and no other.
LEMMA RowsStayFit ==
  ASSUME StocksOK, NEW new \in [Stocks -> Int], Transfer(new)
  PROVE  /\ StocksOK'
         /\ \A rows : PositionsFit(rows) => PositionsFit(rows)'
         /\ \A rows : BalancesFit(rows) => BalancesFit(rows)'
<1> USE DEF Transfer, Stocks
<1>1. StocksOK'
  BY PortfolioAssumption DEF StocksOK
<1>2. ASSUME NEW row \in SnapshotRows
      PROVE  /\ row \in SnapshotRows'
             /\ row.seen <= transfers
             /\ \A s \in Stocks : row.seen >= changed'[s] => (row.seen >= changed[s] /\ stocks'[s] = stocks[s])
  <2>1. row.seen \in -1..transfers
    BY DEF SnapshotRows, Absent, StocksOK
  <2>2. transfers \in Nat /\ transfers' = transfers + 1
    BY PortfolioAssumption DEF StocksOK
  <2>3. row \in SnapshotRows'
    BY <2>2 DEF SnapshotRows, RowQuantities
  <2>4. ASSUME NEW s \in Stocks, row.seen >= changed'[s]
        PROVE  row.seen >= changed[s] /\ stocks'[s] = stocks[s]
    BY <2>1, <2>2, <2>4 DEF StocksOK
  <2> QED  BY <2>1, <2>2, <2>3, <2>4
<1>3. ASSUME NEW rows, PositionsFit(rows) PROVE PositionsFit(rows)'
  <2>1. rows \in [PositionKeys -> SnapshotRows']
    BY <1>2, <1>3 DEF PositionsFit
  <2>2. \A key \in {VaultPosition, LoanPosition} : rows[key] \in SnapshotRows
    BY <1>3 DEF PositionsFit, PositionKeys
  <2> QED  BY <1>2, <1>3, <2>1, <2>2 DEF PositionsFit, Current
<1>4. ASSUME NEW rows, BalancesFit(rows) PROVE BalancesFit(rows)'
  <2>1. rows \in [Tokens -> SnapshotRows']
    BY <1>2, <1>4 DEF BalancesFit
  <2>2. rows["sbtc"] \in SnapshotRows /\ rows["usdc"] \in SnapshotRows
    BY <1>4 DEF BalancesFit, Tokens
  <2> QED  BY <1>2, <1>4, <2>1, <2>2 DEF BalancesFit, Current
<1> QED  BY <1>1, <1>3, <1>4

LEMMA TransferSafe ==
  ASSUME PortfolioInv, NEW new \in [Stocks -> Int], Transfer(new)
  PROVE  PortfolioInv'
<1>1. UNCHANGED <<positionRows, balanceRows, feedRows, view>>
  BY DEF Transfer
<1>2. StocksOK'
  BY RowsStayFit DEF PortfolioInv
<1>3. PositionsFit(positionRows)'
  <2>1. PositionsFit(positionRows) /\ StocksOK
    BY DEF PortfolioInv
  <2>2. \A rows : PositionsFit(rows) => PositionsFit(rows)'
    BY <2>1, RowsStayFit
  <2> QED  BY <1>1, <2>1, <2>2 DEF PositionsFit, Current
<1>4. BalancesFit(balanceRows)'
  <2>1. BalancesFit(balanceRows) /\ StocksOK
    BY DEF PortfolioInv
  <2>2. \A rows : BalancesFit(rows) => BalancesFit(rows)'
    BY <2>1, RowsStayFit
  <2> QED  BY <1>1, <2>1, <2>2 DEF BalancesFit, Current
<1>5. FeedsFit(feedRows)'
  BY <1>1 DEF PortfolioInv, FeedsFit, FeedOK
<1>6. ViewOK'
  <2>1. ViewOK /\ StocksOK
    BY DEF PortfolioInv
  <2>2. /\ \A rows : PositionsFit(rows) => PositionsFit(rows)'
        /\ \A rows : BalancesFit(rows) => BalancesFit(rows)'
    BY <2>1, RowsStayFit
  <2> QED  BY <1>1, <2>1, <2>2 DEF ViewOK, PositionsFit, BalancesFit, Current, FeedsFit, FeedOK
<1> QED  BY <1>2, <1>3, <1>4, <1>5, <1>6 DEF PortfolioInv

\* Nothing but the rows of positions changes, by a row read of the address now.
LEMMA InsertPositionSafe ==
  ASSUME PortfolioInv, NEW key \in PositionKeys, NEW quantity \in RowQuantities, InsertPosition(key, quantity),
         key = VaultPosition => quantity \in {stocks.shares * ShareWorth, NotKnown},
         key = LoanPosition => quantity \in {stocks.loan, NotKnown},
         key = PoolPosition => quantity = NotKnown
  PROVE  PortfolioInv'
<1> USE DEF InsertPosition, Writing
<1>1. StocksOK'
  BY PortfolioAssumption DEF PortfolioInv, StocksOK
<1>2. PositionsFit(positionRows)'
  <2> DEFINE row == [quantity |-> quantity, seen |-> transfers]
  <2>1. row \in SnapshotRows
    BY PortfolioAssumption DEF PortfolioInv, StocksOK, SnapshotRows
  <2>2. /\ positionRows' = [positionRows EXCEPT ![key] = row]
        /\ row.quantity = quantity /\ UNCHANGED <<stocks, transfers, changed>>
        /\ PositionsFit(positionRows)
    BY DEF PortfolioInv
  <2>3. VaultPosition \in PositionKeys /\ LoanPosition \in PositionKeys /\ PoolPosition \in PositionKeys
    BY DEF PositionKeys
  <2> HIDE DEF row
  <2>4. positionRows' \in [PositionKeys -> SnapshotRows]
    BY <2>1, <2>2 DEF PositionsFit
  <2>5. \A k \in PositionKeys : positionRows'[k] = IF k = key THEN row ELSE positionRows[k]
    BY <2>2 DEF PositionsFit
  <2>6. /\ Current(positionRows'[VaultPosition], "shares", stocks.shares * ShareWorth)
        /\ Current(positionRows'[LoanPosition], "loan", stocks.loan)
        /\ positionRows'[PoolPosition].quantity = NotKnown
    BY <2>2, <2>3, <2>5 DEF PositionsFit, Current
  <2> QED  BY <2>2, <2>4, <2>6 DEF PositionsFit, Current, SnapshotRows
<1>3. BalancesFit(balanceRows)'
  BY DEF PortfolioInv, BalancesFit, Current, SnapshotRows
<1>4. FeedsFit(feedRows)'
  BY DEF PortfolioInv, FeedsFit, FeedOK
<1>5. ViewOK'
  BY DEF PortfolioInv, ViewOK, PositionsFit, BalancesFit, Current, SnapshotRows, FeedsFit, FeedOK
<1> QED  BY <1>1, <1>2, <1>3, <1>4, <1>5 DEF PortfolioInv

LEMMA BalanceIsRecordedSafe ==
  ASSUME PortfolioInv, BalanceIsRecorded
  PROVE  PortfolioInv'
<1>1. PICK token \in Tokens : \E quantity \in {WalletBalance(token), NotKnown} :
        /\ Writing
        /\ balanceRows' = [balanceRows EXCEPT ![token] = [quantity |-> quantity, seen |-> transfers]]
        /\ UNCHANGED <<stocks, transfers, changed, positionRows, feedRows, listed, view>>
  BY DEF BalanceIsRecorded
<1> PICK quantity \in {WalletBalance(token), NotKnown} :
        /\ Writing
        /\ balanceRows' = [balanceRows EXCEPT ![token] = [quantity |-> quantity, seen |-> transfers]]
        /\ UNCHANGED <<stocks, transfers, changed, positionRows, feedRows, listed, view>>
  BY <1>1
<1>2. StocksOK'
  BY PortfolioAssumption DEF PortfolioInv, StocksOK, Writing
<1>3. BalancesFit(balanceRows)'
  <2> DEFINE row == [quantity |-> quantity, seen |-> transfers]
  <2>1. row \in SnapshotRows
    BY PortfolioAssumption DEF PortfolioInv, StocksOK, Stocks, SnapshotRows, RowQuantities, WalletBalance, Tokens
  <2>2. row.quantity \in {WalletBalance(token), NotKnown} /\ BalancesFit(balanceRows)
    BY DEF PortfolioInv
  <2> HIDE DEF row
  <2>3. \A t \in Tokens : balanceRows'[t] = IF t = token THEN row ELSE balanceRows[t]
    BY <2>2 DEF BalancesFit, row
  <2>4. balanceRows' \in [Tokens -> SnapshotRows]
    BY <2>1, <2>2 DEF BalancesFit, row
  <2>5. Current(balanceRows'["sbtc"], "sbtc", stocks.sbtc) /\ Current(balanceRows'["usdc"], "usdc", stocks.usdc)
    BY <2>2, <2>3 DEF BalancesFit, Current, WalletBalance, Tokens
  <2> QED  BY <2>4, <2>5 DEF BalancesFit, Current, SnapshotRows
<1>4. PositionsFit(positionRows)'
  BY DEF PortfolioInv, PositionsFit, Current, SnapshotRows
<1>5. FeedsFit(feedRows)'
  BY DEF PortfolioInv, FeedsFit, FeedOK
<1>6. ViewOK'
  BY DEF PortfolioInv, ViewOK, PositionsFit, BalancesFit, Current, SnapshotRows, FeedsFit, FeedOK
<1> QED  BY <1>2, <1>3, <1>4, <1>5, <1>6 DEF PortfolioInv

LEMMA InsertPriceSafe ==
  ASSUME PortfolioInv, InsertPrice
  PROVE  PortfolioInv'
<1>1. PICK feed \in Feeds, source \in PriceSources,
           row \in [price : FeedPrices, stale : {FALSE}] \cup [price : {NotKnown}, stale : {TRUE}] :
        /\ Writing
        /\ feedRows' = [feedRows EXCEPT ![feed] =
                           [s \in DOMAIN @ \cup {source} |-> IF s = source THEN row ELSE @[s]]]
        /\ UNCHANGED <<stocks, transfers, changed, positionRows, balanceRows, listed, view>>
  BY DEF InsertPrice
<1>2. StocksOK'
  BY <1>1, PortfolioAssumption DEF PortfolioInv, StocksOK, Writing
<1>3. FeedsFit(feedRows')
  <2> DEFINE old == feedRows[feed]
             new == [s \in DOMAIN old \cup {source} |-> IF s = source THEN row ELSE old[s]]
  <2>1. row.price \in RowQuantities
    BY PortfolioAssumption DEF RowQuantities
  <2>2. FeedOK(old) /\ \A f \in Feeds : FeedOK(feedRows[f])
    BY DEF PortfolioInv, FeedsFit
  <2>3. FeedOK(new)
    <3>1. IsFiniteSet(DOMAIN old \cup {source})
      BY <2>2, FS_AddElement DEF FeedOK
    <3>2. \A s \in DOMAIN old \cup {source} : new[s].price \in RowQuantities
      BY <2>1, <2>2 DEF FeedOK
    <3> QED  BY <3>1, <3>2 DEF FeedOK
  <2>4. feedRows' = [feedRows EXCEPT ![feed] = new] /\ feedRows = [f \in Feeds |-> feedRows[f]]
    BY <1>1 DEF PortfolioInv, FeedsFit
  <2> HIDE DEF new, old
  <2>5. feedRows' = [f \in Feeds |-> IF f = feed THEN new ELSE feedRows[f]]
    BY <2>4
  <2> QED  BY <2>2, <2>3, <2>5 DEF FeedsFit
<1>4. FeedsFit(feedRows)'
  BY <1>3 DEF FeedsFit, FeedOK
<1>5. PositionsFit(positionRows)' /\ BalancesFit(balanceRows)'
  BY <1>1 DEF PortfolioInv, PositionsFit, BalancesFit, Current, SnapshotRows
<1>6. ViewOK'
  BY <1>1 DEF PortfolioInv, ViewOK, PositionsFit, BalancesFit, Current, SnapshotRows, FeedsFit, FeedOK
<1> QED  BY <1>2, <1>4, <1>5, <1>6 DEF PortfolioInv

LEMMA ReadTableSafe ==
  ASSUME PortfolioInv, ReadTable
  PROVE  PortfolioInv'
<1>1. PICK query \in Queries \ DOMAIN view :
        /\ view' = [q \in DOMAIN view \cup {query} |-> IF q = query THEN TableOf(q) ELSE view[q]]
        /\ UNCHANGED <<stocks, transfers, changed, positionRows, balanceRows, feedRows, listed, writes>>
  BY DEF ReadTable
<1>2. /\ TableOf("positions") = positionRows /\ TableOf("balances") = balanceRows
      /\ TableOf("markets") \subseteq {"receipt"} /\ TableOf("prices") = feedRows
  BY DEF TableOf
<1>3. DOMAIN view' = DOMAIN view \cup {query}
      /\ \A q \in DOMAIN view' : view'[q] = TableOf(q) \/ (q \in DOMAIN view /\ view'[q] = view[q])
  BY <1>1
<1>4. /\ StocksOK /\ PositionsFit(positionRows) /\ BalancesFit(balanceRows) /\ FeedsFit(feedRows) /\ ViewOK
  BY DEF PortfolioInv
<1>5. StocksOK' /\ PositionsFit(positionRows)' /\ BalancesFit(balanceRows)' /\ FeedsFit(feedRows)'
  BY <1>1, <1>4 DEF StocksOK, PositionsFit, BalancesFit, FeedsFit, FeedOK, Current, SnapshotRows
<1>6. ViewOK'
  <2>1. DOMAIN view' \subseteq Queries
    BY <1>1, <1>3, <1>4 DEF ViewOK
  <2>2. "positions" \in DOMAIN view' => PositionsFit(view["positions"])'
    BY <1>1, <1>2, <1>3, <1>4 DEF ViewOK, PositionsFit, Current, SnapshotRows
  <2>3. "balances" \in DOMAIN view' => BalancesFit(view["balances"])'
    BY <1>1, <1>2, <1>3, <1>4 DEF ViewOK, BalancesFit, Current, SnapshotRows
  <2>4. "markets" \in DOMAIN view' => view'["markets"] \subseteq {"receipt"}
    BY <1>2, <1>3, <1>4 DEF ViewOK
  <2>5. "prices" \in DOMAIN view' => FeedsFit(view["prices"])'
    BY <1>1, <1>2, <1>3, <1>4 DEF ViewOK, FeedsFit, FeedOK
  <2> QED  BY <2>1, <2>2, <2>3, <2>4, <2>5 DEF ViewOK
<1> QED  BY <1>5, <1>6 DEF PortfolioInv

LEMMA TwoStocksMove ==
  ASSUME NEW f \in [Stocks -> Nat], NEW x \in Stocks, NEW y \in Stocks, NEW a \in Int, NEW b \in Int
  PROVE  [f EXCEPT ![x] = a, ![y] = b] \in [Stocks -> Int]
OBVIOUS

\* A step that leaves the rows and the address alone.
LEMMA RowsRest ==
  ASSUME PortfolioInv, StocksOK', UNCHANGED <<stocks, transfers, changed, positionRows, balanceRows, feedRows, view>>
  PROVE  PortfolioInv'
<1>1. PositionsFit(positionRows)'
  BY DEF PortfolioInv, PositionsFit, Current, SnapshotRows
<1>2. BalancesFit(balanceRows)'
  BY DEF PortfolioInv, BalancesFit, Current, SnapshotRows
<1>3. FeedsFit(feedRows)'
  BY DEF PortfolioInv, FeedsFit, FeedOK
<1>4. ViewOK'
  BY DEF PortfolioInv, ViewOK, PositionsFit, BalancesFit, Current, SnapshotRows, FeedsFit, FeedOK
<1> QED  BY <1>1, <1>2, <1>3, <1>4 DEF PortfolioInv

LEMMA PortfolioStepSafe ==
  ASSUME PortfolioInv, [PortfolioNext]_portfolioVars
  PROVE  PortfolioInv'
<1>1. CASE SupplyOrRedeem
  <2>1. PICK n \in {-1, 1} : Transfer([stocks EXCEPT !.sbtc = @ - n * ShareWorth, !.shares = @ + n])
    BY <1>1 DEF SupplyOrRedeem
  <2>2. [stocks EXCEPT !.sbtc = @ - n * ShareWorth, !.shares = @ + n] \in [Stocks -> Int]
    <3>1. n * ShareWorth \in Int /\ stocks \in [Stocks -> Nat]
      BY PortfolioAssumption DEF PortfolioInv, StocksOK
    <3>2. stocks["sbtc"] - n * ShareWorth \in Int /\ stocks["shares"] + n \in Int
      BY <3>1 DEF Stocks
    <3>3. "sbtc" \in Stocks /\ "shares" \in Stocks
      BY DEF Stocks
    <3> QED  BY <3>1, <3>2, <3>3, TwoStocksMove
  <2> QED  BY <2>1, <2>2, TransferSafe
<1>2. CASE BorrowOrRepay
  <2>1. PICK n \in {-1, 1} : Transfer([stocks EXCEPT !.usdc = @ + n, !.loan = @ + n])
    BY <1>2 DEF BorrowOrRepay
  <2>2. [stocks EXCEPT !.usdc = @ + n, !.loan = @ + n] \in [Stocks -> Int]
    <3>1. stocks \in [Stocks -> Nat] /\ "usdc" \in Stocks /\ "loan" \in Stocks
      BY DEF PortfolioInv, StocksOK, Stocks
    <3>2. stocks["usdc"] + n \in Int /\ stocks["loan"] + n \in Int
      BY <3>1
    <3> QED  BY <3>1, <3>2, TwoStocksMove
  <2> QED  BY <2>1, <2>2, TransferSafe
<1>3. CASE ProjectVault
  <2>1. /\ VaultPosition \in PositionKeys /\ VaultInShares \in PositionKeys
        /\ VaultPosition.kind = "supplied" /\ VaultPosition.market = "vault" /\ VaultPosition.asset = "sbtc"
        /\ VaultInShares = [market |-> "vault", kind |-> "supplied", asset |-> "receipt"]
        /\ LoanPosition.kind = "debt" /\ PoolPosition.market = "pool"
    BY DEF PositionKeys, VaultPosition, VaultInShares, LoanPosition, PoolPosition
  <2>2. /\ VaultInShares # VaultPosition /\ VaultInShares # LoanPosition /\ VaultInShares # PoolPosition
        /\ VaultPosition # LoanPosition /\ VaultPosition # PoolPosition
    BY <2>1
  <2>3. stocks.shares \in RowQuantities /\ stocks.shares * ShareWorth \in RowQuantities /\ NotKnown \in RowQuantities
    <3>1. stocks.shares \in Nat /\ ShareWorth \in Nat
      BY PortfolioAssumption DEF PortfolioInv, StocksOK, Stocks
    <3>2. stocks.shares * ShareWorth \in Nat
      BY <3>1
    <3> QED  BY <3>1, <3>2 DEF RowQuantities
  <2> QED  BY <1>3, <2>1, <2>2, <2>3, InsertPositionSafe DEF ProjectVault
<1>4. CASE ProjectPool
  <2>1. PoolPosition \in PositionKeys /\ PoolPosition # VaultPosition /\ PoolPosition # LoanPosition
    BY DEF PositionKeys, VaultPosition, LoanPosition, PoolPosition
  <2>2. NotKnown \in RowQuantities
    BY DEF RowQuantities
  <2> QED  BY <1>4, <2>1, <2>2, InsertPositionSafe DEF ProjectPool
<1>5. CASE LoanIsRecorded
  <2>1. LoanPosition \in PositionKeys /\ LoanPosition # VaultPosition /\ PoolPosition # LoanPosition
    BY DEF PositionKeys, VaultPosition, LoanPosition, PoolPosition
  <2>2. NotKnown \in RowQuantities /\ stocks.loan \in RowQuantities
    BY DEF RowQuantities, PortfolioInv, StocksOK, Stocks
  <2> QED  BY <1>5, <2>1, <2>2, InsertPositionSafe DEF LoanIsRecorded
<1>6. CASE BalanceIsRecorded
  BY <1>6, BalanceIsRecordedSafe
<1>7. CASE InsertPrice
  BY <1>7, InsertPriceSafe
<1>8. CASE CapabilityOfVault
  <2>1. StocksOK'
    BY <1>8, PortfolioAssumption DEF CapabilityOfVault, Writing, PortfolioInv, StocksOK
  <2> QED  BY <1>8, <2>1, RowsRest DEF CapabilityOfVault
<1>9. CASE ReadTable
  BY <1>9, ReadTableSafe
<1>10. CASE AnswerPortfolio
  <2>1. DOMAIN view' = {}
    BY <1>10 DEF AnswerPortfolio, Unread
  <2>2. ViewOK'
    BY <2>1 DEF ViewOK
  <2> QED  BY <1>10, <2>2 DEF AnswerPortfolio, PortfolioInv, StocksOK, PositionsFit, BalancesFit, Current,
     SnapshotRows, FeedsFit, FeedOK
<1>11. CASE UNCHANGED portfolioVars
  <2>1. StocksOK'
    BY <1>11 DEF portfolioVars, PortfolioInv, StocksOK
  <2> QED  BY <1>11, <2>1, RowsRest DEF portfolioVars
<1> QED  BY <1>1, <1>2, <1>3, <1>4, <1>5, <1>6, <1>7, <1>8, <1>9, <1>10, <1>11 DEF PortfolioNext

(***************************************************************************)
(* A complete portfolio, each stock of which was read since it changed:    *)
(* the two wallet rows, the vault position and the loan are all that was   *)
(* read, and hold the stocks.                                              *)
(***************************************************************************)

WalletEntry(token) == [id |-> [market |-> "wallet", kind |-> "wallet", asset |-> token], asset |-> token, debt |-> FALSE,
                       quantity |-> view["balances"][token].quantity]
PositionEntry(key) == [id |-> key, asset |-> key.asset, debt |-> key.kind = "debt",
                       quantity |-> view["positions"][key].quantity]

LEMMA EntriesAreOfRows ==
  /\ WalletEntries = {WalletEntry(token) : token \in Stored(view["balances"]) \ view["markets"]}
  /\ PositionEntries = {PositionEntry(key) : key \in Stored(view["positions"])}
BY DEF WalletEntries, PositionEntries, WalletEntry, PositionEntry

LEMMA TheKeys ==
  /\ VaultPosition = [market |-> "vault", kind |-> "supplied", asset |-> "sbtc"]
  /\ VaultInShares = [market |-> "vault", kind |-> "supplied", asset |-> "receipt"]
  /\ PoolPosition = [market |-> "pool", kind |-> "supplied", asset |-> "sbtc"]
  /\ LoanPosition = [market |-> "pool", kind |-> "debt", asset |-> "usdc"]
  /\ VaultPosition # VaultInShares /\ VaultPosition # PoolPosition /\ VaultPosition # LoanPosition
  /\ VaultInShares # PoolPosition /\ VaultInShares # LoanPosition /\ PoolPosition # LoanPosition
  /\ PositionKeys = {VaultPosition, VaultInShares, PoolPosition, LoanPosition}
<1>1. /\ VaultPosition = [market |-> "vault", kind |-> "supplied", asset |-> "sbtc"]
      /\ VaultInShares = [market |-> "vault", kind |-> "supplied", asset |-> "receipt"]
      /\ PoolPosition = [market |-> "pool", kind |-> "supplied", asset |-> "sbtc"]
      /\ LoanPosition = [market |-> "pool", kind |-> "debt", asset |-> "usdc"]
  BY DEF VaultPosition, VaultInShares, PoolPosition, LoanPosition
<1>2. /\ VaultPosition.market = "vault" /\ VaultPosition.asset = "sbtc" /\ VaultInShares.asset = "receipt"
      /\ PoolPosition.market = "pool" /\ PoolPosition.asset = "sbtc" /\ LoanPosition.asset = "usdc"
  BY <1>1
<1> QED  BY <1>1, <1>2 DEF PositionKeys

\* What has been read when a request is answered.
AllRead ==
  /\ PortfolioInv /\ DOMAIN view = Queries
  /\ PositionsFit(view["positions"]) /\ BalancesFit(view["balances"])
  /\ view["markets"] \subseteq {"receipt"} /\ FeedsFit(view["prices"])

LEMMA ReadIsRead == ASSUME PortfolioInv, DOMAIN view = Queries PROVE AllRead
BY DEF AllRead, PortfolioInv, ViewOK, Queries

\* Every asset that counts is priced, and every entry known.
LEMMA CompleteIsPriced ==
  ASSUME AllRead, IsComplete
  PROVE  /\ \A e \in WalletEntries \cup PositionEntries : e.quantity # NotKnown
         /\ \A e \in WalletEntries \cup PositionEntries : e.asset \in {"sbtc", "usdc"} /\ PriceOf(e.asset) \in Nat \ {0}
<1> DEFINE assets == AssetsOf(FALSE) \cup AssetsOf(TRUE)
           valued == ValuedAssets(FALSE) \cup ValuedAssets(TRUE)
<1>1. EntriesOf(FALSE) \cup EntriesOf(TRUE) = WalletEntries \cup PositionEntries
  <2>1. ASSUME NEW e \in PositionEntries PROVE e.debt \in BOOLEAN
    <3>1. PICK key \in Stored(view["positions"]) : e = PositionEntry(key)
      BY EntriesAreOfRows
    <3>2. e.debt = (key.kind = "debt")
      BY <3>1 DEF PositionEntry
    <3>3. (key.kind = "debt") \in BOOLEAN
      OBVIOUS
    <3> QED  BY <3>2, <3>3
  <2> QED  BY <2>1 DEF EntriesOf
<1>2. \A e \in WalletEntries \cup PositionEntries : e.quantity # NotKnown
  BY <1>1 DEF IsComplete, HasUnknown
<1>3. \A e \in WalletEntries \cup PositionEntries : e.asset \in Tokens
  <2>1. \A e \in WalletEntries : e.asset \in Tokens
    BY EntriesAreOfRows DEF Stored, WalletEntry, AllRead, BalancesFit
  <2>2. \A key \in PositionKeys : key.asset \in Tokens
    BY TheKeys DEF Tokens
  <2>3. \A e \in PositionEntries : e.asset \in Tokens
    BY <2>2, EntriesAreOfRows DEF Stored, PositionEntry, AllRead, PositionsFit
  <2> QED  BY <2>1, <2>3
<1>4. assets = {e.asset : e \in WalletEntries \cup PositionEntries}
  BY <1>1 DEF AssetsOf
<1>5. assets \subseteq Tokens /\ valued \subseteq assets
  BY <1>3, <1>4 DEF ValuedAssets
<1>6. IsFiniteSet(assets)
  <2>1. IsFiniteSet(({"sbtc"} \cup {"usdc"}) \cup {"receipt"})
    BY FS_Singleton, FS_AddElement
  <2>2. Tokens = ({"sbtc"} \cup {"usdc"}) \cup {"receipt"}
    BY DEF Tokens
  <2> QED  BY <1>5, <2>1, <2>2, FS_Subset
<1>7. valued = assets
  <2>1. Cardinality(valued) = Cardinality(assets)
    BY DEF IsComplete
  <2> HIDE DEF assets, valued
  <2>2. assets \cap valued = valued
    BY <1>5
  <2>3. /\ Cardinality(assets \ valued) = Cardinality(assets) - Cardinality(valued)
        /\ IsFiniteSet(assets \ valued)
    BY <1>6, <2>2, FS_Difference
  <2>4. Cardinality(assets \ valued) = 0
    BY <1>6, <2>1, <2>3, FS_CardinalityType
  <2>5. assets \ valued = {}
    BY <2>3, <2>4, FS_EmptySet
  <2> QED  BY <1>5, <2>5
<1>8. \A feed \in Feeds : FeedOK(view["prices"][feed])
  BY DEF AllRead, FeedsFit
<1>9. \A a \in assets : PriceOf(a) \in Nat \ {0} /\ a # "receipt"
  BY <1>5, <1>7, <1>8, PriceIsAPrice DEF ValuedAssets
<1> QED  BY <1>2, <1>4, <1>5, <1>9 DEF Tokens

LEMMA CompleteIsWhole ==
  ASSUME AllRead, IsComplete, SeenNow
  PROVE  /\ WalletEntries = {WalletEntry("sbtc"), WalletEntry("usdc")}
         /\ PositionEntries = {PositionEntry(VaultPosition), PositionEntry(LoanPosition)}
         /\ Stored(view["positions"]) = {VaultPosition, LoanPosition}
         /\ "sbtc" \in Stored(view["balances"]) /\ "usdc" \in Stored(view["balances"])
         /\ Stored(view["balances"]) \subseteq Tokens
         /\ view["balances"]["sbtc"].quantity = stocks.sbtc
         /\ view["balances"]["usdc"].quantity = stocks.usdc
         /\ view["positions"][VaultPosition].quantity = stocks.shares * ShareWorth
         /\ view["positions"][LoanPosition].quantity = stocks.loan
<1> DEFINE b == view["balances"]
           ps == view["positions"]
<1>1. /\ DOMAIN b = Tokens /\ DOMAIN ps = PositionKeys
      /\ \A t \in Tokens : b[t] \in SnapshotRows
      /\ \A key \in PositionKeys : ps[key] \in SnapshotRows
  BY DEF AllRead, BalancesFit, PositionsFit
<1>2. \A row \in SnapshotRows : row # Absent <=> row.seen >= 0
  BY PortfolioAssumption DEF SnapshotRows, Absent, AllRead, PortfolioInv, StocksOK
<1>3. \A s \in Stocks : changed[s] >= 0 /\ changed[s] \in Nat
  BY PortfolioAssumption DEF AllRead, PortfolioInv, StocksOK
<1>4. \A t \in Stored(b) \ view["markets"] : b[t].quantity # NotKnown /\ t # "receipt"
  <2> TAKE t \in Stored(b) \ view["markets"]
  <2>1. WalletEntry(t) \in WalletEntries
    BY EntriesAreOfRows
  <2>2. WalletEntry(t).quantity = b[t].quantity /\ WalletEntry(t).asset = t
    BY DEF WalletEntry
  <2> HIDE DEF b
  <2> QED  BY <2>1, <2>2, CompleteIsPriced
<1>5. \A key \in Stored(ps) : ps[key].quantity # NotKnown /\ key.asset # "receipt"
  <2> TAKE key \in Stored(ps)
  <2>1. PositionEntry(key) \in PositionEntries
    BY EntriesAreOfRows
  <2>2. PositionEntry(key).quantity = ps[key].quantity /\ PositionEntry(key).asset = key.asset
    BY DEF PositionEntry
  <2> HIDE DEF ps
  <2> QED  BY <2>1, <2>2, CompleteIsPriced
<1>6. PoolPosition \notin Stored(ps) /\ VaultInShares \notin Stored(ps)
  BY <1>5, TheKeys DEF AllRead, PositionsFit
<1>7. ps[VaultInShares] = Absent /\ VaultInShares \in PositionKeys
  BY <1>1, <1>6, TheKeys DEF Stored
<1>8. /\ b["sbtc"].seen >= changed["sbtc"] /\ b["usdc"].seen >= changed["usdc"]
      /\ ps[LoanPosition].seen >= changed["loan"]
      /\ ps[VaultPosition].seen >= changed["shares"]
  <2>1. ~ (Absent.seen >= changed["shares"])
    BY <1>3 DEF Absent, Stocks
  <2> QED  BY <1>7, <2>1 DEF SeenNow
<1>9. "sbtc" \in Stored(b) /\ "usdc" \in Stored(b) /\ LoanPosition \in Stored(ps) /\ VaultPosition \in Stored(ps)
  <2>1. /\ "sbtc" \in Tokens /\ "usdc" \in Tokens /\ LoanPosition \in PositionKeys /\ VaultPosition \in PositionKeys
        /\ "sbtc" \in Stocks /\ "usdc" \in Stocks /\ "loan" \in Stocks /\ "shares" \in Stocks
    BY TheKeys DEF Tokens, Stocks
  <2>2. \A row \in SnapshotRows : row.seen \in Int
    BY DEF SnapshotRows, Absent
  <2> HIDE DEF b, ps
  <2>3. \A row \in SnapshotRows : \A s \in Stocks : row.seen >= changed[s] => row # Absent
    BY <1>2, <1>3, <2>2
  <2> QED  BY <1>1, <1>8, <2>1, <2>3 DEF Stored
<1>10. Stored(ps) = {VaultPosition, LoanPosition}
  BY <1>1, <1>6, <1>9, TheKeys DEF Stored
<1>11. Stored(b) \ view["markets"] = {"sbtc", "usdc"}
  <2>1. Stored(b) \subseteq Tokens /\ view["markets"] \subseteq {"receipt"}
    BY <1>1 DEF Stored, AllRead
  <2> HIDE DEF b
  <2> QED  BY <1>4, <1>9, <2>1 DEF Tokens
<1>12. /\ b["sbtc"].quantity = stocks.sbtc /\ b["usdc"].quantity = stocks.usdc
  <2>1. Current(b["sbtc"], "sbtc", stocks.sbtc) /\ Current(b["usdc"], "usdc", stocks.usdc)
    BY DEF AllRead, BalancesFit
  <2> HIDE DEF b
  <2> QED  BY <1>4, <1>8, <1>11, <2>1 DEF Current
<1>13. ps[VaultPosition].quantity = stocks.shares * ShareWorth /\ ps[LoanPosition].quantity = stocks.loan
  <2>1. Current(ps[VaultPosition], "shares", stocks.shares * ShareWorth) /\ Current(ps[LoanPosition], "loan", stocks.loan)
    BY DEF AllRead, PositionsFit
  <2> HIDE DEF ps
  <2> QED  BY <1>5, <1>8, <1>9, <2>1 DEF Current
<1>14. WalletEntries = {WalletEntry("sbtc"), WalletEntry("usdc")}
  BY <1>11, EntriesAreOfRows
<1>15. PositionEntries = {PositionEntry(VaultPosition), PositionEntry(LoanPosition)}
  BY <1>10, EntriesAreOfRows
<1>16. Stored(b) \subseteq Tokens
  BY <1>1 DEF Stored
<1> QED  BY <1>9, <1>10, <1>12, <1>13, <1>14, <1>15, <1>16

LEMMA HoldingsAreNumbers ==
  ASSUME AllRead
  PROVE  /\ stocks.sbtc \in Nat /\ stocks.usdc \in Nat /\ stocks.loan \in Nat /\ stocks.shares \in Nat
         /\ stocks.shares * ShareWorth \in Nat /\ stocks.sbtc + stocks.shares * ShareWorth \in Nat
         /\ ShareWorth \in Nat \ {0} /\ PriceUnit \in Nat \ {0}
<1>1. stocks.sbtc \in Nat /\ stocks.usdc \in Nat /\ stocks.loan \in Nat /\ stocks.shares \in Nat
  BY DEF AllRead, PortfolioInv, StocksOK, Stocks
<1>2. ShareWorth \in Nat \ {0} /\ PriceUnit \in Nat \ {0}
  BY PortfolioAssumption
<1>3. \A m \in Nat, n \in Nat : m * n \in Nat
  OBVIOUS
<1>4. stocks.shares * ShareWorth \in Nat
  BY <1>1, <1>2, <1>3
<1>5. stocks.sbtc + stocks.shares * ShareWorth \in Nat
  <2> DEFINE w == stocks.shares * ShareWorth
  <2>1. w \in Nat
    BY <1>4
  <2> HIDE DEF w
  <2>2. stocks.sbtc + w \in Nat
    BY <1>1, <2>1
  <2> QED  BY <2>2 DEF w
<1> QED  BY <1>1, <1>2, <1>4, <1>5

\* The quantities of both sides, exactly the stocks.
LEMMA CompleteQuantities ==
  ASSUME AllRead, IsComplete, SeenNow
  PROVE  /\ AssetsOf(FALSE) = {"sbtc", "usdc"} /\ AssetsOf(TRUE) = {"usdc"}
         /\ QuantityOf(FALSE, "sbtc") = stocks.sbtc + stocks.shares * ShareWorth
         /\ QuantityOf(FALSE, "usdc") = stocks.usdc
         /\ QuantityOf(TRUE, "usdc") = stocks.loan
<1> DEFINE ws == WalletEntry("sbtc")
           wu == WalletEntry("usdc")
           pv == PositionEntry(VaultPosition)
           pl == PositionEntry(LoanPosition)
<1>1. /\ ws.asset = "sbtc" /\ ws.quantity = stocks.sbtc /\ ws.id.market = "wallet"
      /\ wu.asset = "usdc" /\ wu.quantity = stocks.usdc
  BY CompleteIsWhole DEF WalletEntry
<1>2. /\ pv.asset = "sbtc" /\ pv.quantity = stocks.shares * ShareWorth /\ pv.id.market = "vault"
      /\ pl.asset = "usdc" /\ pl.quantity = stocks.loan
  BY CompleteIsWhole, TheKeys DEF PositionEntry
<1>3. pv.debt = FALSE /\ pl.debt = TRUE
  <2>1. pv.debt = (VaultPosition.kind = "debt") /\ pl.debt = (LoanPosition.kind = "debt")
    BY DEF PositionEntry
  <2>2. VaultPosition.kind # "debt" /\ LoanPosition.kind = "debt"
    BY TheKeys
  <2> QED  BY <2>1, <2>2
<1>4. WalletEntries = {ws, wu} /\ PositionEntries = {pv, pl}
  BY CompleteIsWhole
<1> HIDE DEF ws, wu, pv, pl
<1>5. EntriesOf(FALSE) = {ws, wu, pv} /\ EntriesOf(TRUE) = {pl}
  BY <1>3, <1>4 DEF EntriesOf
<1>6. AssetsOf(FALSE) = {"sbtc", "usdc"} /\ AssetsOf(TRUE) = {"usdc"}
  BY <1>1, <1>2, <1>5 DEF AssetsOf
<1>7. /\ {e \in EntriesOf(FALSE) : e.asset = "sbtc"} = {ws, pv}
      /\ {e \in EntriesOf(FALSE) : e.asset = "usdc"} = {wu}
      /\ {e \in EntriesOf(TRUE) : e.asset = "usdc"} = {pl}
  BY <1>1, <1>2, <1>5
<1>8. /\ stocks.sbtc \in Nat /\ stocks.usdc \in Nat /\ stocks.loan \in Nat /\ stocks.shares * ShareWorth \in Nat
  BY HoldingsAreNumbers
<1>9. \A e \in {ws, wu, pv, pl} : e.quantity # NotKnown
  BY <1>1, <1>2, <1>8 DEF NotKnown
<1>10. QuantityOf(FALSE, "sbtc") = stocks.sbtc + stocks.shares * ShareWorth
  <2> DEFINE R == {ws, pv}
             c == [e \in R |-> e.quantity]
  <2>1. QuantityOf(FALSE, "sbtc") = MapThenSumSet(LAMBDA e : e.quantity, R)
    BY <1>7, <1>9 DEF QuantityOf
  <2>2. MapThenSumSet(LAMBDA e : e.quantity, R) = SumOf(R, c)
    BY EntriesAdd
  <2>3. ws # pv /\ c[ws] = stocks.sbtc /\ c[pv] = stocks.shares * ShareWorth
    BY <1>1, <1>2
  <2> HIDE DEF c
  <2>4. c[ws] \in Int /\ c[pv] \in Int
    BY <1>8, <2>3
  <2>5. SumOf({ws, pv}, c) = c[ws] + c[pv]
    BY <2>3, <2>4, SumOfTwo
  <2> QED  BY <2>1, <2>2, <2>3, <2>5
<1>11. QuantityOf(FALSE, "usdc") = stocks.usdc
  <2> DEFINE R == {wu}
             c == [e \in R |-> e.quantity]
  <2>1. QuantityOf(FALSE, "usdc") = MapThenSumSet(LAMBDA e : e.quantity, R)
    BY <1>7, <1>9 DEF QuantityOf
  <2>2. MapThenSumSet(LAMBDA e : e.quantity, R) = SumOf(R, c)
    BY EntriesAdd
  <2>3. c[wu] = stocks.usdc
    BY <1>1
  <2> HIDE DEF c
  <2>4. c[wu] \in Int
    BY <1>8, <2>3
  <2>5. SumOf({wu}, c) = c[wu]
    BY <2>4, SumOfOne
  <2> QED  BY <2>1, <2>2, <2>3, <2>5
<1>12. QuantityOf(TRUE, "usdc") = stocks.loan
  <2> DEFINE R == {pl}
             c == [e \in R |-> e.quantity]
  <2>1. QuantityOf(TRUE, "usdc") = MapThenSumSet(LAMBDA e : e.quantity, R)
    BY <1>7, <1>9 DEF QuantityOf
  <2>2. MapThenSumSet(LAMBDA e : e.quantity, R) = SumOf(R, c)
    BY EntriesAdd
  <2>3. c[pl] = stocks.loan
    BY <1>2
  <2> HIDE DEF c
  <2>4. c[pl] \in Int
    BY <1>8, <2>3
  <2>5. SumOf({pl}, c) = c[pl]
    BY <2>4, SumOfOne
  <2> QED  BY <2>1, <2>2, <2>3, <2>5
<1> QED  BY <1>6, <1>10, <1>11, <1>12

\* A quotient times its divisor is at most one divisor short.
LEMMA FloorIsClose ==
  ASSUME NEW n \in Nat, NEW d \in Nat \ {0}
  PROVE  n \div d \in Nat /\ (n \div d) * d <= n /\ n < (n \div d) * d + d
OBVIOUS

LEMMA NetWorthIsClose ==
  ASSUME AllRead, IsComplete, SeenNow
  PROVE  /\ NetWorth * PriceUnit - TrueWorth < 2 * PriceUnit
         /\ -(2 * PriceUnit) < NetWorth * PriceUnit - TrueWorth
<1> DEFINE s == stocks.sbtc + stocks.shares * ShareWorth
           u == stocks.usdc
           l == stocks.loan
           ps == PriceOf("sbtc")
           pu == PriceOf("usdc")
<1>1. s \in Nat /\ u \in Nat /\ l \in Nat /\ PriceUnit \in Nat \ {0}
  BY HoldingsAreNumbers
<1>2. ps \in Nat \ {0} /\ pu \in Nat \ {0}
  <2>1. WalletEntry("sbtc").asset = "sbtc" /\ WalletEntry("usdc").asset = "usdc"
    BY DEF WalletEntry
  <2> QED  BY <2>1, CompleteIsWhole, CompleteIsPriced
<1>3. ValuedAssets(FALSE) = {"sbtc", "usdc"} /\ ValuedAssets(TRUE) = {"usdc"}
  <2>1. \A n \in Nat : n # NotKnown
    BY DEF NotKnown
  <2>2. QuantityOf(FALSE, "sbtc") = s /\ QuantityOf(FALSE, "usdc") = u /\ QuantityOf(TRUE, "usdc") = l
    BY CompleteQuantities
  <2>3. ps # NotKnown /\ pu # NotKnown /\ s # NotKnown /\ u # NotKnown /\ l # NotKnown
    BY <1>1, <1>2, <2>1
  <2> HIDE DEF s, u, l, ps, pu
  <2>4. AssetsOf(FALSE) = {"sbtc", "usdc"} /\ AssetsOf(TRUE) = {"usdc"}
    BY CompleteQuantities
  <2> QED  BY <2>2, <2>3, <2>4 DEF ValuedAssets, ps, pu
<1> DEFINE x == (s * ps) \div PriceUnit
           y == (u * pu) \div PriceUnit
           z == (l * pu) \div PriceUnit
<1>4. LineValue(FALSE, "sbtc") = x /\ LineValue(FALSE, "usdc") = y /\ LineValue(TRUE, "usdc") = z
  BY CompleteQuantities DEF LineValue
<1>5. s * ps \in Nat /\ u * pu \in Nat /\ l * pu \in Nat
  BY <1>1, <1>2
<1>6. x \in Nat /\ y \in Nat /\ z \in Nat
  BY <1>1, <1>5, FloorIsClose
<1>7. Gross(FALSE) = x + y
  <2> DEFINE R == {"sbtc", "usdc"}
             c == [a \in R |-> LineValue(FALSE, a)]
  <2>1. Gross(FALSE) = SumOf(R, c)
    BY <1>3, GrossIsSum
  <2>2. c["sbtc"] = x /\ c["usdc"] = y
    BY <1>4
  <2> HIDE DEF c, x, y
  <2>3. c["sbtc"] \in Int /\ c["usdc"] \in Int /\ "sbtc" # "usdc"
    BY <1>6, <2>2
  <2>4. SumOf({"sbtc", "usdc"}, c) = c["sbtc"] + c["usdc"]
    BY <2>3, SumOfTwo
  <2> QED  BY <2>1, <2>2, <2>4
<1>8. Gross(TRUE) = z
  <2> DEFINE R == {"usdc"}
             c == [a \in R |-> LineValue(TRUE, a)]
  <2>1. Gross(TRUE) = SumOf(R, c)
    BY <1>3, GrossIsSum
  <2>2. c["usdc"] = z
    BY <1>4
  <2> HIDE DEF c, z
  <2>3. c["usdc"] \in Int
    BY <1>6, <2>2
  <2>4. SumOf({"usdc"}, c) = c["usdc"]
    BY <2>3, SumOfOne
  <2> QED  BY <2>1, <2>2, <2>4
<1>9. TrueWorth = s * ps + (u - l) * pu /\ (u - l) * pu = u * pu - l * pu
  BY <1>1, <1>2 DEF TrueWorth
<1>10. /\ x * PriceUnit <= s * ps /\ s * ps < x * PriceUnit + PriceUnit
       /\ y * PriceUnit <= u * pu /\ u * pu < y * PriceUnit + PriceUnit
       /\ z * PriceUnit <= l * pu /\ l * pu < z * PriceUnit + PriceUnit
  BY <1>1, <1>5, FloorIsClose
<1>11. NetWorth * PriceUnit = x * PriceUnit + y * PriceUnit - z * PriceUnit
  <2> HIDE DEF x, y, z
  <2>1. NetWorth = Gross(FALSE) - Gross(TRUE)
    BY Zenon DEF NetWorth
  <2>2. NetWorth = (x + y) - z
    BY <1>7, <1>8, <2>1, Zenon
  <2> QED  BY <1>1, <1>6, <2>2
<1> DEFINE xp == x * PriceUnit
           yp == y * PriceUnit
           zp == z * PriceUnit
           sp == s * ps
           up == u * pu
           lp == l * pu
<1>12. xp \in Nat /\ yp \in Nat /\ zp \in Nat
  BY <1>1, <1>6
<1>13. /\ NetWorth * PriceUnit = xp + yp - zp /\ TrueWorth = sp + (up - lp)
       /\ xp <= sp /\ sp < xp + PriceUnit /\ yp <= up /\ up < yp + PriceUnit /\ zp <= lp /\ lp < zp + PriceUnit
       /\ sp \in Nat /\ up \in Nat /\ lp \in Nat
  BY <1>5, <1>9, <1>10, <1>11
<1> HIDE DEF xp, yp, zp, sp, up, lp
<1> QED  BY <1>1, <1>12, <1>13

(***************************************************************************)
(* What the pages make of the same rows.                                   *)
(***************************************************************************)

WalletRow(token) == [id |-> [market |-> "wallet", kind |-> "wallet", asset |-> token], asset |-> token,
                     kind |-> IF token \in view["markets"] THEN "receipt" ELSE "wallet",
                     quantity |-> view["balances"][token].quantity]
PositionRow(key) == [id |-> key, asset |-> key.asset, kind |-> key.kind, quantity |-> view["positions"][key].quantity]

LEMMA PageIsOfRows ==
  PageRows = {WalletRow(token) : token \in Stored(view["balances"])} \cup {PositionRow(key) : key \in Stored(view["positions"])}
BY DEF PageRows, WalletRow, PositionRow

LEMMA TotalOfNone == TotalOf({}) = 0
<1> DEFINE R == {}
           c == [row \in R |-> row.quantity]
<1>1. TotalOf(R) = IF \E row \in R : row.quantity = NotKnown THEN NotKnown ELSE SumOf(R, c)
  BY FS_EmptySet, TotalIsSum
<1> QED  BY <1>1, SumOfNone

LEMMA TotalOfOne ==
  ASSUME NEW x, x.quantity \in Nat
  PROVE  TotalOf({x}) = x.quantity
<1> DEFINE R == {x}
           c == [row \in R |-> row.quantity]
<1>1. TotalOf(R) = IF \E row \in R : row.quantity = NotKnown THEN NotKnown ELSE SumOf(R, c)
  BY FS_Singleton, TotalIsSum DEF RowQuantities
<1>2. c[x] = x.quantity /\ c[x] \in Int /\ x.quantity # NotKnown
  BY DEF NotKnown
<1> HIDE DEF c
<1>3. SumOf({x}, c) = c[x]
  BY <1>2, SumOfOne
<1> QED  BY <1>1, <1>2, <1>3

LEMMA TotalOfTwo ==
  ASSUME NEW x, NEW y, x # y, x.quantity \in Nat, y.quantity \in Nat
  PROVE  TotalOf({x, y}) = x.quantity + y.quantity
<1> DEFINE R == {x, y}
           c == [row \in R |-> row.quantity]
<1>1. IsFiniteSet(R)
  <2>1. IsFiniteSet({x} \cup {y}) /\ {x} \cup {y} = R
    BY FS_Singleton, FS_AddElement
  <2> QED  BY <2>1
<1>2. TotalOf(R) = IF \E row \in R : row.quantity = NotKnown THEN NotKnown ELSE SumOf(R, c)
  BY <1>1, TotalIsSum DEF RowQuantities
<1>3. /\ c[x] = x.quantity /\ c[y] = y.quantity /\ c[x] \in Int /\ c[y] \in Int
      /\ x.quantity # NotKnown /\ y.quantity # NotKnown
  BY DEF NotKnown
<1> HIDE DEF c
<1>4. SumOf({x, y}, c) = c[x] + c[y]
  BY <1>3, SumOfTwo
<1> QED  BY <1>2, <1>3, <1>4

LEMMA PageIsExact ==
  ASSUME AllRead, IsComplete, SeenNow
  PROVE  /\ TrueWorth = MapThenSumSet(LAMBDA a : PageNet(a) * PriceOf(a), AssetsOf(FALSE) \cup AssetsOf(TRUE))
         /\ Comparable = {PositionRow(VaultPosition)}
<1> DEFINE ws == WalletRow("sbtc")
           wu == WalletRow("usdc")
           pv == PositionRow(VaultPosition)
           pl == PositionRow(LoanPosition)
<1>1. /\ ws.asset = "sbtc" /\ ws.quantity = stocks.sbtc /\ ws.kind = "wallet"
      /\ wu.asset = "usdc" /\ wu.quantity = stocks.usdc /\ wu.kind = "wallet"
      /\ \A t \in Tokens : WalletRow(t).asset = t /\ WalletRow(t).kind \in {"receipt", "wallet"}
  <2>1. "sbtc" \notin view["markets"] /\ "usdc" \notin view["markets"]
    BY DEF AllRead
  <2> QED  BY <2>1, CompleteIsWhole DEF WalletRow
<1>2. /\ pv.asset = "sbtc" /\ pv.quantity = stocks.shares * ShareWorth /\ pv.kind = "supplied"
      /\ pl.asset = "usdc" /\ pl.quantity = stocks.loan /\ pl.kind = "debt"
  BY CompleteIsWhole, TheKeys DEF PositionRow
<1>3. PageRows = {WalletRow(t) : t \in Stored(view["balances"])} \cup {pv, pl}
  BY CompleteIsWhole, PageIsOfRows
<1>4. /\ ws \in PageRows /\ wu \in PageRows /\ pv \in PageRows /\ pl \in PageRows
      /\ \A row \in PageRows : \/ row \in {ws, wu, pv, pl}
                               \/ row.asset = "receipt" /\ row.kind \in {"receipt", "wallet"}
  <2>1. "sbtc" \in Stored(view["balances"]) /\ "usdc" \in Stored(view["balances"]) /\ Stored(view["balances"]) \subseteq Tokens
    BY CompleteIsWhole
  <2>2. \A t \in Tokens : t \in {"sbtc", "usdc", "receipt"}
    BY DEF Tokens
  <2>3. \A t \in Tokens : WalletRow(t) \in {ws, wu} \/ (WalletRow(t).asset = "receipt" /\ WalletRow(t).kind \in {"receipt", "wallet"})
    BY <1>1, <2>2
  <2> HIDE DEF pv, pl
  <2> QED  BY <1>3, <2>1, <2>3
<1> HIDE DEF ws, wu, pv, pl
<1>5. /\ {row \in PageRows : row.asset = "sbtc" /\ row.kind \in {"wallet", "supplied"}} = {ws, pv}
      /\ {row \in PageRows : row.asset = "sbtc" /\ row.kind \in {"debt"}} = {}
      /\ {row \in PageRows : row.asset = "usdc" /\ row.kind \in {"wallet", "supplied"}} = {wu}
      /\ {row \in PageRows : row.asset = "usdc" /\ row.kind \in {"debt"}} = {pl}
      /\ {row \in PageRows : row.kind = "supplied"} = {pv}
  BY <1>1, <1>2, <1>4
<1>6. /\ stocks.sbtc \in Nat /\ stocks.usdc \in Nat /\ stocks.loan \in Nat /\ stocks.shares * ShareWorth \in Nat
  BY HoldingsAreNumbers
<1>7. /\ TotalOf({ws, pv}) = stocks.sbtc + stocks.shares * ShareWorth /\ TotalOf({}) = 0
      /\ TotalOf({wu}) = stocks.usdc /\ TotalOf({pl}) = stocks.loan
  <2>1. ws # pv
    BY <1>1, <1>2
  <2> QED  BY <1>1, <1>2, <1>6, <2>1, TotalOfNone, TotalOfOne, TotalOfTwo
<1> DEFINE s == stocks.sbtc + stocks.shares * ShareWorth
<1>8. s \in Nat /\ PageNet("sbtc") = s
  <2>1. s \in Nat /\ TotalOf({ws, pv}) = s /\ TotalOf({}) = 0
    BY <1>7, HoldingsAreNumbers
  <2> HIDE DEF s
  <2>2. NotKnown \notin {TotalOf({ws, pv}), TotalOf({})}
    BY <2>1 DEF NotKnown
  <2>3. PageNet("sbtc") = TotalOf({ws, pv}) - TotalOf({})
    BY <1>5, <2>2 DEF PageNet
  <2> QED  BY <2>1, <2>3
<1>9. PageNet("usdc") = stocks.usdc - stocks.loan
  <2>1. NotKnown \notin {TotalOf({wu}), TotalOf({pl})}
    BY <1>6, <1>7 DEF NotKnown
  <2> QED  BY <1>5, <1>7, <2>1 DEF PageNet
<1>10. PriceOf("sbtc") \in Nat /\ PriceOf("usdc") \in Nat
  <2>1. WalletEntry("sbtc").asset = "sbtc" /\ WalletEntry("usdc").asset = "usdc"
    BY DEF WalletEntry
  <2> QED  BY <2>1, CompleteIsWhole, CompleteIsPriced
<1>11. TrueWorth = PageValue("sbtc") + PageValue("usdc") /\ PageValue("sbtc") \in Int /\ PageValue("usdc") \in Int
  <2>1. TrueWorth = s * PriceOf("sbtc") + (stocks.usdc - stocks.loan) * PriceOf("usdc")
    BY Zenon DEF TrueWorth
  <2> HIDE DEF s
  <2>2. PageValue("sbtc") = s * PriceOf("sbtc") /\ PageValue("usdc") = (stocks.usdc - stocks.loan) * PriceOf("usdc")
    BY <1>8, <1>9 DEF PageValue
  <2>3. stocks.usdc - stocks.loan \in Int
    BY <1>6
  <2>4. s * PriceOf("sbtc") \in Int /\ (stocks.usdc - stocks.loan) * PriceOf("usdc") \in Int
    BY <1>8, <1>10, <2>3
  <2> QED  BY <2>1, <2>2, <2>4
<1>12. TrueWorth = MapThenSumSet(LAMBDA a : PageNet(a) * PriceOf(a), AssetsOf(FALSE) \cup AssetsOf(TRUE))
  <2> DEFINE R == {"sbtc", "usdc"}
             c == [a \in R |-> PageValue(a)]
  <2>1. AssetsOf(FALSE) \cup AssetsOf(TRUE) = R
    BY CompleteQuantities
  <2>2. MapThenSumSet(LAMBDA a : PageNet(a) * PriceOf(a), R) = SumOf(R, c)
    BY PageValuesAdd
  <2>3. c["sbtc"] = PageValue("sbtc") /\ c["usdc"] = PageValue("usdc") /\ "sbtc" # "usdc"
    OBVIOUS
  <2> HIDE DEF c
  <2>4. c["sbtc"] \in Int /\ c["usdc"] \in Int
    BY <1>11, <2>3
  <2>5. SumOf({"sbtc", "usdc"}, c) = c["sbtc"] + c["usdc"]
    BY <2>3, <2>4, SumOfTwo
  <2> QED  BY <1>11, <2>1, <2>2, <2>3, <2>5
<1>13. Comparable = {pv}
  BY <1>5 DEF Comparable
<1> QED  BY <1>12, <1>13 DEF pv

\* Shares are only shown of one market's rows, which are then the whole.
LEMMA SharesAreOfTheWhole ==
  ASSUME AllRead
  PROVE  /\ \A row \in PageRows : row.quantity \in RowQuantities
         /\ Concentration.total # NotKnown =>
              \E row \in Comparable : /\ Comparable = {row} /\ Concentration.total = row.quantity
                                      /\ row.quantity \in Nat \ {0}
                                      /\ Concentration.shares = {[of |-> row.id, share |-> (row.quantity * 100) \div row.quantity]}
<1> DEFINE b == view["balances"]
           ps == view["positions"]
<1>1. /\ Stored(b) \subseteq Tokens /\ Stored(ps) \subseteq PositionKeys
      /\ \A t \in Tokens : b[t].quantity \in RowQuantities
      /\ \A key \in PositionKeys : ps[key].quantity \in RowQuantities
      /\ ps[PoolPosition].quantity = NotKnown
  BY DEF AllRead, BalancesFit, PositionsFit, SnapshotRows, Absent, Stored, RowQuantities
<1>2. /\ \A t \in Tokens : WalletRow(t).quantity = b[t].quantity /\ WalletRow(t).kind # "supplied"
      /\ \A key \in PositionKeys : /\ PositionRow(key).quantity = ps[key].quantity
                                   /\ PositionRow(key).kind = key.kind /\ PositionRow(key).asset = key.asset
  BY DEF WalletRow, PositionRow
<1> HIDE DEF b, ps
<1>3. \A row \in PageRows : row.quantity \in RowQuantities
  BY <1>1, <1>2, PageIsOfRows DEF b, ps
<1>4. \A row \in Comparable : row \in {PositionRow(VaultPosition), PositionRow(VaultInShares), PositionRow(PoolPosition)}
  <2> TAKE row \in Comparable
  <2>1. row \in PageRows /\ row.kind = "supplied"
    BY DEF Comparable
  <2>2. PICK key \in PositionKeys : row = PositionRow(key)
    BY <1>1, <1>2, <2>1, PageIsOfRows DEF b, ps
  <2>3. key.kind = "supplied"
    BY <1>2, <2>1, <2>2
  <2>4. key # LoanPosition
    BY <2>3, TheKeys
  <2> QED  BY <2>2, <2>4, TheKeys
<1>5. IsFiniteSet(Comparable)
  <2> DEFINE x == PositionRow(VaultPosition)
             y == PositionRow(VaultInShares)
             z == PositionRow(PoolPosition)
  <2>1. IsFiniteSet(({x} \cup {y}) \cup {z})
    BY FS_Singleton, FS_AddElement
  <2>2. Comparable \subseteq ({x} \cup {y}) \cup {z}
    BY <1>4
  <2> QED  BY <2>1, <2>2, FS_Subset
<1>6. ASSUME Concentration.total # NotKnown
      PROVE  \E row \in Comparable : /\ Comparable = {row} /\ Concentration.total = row.quantity
                                     /\ row.quantity \in Nat \ {0}
                                     /\ Concentration.shares = {[of |-> row.id, share |-> (row.quantity * 100) \div row.quantity]}
  <2> DEFINE total == TotalOf(Comparable)
             assets == {e.asset : e \in Comparable}
  <2>1. Cardinality(assets) = 1 /\ total \notin {NotKnown, 0}
    BY <1>6 DEF Concentration
  <2>2. Concentration = [shares |-> {[of |-> e.id, share |-> (e.quantity * 100) \div total] : e \in Comparable}, total |-> total]
    BY <2>1 DEF Concentration
  <2>3. \A row \in Comparable : row.quantity \in RowQuantities
    BY <1>3 DEF Comparable
  <2>4. \A row \in Comparable : row.quantity \in Nat
    <3> DEFINE c == [row \in Comparable |-> row.quantity]
    <3>1. total = IF \E row \in Comparable : row.quantity = NotKnown THEN NotKnown ELSE SumOf(Comparable, c)
      BY <1>5, <2>3, TotalIsSum
    <3> QED  BY <2>1, <2>3, <3>1 DEF RowQuantities
  <2>5. PositionRow(PoolPosition) \notin Comparable
    <3>1. PoolPosition \in PositionKeys
      BY TheKeys
    <3>2. PositionRow(PoolPosition).quantity = NotKnown
      BY <1>1, <1>2, <3>1
    <3> QED  BY <2>4, <3>2 DEF NotKnown
  <2>6. IsFiniteSet(assets)
    <3>1. assets \subseteq ({"sbtc"} \cup {"receipt"})
      BY <1>2, <1>4, TheKeys
    <3>2. IsFiniteSet({"sbtc"} \cup {"receipt"})
      BY FS_Singleton, FS_AddElement
    <3> QED  BY <3>1, <3>2, FS_Subset
  <2>7. PICK a : assets = {a}
    BY <2>1, <2>6, FS_Singleton
  <2>8. PICK row \in Comparable : TRUE
    BY <2>7
  <2>9. Comparable = {row}
    <3>1. PositionRow(VaultPosition).asset = "sbtc" /\ PositionRow(VaultInShares).asset = "receipt"
      BY <1>2, TheKeys
    <3>2. \A e \in Comparable : e \in {PositionRow(VaultPosition), PositionRow(VaultInShares)} /\ e.asset = a
      BY <1>4, <2>5, <2>7
    <3> QED  BY <2>8, <3>1, <3>2
  <2>10. total = row.quantity /\ row.quantity \in Nat \ {0}
    <3>1. row.quantity \in Nat
      BY <2>4
    <3>2. total = row.quantity
      BY <2>9, <3>1, TotalOfOne
    <3> QED  BY <2>1, <3>1, <3>2
  <2> HIDE DEF total
  <2>11. Concentration.total = total
         /\ Concentration.shares = {[of |-> row.id, share |-> (row.quantity * 100) \div total]}
    BY <2>2, <2>9
  <2> QED  BY <2>9, <2>10, <2>11
<1> QED  BY <1>3, <1>6

LEMMA CompleteFollows == PortfolioInv => CompleteIsExact
<1> SUFFICES ASSUME PortfolioInv, DOMAIN view = Queries
             PROVE  /\ (IsComplete /\ SeenNow) =>
                         LET slack == 2 * PriceUnit
                             error == NetWorth * PriceUnit - TrueWorth
                         IN /\ -slack < error /\ error < slack
                            /\ TrueWorth = MapThenSumSet(LAMBDA a : PageNet(a) * PriceOf(a), AssetsOf(FALSE) \cup AssetsOf(TRUE))
                            /\ Concentration.total \in {NotKnown, stocks.shares * ShareWorth}
                    /\ Concentration.total # NotKnown =>
                         LET sum == MapThenSumSet(LAMBDA slice : slice.share, Concentration.shares)
                         IN 100 - Cardinality(Concentration.shares) < sum /\ sum <= 100
  BY DEF CompleteIsExact
<1>1. AllRead
  BY ReadIsRead
<1>2. ASSUME IsComplete, SeenNow
      PROVE  Concentration.total \in {NotKnown, stocks.shares * ShareWorth}
  <2>1. Comparable = {PositionRow(VaultPosition)}
    BY <1>1, <1>2, PageIsExact
  <2>2. PositionRow(VaultPosition).quantity = stocks.shares * ShareWorth
    BY <1>1, <1>2, CompleteIsWhole DEF PositionRow
  <2>3. CASE Concentration.total # NotKnown
    <3>1. PICK row \in Comparable : Concentration.total = row.quantity
      BY <1>1, <2>3, SharesAreOfTheWhole
    <3>2. row = PositionRow(VaultPosition)
      BY <2>1, <3>1
    <3> QED  BY <2>2, <3>1, <3>2
  <2> QED  BY <2>3
<1>3. ASSUME Concentration.total # NotKnown
      PROVE  /\ 100 - Cardinality(Concentration.shares) < MapThenSumSet(LAMBDA slice : slice.share, Concentration.shares)
             /\ MapThenSumSet(LAMBDA slice : slice.share, Concentration.shares) <= 100
  <2>1. PICK row \in Comparable :
             /\ row.quantity \in Nat \ {0}
             /\ Concentration.shares = {[of |-> row.id, share |-> (row.quantity * 100) \div row.quantity]}
    BY <1>1, <1>3, SharesAreOfTheWhole
  <2>2. (row.quantity * 100) \div row.quantity = 100
    <3>1. \A n \in Nat \ {0} : (n * 100) \div n = 100
      OBVIOUS
    <3> QED  BY <2>1, <3>1
  <2> DEFINE slice == [of |-> row.id, share |-> 100]
             R == {slice}
             c == [e \in R |-> e.share]
  <2>3. Concentration.shares = R
    BY <2>1, <2>2
  <2>4. MapThenSumSet(LAMBDA e : e.share, R) = SumOf(R, c)
    BY SharesAdd
  <2>5. c[slice] = 100
    OBVIOUS
  <2>6. Cardinality(R) = 1
    BY FS_Singleton
  <2> HIDE DEF c, slice
  <2>7. SumOf({slice}, c) = c[slice]
    BY <2>5, SumOfOne
  <2>8. MapThenSumSet(LAMBDA e : e.share, Concentration.shares) = 100
    BY <2>3, <2>4, <2>5, <2>7
  <2> QED  BY <2>3, <2>6, <2>8
<1>4. ASSUME IsComplete, SeenNow
      PROVE  /\ -(2 * PriceUnit) < NetWorth * PriceUnit - TrueWorth
             /\ NetWorth * PriceUnit - TrueWorth < 2 * PriceUnit
             /\ TrueWorth = MapThenSumSet(LAMBDA a : PageNet(a) * PriceOf(a), AssetsOf(FALSE) \cup AssetsOf(TRUE))
  BY <1>1, <1>4, NetWorthIsClose, PageIsExact
<1> QED  BY <1>2, <1>3, <1>4

LEMMA PortfolioTypesFollow == PortfolioInv => PortfolioTypeOK
<1> SUFFICES ASSUME PortfolioInv PROVE PortfolioTypeOK
  OBVIOUS
<1>1. \A row \in SnapshotRows : row.seen \in -1..transfers
  BY PortfolioAssumption DEF SnapshotRows, Absent, PortfolioInv, StocksOK
<1>2. DOMAIN stocks = Stocks
  BY DEF PortfolioInv, StocksOK
<1> QED  BY <1>1, <1>2 DEF PortfolioInv, PortfolioTypeOK, StocksOK, PositionsFit, BalancesFit, ViewOK, Stocks

LEMMA PortfolioAlways == PortfolioSpec => []PortfolioInv
BY PortfolioInitSafe, PortfolioStepSafe, PTL DEF PortfolioSpec

\* Whatever projections, feeds and capabilities are written between the queries of a request, the rows are snapshots of
\* states the address has been in.
THEOREM PortfolioIsOfSnapshots == PortfolioSpec => []PortfolioTypeOK
BY PortfolioAlways, PortfolioTypesFollow, PTL

\* evaluatePortfolioAccounting and the pages: for any amounts, rates and prices, a portfolio reported complete whose
\* stocks were each read since they last changed is worth what it is shown to be.
THEOREM CompletePortfolioIsExact == PortfolioSpec => []CompleteIsExact
BY PortfolioAlways, CompleteFollows, PTL
=============================================================================
