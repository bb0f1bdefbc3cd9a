------------------------------ MODULE Markets ------------------------------
(* What the API says of a market: the snapshots the worker's passes write  *)
(* (apps/worker/src/markets.ts under tick.ts, processes/observer.ts and    *)
(* processes/reconcile.ts), the comparison runs, and the evidence, the     *)
(* earn option and the audit that read them back.                          *)
(*                                                                          *)
(* A pass takes its time first, then its block, then reads the contract one *)
(* field at a time, and writes at the end, while the vault moves and other  *)
(* processes write.  One market, one network; a chain without forks, whose  *)
(* moment n is block n; a market without a vault reads as one whose reads   *)
(* all fail.  Processes share a clock.                                      *)
EXTENDS Integers, Sequences, FiniteSets

CONSTANTS
  MarketFields,      \* what a snapshot holds: two fields that are compared, and the others
  Compared,
  FieldValues, FirstValue,
  MaxMoments,        \* bound on the moves of the vault
  MaxPasses,         \* bound on the passes begun
  MaxUnreadable      \* bound on the reads that fail

ASSUME MarketsAssumption ==
  /\ Compared \subseteq MarketFields /\ "availableLiquidity" \in Compared
  /\ FirstValue \in FieldValues /\ {MaxMoments, MaxPasses, MaxUnreadable} \subseteq Nat

VARIABLES
  moments,           \* what the vault held at each moment
  storedBlock,       \* the block ingestion has stored, 0 for none
  passes,            \* what each process is doing
  passesBegun, unreadable,
  marketSnapshots, reconciliationRuns, rewardSnapshots, priceSnapshots,
  reportedHealthy    \* the last audit's report

snapshotVars == <<moments, storedBlock, passes, passesBegun, unreadable, marketSnapshots, reconciliationRuns,
                  rewardSnapshots, priceSnapshots, reportedHealthy>>

\* What each process does for a market; the advisory locks make it one process of a kind.
MarketProcesses == {"all", "observer", "reconcile", "audit"}
ReadsVault(p) == p # "audit"
Projects(p) == p \in {"all", "observer"}
Compares(p) == p \in {"all", "reconcile"}

NotRead == "unread"
UnknownValue == "unknown"
NoBlockRef == 0
Now == Len(moments)
NothingRead == [f \in MarketFields |-> NotRead]
NoSnapshot == [observedAt |-> 0, block |-> NoBlockRef, value |-> [f \in MarketFields |-> UnknownValue]]
AtRest == [at |-> 0, stage |-> "rests", block |-> NoBlockRef, projected |-> NoSnapshot, value |-> NothingRead]

MarketsInit ==
  /\ moments = <<[f \in MarketFields |-> FirstValue]>>
  /\ storedBlock = 0
  /\ passes = [p \in MarketProcesses |-> AtRest] /\ passesBegun = 0 /\ unreadable = 0
  /\ marketSnapshots = <<>> /\ reconciliationRuns = <<>> /\ rewardSnapshots = <<>> /\ priceSnapshots = {}
  /\ reportedHealthy = FALSE

\* Of the rows of a table, the latest: by its time, and by its id among equals.
Latest(rows, time) ==
  CHOOSE i \in DOMAIN rows : \A j \in DOMAIN rows :
    rows[i][time] > rows[j][time] \/ (rows[i][time] = rows[j][time] /\ i >= j)

\* latestMarketSnapshot.
LatestSnapshot == IF marketSnapshots = <<>> THEN NoSnapshot ELSE marketSnapshots[Latest(marketSnapshots, "observedAt")]

-----------------------------------------------------------------------------
(* The vault and ingestion. *)

VaultMoves ==
  /\ Now < MaxMoments
  /\ \E f \in MarketFields : \E v \in FieldValues \ {moments[Now][f]} : moments' = Append(moments, [moments[Now] EXCEPT ![f] = v])
  /\ UNCHANGED <<storedBlock, passes, passesBegun, unreadable, marketSnapshots, reconciliationRuns, rewardSnapshots,
                 priceSnapshots, reportedHealthy>>

BlockIsIngested ==
  /\ storedBlock < Now /\ storedBlock' \in (storedBlock + 1)..Now
  /\ UNCHANGED <<moments, passes, passesBegun, unreadable, marketSnapshots, reconciliationRuns, rewardSnapshots,
                 priceSnapshots, reportedHealthy>>

-----------------------------------------------------------------------------
(* A pass. *)

PassMoves(p, pass) ==
  /\ passes' = [passes EXCEPT ![p] = pass]
  /\ UNCHANGED <<moments, storedBlock>>

TablesStay ==
  UNCHANGED <<marketSnapshots, reconciliationRuns, rewardSnapshots, priceSnapshots, reportedHealthy>>

\* The loop of a process takes the time of its pass before anything else.  A pass of which a statement
\* failed is left where it stood: what it wrote stays, and the next one begins all the same.
BeginPass(p) ==
  /\ passesBegun < MaxPasses
  /\ passesBegun' = passesBegun + 1
  /\ PassMoves(p, [AtRest EXCEPT !.at = Now, !.stage = "begun"])
  /\ UNCHANGED unreadable /\ TablesStay

\* The checkpoint, read by the split processes and the audit and left by this tick's ingestion in process
\* all; and what the projection holds, before the contract is read.  Two statements that nothing relates.
ReadRows(p) ==
  /\ passes[p].stage = "begun"
  /\ PassMoves(p, [passes[p] EXCEPT !.stage = "reads", !.block = storedBlock,
                                    !.projected = IF p = "observer" THEN NoSnapshot ELSE LatestSnapshot])
  /\ UNCHANGED <<passesBegun, unreadable>> /\ TablesStay

\* readVault: the reads run side by side, so each finds the vault of its own moment, or no value in the
\* answer, or fails, and then the pass has read nothing.
ReadField(p, f) ==
  /\ ReadsVault(p) /\ passes[p].stage = "reads" /\ passes[p].value[f] = NotRead
  /\ \/ PassMoves(p, [passes[p] EXCEPT !.value[f] = moments[Now][f]]) /\ UNCHANGED unreadable
     \/ /\ unreadable < MaxUnreadable /\ unreadable' = unreadable + 1
        /\ \E lost \in {{f}, MarketFields} :
             PassMoves(p, [passes[p] EXCEPT !.value = [g \in MarketFields |-> IF g \in lost THEN UnknownValue ELSE @[g]]])
  /\ UNCHANGED passesBegun /\ TablesStay

AllRead(p) == passes[p].stage = "reads" /\ \A f \in MarketFields : passes[p].value[f] # NotRead

\* marketSnapshot: dated by the pass that read it.
SnapshotOf(pass) == [observedAt |-> pass.at, block |-> pass.block, value |-> pass.value]
\* The mutated form: dated when it is written.
SnapshotOfWrite(pass) == [observedAt |-> Now, block |-> pass.block, value |-> pass.value]
MarketSnapshot(pass) == SnapshotOf(pass)

\* insertMarketSnapshot: one row per market and time, and the first one stays.
InsertSnapshot(p) ==
  /\ AllRead(p) /\ Projects(p)
  /\ marketSnapshots' = LET row == MarketSnapshot(passes[p])
                        IN  IF \E i \in DOMAIN marketSnapshots : marketSnapshots[i].observedAt = row.observedAt
                            THEN marketSnapshots ELSE Append(marketSnapshots, row)
  /\ PassMoves(p, [passes[p] EXCEPT !.stage = IF Compares(p) THEN "compares" ELSE "rewards"])
  /\ UNCHANGED <<passesBegun, unreadable, reconciliationRuns, rewardSnapshots, priceSnapshots, reportedHealthy>>

\* reconciliation: liquidity has to be known on both sides; an unknown cap is compared like any other.
RunStatus(projected, observed) ==
  IF UnknownValue \in {projected["availableLiquidity"], observed["availableLiquidity"]} THEN "unavailable"
  ELSE IF \A f \in Compared : projected[f] = observed[f] THEN "match" ELSE "mismatch"

RecordRun(p) ==
  /\ Compares(p)
  /\ passes[p].stage = "compares" \/ (AllRead(p) /\ ~Projects(p))
  /\ reconciliationRuns' = Append(reconciliationRuns,
        [runAt |-> passes[p].at, status |-> RunStatus(passes[p].projected.value, passes[p].value)])
  /\ PassMoves(p, IF Projects(p) THEN [passes[p] EXCEPT !.stage = "rewards"] ELSE AtRest)
  /\ UNCHANGED <<passesBegun, unreadable, marketSnapshots, rewardSnapshots, priceSnapshots, reportedHealthy>>

\* rewardSnapshot: it warns of a rate it does not know, has no date for, or finds old.
WriteRewards(p) ==
  /\ passes[p].stage = "rewards"
  /\ \E warns \in BOOLEAN :
       rewardSnapshots' = IF \E i \in DOMAIN rewardSnapshots : rewardSnapshots[i].observedAt = passes[p].at
                          THEN rewardSnapshots
                          ELSE Append(rewardSnapshots, [observedAt |-> passes[p].at, warns |-> warns])
  /\ PassMoves(p, [passes[p] EXCEPT !.stage = "prices"])
  /\ UNCHANGED <<passesBegun, unreadable, marketSnapshots, reconciliationRuns, priceSnapshots, reportedHealthy>>

\* The prices end the pass; a feed that cannot be read has a row all the same.
WritePrices(p) ==
  /\ passes[p].stage = "prices"
  /\ priceSnapshots' = priceSnapshots \union {passes[p].at}
  /\ PassMoves(p, AtRest)
  /\ UNCHANGED <<passesBegun, unreadable, marketSnapshots, reconciliationRuns, rewardSnapshots, reportedHealthy>>

-----------------------------------------------------------------------------
(* What is read back. *)

LatestRun == IF reconciliationRuns = <<>> THEN "none" ELSE reconciliationRuns[Latest(reconciliationRuns, "runAt")].status
LatestRewardWarns == rewardSnapshots # <<>> /\ rewardSnapshots[Latest(rewardSnapshots, "observedAt")].warns

\* A snapshot that misses a field warns of it, and is stale.
Stale(row) == \E f \in MarketFields : row.value[f] = UnknownValue

Confidence(row, warned) ==
  IF Stale(row) \/ LatestRun = "mismatch" THEN "low"
  ELSE IF warned \/ LatestRun = "unavailable" THEN "medium" ELSE "high"

\* getMarketEvidence, and the row of listEarnOptions, which adds the warnings of the reward rate.
Evidence == [row |-> LatestSnapshot, age |-> Now - LatestSnapshot.observedAt,
             confidence |-> Confidence(LatestSnapshot, FALSE)]
EarnOption == [row |-> LatestSnapshot, confidence |-> Confidence(LatestSnapshot, LatestRewardWarns)]

\* evaluateForward30dProjection, on the status the performance route derives: a rate that was never compared
\* counts as verified.
Projects30d == ~Stale(LatestSnapshot) /\ LatestRun \notin {"mismatch", "unavailable"}

\* auditProjections, after its checkpoint and its targets: a market that is stale is listed, and the
\* report is healthy all the same.
ReportAudit ==
  /\ passes["audit"].stage = "reads"
  /\ reportedHealthy' = (passes["audit"].block # NoBlockRef /\ passes["audit"].projected # NoSnapshot /\ priceSnapshots # {})
  /\ PassMoves("audit", AtRest)
  /\ UNCHANGED <<passesBegun, unreadable, marketSnapshots, reconciliationRuns, rewardSnapshots, priceSnapshots>>

MarketsNext ==
  \/ VaultMoves \/ BlockIsIngested
  \/ \E p \in MarketProcesses :
       \/ BeginPass(p) \/ ReadRows(p) \/ InsertSnapshot(p) \/ RecordRun(p)
       \/ WriteRewards(p) \/ WritePrices(p)
       \/ \E f \in MarketFields : ReadField(p, f)
  \/ ReportAudit

MarketsSpec == MarketsInit /\ [][MarketsNext]_snapshotVars

-----------------------------------------------------------------------------

MarketReadings == [MarketFields -> FieldValues \union {UnknownValue}]
SnapshotRows == [observedAt : Nat, block : Nat, value : MarketReadings]

\* Clock, rows and passes keep their types, a stored row has no field left unread, and no two rows share a time.
MarketsTypeOK ==
  /\ moments \in Seq([MarketFields -> FieldValues]) /\ storedBlock \in 0..Now /\ passesBegun \in 0..MaxPasses /\ unreadable \in 0..MaxUnreadable
  /\ marketSnapshots \in Seq(SnapshotRows)
  /\ \A i, j \in DOMAIN marketSnapshots : i # j => marketSnapshots[i].observedAt # marketSnapshots[j].observedAt
  /\ reconciliationRuns \in Seq([runAt : Nat, status : {"match", "mismatch", "unavailable"}])
  /\ rewardSnapshots \in Seq([observedAt : Nat, warns : BOOLEAN]) /\ priceSnapshots \subseteq Nat
  /\ \A p \in MarketProcesses :
       /\ passes[p].stage \in {"rests", "begun", "reads", "compares", "rewards", "prices"}
       /\ passes[p].projected \in SnapshotRows
       /\ \A f \in MarketFields : passes[p].value[f] \in FieldValues \union {UnknownValue, NotRead}
  /\ reportedHealthy \in BOOLEAN

\* The age and the block a market is shown with are never better than the truth: each value shown was the
\* vault's own at a moment no earlier than both, though the reads were apart, passes overlap and rows are
\* dropped.  High confidence, in the evidence and in the earn option, and a thirty day projection never stand
\* on a field that was not read, and a market the audit reported healthy has evidence to show
\* (marketSnapshot, getMarketEvidence, evaluateForward30dProjection and auditProjections).
EvidenceIsDated ==
  LET shown == Evidence.row
  IN  /\ \A f \in MarketFields : shown.value[f] # UnknownValue =>
           \E m \in (Now - Evidence.age)..Now : m >= shown.block /\ moments[m][f] = shown.value[f]
      /\ "high" \in {Evidence.confidence, EarnOption.confidence} \/ Projects30d =>
           \A f \in MarketFields : shown.value[f] # UnknownValue
      /\ reportedHealthy => shown # NoSnapshot
=============================================================================
