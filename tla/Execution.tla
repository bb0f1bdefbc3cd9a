----------------------------- MODULE Execution -----------------------------
(***************************************************************************)
(* One workflow after another from admission to settlement: the API that   *)
(* records wallet answers (apps/api/src/execution.ts), the worker that     *)
(* reads the chain back to them (confirmations.ts, reconciliation.ts) and  *)
(* the rows both write (packages/database/src/execution.ts).               *)
(*                                                                         *)
(* Every await of a request or a tick is a step boundary: what was read    *)
(* before it is kept in the process's record and may be stale after it.  A *)
(* database transaction is one step, except the worker's claim, whose      *)
(* UPDATE may wait for a row lock after taking its snapshot (ClaimWaits).  *)
(* A tick's list is taken one row at a time.                               *)
(*                                                                         *)
(* The client is the platform's own: it signs the first step that has no   *)
(* recorded answer, once, while the workflow awaits a signature, and       *)
(* repeats its report as often as it likes.  A txid is the pair of the     *)
(* workflow and the step that was signed.                                  *)
(***************************************************************************)
EXTENDS ChainDecisions

CONSTANTS
    Workflows,      \* workflow ids
    NSteps,         \* steps in each plan
    Handlers,       \* concurrent signature reports the API can be serving
    Workers,        \* worker processes that advance workflows
    Outcomes,       \* wallet outcomes the client can report
    Credit,         \* what each step credits the owner in the quoted asset
    QuotesOutput,   \* the quote records an expected output
    Minimum,        \* the signed minimum of that asset, 0 when there is none
    Limit,          \* rows a tick looks at
    MaxReorgs,      \* bound: how often the chain may orphan a transaction
    SerialReports,  \* reports of one workflow never overlap
    ClaimWaits      \* the worker's claim can wait for a row lock

Steps == 1..NSteps

ASSUME ConstantsAssumption ==
    /\ NSteps \in Nat \ {0}
    /\ Outcomes \subseteq {"BROADCAST", "SIGNED", "UNKNOWN"}
    /\ Credit \in [Steps -> Nat]
    /\ QuotesOutput \in BOOLEAN
    /\ Minimum \in Nat /\ Limit \in Nat /\ MaxReorgs \in Nat
    /\ SerialReports \in BOOLEAN /\ ClaimWaits \in BOOLEAN

VARIABLES
    state,      \* workflows.state, "NONE" before the row exists
    log,        \* state_transitions of each workflow in sequence order
    attempts,   \* transaction_attempts of each workflow, oldest first
    older,      \* pairs of workflows in the order of workflows.updated_at
    activity,   \* what ingestion has stored for each step's transaction
    answer,     \* the wallet's answer the client holds for each step
    tx,         \* what the provider says of each step's transaction
    handler,    \* each API request in flight
    worker,     \* each worker's row in hand
    reorgs,     \* bound: orphanings so far
    confirmed   \* history: steps whose success was ever under a checkpoint

rows == <<state, log, attempts, older>>
chain == <<tx, reorgs, confirmed>>
vars == <<rows, activity, answer, chain, handler, worker>>

Absent == Evidence("absent", FALSE, FALSE, FALSE)
Pending == Evidence("pending", FALSE, FALSE, FALSE)
Idle == [pc |-> "idle"]

Init ==
    /\ state = [w \in Workflows |-> "NONE"]
    /\ log = [w \in Workflows |-> <<>>]
    /\ attempts = [w \in Workflows |-> <<>>]
    /\ older = {}
    /\ activity = [w \in Workflows |-> [k \in Steps |-> "none"]]
    /\ answer = [w \in Workflows |-> [k \in Steps |-> "none"]]
    /\ tx = [w \in Workflows |-> [k \in Steps |-> Absent]]
    /\ handler = [h \in Handlers |-> Idle]
    /\ worker = [p \in Workers |-> Idle]
    /\ reorgs = 0
    /\ confirmed = {}

-----------------------------------------------------------------------------
(* The rows.                                                               *)

\* workflows.updated_at = now.
Touch(w) ==
    older' = {pair \in older : pair[1] # w}
                \cup ((Workflows \ {w}) \X {w})

\* Faulty variant: the first sequence number is the last one stored.
InsertTransitionsOneEarly(stored, moves, offset) ==
    stored \o SubSeq(moves, Len(stored) - offset + 2, Len(moves))

\* insertTransition for each move from sequence offset + 1 on: a sequence that
\* is already taken keeps its row, the later ones are stored.
InsertTransitions(stored, moves, offset) ==
    stored \o SubSeq(moves, Len(stored) - offset + 1, Len(moves))

\* The unconditional UPDATE and the inserts both writers end with.
Write(w, moves, offset) ==
    /\ state' = [state EXCEPT ![w] = moves[Len(moves)].to]
    /\ log' = [log EXCEPT ![w] = InsertTransitions(@, moves, offset)]
    /\ Touch(w)

Recorded(w, k) == \E i \in DOMAIN attempts[w] : attempts[w][i].step = k

BroadcastAttempts(w) ==
    {i \in DOMAIN attempts[w] : attempts[w][i].outcome = "BROADCAST"}

\* The LATERAL join: the newest attempt that has a txid.
IsNewestBroadcast(w, i) ==
    /\ i \in BroadcastAttempts(w)
    /\ \A j \in BroadcastAttempts(w) : j <= i

\* ORDER BY updated_at ASC LIMIT n.
Window(waiting) ==
    {w \in waiting :
        Cardinality({v \in waiting : <<v, w>> \in older}) < Limit}

\* Faulty variant: only the state the API writes.
AwaitingConfirmationSubmitted ==
    {w \in Workflows : state[w] = "SUBMITTED" /\ BroadcastAttempts(w) # {}}

AwaitingConfirmation ==
    {w \in Workflows : /\ state[w] \in {"SUBMITTED", "CONFIRMING"}
                       /\ BroadcastAttempts(w) # {}}

\* Faulty variant: only the state named after it.
AwaitingReconciliationBegun == {w \in Workflows : state[w] = "RECONCILING"}

AwaitingReconciliation ==
    {w \in Workflows : state[w] \in {"STEP_CONFIRMED", "RECONCILING"}}

-----------------------------------------------------------------------------
(* The client and the API.                                                 *)

\* startWorkflow, for a quote that passes its checks.
StartWorkflow(w) ==
    /\ state[w] = "NONE"
    /\ Write(w, MovesAlong("DRAFT", AdmissionPath), 0)
    /\ UNCHANGED <<attempts, activity, answer, chain, handler, worker>>

\* The wallet answers for the first step without an answer.  An answer without
\* a txid may still have been broadcast.
WalletAnswers(w, k, outcome) ==
    /\ state[w] = "AWAITING_SIGNATURE"
    /\ answer[w][k] = "none"
    /\ \A j \in 1..(k - 1) : Recorded(w, j)
    /\ \A j \in Steps : answer[w][j] # "none" => Recorded(w, j)
    /\ answer' = [answer EXCEPT ![w][k] = outcome]
    /\ \E seen \in CASE outcome = "BROADCAST" -> {Pending}
                     [] outcome = "SIGNED" -> {Absent}
                     [] OTHER -> {Absent, Pending} :
          tx' = [tx EXCEPT ![w][k] = seen]
    /\ UNCHANGED <<rows, activity, reorgs, confirmed, handler, worker>>

\* recordSignature reads the workflow with its transitions in one statement.
ReadWorkflow(h, w, k) ==
    /\ handler[h] = Idle
    /\ state[w] # "NONE" /\ answer[w][k] # "none"
    /\ SerialReports =>
          \A g \in Handlers : handler[g] # Idle => handler[g].w # w
    /\ handler' = [handler EXCEPT ![h] =
          [pc |-> "read", w |-> w, step |-> k,
           seen |-> state[w], count |-> Len(log[w])]]
    /\ UNCHANGED <<rows, activity, answer, chain, worker>>

\* Faulty variant: the outcome is stored as the state.
TargetOfOutcome(outcome) ==
    IF outcome = "BROADCAST" THEN "SUBMITTED" ELSE outcome

\* transition() to SUBMITTED, or recordUnknownBroadcast().
TargetOf(outcome) ==
    IF outcome = "BROADCAST" THEN "SUBMITTED" ELSE "BROADCAST_UNKNOWN"
Accepts(seen, outcome) ==
    IF outcome = "BROADCAST" THEN CanTransition(seen, "SUBMITTED")
    ELSE CanRecordUnknown(seen)

\* findAttempt, and the move computed from the state read before it.
FindAttempt(h) ==
    LET r == handler[h] IN
    /\ r.pc = "read"
    /\ handler' = [handler EXCEPT ![h] =
          IF Recorded(r.w, r.step) \/ ~Accepts(r.seen, answer[r.w][r.step])
          THEN Idle
          ELSE [r EXCEPT !.pc = "write"]]
    /\ UNCHANGED <<rows, activity, answer, chain, worker>>

\* ON CONFLICT DO NOTHING: only a txid can conflict.
AddAttempt(stored, attempt) ==
    IF attempt.outcome = "BROADCAST" /\ attempt \in Range(stored)
    THEN stored
    ELSE Append(stored, attempt)

\* recordAttempt's transaction.  A move to the state it starts from fails the
\* table's CHECK and rolls everything back.
RecordAttempt(h) ==
    LET r == handler[h]
        outcome == answer[r.w][r.step]
        move == [from |-> r.seen, to |-> TargetOf(outcome)]
    IN
    /\ r.pc = "write"
    /\ handler' = [handler EXCEPT ![h] = Idle]
    /\ IF move.from = move.to
       THEN UNCHANGED rows
       ELSE /\ attempts' = [attempts EXCEPT ![r.w] =
                  AddAttempt(@, [step |-> r.step, outcome |-> outcome])]
            /\ Write(r.w, <<move>>, r.count)
    /\ UNCHANGED <<activity, answer, chain, worker>>

\* The request is lost, or the API stops, before its next statement.
AbandonRequest(h) ==
    /\ handler[h] # Idle
    /\ handler' = [handler EXCEPT ![h] = Idle]
    /\ UNCHANGED <<rows, activity, answer, chain, worker>>

-----------------------------------------------------------------------------
(* The worker.                                                             *)

\* A row of listWorkflowsAwaitingConfirmation.
ListConfirming(p, w) ==
    /\ worker[p] = Idle
    /\ w \in Window(AwaitingConfirmation)
    /\ \E i \in DOMAIN attempts[w] :
          /\ IsNewestBroadcast(w, i)
          /\ worker' = [worker EXCEPT ![p] =
                [pc |-> "evidence", w |-> w, state |-> state[w],
                 count |-> Len(log[w]), step |-> attempts[w][i].step]]
    /\ UNCHANGED <<rows, activity, answer, chain, handler>>

\* A row of listWorkflowsAwaitingReconciliation.
ListReconciling(p, w) ==
    /\ worker[p] = Idle
    /\ w \in Window(AwaitingReconciliation)
    /\ worker' = [worker EXCEPT ![p] =
          [pc |-> "effects", w |-> w, state |-> state[w],
           count |-> Len(log[w])]]
    /\ UNCHANGED <<rows, activity, answer, chain, handler>>

\* The row is skipped, or claimed for the moves that were decided.
Decide(p, path) ==
    LET r == worker[p] IN
    worker' = [worker EXCEPT ![p] =
        IF path = <<>> THEN Idle
        ELSE [pc |-> "claim", w |-> r.w, count |-> r.count,
              moves |-> MovesAlong(r.state, path)]]

ReadEvidence(p) ==
    LET r == worker[p] IN
    /\ r.pc = "evidence"
    /\ Decide(p, ConfirmationDecision(r.state, tx[r.w][r.step],
                                      r.step = NSteps))
    /\ UNCHANGED <<rows, activity, answer, chain, handler>>

\* listWorkflowEffects and the verdict on them.
ReadEffects(p) ==
    LET r == worker[p]
        effects == {k \in Steps : activity[r.w][k] = "attributed"}
        verdict ==
            ReconciliationDecision(QuotesOutput, effects, Credit, Minimum)
    IN
    /\ r.pc = "effects"
    /\ Decide(p, IF verdict = "wait" THEN <<>>
                 ELSE ReconciliationPath(r.state, verdict))
    /\ UNCHANGED <<rows, activity, answer, chain, handler>>

\* The UPDATE counts the transitions in its snapshot, then waits for the row.
WaitForRow(p) ==
    /\ ClaimWaits
    /\ worker[p].pc = "claim"
    /\ worker' = [worker EXCEPT ![p] =
          [pc |-> "waiting", w |-> @.w, count |-> @.count,
           moves |-> @.moves, counted |-> Len(log[@.w])]]
    /\ UNCHANGED <<rows, activity, answer, chain, handler>>

\* Faulty variant: the UPDATE does not count.
ClaimsAlways(r, counted) == TRUE

\* The claim matches when no transition was stored since the row was listed.
Claims(r, counted) == counted = r.count

\* advanceWorkflowFromChain's transaction.
Advance(p) ==
    LET r == worker[p] IN
    /\ r.pc \in {"claim", "waiting"}
    /\ worker' = [worker EXCEPT ![p] = Idle]
    /\ IF Claims(r, IF r.pc = "claim" THEN Len(log[r.w]) ELSE r.counted)
       THEN Write(r.w, r.moves, r.count) /\ UNCHANGED attempts
       ELSE UNCHANGED rows
    /\ UNCHANGED <<activity, answer, chain, handler>>

\* The provider cannot answer, or the worker stops: the row is dropped.
DropRow(p) ==
    /\ worker[p] # Idle
    /\ worker' = [worker EXCEPT ![p] = Idle]
    /\ UNCHANGED <<rows, activity, answer, chain, handler>>

-----------------------------------------------------------------------------
(* The chain as the provider shows it, and what ingestion stores of it.    *)

InBlock(t) == t.block /\ t.canonical

SetTx(w, k, seen) == tx' = [tx EXCEPT ![w][k] = seen]

\* A pending transaction enters a block and succeeds or aborts.
Mine(w, k, status) ==
    /\ tx[w][k] = Pending
    /\ SetTx(w, k, Evidence(status, TRUE, TRUE, FALSE))
    /\ UNCHANGED <<rows, activity, answer, reorgs, confirmed, handler, worker>>

\* It leaves the mempool without executing.
Drop(w, k) ==
    /\ tx[w][k] = Pending
    /\ SetTx(w, k, Evidence("dropped", FALSE, FALSE, FALSE))
    /\ UNCHANGED <<rows, activity, answer, reorgs, confirmed, handler, worker>>

\* Ingestion stores a block above the transaction's.
Deepen(w, k) ==
    /\ InBlock(tx[w][k]) /\ ~tx[w][k].ahead
    /\ SetTx(w, k, [tx[w][k] EXCEPT !.ahead = TRUE])
    /\ confirmed' = IF tx[w][k].status = "success"
                    THEN confirmed \cup {<<w, k>>} ELSE confirmed
    /\ UNCHANGED <<rows, activity, answer, reorgs, handler, worker>>

\* A fork without the transaction's block becomes canonical.
Orphan(w, k) ==
    /\ InBlock(tx[w][k])
    /\ reorgs < MaxReorgs
    /\ reorgs' = reorgs + 1
    /\ SetTx(w, k, Evidence(tx[w][k].status, TRUE, FALSE, FALSE))
    /\ UNCHANGED <<rows, activity, answer, confirmed, handler, worker>>

\* markReorg reaches the activity of an orphaned block.
Rewind(w, k) ==
    /\ ~tx[w][k].canonical
    /\ activity[w][k] \in {"attributed", "unattributed"}
    /\ activity' = [activity EXCEPT ![w][k] =
          IF @ = "attributed" THEN "rewound" ELSE "lost"]
    /\ UNCHANGED <<rows, answer, chain, handler, worker>>

\* The orphaned transaction is pending again, after ingestion has rewound.
Return(w, k) ==
    /\ tx[w][k].block /\ ~tx[w][k].canonical
    /\ activity[w][k] \notin {"attributed", "unattributed"}
    /\ SetTx(w, k, Pending)
    /\ UNCHANGED <<rows, activity, answer, reorgs, confirmed, handler, worker>>

\* ingestEvents stores a successful transaction's event once, for the workflow
\* findWorkflowByTxid names at that moment or for none.
IngestEvent(w, k) ==
    /\ InBlock(tx[w][k]) /\ tx[w][k].status = "success"
    /\ activity[w][k] = "none"
    /\ activity' = [activity EXCEPT ![w][k] =
          IF \E i \in BroadcastAttempts(w) : attempts[w][i].step = k
          THEN "attributed" ELSE "unattributed"]
    /\ UNCHANGED <<rows, answer, chain, handler, worker>>

-----------------------------------------------------------------------------
ClientNext(w) ==
    \/ StartWorkflow(w)
    \/ \E k \in Steps :
          \/ \E outcome \in Outcomes : WalletAnswers(w, k, outcome)
          \/ \E h \in Handlers : ReadWorkflow(h, w, k)

HandlerNext(h) == FindAttempt(h) \/ RecordAttempt(h) \/ AbandonRequest(h)

WorkerNext(p) ==
    \/ \E w \in Workflows : ListConfirming(p, w) \/ ListReconciling(p, w)
    \/ ReadEvidence(p) \/ ReadEffects(p)
    \/ WaitForRow(p) \/ Advance(p)
    \/ DropRow(p)

ChainNext(w, k) ==
    \/ \E status \in {"success", "aborted"} : Mine(w, k, status)
    \/ Drop(w, k) \/ Deepen(w, k) \/ Orphan(w, k) \/ Return(w, k)
    \/ IngestEvent(w, k) \/ Rewind(w, k)

Next ==
    \/ \E w \in Workflows : ClientNext(w)
    \/ \E h \in Handlers : HandlerNext(h)
    \/ \E p \in Workers : WorkerNext(p)
    \/ \E w \in Workflows, k \in Steps : ChainNext(w, k)

Spec == Init /\ [][Next]_vars

\* A tick follows a tick, a read that is retried for ever is answered some
\* time, and the chain goes on.  Nothing is asked of the client.
Fairness ==
    /\ \A w \in Workflows :
          /\ SF_vars(\E p \in Workers : ListConfirming(p, w))
          /\ SF_vars(\E p \in Workers : ListReconciling(p, w))
          /\ SF_vars(\E p \in Workers : worker[p] # Idle /\ worker[p].w = w
                                          /\ ReadEvidence(p))
          /\ SF_vars(\E p \in Workers : worker[p] # Idle /\ worker[p].w = w
                                          /\ ReadEffects(p))
          /\ SF_vars(\E p \in Workers : worker[p] # Idle /\ worker[p].w = w
                                          /\ Advance(p))
    /\ \A w \in Workflows, k \in Steps :
          /\ WF_vars(\E status \in {"success", "aborted"} : Mine(w, k, status))
          /\ WF_vars(Deepen(w, k))
          /\ WF_vars(Rewind(w, k))
          /\ WF_vars(Return(w, k))

FairSpec == Spec /\ Fairness

-----------------------------------------------------------------------------
Request ==
    {Idle} \cup [pc : {"read", "write"}, w : Workflows, step : Steps,
                 seen : States, count : Nat]

RowInHand ==
    {Idle}
    \cup [pc : {"evidence"}, w : Workflows, state : States, count : Nat,
          step : Steps]
    \cup [pc : {"effects"}, w : Workflows, state : States, count : Nat]
    \cup [pc : {"claim"}, w : Workflows, count : Nat, moves : Seq(Move)]
    \cup [pc : {"waiting"}, w : Workflows, count : Nat, moves : Seq(Move),
          counted : Nat]

TypeOK ==
    /\ state \in [Workflows -> States \cup {"NONE"}]
    /\ log \in [Workflows -> Seq(Move)]
    /\ attempts \in [Workflows -> Seq([step : Steps, outcome : Outcomes])]
    /\ older \in SUBSET (Workflows \X Workflows)
    /\ activity \in [Workflows -> [Steps ->
          {"none", "attributed", "unattributed", "rewound", "lost"}]]
    /\ answer \in [Workflows -> [Steps -> Outcomes \cup {"none"}]]
    /\ tx \in [Workflows -> [Steps -> TransactionEvidence]]
    /\ handler \in [Handlers -> Request]
    /\ worker \in [Workers -> RowInHand]
    /\ reorgs \in 0..MaxReorgs
    /\ confirmed \in SUBSET (Workflows \X Steps)

\* The state shown for a workflow is where its stored history ends.  The state
\* is an unconditional UPDATE and the history a row per sequence number, so the
\* two writers of execution.ts can take them apart.
StateIsLastTransition ==
    \A w \in Workflows :
        IF state[w] = "NONE" THEN log[w] = <<>>
        ELSE log[w] # <<>> /\ state[w] = log[w][Len(log[w])].to

\* While a signature is asked for, no earlier answer is open: every step that
\* was answered was broadcast and has succeeded under the checkpoint.  A second
\* signature beside an open one could move the money twice.
NoWriteReopenedWhileUncertain ==
    \A w \in Workflows : state[w] = "AWAITING_SIGNATURE" =>
        \A i \in DOMAIN attempts[w] :
            /\ attempts[w][i].outcome = "BROADCAST"
            /\ <<w, attempts[w][i].step>> \in confirmed

\* The credit ingestion has ever attributed to the workflow.
EverCredited(w) ==
    Observed({k \in Steps : activity[w][k] \in {"attributed", "rewound"}},
             Credit)

\* COMPLETED is only shown of a workflow whose every step succeeded under the
\* checkpoint and whose attributed credit is no smaller than the signed minimum
\* (reconciliation.ts promises the check at lines 19-25).
CompletedOnEvidence ==
    \A w \in Workflows : state[w] = "COMPLETED" =>
        /\ \A k \in Steps : <<w, k>> \in confirmed
        /\ EverCredited(w) > 0 /\ EverCredited(w) >= Minimum

\* Each workflow's rows implement WorkflowHistory: the two tables together are
\* never seen otherwise than as one history that grows by allowed moves.
History(w) ==
    INSTANCE WorkflowHistory WITH state <- state[w], log <- log[w]
HistoryIsKept ==
    /\ \A w \in Workflows : History(w)!Init
    /\ [][\A w \in Workflows :
             History(w)!Next \/ UNCHANGED History(w)!vars]_vars

\* A worker never takes a workflow out of a state it did not read: no process
\* moves one that has ended or waits for a signature, whatever it held in hand.
WorkerMovesOnlyWhatItRead ==
    [][\A p \in Workers, w \in Workflows :
          (Advance(p) /\ state'[w] # state[w]) =>
              state[w] \in {"SUBMITTED", "CONFIRMING", "STEP_CONFIRMED"}]_vars

Waiting(w) == state[w] \in {"SUBMITTED", "CONFIRMING"}

\* advanceSubmittedWorkflows: "Moves every workflow that is waiting on chain
\* evidence as far as that evidence allows."  One whose transaction is not
\* dropped stops waiting.
SubmittedIsAnswered ==
    \A w \in Workflows :
        Waiting(w) ~>
            (~Waiting(w) \/ \E k \in Steps : tx[w][k].status = "dropped")

\* recordSignature: "The step already has an answer. Reporting it again changes
\* nothing."  (apps/api/src/execution.ts:257)
ReportingAgainChangesNothing ==
    [][\A h \in Handlers :
          (RecordAttempt(h) /\ Recorded(handler[h].w, handler[h].step)) =>
              UNCHANGED <<state, log>>]_vars

\* confirmationDecision on a transaction that left the mempool: "the user's
\* intent is unresolved, so a person decides what happens"
\* (apps/worker/src/confirmations.ts:100).
DroppedReachesAPerson ==
    \A w \in Workflows, k \in Steps :
        (Waiting(w) /\ tx[w][k].status = "dropped") ~>
            state[w] = "ACTION_REQUIRED"

\* advanceWorkflowFromChain: "A concurrent writer that moved the workflow first
\* leaves the count stale, the update matches no row"
\* (packages/database/src/execution.ts:225).
OvertakenClaimWritesNothing ==
    [][\A p \in Workers :
          (Advance(p) /\ Len(log[worker[p].w]) # worker[p].count) =>
              UNCHANGED rows]_vars

\* "A reorg rewinds affected evidence and the workflows that depended on it."
\* (README.md:74)  The credit of a completed workflow is orphaned.
ReorgReachesTheWorkflow ==
    \A w \in Workflows, k \in Steps :
        (state[w] = "COMPLETED" /\ activity[w][k] = "rewound") ~>
            state[w] = "REORGED"

Attributed(w) == \E k \in Steps : activity[w][k] = "attributed"

\* A confirmed workflow that has attributed effects is judged on them.
EffectsAreJudged ==
    \A w \in Workflows :
        (state[w] = "STEP_CONFIRMED" /\ Attributed(w)) ~>
            (state[w] # "STEP_CONFIRMED" \/ ~Attributed(w))

=============================================================================
