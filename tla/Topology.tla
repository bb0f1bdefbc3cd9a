------------------------------ MODULE Topology ------------------------------
(* The worker processes and their locks (apps/worker/src/run.ts and         *)
(* processes/*.ts): ingest, observer, reconcile and "all" run one loop,     *)
(* backfill runs once up to a height. Each takes a session-level advisory   *)
(* lock named after its process (packages/database/src/ops.ts) over the one *)
(* connection it has (lib.ts, connect), and remembers in a variable that it *)
(* has it. PostgreSQL frees the lock of a lost session; the driver opens    *)
(* another one and the process goes on.                                     *)
(*                                                                          *)
(* What a tick does is in Ingestion, Execution and Alerts. Here an ingesting*)
(* tick is one step on the stored heights: it stores the tip on an empty    *)
(* database, rewinds to an ancestor, or walks forward.                      *)
EXTENDS Integers, FiniteSets

CONSTANTS
  Workers,            \* process instances
  Roles,              \* [Workers -> the process each runs]
  Once,               \* the workers started with --once
  Genesis, FirstTip,  \* heights of the chain; Genesis is the lowest one
  MaxTip,             \* bound on the height of the chain
  Batch,              \* --batch-size, and the blocks of an ingest tick
  From, To,           \* --from-height and --to-height of a backfill
  MaxFaults           \* bound on lost connections, crashes, forks and failed ticks

ASSUME TopologyAssumption ==
  /\ Roles \in [Workers -> {"ingest", "observer", "reconcile", "all", "backfill"}]
  /\ {Genesis, MaxTip} \subseteq Nat /\ FirstTip \in Genesis..MaxTip /\ Batch \in Nat \ {0}
  /\ From \in Genesis..MaxTip /\ To \in Genesis..MaxTip /\ MaxFaults \in Nat

VARIABLES
  worker,       \* what each process is doing, and whether it believes it has its lock
  holder,       \* pg_locks: the sessions that hold the lock of each process name
  stopping,     \* the processes that were asked to stop
  tip,          \* the height of the chain
  checkpoint,   \* the height of the checkpoint, none on an empty database
  stored,       \* the heights that have a canonical block
  forked,       \* the chain has replaced the block of the checkpoint
  faults

topologyVars == <<worker, holder, stopping, tip, checkpoint, stored, forked, faults>>

None == Genesis - 1     \* no checkpoint

Started == [at |-> "acquire", locked |-> FALSE, lost |-> FALSE, current |-> None, target |-> None]

TopologyInit ==
  /\ worker = [w \in Workers |-> [Started EXCEPT !.at = "off"]]
  /\ holder = [w \in Workers |-> FALSE]
  /\ stopping = {} /\ tip = FirstTip /\ checkpoint = None /\ stored = {} /\ forked = FALSE /\ faults = 0

Loops == {w \in Workers : Roles[w] # "backfill"}
Backfills == Workers \ Loops
Ingests == {w \in Loops : Roles[w] \in {"ingest", "all"}}
Namesakes(w) == {v \in Workers \ {w} : Roles[v] = Roles[w]}

---------------------------------------------------------------------------
(* Locks. holder[w]: the session of w holds the lock of w's process name. *)

\* pg_try_advisory_lock answers at once.
LockFree(w) == \A v \in Namesakes(w) : ~holder[v]

\* The mutated form: the lock is freed by whoever gives it back.
UnlockedAll(w) == [v \in Workers |-> IF v = w \/ v \in Namesakes(w) THEN FALSE ELSE holder[v]]

\* pg_advisory_unlock: a session that does not hold the lock frees nothing.
Unlocked(w) == [holder EXCEPT ![w] = FALSE]

Start(w) ==
  /\ worker[w].at \in {"off", "ended"}
  /\ worker' = [worker EXCEPT ![w] = Started]
  /\ stopping' = stopping \ {w}
  /\ UNCHANGED <<holder, tip, checkpoint, stored, forked, faults>>

Stop(w) ==
  /\ worker[w].at # "off" /\ w \in Loops
  /\ stopping' = stopping \cup {w}
  /\ UNCHANGED <<worker, holder, tip, checkpoint, stored, forked, faults>>

\* The session is gone and with it the lock; the process does not learn of it.
LoseConnection(w) ==
  /\ faults < MaxFaults /\ faults' = faults + 1
  /\ holder[w] /\ holder' = [holder EXCEPT ![w] = FALSE]
  /\ worker' = [worker EXCEPT ![w].lost = TRUE]
  /\ UNCHANGED <<stopping, tip, checkpoint, stored, forked>>

CrashWorker(w) ==
  /\ faults < MaxFaults /\ faults' = faults + 1
  /\ worker[w].at \notin {"off", "ended"}
  /\ holder' = [holder EXCEPT ![w] = FALSE]
  /\ worker' = [worker EXCEPT ![w] = [Started EXCEPT !.at = "off"]]
  /\ stopping' = stopping \ {w}
  /\ UNCHANGED <<tip, checkpoint, stored, forked>>

---------------------------------------------------------------------------
(* The loop of runIngest, runObserver, runReconcile and of "all". *)

Acquire(w) ==
  /\ w \in Loops /\ worker[w].at = "acquire"
  /\ \/ /\ w \in stopping
        /\ worker' = [worker EXCEPT ![w].at = "release"] /\ UNCHANGED holder
     \/ /\ w \notin stopping /\ worker[w].locked
        /\ worker' = [worker EXCEPT ![w].at = "tick"] /\ UNCHANGED holder
     \/ /\ w \notin stopping /\ ~worker[w].locked /\ LockFree(w)
        /\ worker' = [worker EXCEPT ![w].at = "tick", ![w].locked = TRUE, ![w].lost = FALSE]
        /\ holder' = [holder EXCEPT ![w] = TRUE]
     \/ /\ w \notin stopping /\ ~worker[w].locked /\ ~LockFree(w)
        /\ worker' = [worker EXCEPT ![w].at = IF w \in Once THEN "release" ELSE "sleep"]
        /\ UNCHANGED holder
  /\ UNCHANGED <<stopping, tip, checkpoint, stored, forked, faults>>

\* After a tick, failed or not: end for --once or an abort, else sleep.
AfterTick(w) == IF w \in Once \/ w \in stopping THEN "release" ELSE "sleep"

\* A failed tick is logged and counted, and the loop goes on.
TickFails(w) ==
  /\ w \in Loops /\ worker[w].at = "tick" /\ faults < MaxFaults /\ faults' = faults + 1
  /\ worker' = [worker EXCEPT ![w].at = AfterTick(w)]
  /\ UNCHANGED <<holder, stopping, tip, checkpoint, stored, forked>>

Least(a, b) == IF a <= b THEN a ELSE b

\* The mutated form: the walk does not stop at the tip.
IngestedPastTip(maxBlocks) ==
  IF checkpoint = None THEN {<<tip, 1>>} ELSE {<<checkpoint + maxBlocks, maxBlocks>>}

\* ingestBlocks, as the heights it leaves stored: <<the checkpoint after it, the blocks it counts>>.
Ingested(maxBlocks) ==
  IF checkpoint = None THEN {<<tip, 1>>}
  ELSE IF forked THEN {<<h, 0>> : h \in stored \cap (Genesis..Least(checkpoint - 1, tip))}
  ELSE {<<h, h - checkpoint>> : h \in checkpoint..Least(tip, checkpoint + maxBlocks)}

Store(result) ==
  /\ checkpoint' = result[1] /\ forked' = FALSE
  /\ stored' = IF checkpoint = None THEN {result[1]}
               ELSE {h \in stored : h <= result[1]} \cup ((checkpoint + 1)..result[1])

Tick(w) ==
  /\ w \in Loops /\ worker[w].at = "tick"
  /\ IF w \in Ingests THEN \E result \in Ingested(Batch) : Store(result)
     ELSE UNCHANGED <<checkpoint, stored, forked>>
  /\ worker' = [worker EXCEPT ![w].at = AfterTick(w)]
  /\ UNCHANGED <<holder, stopping, tip, faults>>

\* The timer, or the abort that cuts it short.
Sleep(w) ==
  /\ worker[w].at = "sleep"
  /\ worker' = [worker EXCEPT ![w].at = IF w \in stopping THEN "release" ELSE "acquire"]
  /\ UNCHANGED <<holder, stopping, tip, checkpoint, stored, forked, faults>>

\* finally: the lock is given back by a process that thinks it has it.
Release(w) ==
  /\ worker[w].at = "release"
  /\ holder' = IF worker[w].locked THEN Unlocked(w) ELSE holder
  /\ worker' = [worker EXCEPT ![w].at = "ended", ![w].locked = FALSE]
  /\ UNCHANGED <<stopping, tip, checkpoint, stored, forked, faults>>

---------------------------------------------------------------------------
(* runBackfill *)

\* Another backfill has the lock: lock_failed. Else the target is read from the tip and the options.
BeginBackfill(w) ==
  /\ w \in Backfills /\ worker[w].at = "acquire"
  /\ IF LockFree(w)
     THEN /\ holder' = [holder EXCEPT ![w] = TRUE]
          /\ worker' = [worker EXCEPT ![w].at = "batch", ![w].locked = TRUE,
                                      ![w].current = From, ![w].target = Least(To, tip)]
     ELSE /\ worker' = [worker EXCEPT ![w].at = "lock_failed"] /\ UNCHANGED holder
  /\ UNCHANGED <<stopping, tip, checkpoint, stored, forked, faults>>

\* The mutated form: a batch without progress is tried again.
GoesOnToTarget(blocks, current, target) == current < target

\* One batch, and whether the loop goes on: it ends at the target, or when no block was stored.
GoesOn(blocks, current, target) == blocks > 0 /\ current < target

BackfillBatch(w) ==
  /\ w \in Backfills /\ worker[w].at = "batch" /\ worker[w].current < worker[w].target
  /\ LET size == Least(worker[w].target, worker[w].current + Batch) - worker[w].current
     IN  \E result \in Ingested(size) :
           /\ Store(result)
           /\ worker' = [worker EXCEPT ![w].current = result[1],
                           ![w].at = IF GoesOn(result[2], result[1], worker[w].target) THEN "batch" ELSE "reported"]
  /\ UNCHANGED <<holder, stopping, tip, faults>>

\* Nothing to do: the start is at the target already. Reprojection and audit come after, and the report.
SkipBackfill(w) ==
  /\ w \in Backfills /\ worker[w].at = "batch" /\ worker[w].current >= worker[w].target
  /\ worker' = [worker EXCEPT ![w].at = "reported"]
  /\ UNCHANGED <<holder, stopping, tip, checkpoint, stored, forked, faults>>

EndBackfill(w) ==
  /\ w \in Backfills /\ worker[w].at = "reported"
  /\ holder' = Unlocked(w)
  /\ worker' = [worker EXCEPT ![w].at = "completed", ![w].locked = FALSE]
  /\ UNCHANGED <<stopping, tip, checkpoint, stored, forked, faults>>

---------------------------------------------------------------------------
(* The chain grows; a fork replaces the checkpoint's block and may be shorter. *)

Grow ==
  /\ tip < MaxTip /\ tip' = tip + 1
  /\ UNCHANGED <<worker, holder, stopping, checkpoint, stored, forked, faults>>

\* An ancestor stays within what is stored: below it every tick fails (Ingestion).
Fork ==
  /\ faults < MaxFaults /\ faults' = faults + 1
  /\ ~forked /\ Cardinality(stored) > 1 /\ forked' = TRUE
  /\ tip' \in (checkpoint - 1)..tip
  /\ UNCHANGED <<worker, holder, stopping, checkpoint, stored>>

Runs(w) == \/ Acquire(w) \/ Tick(w) \/ Sleep(w) \/ Release(w)
           \/ BeginBackfill(w) \/ BackfillBatch(w) \/ SkipBackfill(w) \/ EndBackfill(w)

TopologyNext ==
  \/ Grow \/ Fork
  \/ \E w \in Workers : Start(w) \/ Stop(w) \/ LoseConnection(w) \/ CrashWorker(w) \/ TickFails(w) \/ Runs(w)

\* A process that runs goes on; nothing makes an operator start or stop one.
TopologySpec == TopologyInit /\ [][TopologyNext]_topologyVars /\ \A w \in Workers : WF_topologyVars(Runs(w))

---------------------------------------------------------------------------
(* Properties *)

TopologyTypeOK ==
  /\ tip \in Genesis..MaxTip /\ checkpoint \in (Genesis - 1)..MaxTip /\ stored \subseteq Genesis..MaxTip
  /\ faults \in 0..MaxFaults /\ holder \in [Workers -> BOOLEAN]

Working(w) == worker[w].at \in {"tick", "batch", "reported"}

\* The locks keep two processes of one name from working at once, whoever stops, crashes or gives a lock
\* back late, unless one of them has lost its connection and with it a lock it believes it has.
RunsAlone ==
  \A w \in Workers : \A v \in Namesakes(w) : Working(w) /\ Working(v) => worker[w].lost \/ worker[v].lost

\* A backfill ends: it "terminates cleanly", whatever the chain and other ingesters do to the checkpoint.
BackfillEnds ==
  \A w \in Backfills : worker[w].at = "batch" ~> worker[w].at \in {"completed", "off"}
=============================================================================
