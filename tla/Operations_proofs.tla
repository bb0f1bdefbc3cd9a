------------------------- MODULE Operations_proofs -------------------------
(* What is proved of the worker's processes, alerts, market snapshots and   *)
(* verdicts for every number of processes, every chain and every schedule:  *)
(* the locks of run.ts, the notifications of alerts.ts, the dates of        *)
(* markets.ts and the decisions of reconciliation.ts.                       *)
EXTENDS MCOperations, Sums_proofs, SequenceTheorems

---------------------------------------------------------------------------
(* Topology: the locks. *)

Stages == {"off", "acquire", "tick", "sleep", "release", "ended", "lock_failed", "batch", "reported", "completed"}

WorkerRecord == [at : Stages, locked : BOOLEAN, lost : BOOLEAN, current : Int, target : Int]

\* Types, and the heights Fork relies on: what is stored lies below the checkpoint.
HeightsOK ==
  /\ worker \in [Workers -> WorkerRecord]
  /\ TopologyTypeOK
  /\ \A h \in stored : h <= checkpoint

\* At most one session of a name has the lock; who believes in a lock it never lost has it; who works believes.
LocksOK ==
  /\ \A w \in Workers : \A v \in Namesakes(w) : ~(holder[w] /\ holder[v])
  /\ \A w \in Workers : worker[w].locked /\ ~worker[w].lost => holder[w]
  /\ \A w \in Workers : Working(w) => worker[w].locked

\* An ingesting tick leaves the checkpoint at a height between the lowest one and the tip.
LEMMA IngestedHeights ==
  ASSUME HeightsOK, NEW n \in Int, NEW result \in Ingested(n)
  PROVE  /\ result[1] \in Genesis..MaxTip
         /\ checkpoint # None /\ forked => result[1] < checkpoint
         /\ result[1] \in Int
  BY TopologyAssumption DEF HeightsOK, TopologyTypeOK, Ingested, None, Least

\* Storing what a tick ingested keeps the heights in order.
LEMMA StoredHeights ==
  ASSUME HeightsOK, NEW n \in Int, NEW result \in Ingested(n), Store(result)
  PROVE  /\ checkpoint' \in (Genesis - 1)..MaxTip
         /\ stored' \subseteq Genesis..MaxTip
         /\ \A h \in stored' : h <= checkpoint'
<1>1. /\ result[1] \in Genesis..MaxTip /\ result[1] \in Int
      /\ Genesis \in Int /\ MaxTip \in Int /\ checkpoint \in (Genesis - 1)..MaxTip
      /\ stored \subseteq Genesis..MaxTip
  BY IngestedHeights, TopologyAssumption DEF HeightsOK, TopologyTypeOK
<1>2. PICK r \in Int : r = result[1]
  BY <1>1
<1>3. CASE checkpoint = None
  <2>1. checkpoint' = r /\ stored' = {r}
    BY <1>2, <1>3 DEF Store
  <2> QED BY <1>1, <1>2, <2>1
<1>4. CASE checkpoint # None
  <2>1. checkpoint' = r /\ stored' = {h \in stored : h <= r} \cup ((checkpoint + 1)..r)
    BY <1>2, <1>4 DEF Store
  <2>2. ASSUME NEW h \in stored' PROVE h \in Genesis..MaxTip /\ h <= r
    BY <1>1, <1>2, <2>1, <2>2
  <2>3. checkpoint' = r /\ r \in (Genesis - 1)..MaxTip
    BY <1>1, <1>2, <2>1
  <2> QED BY <2>2, <2>3
<1> QED BY <1>3, <1>4

\* A fork has two stored blocks at least, so its ancestor is no lower than the lowest height.
LEMMA ForkAboveGenesis ==
  ASSUME HeightsOK, Cardinality(stored) > 1
  PROVE  checkpoint > Genesis
<1>1. SUFFICES ASSUME checkpoint <= Genesis PROVE FALSE
  BY TopologyAssumption DEF HeightsOK, TopologyTypeOK
<1>2. stored \subseteq {Genesis}
  BY <1>1, TopologyAssumption DEF HeightsOK, TopologyTypeOK
<1>3. IsFiniteSet({Genesis}) /\ Cardinality({Genesis}) = 1
  BY FS_Singleton
<1>4. Cardinality(stored) <= 1 /\ IsFiniteSet(stored)
  BY <1>2, <1>3, FS_Subset
<1>5. Cardinality(stored) \in Nat
  BY <1>4, FS_CardinalityType
<1> QED BY <1>4, <1>5

\* Every step keeps the types and the heights.
LEMMA HeightsStep ==
  ASSUME HeightsOK, [TopologyNext]_topologyVars
  PROVE  HeightsOK'
<1>0. CASE UNCHANGED topologyVars
  BY <1>0 DEF HeightsOK, TopologyTypeOK, topologyVars
<1>1. CASE Grow
  BY <1>1, TopologyAssumption DEF HeightsOK, TopologyTypeOK, Grow
<1>2. CASE Fork
  BY <1>2, ForkAboveGenesis, TopologyAssumption DEF HeightsOK, TopologyTypeOK, Fork
<1>3. ASSUME NEW w \in Workers,
             Start(w) \/ Stop(w) \/ LoseConnection(w) \/ CrashWorker(w) \/ TickFails(w) \/ Runs(w)
      PROVE  HeightsOK'
  <2> None \in Int
    BY TopologyAssumption DEF None
  <2> Started \in WorkerRecord /\ [Started EXCEPT !.at = "off"] \in WorkerRecord
    BY DEF Started, WorkerRecord, Stages
  <2>1. CASE Start(w)
    BY <2>1 DEF HeightsOK, TopologyTypeOK, Start
  <2>2. CASE Stop(w)
    BY <2>2 DEF HeightsOK, TopologyTypeOK, Stop
  <2>3. CASE LoseConnection(w)
    <3>1. worker' \in [Workers -> WorkerRecord]
      BY <2>3 DEF HeightsOK, LoseConnection, WorkerRecord
    <3>2. holder' \in [Workers -> BOOLEAN] /\ faults' \in 0..MaxFaults
      BY <2>3, TopologyAssumption DEF HeightsOK, TopologyTypeOK, LoseConnection
    <3> QED BY <2>3, <3>1, <3>2 DEF HeightsOK, TopologyTypeOK, LoseConnection
  <2>4. CASE CrashWorker(w)
    BY <2>4, TopologyAssumption DEF HeightsOK, TopologyTypeOK, CrashWorker
  <2>5. CASE TickFails(w)
    BY <2>5, TopologyAssumption DEF HeightsOK, TopologyTypeOK, TickFails, AfterTick, WorkerRecord, Stages
  <2>6. CASE Acquire(w)
    BY <2>6 DEF HeightsOK, TopologyTypeOK, Acquire, WorkerRecord, Stages
  <2>7. CASE Tick(w)
    <3>1. worker' \in [Workers -> WorkerRecord]
      BY <2>7 DEF HeightsOK, Tick, AfterTick, WorkerRecord, Stages
    <3>2. CASE w \in Ingests
      <4>1. PICK result \in Ingested(Batch) : Store(result)
        BY <2>7, <3>2 DEF Tick
      <4>2. Batch \in Int
        BY TopologyAssumption
      <4> QED BY <2>7, <3>1, <4>1, <4>2, StoredHeights DEF HeightsOK, TopologyTypeOK, Tick
    <3>3. CASE w \notin Ingests
      BY <2>7, <3>1, <3>3 DEF HeightsOK, TopologyTypeOK, Tick
    <3> QED BY <3>2, <3>3
  <2>8. CASE Sleep(w)
    BY <2>8 DEF HeightsOK, TopologyTypeOK, Sleep, WorkerRecord, Stages
  <2>9. CASE Release(w)
    BY <2>9 DEF HeightsOK, TopologyTypeOK, Release, Unlocked, WorkerRecord, Stages
  <2>10. CASE BeginBackfill(w)
    <3> Least(To, tip) \in Int /\ From \in Int
      BY TopologyAssumption DEF Least, HeightsOK, TopologyTypeOK
    <3>1. PICK target \in Int : target = Least(To, tip)
      OBVIOUS
    <3>2. worker' \in [Workers -> WorkerRecord]
      <4>1. CASE LockFree(w)
        <5>1. worker' = [worker EXCEPT ![w].at = "batch", ![w].locked = TRUE,
                                       ![w].current = From, ![w].target = target]
          BY <2>10, <3>1, <4>1 DEF BeginBackfill
        <5> QED BY <5>1 DEF HeightsOK, WorkerRecord, Stages
      <4>2. CASE ~LockFree(w)
        <5>1. worker' = [worker EXCEPT ![w].at = "lock_failed"]
          BY <2>10, <4>2 DEF BeginBackfill
        <5> QED BY <5>1 DEF HeightsOK, WorkerRecord, Stages
      <4> QED BY <4>1, <4>2
    <3> QED BY <2>10, <3>2 DEF HeightsOK, TopologyTypeOK, BeginBackfill
  <2>11. CASE BackfillBatch(w)
    <3> DEFINE size == Least(worker[w].target, worker[w].current + Batch) - worker[w].current
    <3>1. size \in Int
      BY TopologyAssumption DEF Least, HeightsOK, WorkerRecord
    <3>2. PICK result \in Ingested(size) :
            /\ Store(result)
            /\ worker' = [worker EXCEPT ![w].current = result[1],
                            ![w].at = IF GoesOn(result[2], result[1], worker[w].target) THEN "batch" ELSE "reported"]
      BY <2>11 DEF BackfillBatch
    <3> HIDE DEF size
    <3>3. result[1] \in Int
      BY <3>1, IngestedHeights
    <3>4. worker' \in [Workers -> WorkerRecord]
      BY <3>2, <3>3 DEF HeightsOK, WorkerRecord, Stages
    <3> QED BY <2>11, <3>1, <3>2, <3>4, StoredHeights DEF HeightsOK, TopologyTypeOK, BackfillBatch
  <2>12. CASE SkipBackfill(w)
    BY <2>12 DEF HeightsOK, TopologyTypeOK, SkipBackfill, WorkerRecord, Stages
  <2>13. CASE EndBackfill(w)
    BY <2>13 DEF HeightsOK, TopologyTypeOK, EndBackfill, Unlocked, WorkerRecord, Stages
  <2> QED BY <1>3, <2>1, <2>2, <2>3, <2>4, <2>5, <2>6, <2>7, <2>8, <2>9, <2>10, <2>11, <2>12, <2>13 DEF Runs
<1> QED BY <1>0, <1>1, <1>2, <1>3 DEF TopologyNext

\* The locks are held as LocksOK says after every step.
LEMMA LocksStep ==
  ASSUME HeightsOK, LocksOK, [TopologyNext]_topologyVars
  PROVE  LocksOK'
<1>0. CASE UNCHANGED <<worker, holder>>
  BY <1>0 DEF LocksOK, Working
<1>1. ASSUME NEW w \in Workers,
             Start(w) \/ Stop(w) \/ LoseConnection(w) \/ CrashWorker(w) \/ TickFails(w) \/ Runs(w)
      PROVE  LocksOK'
  <2> worker \in [Workers -> WorkerRecord] /\ holder \in [Workers -> BOOLEAN]
    BY DEF HeightsOK, TopologyTypeOK
  <2>1. CASE Start(w) \/ CrashWorker(w)
    <3>1. PICK rec \in {Started, [Started EXCEPT !.at = "off"]} : worker' = [worker EXCEPT ![w] = rec]
      BY <2>1 DEF Start, CrashWorker
    <3>2. ~rec.locked /\ rec.at \in {"acquire", "off"}
      BY DEF Started
    <3>3. \A v \in Workers : holder'[v] => holder[v]
      BY <2>1 DEF Start, CrashWorker
    <3>4. \A v \in Workers \ {w} : worker'[v] = worker[v] /\ holder'[v] = holder[v]
      BY <2>1, <3>1 DEF Start, CrashWorker
    <3>5. worker'[w] = rec
      BY <3>1
    <3> QED BY <3>2, <3>3, <3>4, <3>5 DEF LocksOK, Working, Namesakes
  <2>2. CASE Stop(w)
    BY <1>0, <2>2 DEF Stop
  <2>3. CASE LoseConnection(w)
    BY <2>3 DEF LocksOK, Working, LoseConnection, WorkerRecord
  <2>4. CASE TickFails(w)
    BY <2>4 DEF LocksOK, Working, TickFails, AfterTick, WorkerRecord
  <2>5. CASE Acquire(w)
    <3>1. CASE worker' = [worker EXCEPT ![w].at = "tick", ![w].locked = TRUE, ![w].lost = FALSE]
                 /\ holder' = [holder EXCEPT ![w] = TRUE] /\ LockFree(w)
      BY <3>1 DEF LocksOK, Working, LockFree, Namesakes, WorkerRecord
    <3>2. CASE UNCHANGED holder
      BY <2>5, <3>2 DEF LocksOK, Working, Acquire, WorkerRecord
    <3> QED BY <2>5, <3>1, <3>2 DEF Acquire
  <2>6. CASE Tick(w)
    BY <2>6 DEF LocksOK, Working, Tick, AfterTick, WorkerRecord
  <2>7. CASE Sleep(w)
    BY <2>7 DEF LocksOK, Working, Sleep, WorkerRecord
  <2>8. CASE Release(w)
    BY <2>8 DEF LocksOK, Working, Release, Unlocked, WorkerRecord
  <2>9. CASE BeginBackfill(w)
    <3>1. PICK target : target = Least(To, tip)
      OBVIOUS
    <3>2. CASE LockFree(w)
      <4>1. /\ holder' = [holder EXCEPT ![w] = TRUE]
            /\ worker' = [worker EXCEPT ![w].at = "batch", ![w].locked = TRUE,
                                        ![w].current = From, ![w].target = target]
        BY <2>9, <3>1, <3>2 DEF BeginBackfill
      <4> QED BY <3>2, <4>1 DEF LocksOK, Working, LockFree, Namesakes, WorkerRecord
    <3>3. CASE ~LockFree(w)
      BY <2>9, <3>3 DEF LocksOK, Working, BeginBackfill, WorkerRecord
    <3> QED BY <3>2, <3>3
  <2>10. CASE BackfillBatch(w)
    <3>0. PICK result : worker' = [worker EXCEPT ![w].current = result[1],
                                ![w].at = IF GoesOn(result[2], result[1], worker[w].target) THEN "batch" ELSE "reported"]
      BY <2>10 DEF BackfillBatch
    <3>1. PICK at \in {"batch", "reported"} : worker' = [worker EXCEPT ![w].current = result[1], ![w].at = at]
      BY <3>0
    <3> QED BY <2>10, <3>1 DEF LocksOK, Working, BackfillBatch, WorkerRecord
  <2>11. CASE SkipBackfill(w)
    BY <2>11 DEF LocksOK, Working, SkipBackfill, WorkerRecord
  <2>12. CASE EndBackfill(w)
    BY <2>12 DEF LocksOK, Working, EndBackfill, Unlocked, WorkerRecord
  <2> QED BY <1>1, <2>1, <2>2, <2>3, <2>4, <2>5, <2>6, <2>7, <2>8, <2>9, <2>10, <2>11, <2>12 DEF Runs
<1> QED BY <1>0, <1>1 DEF TopologyNext, Grow, Fork, topologyVars

LEMMA LocksSafely == TopologyInit /\ [][TopologyNext]_topologyVars => [](TopologyTypeOK /\ RunsAlone)
<1>1. TopologyInit => HeightsOK /\ LocksOK
  <2> SUFFICES ASSUME TopologyInit PROVE HeightsOK /\ LocksOK
    OBVIOUS
  <2>0. None \in Int
    BY TopologyAssumption DEF None
  <2>1. [Started EXCEPT !.at = "off"] \in WorkerRecord
    BY <2>0 DEF Started, WorkerRecord, Stages
  <2>2. worker \in [Workers -> WorkerRecord] /\ holder \in [Workers -> BOOLEAN]
    BY <2>1 DEF TopologyInit
  <2>3. \A w \in Workers : worker[w].at = "off" /\ ~worker[w].locked /\ ~holder[w]
    BY DEF TopologyInit, Started
  <2>4. TopologyTypeOK
    BY <2>2, TopologyAssumption DEF TopologyInit, TopologyTypeOK, None
  <2> QED BY <2>2, <2>3, <2>4 DEF TopologyInit, HeightsOK, LocksOK, Working, Namesakes
<1>2. HeightsOK /\ LocksOK /\ [TopologyNext]_topologyVars => (HeightsOK /\ LocksOK)'
  BY HeightsStep, LocksStep
<1>3. HeightsOK /\ LocksOK => TopologyTypeOK /\ RunsAlone
  BY DEF HeightsOK, LocksOK, RunsAlone, Namesakes
<1> QED BY <1>1, <1>2, <1>3, PTL

\* Two processes of one name do not work at once, however many there are and however they stop, crash or
\* restart, as long as neither has lost its connection; and the heights keep their types (RunsAlone).
THEOREM LocksKeepNamesApart == TopologySpec => [](TopologyTypeOK /\ RunsAlone)
BY LocksSafely, PTL DEF TopologySpec

---------------------------------------------------------------------------
(* Alerts: every notification is owed to a change of the table.             *)

Severities == {"none", "warning", "critical"}
Changes == {"opened", "resolved"}
AlertRecord == [severity : Severities, opened : Nat, resolved : Nat]
PassRecord == [at : {"idle", "raise", "resolve"} \cup AlertKeys, desired : [AlertKeys -> Severities],
               todo : SUBSET AlertKeys, notes : SUBSET (AlertKeys \X Changes)]

\* The evaluators that will print the change w of the alert k when their pass ends.
Owing(k, w) == {e \in Evaluators : <<k, w>> \in evaluator[e].notes}

\* What was printed and what is still to be printed was changed in the table.
NoticesOK ==
  /\ AlertsTypeOK
  /\ alerts \in [AlertKeys -> AlertRecord]
  /\ evaluator \in [Evaluators -> PassRecord]
  /\ \A k \in AlertKeys : \A w \in Changes : notified[k][w] \in Nat
  /\ \A k \in AlertKeys : \A w \in Changes : notified[k][w] + Cardinality(Owing(k, w)) <= alerts[k][w]

\* Sets of evaluators can be counted: a smaller one counts no more, one more evaluator one more at most.
LEMMA Counts ==
  ASSUME NEW S \in SUBSET Evaluators, NEW T \in SUBSET Evaluators
  PROVE  /\ Cardinality(S) \in Nat
         /\ T \subseteq S => Cardinality(T) <= Cardinality(S)
         /\ \A e \in Evaluators : T \subseteq S \cup {e} => Cardinality(T) <= Cardinality(S) + 1
         /\ \A e \in S : T \subseteq S \ {e} => Cardinality(T) + 1 <= Cardinality(S)
<1>1. IsFiniteSet(S) /\ IsFiniteSet(T)
  BY AlertsAssumption, FS_Subset
<1>2. Cardinality(S) \in Nat /\ Cardinality(T) \in Nat
  BY <1>1, FS_CardinalityType
<1>3. T \subseteq S => Cardinality(T) <= Cardinality(S)
  BY <1>1, FS_Subset
<1>4. ASSUME NEW e \in Evaluators, T \subseteq S \cup {e} PROVE Cardinality(T) <= Cardinality(S) + 1
  <2>1. /\ IsFiniteSet(S \cup {e}) /\ Cardinality(S \cup {e}) \in Nat
        /\ Cardinality(S \cup {e}) <= Cardinality(S) + 1
    <3>1. IsFiniteSet(S \cup {e}) /\ Cardinality(S \cup {e}) \in {Cardinality(S), Cardinality(S) + 1}
      <4>1. CASE e \in S
        <5>1. S \cup {e} = S
          BY <4>1
        <5> QED BY <1>1, <5>1
      <4>2. CASE e \notin S
        BY <1>1, <4>2, FS_AddElement
      <4> QED BY <4>1, <4>2
    <3> QED BY <1>2, <3>1
  <2>2. Cardinality(T) <= Cardinality(S \cup {e})
    BY <1>4, <2>1, FS_Subset
  <2> QED BY <1>2, <2>1, <2>2
<1>5. ASSUME NEW e \in S, T \subseteq S \ {e} PROVE Cardinality(T) + 1 <= Cardinality(S)
  <2>1. IsFiniteSet(S \ {e}) /\ Cardinality(S \ {e}) = Cardinality(S) - 1
    BY <1>1, FS_RemoveElement
  <2>2. Cardinality(T) <= Cardinality(S \ {e})
    BY <1>5, <2>1, FS_Subset
  <2> QED BY <1>2, <2>1, <2>2
<1> QED BY <1>2, <1>3, <1>4, <1>5

\* evaluateAlerts answers with a severity for every key.
LEMMA Evaluated == ASSUME NEW m PROVE EvaluateAlerts(m) \in [AlertKeys -> Severities]
  BY DEF EvaluateAlerts, Graded, AlertKeys, Severities

\* e's pass holds rec after a step and the other passes what they held.
PassBecomes(e, rec) ==
  /\ evaluator' \in [Evaluators -> PassRecord] /\ evaluator'[e] = rec
  /\ \A d \in Evaluators \ {e} : evaluator'[d] = evaluator[d]

\* The step as the code writes it, in these terms.
LEMMA PassUpdate ==
  ASSUME NoticesOK, NEW e \in Evaluators, NEW rec \in PassRecord, evaluator' = [evaluator EXCEPT ![e] = rec]
  PROVE  PassBecomes(e, rec)
  BY DEF NoticesOK, PassBecomes

\* A step of e that adds no note and prints none keeps the count, if the table still holds its changes.
LEMMA QuietStep ==
  ASSUME NoticesOK, NEW e \in Evaluators, NEW rec \in PassRecord, PassBecomes(e, rec),
         rec.notes \subseteq evaluator[e].notes, AlertsTypeOK', UNCHANGED notified,
         alerts' \in [AlertKeys -> AlertRecord],
         \A k \in AlertKeys : alerts'[k].opened = alerts[k].opened /\ alerts'[k].resolved = alerts[k].resolved
  PROVE  NoticesOK'
<1>1. ASSUME NEW k \in AlertKeys, NEW w \in Changes
      PROVE  notified'[k][w] + Cardinality(Owing(k, w)') <= alerts'[k][w]
  <2>1. Owing(k, w)' \subseteq Owing(k, w)
    BY DEF Owing, PassBecomes
  <2>2. /\ Cardinality(Owing(k, w)') <= Cardinality(Owing(k, w))
        /\ Cardinality(Owing(k, w)') \in Nat /\ Cardinality(Owing(k, w)) \in Nat
    BY <2>1, Counts DEF Owing
  <2>3. alerts'[k][w] = alerts[k][w] /\ notified'[k][w] = notified[k][w] /\ alerts[k][w] \in Nat /\ notified[k][w] \in Nat
    BY DEF Changes, NoticesOK, AlertRecord
  <2>4. notified[k][w] + Cardinality(Owing(k, w)) <= alerts[k][w]
    BY DEF NoticesOK
  <2> QED BY <2>2, <2>3, <2>4
<1> QED BY <1>1 DEF NoticesOK, PassBecomes

\* A step of e that makes one change of an alert and notes it keeps the count.
LEMMA NotingStep ==
  ASSUME NoticesOK, NEW e \in Evaluators, NEW rec \in PassRecord, PassBecomes(e, rec),
         NEW k \in AlertKeys, NEW w \in Changes, rec.notes \subseteq evaluator[e].notes \cup {<<k, w>>},
         AlertsTypeOK', UNCHANGED notified, NEW alert \in AlertRecord, alerts' = [alerts EXCEPT ![k] = alert],
         \A v \in Changes : alert[v] = alerts[k][v] + (IF v = w THEN 1 ELSE 0)
  PROVE  NoticesOK'
<1>0. alerts' \in [AlertKeys -> AlertRecord]
  BY DEF NoticesOK
<1>1. ASSUME NEW l \in AlertKeys, NEW v \in Changes
      PROVE  notified'[l][v] + Cardinality(Owing(l, v)') <= alerts'[l][v]
  <2>0. /\ Cardinality(Owing(l, v)') \in Nat /\ Cardinality(Owing(l, v)) \in Nat
        /\ alerts[l][v] \in Nat /\ notified[l][v] \in Nat
        /\ notified[l][v] + Cardinality(Owing(l, v)) <= alerts[l][v] /\ notified'[l][v] = notified[l][v]
    BY Counts DEF Owing, NoticesOK, AlertRecord, Changes
  <2>1. CASE l = k /\ v = w
    <3>1. Owing(l, v)' \subseteq Owing(l, v) \cup {e}
      BY DEF Owing, PassBecomes
    <3>2. Cardinality(Owing(l, v)') <= Cardinality(Owing(l, v)) + 1
      BY <3>1, Counts DEF Owing
    <3>3. alerts'[l][v] = alerts[l][v] + 1
      BY <2>1 DEF NoticesOK
    <3> QED BY <2>0, <3>2, <3>3
  <2>2. CASE ~(l = k /\ v = w)
    <3>1. Owing(l, v)' \subseteq Owing(l, v)
      BY <2>2 DEF Owing, PassBecomes
    <3>2. Cardinality(Owing(l, v)') <= Cardinality(Owing(l, v))
      BY <3>1, Counts DEF Owing
    <3>3. alerts'[l][v] = alerts[l][v]
      BY <2>0, <2>2 DEF NoticesOK
    <3> QED BY <2>0, <3>2, <3>3
  <2> QED BY <2>1, <2>2
<1> QED BY <1>0, <1>1 DEF NoticesOK, PassBecomes

\* The end of a pass prints its notes, and it owes them no longer.
LEMMA PrintingStep ==
  ASSUME NoticesOK, NEW e \in Evaluators, PrintNotifications(e)
  PROVE  NoticesOK'
<1>0. Idle \in PassRecord
  BY DEF Idle, PassRecord, Severities
<1>1. PassBecomes(e, Idle)
  BY <1>0, PassUpdate DEF PrintNotifications
<1>2. ASSUME NEW k \in AlertKeys, NEW w \in Changes
      PROVE  notified'[k][w] \in Nat /\ notified'[k][w] + Cardinality(Owing(k, w)') <= alerts'[k][w]
  <2>0. /\ Cardinality(Owing(k, w)') \in Nat /\ Cardinality(Owing(k, w)) \in Nat
        /\ alerts[k][w] \in Nat /\ notified[k][w] \in Nat
        /\ notified[k][w] + Cardinality(Owing(k, w)) <= alerts[k][w] /\ alerts'[k][w] = alerts[k][w]
    BY Counts DEF Owing, NoticesOK, AlertRecord, Changes, PrintNotifications
  <2>1. notified'[k][w] = notified[k][w] + (IF <<k, w>> \in evaluator[e].notes THEN 1 ELSE 0)
    BY DEF PrintNotifications, Changes
  <2>2. Owing(k, w)' \subseteq Owing(k, w) \ {e}
    BY <1>1 DEF Owing, PassBecomes, Idle
  <2>3. CASE <<k, w>> \in evaluator[e].notes
    <3>1. e \in Owing(k, w)
      BY <2>3 DEF Owing
    <3>2. Cardinality(Owing(k, w)') + 1 <= Cardinality(Owing(k, w))
      BY <2>2, <3>1, Counts DEF Owing
    <3> QED BY <2>0, <2>1, <2>3, <3>2
  <2>4. CASE <<k, w>> \notin evaluator[e].notes
    <3>1. Cardinality(Owing(k, w)') <= Cardinality(Owing(k, w))
      BY <2>2, Counts DEF Owing
    <3> QED BY <2>0, <2>1, <2>4, <3>1
  <2> QED BY <2>3, <2>4
<1> QED BY <1>1, <1>2 DEF NoticesOK, PassBecomes, PrintNotifications, AlertsTypeOK

\* Every step of the alerts keeps the count.
LEMMA NoticesStep ==
  ASSUME NoticesOK, [AlertsNext]_alertVars
  PROVE  NoticesOK'
<1>0. CASE UNCHANGED <<metrics, alerts, evaluator, notified, changes>>
  BY <1>0 DEF NoticesOK, AlertsTypeOK, Owing
<1>1. ASSUME NEW m \in MetricValues, Change(m) PROVE NoticesOK'
  BY <1>1, AlertsAssumption DEF Change, NoticesOK, AlertsTypeOK, Owing
<1>2. ASSUME NEW e \in Evaluators, Snapshot(e) \/ ListOpen(e) \/ FailPass(e) PROVE NoticesOK'
  <2>1. \A rec \in PassRecord : evaluator' = [evaluator EXCEPT ![e] = rec] /\ rec.notes \subseteq evaluator[e].notes
                                  => NoticesOK'
    <3> SUFFICES ASSUME NEW rec \in PassRecord, evaluator' = [evaluator EXCEPT ![e] = rec],
                        rec.notes \subseteq evaluator[e].notes
                 PROVE  NoticesOK'
      OBVIOUS
    <3>1. UNCHANGED <<alerts, notified>> /\ AlertsTypeOK'
      BY <1>2, AlertsAssumption DEF Snapshot, ListOpen, FailPass, NoticesOK, AlertsTypeOK
    <3>2. PassBecomes(e, rec)
      BY PassUpdate
    <3>3. alerts' \in [AlertKeys -> AlertRecord]
      BY <3>1 DEF NoticesOK
    <3> QED BY <3>1, <3>2, <3>3, QuietStep
  <2>2. CASE Snapshot(e)
    <3>1. PICK desired \in [AlertKeys -> Severities] : desired = EvaluateAlerts(metrics)
      BY Evaluated
    <3> DEFINE rec == [Idle EXCEPT !.at = "raise", !.desired = desired, !.todo = Wanted(desired)]
    <3>2. evaluator' = [evaluator EXCEPT ![e] = rec]
      BY <2>2, <3>1 DEF Snapshot
    <3>3. rec \in PassRecord /\ rec.notes = {}
      BY DEF Idle, PassRecord, Wanted
    <3> QED BY <2>1, <3>2, <3>3
  <2>3. CASE ListOpen(e)
    <3> DEFINE rec == [evaluator[e] EXCEPT !.at = "resolve", !.todo = Unwanted(evaluator[e].desired)]
    <3>1. evaluator' = [evaluator EXCEPT ![e] = rec]
      BY <2>3 DEF ListOpen
    <3>2. rec \in PassRecord /\ rec.notes = evaluator[e].notes
      BY DEF NoticesOK, PassRecord, Unwanted, Open
    <3> QED BY <2>1, <3>1, <3>2
  <2>4. CASE FailPass(e)
    <3>1. Idle \in PassRecord /\ Idle.notes = {} /\ evaluator' = [evaluator EXCEPT ![e] = Idle]
      BY <2>4 DEF Idle, PassRecord, Severities, FailPass
    <3> QED BY <2>1, <3>1
  <2> QED BY <1>2, <2>2, <2>3, <2>4
<1>3. ASSUME NEW e \in Evaluators, PrintNotifications(e) PROVE NoticesOK'
  BY <1>3, PrintingStep
<1>4. ASSUME NEW e \in Evaluators, NEW k \in AlertKeys, RaiseUpdate(e, k) PROVE NoticesOK'
  <2>1. UNCHANGED <<metrics, notified, changes>>
    BY <1>4 DEF RaiseUpdate
  <2>2. evaluator[e] \in PassRecord /\ alerts[k] \in AlertRecord
    BY DEF NoticesOK
  <2>3. CASE k \in Open
    <3> DEFINE rec == [evaluator[e] EXCEPT !.todo = @ \ {k}]
    <3>1. evaluator' = [evaluator EXCEPT ![e] = rec]
      BY <1>4, <2>3 DEF RaiseUpdate
    <3>2. rec \in PassRecord /\ rec.notes = evaluator[e].notes
      BY <2>2 DEF PassRecord
    <3>3. PICK severity \in Severities : severity = evaluator[e].desired[k]
      BY <2>2 DEF PassRecord
    <3>4. alerts' = [alerts EXCEPT ![k].severity = severity]
      BY <1>4, <2>3, <3>3 DEF RaiseUpdate
    <3>5. /\ alerts' \in [AlertKeys -> AlertRecord]
          /\ \A l \in AlertKeys : alerts'[l].opened = alerts[l].opened /\ alerts'[l].resolved = alerts[l].resolved
      BY <3>4 DEF NoticesOK, AlertRecord
    <3>6. AlertsTypeOK'
      BY <2>1, <3>5 DEF NoticesOK, AlertsTypeOK, AlertRecord, Severities
    <3>7. PassBecomes(e, rec)
      BY <3>1, <3>2, PassUpdate
    <3> HIDE DEF rec
    <3> QED BY <2>1, <3>2, <3>5, <3>6, <3>7, QuietStep
  <2>4. CASE k \notin Open
    <3> DEFINE rec == [evaluator[e] EXCEPT !.at = k]
    <3>1. evaluator' = [evaluator EXCEPT ![e] = rec] /\ UNCHANGED alerts
      BY <1>4, <2>4 DEF RaiseUpdate
    <3>2. rec \in PassRecord /\ rec.notes = evaluator[e].notes
      BY <2>2 DEF PassRecord
    <3>3. PassBecomes(e, rec)
      BY <3>1, <3>2, PassUpdate
    <3>4. AlertsTypeOK' /\ alerts' \in [AlertKeys -> AlertRecord]
      BY <2>1, <3>1 DEF NoticesOK, AlertsTypeOK
    <3> HIDE DEF rec
    <3> QED BY <2>1, <3>1, <3>2, <3>3, <3>4, QuietStep
  <2> QED BY <2>3, <2>4
<1>5. ASSUME NEW e \in Evaluators, NEW k \in AlertKeys, RaiseInsert(e, k) PROVE NoticesOK'
  <2>1. UNCHANGED <<metrics, notified, changes>>
    BY <1>5 DEF RaiseInsert
  <2>2. evaluator[e] \in PassRecord /\ alerts[k] \in AlertRecord
    BY DEF NoticesOK
  <2> DEFINE noted == IF OpenedNow(k) THEN evaluator[e].notes \cup {<<k, "opened">>} ELSE evaluator[e].notes
  <2>3. PICK notes \in SUBSET (AlertKeys \X Changes) : notes = noted
    <3>1. evaluator[e].notes \in SUBSET (AlertKeys \X Changes)
      BY <2>2 DEF PassRecord
    <3>2. <<k, "opened">> \in AlertKeys \X Changes
      BY DEF Changes
    <3> QED BY <3>1, <3>2
  <2> DEFINE rec == [evaluator[e] EXCEPT !.at = "raise", !.todo = @ \ {k}, !.notes = notes]
  <2>4. rec \in PassRecord /\ rec.notes = noted /\ evaluator' = [evaluator EXCEPT ![e] = rec]
    <3>1. rec \in PassRecord /\ rec.notes = notes
      BY <2>2 DEF PassRecord
    <3>2. evaluator' = [evaluator EXCEPT ![e] = rec]
      BY <1>5, <2>3 DEF RaiseInsert
    <3> QED BY <2>3, <3>1, <3>2
  <2>5. PassBecomes(e, rec)
    BY <2>4, PassUpdate
  <2> HIDE DEF rec
  <2>6. CASE k \in Open
    <3>1. UNCHANGED alerts /\ rec.notes = evaluator[e].notes
      BY <1>5, <2>4, <2>6 DEF RaiseInsert, OpenedNow
    <3>2. AlertsTypeOK' /\ alerts' \in [AlertKeys -> AlertRecord]
      BY <2>1, <3>1 DEF NoticesOK, AlertsTypeOK
    <3> QED BY <2>1, <2>4, <2>5, <3>1, <3>2, QuietStep
  <2>7. CASE k \notin Open
    <3>1. PICK severity \in Severities : severity = evaluator[e].desired[k]
      BY <2>2 DEF PassRecord
    <3> DEFINE alert == [alerts[k] EXCEPT !.severity = severity, !.opened = @ + 1]
    <3>2. alerts' = [alerts EXCEPT ![k] = alert]
      BY <1>5, <2>7, <3>1 DEF RaiseInsert
    <3>3. alert \in AlertRecord /\ \A v \in Changes : alert[v] = alerts[k][v] + (IF v = "opened" THEN 1 ELSE 0)
      <4>1. alert \in AlertRecord
        <5>1. PICK n \in Nat : n = alerts[k].opened + 1
          BY <2>2 DEF AlertRecord
        <5>2. PICK old \in AlertRecord : old = alerts[k]
          BY <2>2
        <5>3. alert = [old EXCEPT !.severity = severity, !.opened = n]
          BY <5>1, <5>2
        <5> QED BY <5>3 DEF AlertRecord, Severities
      <4>2. alert["opened"] = alerts[k]["opened"] + 1 /\ alert["resolved"] = alerts[k]["resolved"] + 0
        BY <2>2 DEF AlertRecord
      <4> QED BY <4>1, <4>2 DEF Changes
    <3>4. rec.notes \subseteq evaluator[e].notes \cup {<<k, "opened">>}
      BY <2>4
    <3> HIDE DEF alert
    <3>5. AlertsTypeOK'
      BY <2>1, <3>2, <3>3 DEF NoticesOK, AlertsTypeOK, AlertRecord, Severities
    <3>6. "opened" \in Changes
      BY DEF Changes
    <3> QED BY <2>1, <2>4, <2>5, <3>2, <3>3, <3>4, <3>5, <3>6, NotingStep
  <2> QED BY <2>6, <2>7
<1>6. ASSUME NEW e \in Evaluators, NEW k \in AlertKeys, ResolveAlert(e, k) PROVE NoticesOK'
  <2>1. UNCHANGED <<metrics, notified, changes>>
    BY <1>6 DEF ResolveAlert
  <2>2. evaluator[e] \in PassRecord /\ alerts[k] \in AlertRecord
    BY DEF NoticesOK
  <2> DEFINE noted == IF k \in Open THEN evaluator[e].notes \cup {<<k, "resolved">>} ELSE evaluator[e].notes
  <2>3. PICK notes \in SUBSET (AlertKeys \X Changes) : notes = noted
    <3>1. evaluator[e].notes \in SUBSET (AlertKeys \X Changes)
      BY <2>2 DEF PassRecord
    <3>2. <<k, "resolved">> \in AlertKeys \X Changes
      BY DEF Changes
    <3> QED BY <3>1, <3>2
  <2> DEFINE rec == [evaluator[e] EXCEPT !.todo = @ \ {k}, !.notes = notes]
  <2>4. rec \in PassRecord /\ rec.notes = noted /\ evaluator' = [evaluator EXCEPT ![e] = rec]
    <3>1. rec \in PassRecord /\ rec.notes = notes
      BY <2>2 DEF PassRecord
    <3>2. evaluator' = [evaluator EXCEPT ![e] = rec]
      BY <1>6, <2>3 DEF ResolveAlert
    <3> QED BY <2>3, <3>1, <3>2
  <2>5. PassBecomes(e, rec)
    BY <2>4, PassUpdate
  <2> HIDE DEF rec
  <2>6. CASE k \notin Open
    <3>1. UNCHANGED alerts /\ rec.notes = evaluator[e].notes
      BY <1>6, <2>4, <2>6 DEF ResolveAlert
    <3>2. AlertsTypeOK' /\ alerts' \in [AlertKeys -> AlertRecord]
      BY <2>1, <3>1 DEF NoticesOK, AlertsTypeOK
    <3> QED BY <2>1, <2>4, <2>5, <3>1, <3>2, QuietStep
  <2>7. CASE k \in Open
    <3> DEFINE alert == [alerts[k] EXCEPT !.severity = "none", !.resolved = @ + 1]
    <3>2. alerts' = [alerts EXCEPT ![k] = alert]
      BY <1>6, <2>7 DEF ResolveAlert
    <3>3. alert \in AlertRecord /\ \A v \in Changes : alert[v] = alerts[k][v] + (IF v = "resolved" THEN 1 ELSE 0)
      <4>1. alert \in AlertRecord
        <5>1. PICK n \in Nat : n = alerts[k].resolved + 1
          BY <2>2 DEF AlertRecord
        <5>2. PICK old \in AlertRecord : old = alerts[k]
          BY <2>2
        <5>3. alert = [old EXCEPT !.severity = "none", !.resolved = n]
          BY <5>1, <5>2
        <5> QED BY <5>3 DEF AlertRecord, Severities
      <4>2. alert["opened"] = alerts[k]["opened"] + 0 /\ alert["resolved"] = alerts[k]["resolved"] + 1
        BY <2>2 DEF AlertRecord
      <4> QED BY <4>1, <4>2 DEF Changes
    <3>4. rec.notes \subseteq evaluator[e].notes \cup {<<k, "resolved">>}
      BY <2>4
    <3> HIDE DEF alert
    <3>5. AlertsTypeOK'
      BY <2>1, <3>2, <3>3 DEF NoticesOK, AlertsTypeOK, AlertRecord, Severities
    <3>6. "resolved" \in Changes
      BY DEF Changes
    <3> QED BY <2>1, <2>4, <2>5, <3>2, <3>3, <3>4, <3>5, <3>6, NotingStep
  <2> QED BY <2>6, <2>7
<1> QED BY <1>0, <1>1, <1>2, <1>3, <1>4, <1>5, <1>6 DEF AlertsNext, alertVars

LEMMA NoticesSafely == AlertsInit /\ [][AlertsNext]_alertVars => [](AlertsTypeOK /\ NoNoticeTwice)
<1>1. AlertsInit => NoticesOK
  <2> SUFFICES ASSUME AlertsInit PROVE NoticesOK
    OBVIOUS
  <2>1. Idle \in PassRecord /\ Idle.notes = {}
    BY DEF Idle, PassRecord, Severities
  <2>2. evaluator \in [Evaluators -> PassRecord] /\ \A k \in AlertKeys : \A w \in Changes : Owing(k, w) = {}
    BY <2>1 DEF AlertsInit, Owing
  <2>3. Cardinality({}) = 0
    BY FS_EmptySet
  <2>4. alerts \in [AlertKeys -> AlertRecord]
    BY DEF AlertsInit, AlertRecord, Severities
  <2>5. \A k \in AlertKeys : \A w \in Changes : notified[k][w] = 0 /\ alerts[k][w] = 0
    BY DEF AlertsInit, Changes
  <2>6. AlertsTypeOK
    BY AlertsAssumption DEF AlertsInit, AlertsTypeOK, Healthy, MetricValues
  <2>7. \A k \in AlertKeys, w \in Changes :
          notified[k][w] \in Nat /\ notified[k][w] + Cardinality(Owing(k, w)) <= alerts[k][w]
    <3> TAKE k \in AlertKeys, w \in Changes
    <3>1. Cardinality(Owing(k, w)) = 0
      BY <2>2, <2>3
    <3> QED BY <2>5, <3>1
  <2> QED BY <2>2, <2>4, <2>6, <2>7 DEF NoticesOK
<1>2. NoticesOK /\ [AlertsNext]_alertVars => NoticesOK'
  BY NoticesStep
<1>3. NoticesOK => AlertsTypeOK /\ NoNoticeTwice
  <2> SUFFICES ASSUME NoticesOK, NEW k \in AlertKeys, NEW w \in Changes PROVE notified[k][w] <= alerts[k][w]
    BY DEF NoticesOK, NoNoticeTwice, Changes
  <2>1. Cardinality(Owing(k, w)) \in Nat
    BY Counts DEF Owing
  <2>2. alerts[k][w] \in Nat
    BY DEF NoticesOK, AlertRecord, Changes
  <2> QED BY <2>1, <2>2 DEF NoticesOK
<1> QED BY <1>1, <1>2, <1>3, PTL

\* However many evaluators bring the table to their own snapshots at once, and however passes fail half way, an
\* alert is not announced more often than it was opened, nor called resolved more often than it was
\* (reconcileAlerts; NoNoticeTwice).
THEOREM ChangesAreAnnouncedOnce == AlertsSpec => [](AlertsTypeOK /\ NoNoticeTwice)
BY NoticesSafely, PTL DEF AlertsSpec

---------------------------------------------------------------------------
(* Markets: the evidence is dated.                                          *)

Readings == FieldValues \union {UnknownValue, NotRead}
MarketStages == {"rests", "begun", "reads", "compares", "rewards", "prices"}
MarketPass == [at : Nat, stage : MarketStages, block : Nat, projected : SnapshotRows, value : [MarketFields -> Readings]]

\* The vault has held v in f at a moment no earlier than a, with a block no lower than b.
Seen(a, b, f, v) == \E m \in a..Now : m >= b /\ moments[m][f] = v

\* A row's time has come, and each value it knows was the vault's since its time and its block.
Dated(row) ==
  /\ row.observedAt \in 1..Now
  /\ \A f \in MarketFields : row.value[f] # UnknownValue => Seen(row.observedAt, row.block, f, row.value[f])

\* The same of what a pass has read so far; its reads begin when its time and its block are taken.
PassDated(pass) ==
  /\ pass.stage # "rests" => pass.at \in 1..Now /\ pass.block <= Now
  /\ pass.stage \in {"rests", "begun"} => pass.value = NothingRead
  /\ \A f \in MarketFields : pass.value[f] \notin {UnknownValue, NotRead} => Seen(pass.at, pass.block, f, pass.value[f])
  /\ pass.projected # NoSnapshot => marketSnapshots # <<>>

\* Types; rows and passes are dated; a report of health has rows behind it.
EvidenceOK ==
  /\ MarketsTypeOK
  /\ Now >= 1
  /\ passes \in [MarketProcesses -> MarketPass]
  /\ \A p \in MarketProcesses : PassDated(passes[p])
  /\ \A i \in DOMAIN marketSnapshots : Dated(marketSnapshots[i])
  /\ reportedHealthy => marketSnapshots # <<>>

\* A table that is not empty has a latest row.
LEMMA LatestRow ==
  ASSUME NEW rows, NEW n \in Nat \ {0}, DOMAIN rows = 1..n, NEW time, \A i \in 1..n : rows[i][time] \in Int
  PROVE  Latest(rows, time) \in DOMAIN rows
<1>0. PICK D : D = 1..n
  OBVIOUS
<1> DEFINE Later(i) == {j \in D : rows[j][time] > rows[i][time] \/ (rows[j][time] = rows[i][time] /\ j > i)}
           Bad == {Later(i) : i \in D}
<1>1. IsFiniteSet(D)
  <2>1. 1 \in Int /\ n \in Int
    OBVIOUS
  <2>2. IsFiniteSet(1..n)
    BY <2>1, FS_Interval
  <2> QED BY <1>0, <2>2
<1>2. PICK T \in Bad : \A U \in Bad : U \subseteq T => U = T
  <2>1. Bad \in SUBSET (SUBSET D)
    OBVIOUS
  <2>2. Bad # {}
    <3>1. 1 \in D
      BY <1>0
    <3> QED BY <3>1
  <2> HIDE DEF Bad, Later
  <2> QED BY <1>1, <2>1, <2>2, SmallestSubset
<1>3. PICK i \in D : T = Later(i)
  BY <1>2
<1>4. ASSUME NEW j \in Later(i) PROVE FALSE
  <2>1. j \in D /\ Later(j) \subseteq Later(i)
    BY <1>0, <1>4
  <2>2. j \notin Later(j)
    BY <1>0, <2>1
  <2>3. Later(j) \in Bad
    BY <2>1
  <2> HIDE DEF Bad, Later
  <2> QED BY <1>2, <1>3, <1>4, <2>1, <2>2, <2>3
<1>5. \A j \in DOMAIN rows : rows[i][time] > rows[j][time] \/ (rows[i][time] = rows[j][time] /\ i >= j)
  <2> TAKE j \in DOMAIN rows
  <2>1. ~ (rows[j][time] > rows[i][time] \/ (rows[j][time] = rows[i][time] /\ j > i))
    BY <1>0, <1>4
  <2>2. rows[i][time] \in Int /\ rows[j][time] \in Int /\ i \in Int /\ j \in Int
    BY <1>0
  <2> QED BY <2>1, <2>2
<1> HIDE DEF Bad, Later
<1> QED BY <1>0, <1>3, <1>5 DEF Latest

\* What a market is shown with is a row, or the absence of one.
LEMMA ShownRow ==
  ASSUME EvidenceOK
  PROVE  IF marketSnapshots = <<>> THEN LatestSnapshot = NoSnapshot
         ELSE \E i \in DOMAIN marketSnapshots : LatestSnapshot = marketSnapshots[i]
<1>1. CASE marketSnapshots = <<>>
  BY <1>1 DEF LatestSnapshot
<1>2. CASE marketSnapshots # <<>>
  <2>1. PICK n \in Nat \ {0} : DOMAIN marketSnapshots = 1..n
    BY <1>2 DEF EvidenceOK, MarketsTypeOK
  <2>2. \A i \in 1..n : marketSnapshots[i] \in SnapshotRows
    BY <2>1 DEF EvidenceOK, MarketsTypeOK
  <2>3. \A i \in 1..n : marketSnapshots[i]["observedAt"] \in Int
    BY <2>2 DEF SnapshotRows
  <2>4. Latest(marketSnapshots, "observedAt") \in DOMAIN marketSnapshots
    BY <2>1, <2>3, LatestRow
  <2> QED BY <1>2, <2>4 DEF LatestSnapshot
<1> QED BY <1>1, <1>2

\* Dated rows make dated evidence.
LEMMA DatedEvidence == EvidenceOK => EvidenceIsDated
<1> SUFFICES ASSUME EvidenceOK PROVE EvidenceIsDated
  OBVIOUS
<1>1. PICK shown : shown = LatestSnapshot
  OBVIOUS
<1>2. shown = NoSnapshot \/ (shown \in SnapshotRows /\ Dated(shown))
  BY <1>1, ShownRow DEF EvidenceOK, MarketsTypeOK
<1>3. ASSUME NEW f \in MarketFields, shown.value[f] # UnknownValue
      PROVE  \E m \in (Now - (Now - shown.observedAt))..Now : m >= shown.block /\ moments[m][f] = shown.value[f]
  <2>1. shown \in SnapshotRows /\ Dated(shown)
    BY <1>2, <1>3 DEF NoSnapshot
  <2>2. Now - (Now - shown.observedAt) = shown.observedAt
    BY <2>1 DEF SnapshotRows, EvidenceOK, MarketsTypeOK, Now
  <2> QED BY <1>3, <2>1, <2>2 DEF Dated, Seen
<1>4. "high" \in {Evidence.confidence, EarnOption.confidence} \/ Projects30d =>
         \A f \in MarketFields : shown.value[f] # UnknownValue
  BY <1>1 DEF Evidence, EarnOption, Confidence, Projects30d, Stale
<1>5. reportedHealthy => shown # NoSnapshot
  <2> SUFFICES ASSUME reportedHealthy PROVE shown # NoSnapshot
    OBVIOUS
  <2>1. PICK i \in DOMAIN marketSnapshots : shown = marketSnapshots[i]
    BY <1>1, ShownRow DEF EvidenceOK
  <2>2. shown.observedAt \in 1..Now
    BY <2>1 DEF EvidenceOK, Dated
  <2> QED BY <2>2 DEF NoSnapshot
<1>6. Evidence.row = shown /\ Evidence.age = Now - shown.observedAt
  BY <1>1 DEF Evidence
<1> QED BY <1>3, <1>4, <1>5, <1>6 DEF EvidenceIsDated

\* The vault and ingestion move on; what was seen stays seen.
LEMMA WorldKeepsEvidence ==
  ASSUME EvidenceOK, VaultMoves \/ BlockIsIngested
  PROVE  EvidenceOK'
<1>1. moments \in Seq([MarketFields -> FieldValues]) /\ Now \in Nat
  BY DEF EvidenceOK, MarketsTypeOK, Now
<1>2. /\ moments' \in Seq([MarketFields -> FieldValues])
      /\ Now' \in Nat /\ Now' >= Now /\ \A m \in 1..Now : moments'[m] = moments[m]
      /\ storedBlock' \in 0..Now'
  <2>1. CASE VaultMoves
    <3>1. PICK f \in MarketFields, v \in FieldValues : moments' = Append(moments, [moments[Now] EXCEPT ![f] = v])
      BY <2>1 DEF VaultMoves
    <3>2. moments[Now] \in [MarketFields -> FieldValues]
      BY <1>1 DEF EvidenceOK, Now
    <3>3. PICK moment \in [MarketFields -> FieldValues] : moment = [moments[Now] EXCEPT ![f] = v]
      BY <3>2
    <3>4. moments' = Append(moments, moment)
      BY <3>1, <3>3
    <3>5. storedBlock' = storedBlock /\ storedBlock \in 0..Now
      BY <2>1 DEF VaultMoves, EvidenceOK, MarketsTypeOK
    <3> QED BY <1>1, <3>4, <3>5 DEF Now
  <2>2. CASE BlockIsIngested
    BY <1>1, <2>2 DEF BlockIsIngested, Now, EvidenceOK, MarketsTypeOK
  <2> QED BY <2>1, <2>2
<1>3. UNCHANGED <<passes, passesBegun, unreadable, marketSnapshots, reconciliationRuns, rewardSnapshots,
                  priceSnapshots, reportedHealthy>>
  BY DEF VaultMoves, BlockIsIngested
<1>4. ASSUME NEW a \in 1..Now, NEW b, NEW f, NEW v, Seen(a, b, f, v) PROVE Seen(a, b, f, v)'
  <2>1. PICK m \in a..Now : m >= b /\ moments[m][f] = v
    BY <1>4 DEF Seen
  <2>2. m \in a..Now' /\ moments'[m][f] = v
    BY <1>1, <1>2, <2>1
  <2> QED BY <2>1, <2>2 DEF Seen
<1>5. ASSUME NEW p \in MarketProcesses PROVE PassDated(passes[p])'
  <2>1. PassDated(passes[p]) /\ passes[p] \in MarketPass
    BY DEF EvidenceOK
  <2>2. passes'[p] = passes[p]
    BY <1>3
  <2>3. PICK pass \in MarketPass : pass = passes[p]
    BY <2>1
  <2>4. ASSUME NEW f \in MarketFields, pass.value[f] \notin {UnknownValue, NotRead}
        PROVE  Seen(pass.at, pass.block, f, pass.value[f])'
    <3>1. pass.at \in 1..Now
      BY <2>1, <2>3, <2>4 DEF PassDated, NothingRead, MarketPass, MarketStages
    <3> QED BY <1>4, <2>1, <2>3, <2>4, <3>1 DEF PassDated
  <2>5. pass.stage # "rests" => pass.at \in 1..Now' /\ pass.block <= Now'
    BY <1>1, <1>2, <2>1, <2>3 DEF PassDated, MarketPass
  <2> QED BY <1>3, <2>1, <2>2, <2>3, <2>4, <2>5 DEF PassDated
<1>6. ASSUME NEW i \in DOMAIN marketSnapshots' PROVE Dated(marketSnapshots[i])'
  <2>1. Dated(marketSnapshots[i]) /\ marketSnapshots'[i] = marketSnapshots[i]
    BY <1>3, <1>6 DEF EvidenceOK
  <2> QED BY <1>1, <1>2, <1>4, <2>1 DEF Dated
<1>7. MarketsTypeOK' /\ passes' \in [MarketProcesses -> MarketPass] /\ Now' >= 1
  BY <1>1, <1>2, <1>3 DEF EvidenceOK, MarketsTypeOK
<1> QED BY <1>3, <1>5, <1>6, <1>7 DEF EvidenceOK

\* A pass moves to what is dated; the other passes stay, and no table of snapshots is emptied.
LEMMA PassesStayDated ==
  ASSUME EvidenceOK, NEW p \in MarketProcesses, NEW pass \in MarketPass, PassMoves(p, pass), PassDated(pass),
         marketSnapshots # <<>> => marketSnapshots' # <<>>
  PROVE  /\ passes' \in [MarketProcesses -> MarketPass]
         /\ \A q \in MarketProcesses : PassDated(passes[q])'
<1>1. moments' = moments /\ passes' = [passes EXCEPT ![p] = pass]
  BY DEF PassMoves
<1>2. passes' \in [MarketProcesses -> MarketPass]
  BY <1>1 DEF EvidenceOK
<1>3. ASSUME NEW q \in MarketProcesses PROVE PassDated(passes[q])'
  <2>1. PICK old : old = passes'[q]
    OBVIOUS
  <2>2. PassDated(old)
    BY <1>1, <2>1 DEF EvidenceOK
  <2> QED BY <1>1, <2>1, <2>2 DEF PassDated, Seen, Now
<1> QED BY <1>2, <1>3

\* A pass that writes no snapshot and no report keeps the evidence dated.
LEMMA QuietPass ==
  ASSUME EvidenceOK, NEW p \in MarketProcesses, NEW pass \in MarketPass, PassMoves(p, pass), PassDated(pass),
         marketSnapshots' = marketSnapshots, reportedHealthy' => reportedHealthy \/ marketSnapshots # <<>>,
         MarketsTypeOK'
  PROVE  EvidenceOK'
<1>1. moments' = moments
  BY DEF PassMoves
<1>2. \A i \in DOMAIN marketSnapshots' : Dated(marketSnapshots[i])'
  BY <1>1 DEF EvidenceOK, Dated, Seen, Now
<1> QED BY <1>1, <1>2, PassesStayDated DEF EvidenceOK, Now

\* The types of the passes as MarketsTypeOK states them.
LEMMA PassTypes ==
  ASSUME NEW q \in [MarketProcesses -> MarketPass]
  PROVE  \A p \in MarketProcesses :
           /\ q[p].stage \in {"rests", "begun", "reads", "compares", "rewards", "prices"}
           /\ q[p].projected \in SnapshotRows
           /\ \A f \in MarketFields : q[p].value[f] \in FieldValues \union {UnknownValue, NotRead}
  BY DEF MarketPass, MarketStages, Readings

\* A pass at rest has read nothing.
LEMMA RestingPass == AtRest \in MarketPass /\ PassDated(AtRest)
<1>1. NothingRead \in [MarketFields -> Readings] /\ NoSnapshot \in SnapshotRows
  BY DEF NothingRead, Readings, NoSnapshot, SnapshotRows, MarketReadings, NoBlockRef
<1>2. AtRest \in MarketPass
  BY <1>1 DEF AtRest, MarketPass, MarketStages, NoBlockRef
<1>3. AtRest.stage = "rests" /\ AtRest.value = NothingRead /\ AtRest.projected = NoSnapshot
  BY DEF AtRest
<1> QED BY <1>2, <1>3 DEF PassDated, NothingRead

\* A pass is begun, or reads the rows it starts from.
LEMMA PassBegins ==
  ASSUME EvidenceOK, NEW p \in MarketProcesses, BeginPass(p) \/ ReadRows(p)
  PROVE  EvidenceOK'
<1>0. /\ Now \in Nat /\ Now >= 1 /\ NothingRead \in [MarketFields -> Readings]
      /\ storedBlock \in Nat /\ storedBlock <= Now /\ LatestSnapshot \in SnapshotRows /\ NoSnapshot \in SnapshotRows
  <2>1. NoSnapshot \in SnapshotRows
    BY DEF NoSnapshot, SnapshotRows, MarketReadings, NoBlockRef
  <2>2. LatestSnapshot \in SnapshotRows
    BY <2>1, ShownRow DEF EvidenceOK, MarketsTypeOK
  <2>3. Now \in Nat /\ storedBlock \in 0..Now /\ Now >= 1
    BY DEF EvidenceOK, MarketsTypeOK, Now
  <2> QED BY <2>1, <2>2, <2>3 DEF NothingRead, Readings
<1>1. CASE BeginPass(p)
  <2> DEFINE pass == [AtRest EXCEPT !.at = Now, !.stage = "begun"]
  <2>1. PassMoves(p, pass) /\ UNCHANGED <<unreadable, marketSnapshots, reconciliationRuns, rewardSnapshots, priceSnapshots, reportedHealthy>>
    BY <1>1 DEF BeginPass, TablesStay
  <2>2. /\ pass.at = Now /\ pass.stage = "begun" /\ pass.block = NoBlockRef /\ pass.projected = NoSnapshot
        /\ pass.value = NothingRead
    BY DEF AtRest
  <2>3. pass \in MarketPass
    BY <1>0, RestingPass DEF MarketPass, MarketStages
  <2> HIDE DEF pass
  <2>4. PassDated(pass)
    BY <1>0, <2>2 DEF PassDated, NoBlockRef, NothingRead
  <2>5. passes' \in [MarketProcesses -> MarketPass]
    BY <2>1, <2>3 DEF PassMoves, EvidenceOK
  <2>6. passesBegun' \in 0..MaxPasses /\ UNCHANGED <<moments, storedBlock>>
    BY <1>1, MarketsAssumption DEF BeginPass, PassMoves, EvidenceOK, MarketsTypeOK
  <2>7. MarketsTypeOK'
    BY <2>1, <2>5, <2>6, PassTypes DEF EvidenceOK, MarketsTypeOK, Now
  <2> QED BY <2>1, <2>3, <2>4, <2>7, QuietPass
<1>2. CASE ReadRows(p)
  <2>0. PICK projected \in SnapshotRows : /\ projected = IF p = "observer" THEN NoSnapshot ELSE LatestSnapshot
                                          /\ projected # NoSnapshot => marketSnapshots # <<>>
    BY <1>0, ShownRow
  <2>1. PICK old \in MarketPass : old = passes[p] /\ PassDated(old) /\ old.stage = "begun"
    BY <1>2 DEF EvidenceOK, ReadRows
  <2> DEFINE pass == [old EXCEPT !.stage = "reads", !.block = storedBlock, !.projected = projected]
  <2>2. PassMoves(p, pass) /\ UNCHANGED <<passesBegun, unreadable, marketSnapshots, reconciliationRuns, rewardSnapshots, priceSnapshots, reportedHealthy>>
    BY <1>2, <2>0, <2>1 DEF ReadRows, TablesStay
  <2>3. pass \in MarketPass
    BY <1>0 DEF MarketPass, MarketStages
  <2>4. PassDated(pass)
    <3>1. old.value = NothingRead /\ old.at \in 1..Now
      BY <2>1 DEF PassDated
    <3>2. pass.at = old.at /\ pass.block = storedBlock /\ pass.value = NothingRead /\ pass.stage = "reads" /\ pass.projected = projected
      BY <3>1 DEF MarketPass
    <3> HIDE DEF pass
    <3> QED BY <1>0, <2>0, <3>1, <3>2 DEF PassDated, NothingRead
  <2> HIDE DEF pass
  <2>5. passes' \in [MarketProcesses -> MarketPass]
    BY <2>2, <2>3 DEF PassMoves, EvidenceOK
  <2>6. MarketsTypeOK'
    BY <2>2, <2>5, PassTypes DEF EvidenceOK, MarketsTypeOK, Now, PassMoves
  <2> QED BY <2>2, <2>3, <2>4, <2>6, QuietPass
<1> QED BY <1>1, <1>2

\* A read finds the vault of its own moment, which is no earlier than the pass, or nothing.
LEMMA PassReads ==
  ASSUME EvidenceOK, NEW p \in MarketProcesses, NEW f \in MarketFields, ReadField(p, f)
  PROVE  EvidenceOK'
<1>0. Now \in Nat /\ Now >= 1 /\ moments[Now] \in [MarketFields -> FieldValues]
  BY DEF EvidenceOK, MarketsTypeOK, Now
<1>1. PICK old \in MarketPass : old = passes[p] /\ PassDated(old) /\ old.stage = "reads"
  BY DEF EvidenceOK, ReadField
<1>2. old.at \in 1..Now /\ old.block <= Now
  BY <1>1 DEF PassDated
<1>3. PICK value \in [MarketFields -> Readings] :
        /\ passes' = [passes EXCEPT ![p] = [old EXCEPT !.value = value]]
        /\ \A g \in MarketFields : value[g] \in {old.value[g], UnknownValue} \/ value[g] = moments[Now][g]
  <2>1. CASE PassMoves(p, [passes[p] EXCEPT !.value[f] = moments[Now][f]])
    <3>1. PICK v \in FieldValues : v = moments[Now][f]
      BY <1>0
    <3>2. PICK value \in [MarketFields -> Readings] : value = [old.value EXCEPT ![f] = v]
      BY DEF MarketPass, Readings
    <3>3. [passes[p] EXCEPT !.value[f] = moments[Now][f]] = [old EXCEPT !.value = value]
      BY <1>1, <3>1, <3>2 DEF MarketPass
    <3>4. \A g \in MarketFields : value[g] = old.value[g] \/ value[g] = moments[Now][g]
      BY <3>1, <3>2 DEF MarketPass
    <3> QED BY <2>1, <3>3, <3>4 DEF PassMoves
  <2>2. CASE \E lost \in {{f}, MarketFields} :
               PassMoves(p, [passes[p] EXCEPT !.value = [g \in MarketFields |-> IF g \in lost THEN UnknownValue ELSE @[g]]])
    <3>1. PICK lost : PassMoves(p, [old EXCEPT !.value = [g \in MarketFields |-> IF g \in lost THEN UnknownValue ELSE @[g]]])
      BY <1>1, <2>2
    <3>2. PICK value \in [MarketFields -> Readings] : value = [g \in MarketFields |-> IF g \in lost THEN UnknownValue ELSE old.value[g]]
      BY DEF MarketPass, Readings
    <3> QED BY <3>1, <3>2 DEF PassMoves, MarketPass
  <2> QED BY <2>1, <2>2 DEF ReadField
<1> DEFINE pass == [old EXCEPT !.value = value]
<1>4. pass \in MarketPass /\ pass.at = old.at /\ pass.block = old.block /\ pass.value = value
      /\ pass.stage = "reads" /\ pass.projected = old.projected
  BY <1>1 DEF MarketPass
<1>5. PassMoves(p, pass)
  BY <1>3 DEF ReadField, PassMoves
<1> HIDE DEF pass
<1>6. PassDated(pass)
  <2>1. ASSUME NEW g \in MarketFields, value[g] \notin {UnknownValue, NotRead}
        PROVE  Seen(pass.at, pass.block, g, value[g])
    <3>1. CASE value[g] = old.value[g]
      BY <1>1, <1>4, <2>1, <3>1 DEF PassDated
    <3>2. CASE value[g] = moments[Now][g]
      <4>1. Now \in pass.at..Now /\ Now >= pass.block
        BY <1>0, <1>2, <1>4 DEF MarketPass
      <4> QED BY <3>2, <4>1 DEF Seen
    <3> QED BY <1>3, <2>1, <3>1, <3>2
  <2> QED BY <1>1, <1>2, <1>4, <2>1 DEF PassDated
<1>7. passes' \in [MarketProcesses -> MarketPass]
  BY <1>4, <1>5 DEF PassMoves, EvidenceOK
<1>8. unreadable' \in 0..MaxUnreadable
      /\ UNCHANGED <<passesBegun, marketSnapshots, reconciliationRuns, rewardSnapshots, priceSnapshots, reportedHealthy>>
  BY MarketsAssumption DEF ReadField, TablesStay, EvidenceOK, MarketsTypeOK
<1>9. MarketsTypeOK'
  BY <1>5, <1>7, <1>8, PassTypes DEF EvidenceOK, MarketsTypeOK, Now, PassMoves
<1> QED BY <1>4, <1>5, <1>6, <1>8, <1>9, QuietPass

\* A stored row has been read in every field, and it is dated by the pass that read it.
LEMMA RowIsDated ==
  ASSUME EvidenceOK, NEW p \in MarketProcesses, AllRead(p)
  PROVE  MarketSnapshot(passes[p]) \in SnapshotRows /\ Dated(MarketSnapshot(passes[p]))
<1>1. PICK old \in MarketPass : old = passes[p] /\ PassDated(old) /\ old.stage = "reads"
  BY DEF EvidenceOK, AllRead
<1>2. old.value \in MarketReadings
  BY <1>1 DEF AllRead, MarketPass, Readings, MarketReadings
<1>3. PICK row : row = [observedAt |-> old.at, block |-> old.block, value |-> old.value]
  OBVIOUS
<1>4. row \in SnapshotRows /\ row.observedAt = old.at /\ row.block = old.block /\ row.value = old.value
  BY <1>2, <1>3 DEF SnapshotRows, MarketPass
<1>5. \A f \in MarketFields : old.value[f] # NotRead
  BY <1>1 DEF AllRead
<1>6. Dated(row)
  BY <1>1, <1>4, <1>5 DEF Dated, PassDated
<1> QED BY <1>1, <1>3, <1>4, <1>6 DEF MarketSnapshot, SnapshotOf

\* A pass at a later stage is as dated as it was.
LEMMA StageMoves ==
  ASSUME NEW pass \in MarketPass, PassDated(pass), pass.stage # "rests", NEW stage \in {"compares", "rewards", "prices"}
  PROVE  [pass EXCEPT !.stage = stage] \in MarketPass /\ PassDated([pass EXCEPT !.stage = stage])
<1>1. PICK next : next = [pass EXCEPT !.stage = stage]
  OBVIOUS
<1>2. /\ next \in MarketPass /\ next.stage = stage /\ next.at = pass.at /\ next.block = pass.block
      /\ next.value = pass.value /\ next.projected = pass.projected
  BY <1>1 DEF MarketPass, MarketStages
<1> QED BY <1>1, <1>2 DEF PassDated

\* insertMarketSnapshot adds a dated row or none, and no two rows of one time.
LEMMA PassInserts ==
  ASSUME EvidenceOK, NEW p \in MarketProcesses, InsertSnapshot(p)
  PROVE  EvidenceOK'
<1>1. PICK row \in SnapshotRows : row = MarketSnapshot(passes[p]) /\ Dated(row)
  BY RowIsDated DEF InsertSnapshot
<1>2. PICK stage \in {"compares", "rewards"} : PassMoves(p, [passes[p] EXCEPT !.stage = stage])
  BY DEF InsertSnapshot
<1>3. PICK pass \in MarketPass : PassMoves(p, pass) /\ PassDated(pass)
  <2>1. passes[p] \in MarketPass /\ PassDated(passes[p]) /\ passes[p].stage # "rests"
    BY DEF EvidenceOK, InsertSnapshot, AllRead
  <2> QED BY <1>2, <2>1, StageMoves
<1>4. marketSnapshots \in Seq(SnapshotRows) /\ moments' = moments
  BY <1>3 DEF EvidenceOK, MarketsTypeOK, PassMoves
<1>5. /\ marketSnapshots' \in Seq(SnapshotRows)
      /\ \A i, j \in DOMAIN marketSnapshots' : i # j => marketSnapshots'[i].observedAt # marketSnapshots'[j].observedAt
      /\ marketSnapshots # <<>> => marketSnapshots' # <<>>
      /\ \A i \in DOMAIN marketSnapshots' : marketSnapshots'[i] = row \/ \E j \in DOMAIN marketSnapshots : marketSnapshots'[i] = marketSnapshots[j]
  <2>0. \A i, j \in DOMAIN marketSnapshots : i # j => marketSnapshots[i].observedAt # marketSnapshots[j].observedAt
    BY DEF EvidenceOK, MarketsTypeOK
  <2>1. CASE marketSnapshots' = marketSnapshots
    BY <1>4, <2>0, <2>1
  <2>2. CASE /\ \A i \in DOMAIN marketSnapshots : marketSnapshots[i].observedAt # row.observedAt
             /\ marketSnapshots' = Append(marketSnapshots, row)
    <3>1. PICK rows \in Seq(SnapshotRows) : rows = marketSnapshots
      BY <1>4
    <3>2. /\ Append(rows, row) \in Seq(SnapshotRows) /\ DOMAIN Append(rows, row) = 1..(Len(rows) + 1)
          /\ Append(rows, row)[Len(rows) + 1] = row /\ \A i \in 1..Len(rows) : Append(rows, row)[i] = rows[i]
          /\ Len(rows) \in Nat /\ DOMAIN rows = 1..Len(rows) /\ Append(rows, row) # <<>>
      OBVIOUS
    <3>3. marketSnapshots' = Append(rows, row)
      BY <2>2, <3>1
    <3>4. ASSUME NEW i \in DOMAIN Append(rows, row) PROVE i \in DOMAIN rows \/ i = Len(rows) + 1
      BY <3>2
    <3> QED BY <2>0, <2>2, <3>1, <3>2, <3>3, <3>4
  <2>3. marketSnapshots' = marketSnapshots
        \/ (/\ \A i \in DOMAIN marketSnapshots : marketSnapshots[i].observedAt # row.observedAt
            /\ marketSnapshots' = Append(marketSnapshots, row))
    BY <1>1 DEF InsertSnapshot
  <2> QED BY <2>1, <2>2, <2>3
<1>6. \A i \in DOMAIN marketSnapshots' : Dated(marketSnapshots[i])'
  BY <1>1, <1>4, <1>5 DEF EvidenceOK, Dated, Seen, Now
<1>7. UNCHANGED <<storedBlock, passesBegun, unreadable, reconciliationRuns, rewardSnapshots, priceSnapshots, reportedHealthy>>
  BY <1>3 DEF InsertSnapshot, PassMoves
<1>8. passes' \in [MarketProcesses -> MarketPass] /\ \A q \in MarketProcesses : PassDated(passes[q])'
  BY <1>3, <1>5, PassesStayDated
<1>9. MarketsTypeOK'
  BY <1>4, <1>5, <1>7, <1>8, PassTypes DEF EvidenceOK, MarketsTypeOK, Now
<1> QED BY <1>4, <1>5, <1>6, <1>7, <1>8, <1>9 DEF EvidenceOK, Now

\* The rest of a pass writes its other tables, or ends it.
LEMMA PassEnds ==
  ASSUME EvidenceOK, NEW p \in MarketProcesses, RecordRun(p) \/ WriteRewards(p) \/ WritePrices(p)
  PROVE  EvidenceOK'
<1>1. PICK old \in MarketPass : old = passes[p] /\ PassDated(old)
  BY DEF EvidenceOK
<1>2. PICK pass \in MarketPass : PassMoves(p, pass) /\ PassDated(pass)
  <2>1. PICK stage \in {"rewards", "prices"} : PassMoves(p, [old EXCEPT !.stage = stage]) \/ PassMoves(p, AtRest)
    BY <1>1 DEF RecordRun, WriteRewards, WritePrices
  <2>2. old.stage # "rests"
    BY <1>1 DEF RecordRun, WriteRewards, WritePrices, AllRead
  <2> QED BY <1>1, <2>1, <2>2, StageMoves, RestingPass
<1>3. UNCHANGED <<moments, storedBlock, passesBegun, unreadable, marketSnapshots, reportedHealthy>>
  BY <1>2 DEF PassMoves, RecordRun, WriteRewards, WritePrices
<1>4. passes' \in [MarketProcesses -> MarketPass]
  BY <1>2 DEF PassMoves, EvidenceOK
<1>5. passes[p].at \in Nat
  BY <1>1 DEF MarketPass
<1>6. /\ reconciliationRuns' \in Seq([runAt : Nat, status : {"match", "mismatch", "unavailable"}])
      /\ rewardSnapshots' \in Seq([observedAt : Nat, warns : BOOLEAN]) /\ priceSnapshots' \subseteq Nat
  <2>0. /\ reconciliationRuns \in Seq([runAt : Nat, status : {"match", "mismatch", "unavailable"}])
        /\ rewardSnapshots \in Seq([observedAt : Nat, warns : BOOLEAN]) /\ priceSnapshots \subseteq Nat
    BY DEF EvidenceOK, MarketsTypeOK
  <2>1. CASE RecordRun(p)
    <3>1. PICK status \in {"match", "mismatch", "unavailable"} : status = RunStatus(passes[p].projected.value, passes[p].value)
      BY DEF RunStatus
    <3>2. PICK run : run = [runAt |-> passes[p].at, status |-> status]
      OBVIOUS
    <3>3. run \in [runAt : Nat, status : {"match", "mismatch", "unavailable"}]
      BY <1>5, <3>2
    <3>4. reconciliationRuns' = Append(reconciliationRuns, run) /\ UNCHANGED <<rewardSnapshots, priceSnapshots>>
      BY <2>1, <3>1, <3>2 DEF RecordRun
    <3> QED BY <2>0, <3>3, <3>4
  <2>2. CASE WriteRewards(p)
    <3>1. PICK warns \in BOOLEAN :
            \/ rewardSnapshots' = rewardSnapshots
            \/ rewardSnapshots' = Append(rewardSnapshots, [observedAt |-> passes[p].at, warns |-> warns])
      BY <2>2 DEF WriteRewards
    <3>2. PICK row \in [observedAt : Nat, warns : BOOLEAN] : row = [observedAt |-> passes[p].at, warns |-> warns]
      BY <1>5
    <3>3. UNCHANGED <<reconciliationRuns, priceSnapshots>>
      BY <2>2 DEF WriteRewards
    <3>4. rewardSnapshots' = rewardSnapshots \/ rewardSnapshots' = Append(rewardSnapshots, row)
      BY <3>1, <3>2
    <3>5. rewardSnapshots' \in Seq([observedAt : Nat, warns : BOOLEAN])
      <4>1. PICK R : R = [observedAt : Nat, warns : BOOLEAN]
        OBVIOUS
      <4>2. row \in R /\ rewardSnapshots \in Seq(R)
        BY <2>0, <4>1
      <4>3. rewardSnapshots' \in Seq(R)
        BY <3>4, <4>2
      <4> QED BY <4>1, <4>3
    <3> QED BY <2>0, <3>3, <3>5
  <2>3. CASE WritePrices(p)
    BY <1>5, <2>0, <2>3 DEF WritePrices
  <2> QED BY <2>1, <2>2, <2>3
<1>7. MarketsTypeOK'
  BY <1>3, <1>4, <1>6, PassTypes DEF EvidenceOK, MarketsTypeOK, Now
<1> QED BY <1>2, <1>3, <1>7, QuietPass

\* The audit reports health only over a projection that was read, so there is a row.
LEMMA AuditReports ==
  ASSUME EvidenceOK, ReportAudit
  PROVE  EvidenceOK'
<1>1. "audit" \in MarketProcesses /\ PassMoves("audit", AtRest) /\ PassDated(passes["audit"])
  BY DEF ReportAudit, EvidenceOK, MarketProcesses
<1>2. reportedHealthy' \in BOOLEAN /\ (reportedHealthy' => marketSnapshots # <<>>)
  BY <1>1 DEF ReportAudit, PassDated
<1>3. UNCHANGED <<moments, storedBlock, passesBegun, unreadable, marketSnapshots, reconciliationRuns, rewardSnapshots, priceSnapshots>>
  BY <1>1 DEF ReportAudit, PassMoves
<1>4. passes' \in [MarketProcesses -> MarketPass]
  BY <1>1, RestingPass DEF PassMoves, EvidenceOK
<1>5. MarketsTypeOK'
  BY <1>2, <1>3, <1>4, PassTypes DEF EvidenceOK, MarketsTypeOK, Now
<1> QED BY <1>1, <1>2, <1>3, <1>5, RestingPass, QuietPass

\* However passes overlap and fail, the age and the block a market is shown with are never better than the
\* truth, high confidence and a projection stand on fields that were read, and a healthy audit has evidence
\* behind it (marketSnapshot, getMarketEvidence, auditProjections; EvidenceIsDated).
THEOREM EvidenceStaysDated == MarketsSpec => [](MarketsTypeOK /\ EvidenceIsDated)
<1>1. MarketsInit => EvidenceOK
  <2> SUFFICES ASSUME MarketsInit PROVE EvidenceOK
    OBVIOUS
  <2>1. PICK first \in [MarketFields -> FieldValues] : moments = <<first>>
    BY MarketsAssumption DEF MarketsInit
  <2>2. moments \in Seq([MarketFields -> FieldValues]) /\ Now = 1
    BY <2>1 DEF Now
  <2>3. passes \in [MarketProcesses -> MarketPass] /\ \A p \in MarketProcesses : PassDated(passes[p])
    BY RestingPass DEF MarketsInit
  <2>4. /\ marketSnapshots \in Seq(SnapshotRows) /\ DOMAIN marketSnapshots = {}
        /\ reconciliationRuns \in Seq([runAt : Nat, status : {"match", "mismatch", "unavailable"}])
        /\ rewardSnapshots \in Seq([observedAt : Nat, warns : BOOLEAN])
    BY DEF MarketsInit
  <2>5. storedBlock \in 0..Now /\ passesBegun \in 0..MaxPasses /\ unreadable \in 0..MaxUnreadable
        /\ reportedHealthy = FALSE /\ priceSnapshots \subseteq Nat
    BY <2>2, MarketsAssumption DEF MarketsInit
  <2>6. \A i, j \in DOMAIN marketSnapshots : i # j => marketSnapshots[i].observedAt # marketSnapshots[j].observedAt
    BY <2>4
  <2>7. MarketsTypeOK
    BY <2>2, <2>3, <2>4, <2>5, <2>6, PassTypes DEF MarketsTypeOK
  <2> QED BY <2>2, <2>3, <2>4, <2>5, <2>7 DEF EvidenceOK
<1>2. EvidenceOK /\ [MarketsNext]_snapshotVars => EvidenceOK'
  <2> SUFFICES ASSUME EvidenceOK, [MarketsNext]_snapshotVars PROVE EvidenceOK'
    OBVIOUS
  <2>1. CASE UNCHANGED snapshotVars
    BY <2>1 DEF EvidenceOK, MarketsTypeOK, PassDated, Dated, Seen, Now, snapshotVars
  <2>2. CASE VaultMoves \/ BlockIsIngested
    BY <2>2, WorldKeepsEvidence
  <2>3. ASSUME NEW p \in MarketProcesses,
               BeginPass(p) \/ ReadRows(p) \/ InsertSnapshot(p) \/ RecordRun(p) \/ WriteRewards(p) \/ WritePrices(p)
        PROVE  EvidenceOK'
    BY <2>3, PassBegins, PassInserts, PassEnds
  <2>4. ASSUME NEW p \in MarketProcesses, NEW f \in MarketFields, ReadField(p, f) PROVE EvidenceOK'
    BY <2>4, PassReads
  <2>5. CASE ReportAudit
    BY <2>5, AuditReports
  <2> QED BY <2>1, <2>2, <2>3, <2>4, <2>5 DEF MarketsNext
<1>3. EvidenceOK => MarketsTypeOK /\ EvidenceIsDated
  BY DatedEvidence DEF EvidenceOK
<1> QED BY <1>1, <1>2, <1>3, PTL DEF MarketsSpec

---------------------------------------------------------------------------
(* Effects: what a workflow is judged by. *)

SomeEvent == VaultEvents \union MarketEvents \union {Silent}
StoredEvent == [raw : BOOLEAN, activity : BOOLEAN, attributed : BOOLEAN, canonical : BOOLEAN]

PromiseIsKept(p) ==
  /\ p.action \in FlowActions /\ p.asset = ExpectedAsset(p.action)
  /\ p.quantity \in EffectAmounts /\ p.minimum \in EffectAmounts /\ p.to \in Someone
  /\ p.action \in {"granite_withdraw", "granite_borrow"} => p.minimum = p.quantity

\* Only the steps of the plan execute, and what is stored as canonical is on the chain.
EffectsOK ==
  /\ promise = NoPromise \/ (promise # NoPromise /\ PromiseIsKept(promise))
  /\ emitted \in [PlanSteps -> SomeEvent] /\ onChain \subseteq PlanSteps
  /\ eventRows \in [PlanSteps -> StoredEvent]
  /\ \A k \in PlanSteps : eventRows[k].canonical => k \in onChain
  /\ \A k \in PlanSteps : promise = NoPromise \/ k \notin StepsOf(promise.action) => emitted[k] = Silent

\* A sum over a map is the sum of its values.
LEMMA QuantitiesAdd ==
  ASSUME NEW R, IsFiniteSet(R), NEW c, c = [f \in R |-> f.moved.quantity]
  PROVE  MapThenSumSet(LAMBDA f : f.moved.quantity, R) = SumOf(R, c)
<1> DEFINE IsMapped(g) == g = [s \in SUBSET R |-> IF s = {} THEN 0 ELSE Pick(s).moved.quantity + g[s \ {Pick(s)}]]
<1>1. \A s \in SUBSET R : s # {} => Pick(s).moved.quantity = c[Pick(s)]
  BY PickIsMember
<1>2. \A g : [s \in SUBSET R |-> IF s = {} THEN 0 ELSE Pick(s).moved.quantity + g[s \ {Pick(s)}]]
             = [s \in SUBSET R |-> IF s = {} THEN 0 ELSE c[Pick(s)] + g[s \ {Pick(s)}]]
  BY <1>1
<1>3. \A g : IsMapped(g) <=> IsFold(R, c, g)
  BY <1>2 DEF IsFold
<1>4. (CHOOSE g : IsMapped(g)) = (CHOOSE g : IsFold(R, c, g))
  BY <1>3
<1>5. MapThenSumSet(LAMBDA f : f.moved.quantity, R) = (CHOOSE g : IsMapped(g))[R]
  BY DEF MapThenSumSet, MapThenFoldSet, Pick
<1> QED BY <1>4, <1>5, SumIsFold

\* At most one summand for each of two steps.
LEMMA TwoSummands ==
  ASSUME NEW R, NEW q \in [PlanSteps -> Nat], NEW c, c = [f \in R |-> f.moved.quantity],
         \A f \in R : f.of \in PlanSteps /\ f.moved.quantity = q[f.of],
         \A f, g \in R : f.of = g.of => f = g
  PROVE  /\ IsFiniteSet(R) /\ (\A f \in R : c[f] \in Nat)
         /\ SumOf(R, c) \in Nat /\ SumOf(R, c) <= q[1] + q[2]
<1> DEFINE Sum(T) == SumOf(T, c)
<1>1. Sum({}) = 0
  BY FS_EmptySet, SumSteps
<1>2. ASSUME NEW x \in R PROVE q[x.of] \in Nat /\ c[x] = q[x.of] /\ x.of \in {1, 2}
  BY DEF PlanSteps
<1>3. q[1] \in Nat /\ q[2] \in Nat
  BY DEF PlanSteps
<1>4. CASE R = {}
  BY <1>1, <1>3, <1>4, FS_EmptySet
<1>5. ASSUME NEW x \in R
      PROVE  IsFiniteSet({x}) /\ Sum({x}) = c[x]
  <2>1. IsFiniteSet({x}) /\ Pick({x}) = x
    BY FS_Singleton DEF Pick
  <2>2. {x} \ {Pick({x})} = {} /\ {x} # {}
    BY <2>1
  <2>3. Sum({x}) = c[Pick({x})] + Sum({x} \ {Pick({x})})
    BY <2>1, <2>2, SumSteps
  <2>4. Sum({x}) = c[x] + 0
    BY <1>1, <2>1, <2>2, <2>3
  <2>5. c[x] \in Nat
    BY <1>2
  <2> QED BY <2>1, <2>4, <2>5
<1>6. ASSUME NEW x \in R, NEW y \in R, x # y, R = {x, y}
      PROVE  IsFiniteSet(R) /\ Sum(R) = c[x] + c[y]
  <2>1. IsFiniteSet({x}) /\ IsFiniteSet({x, y})
    <3>1. IsFiniteSet({x} \cup {y})
      BY <1>5, FS_AddElement
    <3>2. {x} \cup {y} = {x, y}
      OBVIOUS
    <3> QED BY <1>5, <3>1, <3>2
  <2>2. \A z \in {x, y} : c[z] \in Nat
    BY <1>2
  <2>3. Sum({x} \cup {y}) = c[y] + Sum({x})
    BY <1>6, <2>1, <2>2, SumAdds
  <2>4. Sum({x}) = c[x]
    BY <1>5
  <2>5. {x} \cup {y} = R /\ c[x] \in Nat /\ c[y] \in Nat
    BY <1>6, <2>2
  <2>6. Sum(R) = c[y] + c[x]
    BY <2>3, <2>4, <2>5
  <2>7. IsFiniteSet(R)
    BY <1>6, <2>1
  <2> QED BY <2>5, <2>6, <2>7
<1> HIDE DEF Sum
<1>7. CASE \E x \in R : R = {x}
  <2>1. PICK x \in R : R = {x}
    BY <1>7
  <2>2. IsFiniteSet(R) /\ Sum(R) = c[x]
    BY <1>5, <2>1
  <2>3. Sum(R) \in Nat /\ Sum(R) <= q[1] + q[2]
    BY <1>2, <1>3, <2>2
  <2> QED BY <1>2, <2>2, <2>3 DEF Sum
<1>8. CASE \E x, y \in R : x # y
  <2>1. PICK x \in R, y \in R : x # y
    BY <1>8
  <2>2. x.of # y.of
    BY <2>1
  <2>3. \A z \in R : z.of = x.of \/ z.of = y.of
    BY <1>2, <2>2
  <2>4. R = {x, y}
    BY <2>3
  <2>5. IsFiniteSet(R) /\ Sum(R) = c[x] + c[y]
    BY <1>6, <2>1, <2>4
  <2>6. Sum(R) \in Nat /\ Sum(R) <= q[1] + q[2]
    BY <1>2, <1>3, <2>2, <2>5
  <2> QED BY <1>2, <2>5, <2>6 DEF Sum
<1> QED BY <1>4, <1>7, <1>8

LEMMA EffectBounds == MaxEffectAmount \in Nat \ {0} /\ EffectAmounts \subseteq Nat
BY EffectsAssumption DEF EffectAmounts

LEMMA EffectsStart ==
  ASSUME EffectsInit
  PROVE  EffectsOK
BY DEF EffectsInit, EffectsOK, NotStored, StoredEvent, SomeEvent

\* The quote: a promise made once.
LEMMA QuoteKeepsEffects ==
  ASSUME EffectsOK, QuoteAction
  PROVE  EffectsOK'
<1>1. PICK action \in FlowActions, quantity \in EffectAmounts, minimum \in EffectAmounts, to \in Someone :
        /\ promise = NoPromise
        /\ IF action \in {"zest_supply", "zest_withdraw", "swap"} THEN minimum <= quantity ELSE minimum = quantity
        /\ promise' = [action |-> action, asset |-> ExpectedAsset(action), quantity |-> quantity, minimum |-> minimum,
                       to |-> to]
  BY DEF QuoteAction
<1>2. PromiseIsKept(promise')
  BY <1>1 DEF PromiseIsKept
<1>3. promise' # NoPromise
  <2>1. action # "none"
    BY <1>1, EffectsAssumption
  <2>2. promise'.action = action /\ NoPromise.action = "none"
    BY <1>1 DEF NoPromise
  <2> QED BY <2>1, <2>2
<1>4. UNCHANGED <<emitted, onChain, eventRows>>
  BY DEF QuoteAction, chainOfEffects
<1> QED BY <1>1, <1>2, <1>3, <1>4 DEF EffectsOK

\* What a step's transaction emits is an event.
LEMMA PlannedAreEvents ==
  ASSUME PromiseIsKept(promise), NEW step \in PlanSteps, step \in StepsOf(promise.action)
  PROVE  PlannedEvents(step) \subseteq SomeEvent
<1>1. promise.action \in {"zest_supply", "zest_withdraw", "granite_supply", "granite_withdraw", "granite_borrow",
                          "granite_borrow_with_collateral", "granite_repay", "swap", "withdraw_sbtc"}
  BY EffectsAssumption DEF PromiseIsKept
<1>2. CASE promise.action \in {"swap", "withdraw_sbtc"}
  <2>1. PlannedEvents(step) = {Silent}
    BY <1>2 DEF PlannedEvents
  <2> QED BY <2>1 DEF SomeEvent
<1>3. CASE promise.action \in {"zest_supply", "zest_withdraw"}
  <2>1. PlannedEvents(step) \subseteq VaultEvents
    BY <1>3 DEF PlannedEvents
  <2> QED BY <2>1 DEF SomeEvent
<1>4. CASE promise.action \in {"granite_supply", "granite_withdraw", "granite_borrow", "granite_repay"}
  <2>1. PlannedEvents(step) \subseteq MarketEvents
    BY <1>4 DEF PlannedEvents
  <2> QED BY <2>1 DEF SomeEvent
<1>5. CASE promise.action = "granite_borrow_with_collateral"
  <2>1. step = 1 \/ step = 2
    BY DEF PlanSteps
  <2>2. PlannedEvents(step) \subseteq MarketEvents
    BY <1>5, <2>1 DEF PlannedEvents
  <2> QED BY <2>2 DEF SomeEvent
<1> QED BY <1>1, <1>2, <1>3, <1>4, <1>5

LEMMA ChainKeepsEffects ==
  ASSUME EffectsOK, NEW step \in PlanSteps, Executes(step) \/ ReportsTxid(step) \/ ConfirmsStep(step) \/ ForkTakes(step)
  PROVE  EffectsOK'
<1>1. CASE Executes(step)
  <2>1. /\ promise # NoPromise /\ step \in StepsOf(promise.action) /\ step \notin onChain
        /\ onChain' = onChain \union {step} /\ UNCHANGED <<promise, eventRows>>
    BY <1>1 DEF Executes
  <2>2. PICK event \in PlannedEvents(step) \union OtherEvents : emitted' = [emitted EXCEPT ![step] = event]
    BY <1>1 DEF Executes
  <2>3. PromiseIsKept(promise)
    BY <2>1 DEF EffectsOK
  <2>4. event \in SomeEvent
    <3>1. OtherEvents \subseteq SomeEvent
      BY DEF OtherEvents, SomeEvent
    <3> QED BY <2>1, <2>2, <2>3, <3>1, PlannedAreEvents
  <2> QED BY <2>1, <2>2, <2>3, <2>4 DEF EffectsOK
<1>2. CASE ReportsTxid(step) \/ ConfirmsStep(step)
  BY <1>2 DEF ReportsTxid, ConfirmsStep, chainOfEffects, EffectsOK
<1>3. CASE ForkTakes(step)
  <2>1. PICK row \in StoredEvent : row = eventRows[step]
    BY DEF EffectsOK
  <2>2. PICK new \in StoredEvent : new = [row EXCEPT !.canonical = FALSE] /\ new.canonical = FALSE
    <3> DEFINE dropped == [row EXCEPT !.canonical = FALSE]
    <3>1. dropped \in StoredEvent
      BY DEF StoredEvent
    <3>2. dropped.canonical = FALSE
      BY DEF StoredEvent
    <3> QED BY <3>1, <3>2
  <2>3. eventRows' = [eventRows EXCEPT ![step] = new] /\ onChain' = onChain \ {step} /\ UNCHANGED <<promise, emitted>>
    BY <1>3, <2>1, <2>2 DEF ForkTakes
  <2> QED BY <2>2, <2>3 DEF EffectsOK
<1> QED BY <1>1, <1>2, <1>3

LEMMA IngestionKeepsEffects ==
  ASSUME EffectsOK, LookAtEffect \/ RecordActivity \/ PageFails \/ \E contract \in {"v0-vault-sbtc", "v0-8-market"} : ReadEventPage(contract)
  PROVE  EffectsOK'
<1>1. UNCHANGED <<promise, emitted, onChain>>
  BY DEF LookAtEffect, RecordActivity, PageFails, ReadEventPage, chainOfEffects
<1>2. /\ eventRows' \in [PlanSteps -> StoredEvent]
      /\ \A k \in PlanSteps : eventRows'[k].canonical => eventRows[k].canonical \/ k \in onChain
  <2>1. CASE eventRows' = eventRows
    BY <2>1 DEF EffectsOK
  <2>2. ASSUME NEW k \in PlanSteps, NEW new \in StoredEvent, eventRows' = [eventRows EXCEPT ![k] = new],
               new.canonical => eventRows[k].canonical \/ k \in onChain
        PROVE  /\ eventRows' \in [PlanSteps -> StoredEvent]
               /\ \A j \in PlanSteps : eventRows'[j].canonical => eventRows[j].canonical \/ j \in onChain
    BY <2>2 DEF EffectsOK
  <2>3. CASE LookAtEffect
    <3>1. PICK k : k = Head(eventPage).step
      OBVIOUS
    <3>2. CASE k \in onChain /\ eventRows' = [eventRows EXCEPT ![k].raw = TRUE, ![k].canonical = TRUE]
      <4>1. k \in PlanSteps
        BY <3>2 DEF EffectsOK
      <4>2. PICK row \in StoredEvent : row = eventRows[k]
        BY <4>1 DEF EffectsOK
      <4>3. PICK new \in StoredEvent : new = [row EXCEPT !.raw = TRUE, !.canonical = TRUE]
        BY DEF StoredEvent
      <4>4. eventRows' = [eventRows EXCEPT ![k] = new]
        BY <3>2, <4>1, <4>2, <4>3 DEF EffectsOK
      <4> QED BY <2>2, <3>2, <4>1, <4>4
    <3> QED BY <2>1, <2>3, <3>1, <3>2 DEF LookAtEffect
  <2>4. CASE RecordActivity
    <3>1. PICK k : k = Head(eventPage).step
      OBVIOUS
    <3>2. eventRows' = [eventRows EXCEPT ![k].activity = TRUE, ![k].attributed = k \in reportedSteps]
      BY <2>4, <3>1 DEF RecordActivity
    <3>3. CASE k \notin PlanSteps
      <4>1. eventRows' = eventRows
        BY <3>2, <3>3 DEF EffectsOK
      <4> QED BY <2>1, <4>1
    <3>4. CASE k \in PlanSteps
      <4>1. PICK row \in StoredEvent : row = eventRows[k]
        BY <3>4 DEF EffectsOK
      <4>2. PICK reported \in BOOLEAN : reported = (k \in reportedSteps)
        <5>1. (k \in reportedSteps) \in BOOLEAN
          OBVIOUS
        <5> QED BY <5>1, Zenon
      <4>3. PICK new \in StoredEvent : new = [row EXCEPT !.activity = TRUE, !.attributed = reported] /\ new.canonical = row.canonical
        <5> DEFINE attributed == [row EXCEPT !.activity = TRUE, !.attributed = reported]
        <5>1. attributed \in StoredEvent
          BY DEF StoredEvent
        <5>2. attributed.canonical = row.canonical
          BY DEF StoredEvent
        <5> QED BY <5>1, <5>2
      <4>4. eventRows' = [eventRows EXCEPT ![k] = new]
        BY <3>2, <3>4, <4>1, <4>2, <4>3 DEF EffectsOK
      <4> QED BY <2>2, <3>4, <4>1, <4>3, <4>4
    <3> QED BY <3>3, <3>4
  <2>5. CASE PageFails \/ \E contract \in {"v0-vault-sbtc", "v0-8-market"} : ReadEventPage(contract)
    BY <2>1, <2>5 DEF PageFails, ReadEventPage
  <2> QED BY <2>3, <2>4, <2>5
<1> QED BY <1>1, <1>2 DEF EffectsOK

\* The chain's gift to the owner in a step is a quantity, and is what the decoders read of the step.
LEMMA GiftIsWhole ==
  ASSUME EffectsOK, NEW k \in PlanSteps
  PROVE  GivenToOwner(k) \in Nat
<1>1. emitted[k] \in SomeEvent
  BY DEF EffectsOK
<1>2. CASE emitted[k] = Silent
  BY <1>2 DEF GivenToOwner
<1>3. CASE emitted[k] \in VaultEvents
  BY <1>3, EffectBounds DEF GivenToOwner, VaultEvents
<1>4. CASE emitted[k] \in MarketEvents
  BY <1>4, EffectBounds DEF GivenToOwner, MarketEvents
<1> QED BY <1>1, <1>2, <1>3, <1>4 DEF SomeEvent

LEMMA ReceiptIsGift ==
  ASSUME EffectsOK, NEW k \in PlanSteps, k \in onChain, NEW m \in EffectsOf(emitted[k]),
         m.direction = "in", m.asset = promise.asset, m.owner = "owner"
  PROVE  m = [direction |-> "in", asset |-> promise.asset, quantity |-> GivenToOwner(k), owner |-> "owner"]
<1>1. PICK e \in SomeEvent : e = emitted[k]
  BY DEF EffectsOK
<1>2. e # Silent
  BY <1>1 DEF EffectsOf
<1>3. CASE e \in VaultEvents
  <2>1. e.on = "v0-vault-sbtc" /\ e.act \in {"deposit", "redeem", "system-borrow"}
    BY <1>3 DEF VaultEvents
  <2>2. m \in VaultEffects(e)
    BY <1>1, <1>2, <2>1 DEF EffectsOf
  <2>3. CASE e.act = "deposit"
    <3>1. m = [direction |-> "in", asset |-> "zsbtc", quantity |-> e.shares, owner |-> e.who]
      BY <2>2, <2>3 DEF VaultEffects, DepositEffects, Effect
    <3> QED BY <1>1, <1>2, <2>3, <3>1 DEF GivenToOwner
  <2>4. CASE e.act = "redeem"
    <3>1. m = [direction |-> "in", asset |-> "sbtc", quantity |-> e.assets, owner |-> e.who]
      BY <2>2, <2>4 DEF VaultEffects, Effect
    <3> QED BY <1>1, <1>2, <2>4, <3>1 DEF GivenToOwner
  <2>5. CASE e.act = "system-borrow"
    BY <2>2, <2>5 DEF VaultEffects
  <2> QED BY <2>1, <2>3, <2>4, <2>5
<1>4. CASE e \in MarketEvents
  <2>1. e.on = "v0-8-market" /\ e.act \in {"collateral-add", "collateral-remove", "borrow", "repay"}
    BY <1>4 DEF MarketEvents
  <2>2. m \in MarketEffects(e)
    BY <1>1, <1>2, <2>1 DEF EffectsOf
  <2>3. e.act \in {"collateral-remove", "borrow"}
        /\ m = [direction |-> "in", asset |-> e.asset, quantity |-> e.assets, owner |-> e.who]
    BY <2>1, <2>2 DEF MarketEffects, Effect
  <2> QED BY <1>1, <1>2, <2>3 DEF GivenToOwner
<1> QED BY <1>1, <1>2, <1>3, <1>4 DEF SomeEvent

\* What was received: a summand a step, each the step's gift.
LEMMA ReceivedIsGiven ==
  ASSUME EffectsOK
  PROVE  /\ IsFiniteSet(Received)
         /\ MapThenSumSet(LAMBDA f : f.moved.quantity, Received) \in Nat
         /\ MapThenSumSet(LAMBDA f : f.moved.quantity, Received) <= GivenToOwner(1) + GivenToOwner(2)
         /\ \A f \in Received : f.moved.quantity <= MapThenSumSet(LAMBDA g : g.moved.quantity, Received)
<1>1. PICK q \in [PlanSteps -> Nat] : q = [k \in PlanSteps |-> GivenToOwner(k)]
  BY GiftIsWhole
<1>2. PICK R : R = Received
  OBVIOUS
<1>3. ASSUME NEW f \in R
      PROVE  f = [of |-> f.of, moved |-> [direction |-> "in", asset |-> promise.asset, quantity |-> q[f.of], owner |-> "owner"]]
             /\ f.of \in PlanSteps
  <2>1. PICK k \in PlanSteps :
          eventRows[k].canonical /\ \E m \in EffectsOf(emitted[k]) :
            f = [of |-> k, moved |-> m] /\ m.direction = "in" /\ m.asset = promise.asset /\ m.owner = "owner"
    <3>1. f \in WorkflowEffects /\ f.moved.direction = "in" /\ f.moved.asset = promise.asset /\ f.moved.owner = "owner"
      BY <1>2 DEF Received
    <3>2. PICK k \in PlanSteps : eventRows[k].canonical /\ f \in {[of |-> k, moved |-> m] : m \in EffectsOf(emitted[k])}
      BY <3>1 DEF WorkflowEffects
    <3>3. PICK m \in EffectsOf(emitted[k]) : f = [of |-> k, moved |-> m]
      BY <3>2
    <3>4. m.direction = "in" /\ m.asset = promise.asset /\ m.owner = "owner"
      BY <3>1, <3>3
    <3> QED BY <3>2, <3>3, <3>4
  <2>2. k \in onChain
    BY <2>1 DEF EffectsOK
  <2> PICK m \in EffectsOf(emitted[k]) :
         f = [of |-> k, moved |-> m] /\ m.direction = "in" /\ m.asset = promise.asset /\ m.owner = "owner"
    BY <2>1
  <2>3. m = [direction |-> "in", asset |-> promise.asset, quantity |-> GivenToOwner(k), owner |-> "owner"]
    BY <2>1, <2>2, ReceiptIsGift
  <2> QED BY <1>1, <2>1, <2>3
<1>4. \A f \in R : f.of \in PlanSteps /\ f.moved.quantity = q[f.of]
  <2>1. ASSUME NEW f \in R PROVE f.of \in PlanSteps /\ f.moved.quantity = q[f.of]
    <3>1. PICK k \in PlanSteps : f = [of |-> k, moved |-> [direction |-> "in", asset |-> promise.asset, quantity |-> q[k], owner |-> "owner"]]
      BY <1>3
    <3> QED BY <3>1
  <2> QED BY <2>1
<1>5. \A f, g \in R : f.of = g.of => f = g
  <2>1. ASSUME NEW f \in R, NEW g \in R, f.of = g.of PROVE f = g
    <3>1. PICK k : f.of = k /\ g.of = k
      BY <2>1
    <3>2. f = [of |-> k, moved |-> [direction |-> "in", asset |-> promise.asset, quantity |-> q[k], owner |-> "owner"]]
      BY <1>3, <3>1
    <3>3. g = [of |-> k, moved |-> [direction |-> "in", asset |-> promise.asset, quantity |-> q[k], owner |-> "owner"]]
      BY <1>3, <3>1
    <3> QED BY <3>2, <3>3
  <2> QED BY <2>1
<1>6. PICK c : c = [f \in R |-> f.moved.quantity]
  OBVIOUS
<1>7. IsFiniteSet(R) /\ (\A f \in R : c[f] \in Nat) /\ SumOf(R, c) \in Nat /\ SumOf(R, c) <= q[1] + q[2]
  BY <1>4, <1>5, <1>6, TwoSummands
<1>8. MapThenSumSet(LAMBDA f : f.moved.quantity, R) = SumOf(R, c)
  BY <1>6, <1>7, QuantitiesAdd
<1>9. \A f \in R : c[f] <= SumOf(R, c)
  <2>1. R \in SUBSET R
    OBVIOUS
  <2> QED BY <1>7, <2>1, SumGrows
<1>10. q[1] = GivenToOwner(1) /\ q[2] = GivenToOwner(2)
  BY <1>1 DEF PlanSteps
<1>11. \A f \in R : f.moved.quantity <= SumOf(R, c)
  BY <1>6, <1>9
<1> QED BY <1>2, <1>7, <1>8, <1>10, <1>11

\* A plan with a receipt pays its owner the minimum in its only step, and the decoders read that.
LEMMA PlannedPays ==
  ASSUME EffectsOK, promise # NoPromise, promise.to = "owner", emitted[1] \in PlannedEvents(1),
         promise.action \in {"zest_supply", "zest_withdraw", "granite_withdraw", "granite_borrow"}
  PROVE  \E m \in EffectsOf(emitted[1]) :
           m.direction = "in" /\ m.asset = promise.asset /\ m.owner = "owner" /\ m.quantity >= promise.minimum
<1>1. PICK e : e = emitted[1]
  OBVIOUS
<1>2. PromiseIsKept(promise)
  BY DEF EffectsOK
<1>3. promise.minimum \in Nat /\ promise.quantity \in Nat /\ promise.asset = ExpectedAsset(promise.action)
  BY <1>2, EffectBounds DEF PromiseIsKept
<1>4. CASE promise.action = "zest_supply"
  <2>1. e \in VaultEvents /\ e.act = "deposit" /\ e.shares >= promise.minimum /\ e.who = "owner"
    BY <1>1, <1>4 DEF PlannedEvents
  <2>2. e # Silent /\ e.on = "v0-vault-sbtc"
    <3>1. e.on = "v0-vault-sbtc"
      BY <2>1 DEF VaultEvents
    <3>2. Silent.on = "nothing watched"
      BY DEF Silent
    <3> QED BY <3>1, <3>2
  <2>3. promise.asset = "zsbtc"
    BY <1>3, <1>4 DEF ExpectedAsset
  <2>4. [direction |-> "in", asset |-> "zsbtc", quantity |-> e.shares, owner |-> "owner"] \in EffectsOf(e)
    BY <2>1, <2>2 DEF EffectsOf, VaultEffects, DepositEffects, Effect
  <2> QED BY <1>1, <2>1, <2>3, <2>4
<1>5. CASE promise.action = "zest_withdraw"
  <2>1. e \in VaultEvents /\ e.act = "redeem" /\ e.assets >= promise.minimum /\ e.who = "owner"
    BY <1>1, <1>5 DEF PlannedEvents
  <2>2. e # Silent /\ e.on = "v0-vault-sbtc"
    <3>1. e.on = "v0-vault-sbtc"
      BY <2>1 DEF VaultEvents
    <3>2. Silent.on = "nothing watched"
      BY DEF Silent
    <3> QED BY <3>1, <3>2
  <2>3. promise.asset = "sbtc"
    BY <1>3, <1>5 DEF ExpectedAsset
  <2>4. [direction |-> "in", asset |-> "sbtc", quantity |-> e.assets, owner |-> "owner"] \in EffectsOf(e)
    BY <2>1, <2>2 DEF EffectsOf, VaultEffects, Effect
  <2> QED BY <1>1, <2>1, <2>3, <2>4
<1>6. CASE promise.action \in {"granite_withdraw", "granite_borrow"}
  <2>1. e \in MarketEvents /\ e.act \in {"collateral-remove", "borrow"} /\ e.asset = promise.asset
        /\ e.assets = promise.quantity /\ e.who = "owner" /\ e.asset # "unpinned"
    BY <1>1, <1>3, <1>6 DEF PlannedEvents, ExpectedAsset
  <2>2. e # Silent /\ e.on = "v0-8-market"
    <3>1. e.on = "v0-8-market"
      BY <2>1 DEF MarketEvents
    <3>2. Silent.on = "nothing watched"
      BY DEF Silent
    <3> QED BY <3>1, <3>2
  <2>3. promise.minimum = promise.quantity
    BY <1>2, <1>6 DEF PromiseIsKept
  <2>4. [direction |-> "in", asset |-> e.asset, quantity |-> e.assets, owner |-> "owner"] \in EffectsOf(e)
    BY <2>1, <2>2 DEF EffectsOf, MarketEffects, Effect
  <2>5. e.assets >= promise.minimum
    BY <1>3, <2>1, <2>3
  <2> QED BY <1>1, <2>1, <2>4, <2>5
<1> QED BY <1>4, <1>5, <1>6

\* reconciliation.ts calls a workflow complete on what it was given, and blames no plan that paid.
LEMMA VerdictIsDue ==
  ASSUME EffectsOK, Judge
  PROVE  /\ verdict' = "completed" => GivenToOwner(1) + GivenToOwner(2) >= promise.minimum
         /\ verdict' = "action_required" =>
              ~(AsPlanned /\ promise.action \in {"zest_supply", "zest_withdraw", "granite_withdraw", "granite_borrow"}
                  /\ promise.to = "owner")
<1>1. PICK total \in Nat :
        /\ total = MapThenSumSet(LAMBDA f : f.moved.quantity, Received)
        /\ total <= GivenToOwner(1) + GivenToOwner(2)
        /\ \A f \in Received : f.moved.quantity <= total
  BY ReceivedIsGiven
<1>2. promise # NoPromise /\ verdict' = ReconciliationDecision
  BY DEF Judge
<1>3. promise.minimum \in Nat
  BY <1>2, EffectBounds DEF EffectsOK, PromiseIsKept
<1>4. PICK owed \in Nat : owed = promise.minimum
  BY <1>3
<1>5. ASSUME verdict' = "completed"
      PROVE  GivenToOwner(1) + GivenToOwner(2) >= promise.minimum
  <2>1. total >= owed
    BY <1>1, <1>2, <1>4, <1>5 DEF ReconciliationDecision
  <2>2. GivenToOwner(1) \in Nat /\ GivenToOwner(2) \in Nat
    BY GiftIsWhole DEF PlanSteps
  <2> QED BY <1>1, <1>4, <2>1, <2>2
<1>6. ASSUME verdict' = "action_required", AsPlanned, promise.to = "owner",
             promise.action \in {"zest_supply", "zest_withdraw", "granite_withdraw", "granite_borrow"}
      PROVE  FALSE
  <2>1. StepsOf(promise.action) = {1}
    BY <1>6 DEF StepsOf
  <2>2. emitted[1] \in PlannedEvents(1) /\ emitted[2] = Silent
    BY <1>6, <2>1 DEF AsPlanned, EffectsOK, PlanSteps
  <2>3. WorkflowEffects # {} /\ ~(Received # {} /\ total >= owed)
    BY <1>1, <1>2, <1>4, <1>6 DEF ReconciliationDecision
  <2>4. eventRows[1].activity /\ eventRows[1].attributed /\ eventRows[1].canonical
    <3>1. PICK k \in PlanSteps :
            eventRows[k].activity /\ eventRows[k].attributed /\ eventRows[k].canonical /\ EffectsOf(emitted[k]) # {}
      BY <2>3 DEF WorkflowEffects
    <3>2. k # 2
      BY <2>2, <3>1 DEF EffectsOf
    <3> QED BY <3>1, <3>2 DEF PlanSteps
  <2>5. PICK m \in EffectsOf(emitted[1]) :
          m.direction = "in" /\ m.asset = promise.asset /\ m.owner = "owner" /\ m.quantity >= owed
    BY <1>2, <1>4, <1>6, <2>2, PlannedPays
  <2>6. PICK f : f = [of |-> 1, moved |-> m]
    OBVIOUS
  <2>7. f \in WorkflowEffects
    BY <2>4, <2>5, <2>6 DEF WorkflowEffects, PlanSteps
  <2>8. f \in Received
    BY <2>5, <2>6, <2>7 DEF Received
  <2>9. m.quantity \in Nat
    <3>1. m = [direction |-> "in", asset |-> promise.asset, quantity |-> GivenToOwner(1), owner |-> "owner"]
      BY <2>4, <2>5, ReceiptIsGift DEF EffectsOK, PlanSteps
    <3> QED BY <3>1, GiftIsWhole DEF PlanSteps
  <2>10. m.quantity <= total
    BY <1>1, <2>6, <2>8
  <2> QED BY <2>3, <2>5, <2>8, <2>9, <2>10
<1> QED BY <1>5, <1>6

\* Every other step leaves the verdict alone.
LEMMA EffectsStep ==
  ASSUME EffectsOK, [EffectsNext]_effectVars
  PROVE  EffectsOK' /\ (verdict' # verdict => Judge)
<1>1. CASE QuoteAction
  BY <1>1, QuoteKeepsEffects DEF QuoteAction
<1>2. ASSUME NEW step \in PlanSteps, Executes(step) \/ ReportsTxid(step) \/ ConfirmsStep(step) \/ ForkTakes(step)
      PROVE  EffectsOK' /\ verdict' = verdict
  BY <1>2, ChainKeepsEffects DEF Executes, ReportsTxid, ConfirmsStep, ForkTakes
<1>3. CASE LookAtEffect \/ RecordActivity \/ PageFails \/ \E contract \in {"v0-vault-sbtc", "v0-8-market"} : ReadEventPage(contract)
  BY <1>3, IngestionKeepsEffects DEF LookAtEffect, RecordActivity, PageFails, ReadEventPage
<1>4. CASE Judge
  BY <1>4 DEF Judge, chainOfEffects, EffectsOK
<1>5. CASE UNCHANGED effectVars
  BY <1>5 DEF effectVars, EffectsOK
<1> QED BY <1>1, <1>2, <1>3, <1>4, <1>5 DEF EffectsNext

---------------------------------------------------------------------------
(* Effects: the rows of events and the page in hand. *)

PageItems == [step : PlanSteps, stored : BOOLEAN]

\* A row follows its statements: an activity needs its raw event, and an attribution a report. The event the page
\* marks as stored by this pass is stored.
RowOfEvent(k) ==
  /\ eventRows[k].activity \/ eventRows[k].canonical => eventRows[k].raw
  /\ eventRows[k].attributed => k \in reportedSteps

PageOK ==
  /\ eventPage \in Seq(PageItems)
  /\ \A place \in DOMAIN eventPage : eventPage[place].stored => eventRows[eventPage[place].step].raw

RowsOK ==
  /\ \A k \in PlanSteps : RowOfEvent(k)
  /\ PageOK
  /\ confirmedSteps \subseteq reportedSteps
  /\ verdict \in {"none", "completed", "action_required"} /\ effectForks \in 0..MaxEffectForks

LEMMA ItemsOfPage ==
  ASSUME RowsOK
  PROVE  \A place \in DOMAIN eventPage : eventPage[place] \in PageItems /\ eventPage[place].step \in PlanSteps
<1>1. eventPage \in Seq(PageItems)
  BY DEF RowsOK, PageOK
<1>2. \A place \in DOMAIN eventPage : eventPage[place] \in PageItems
  BY <1>1
<1> QED BY <1>2 DEF PageItems

LEMMA RowsStart == ASSUME EffectsInit PROVE RowsOK
<1>1. /\ \A k \in PlanSteps : eventRows[k] = NotStored
      /\ eventPage = <<>> /\ confirmedSteps = {} /\ verdict = "none" /\ effectForks = 0
  BY DEF EffectsInit
<1> QED BY <1>1, EffectsAssumption DEF RowsOK, RowOfEvent, PageOK, NotStored

\* A step that stores nothing and reports no less.
LEMMA RowsRested ==
  ASSUME RowsOK, UNCHANGED <<eventRows, eventPage, verdict>>, reportedSteps \subseteq reportedSteps',
         confirmedSteps' \subseteq reportedSteps', effectForks' \in 0..MaxEffectForks
  PROVE  RowsOK'
BY DEF RowsOK, RowOfEvent, PageOK

LEMMA PageIsRead ==
  ASSUME RowsOK, NEW contract, ReadEventPage(contract)
  PROVE  RowsOK'
<1>1. PICK listed \in {<<1>>, <<2>>, <<2, 1>>} :
        eventPage' = [place \in DOMAIN listed |-> [step |-> listed[place], stored |-> FALSE]]
  BY DEF ReadEventPage
<1>2. listed \in Seq(PlanSteps)
  <2>1. 1 \in PlanSteps /\ 2 \in PlanSteps
    BY DEF PlanSteps
  <2> HIDE DEF PlanSteps
  <2>2. <<1>> \in Seq(PlanSteps) /\ <<2>> \in Seq(PlanSteps) /\ <<2, 1>> \in Seq(PlanSteps)
    BY <2>1
  <2> QED BY <1>1, <2>2
<1>3. eventPage' \in Seq(PageItems) /\ \A place \in DOMAIN eventPage' : ~eventPage'[place].stored
  <2>1. Len(listed) \in Nat /\ DOMAIN listed = 1..Len(listed) /\ \A i \in DOMAIN listed : listed[i] \in PlanSteps
    BY <1>2
  <2>2. eventPage' \in [1..Len(listed) -> PageItems]
    BY <1>1, <2>1 DEF PageItems
  <2> QED BY <1>1, <2>1, <2>2, SeqDef
<1>4. UNCHANGED <<eventRows, reportedSteps, confirmedSteps, verdict, effectForks>>
  BY DEF ReadEventPage, chainOfEffects
<1> QED BY <1>3, <1>4 DEF RowsOK, RowOfEvent, PageOK

\* The page in hand, and its first event.
LEMMA PageInHand ==
  ASSUME RowsOK, eventPage # <<>>
  PROVE  /\ Head(eventPage) = eventPage[1] /\ Head(eventPage).step \in PlanSteps /\ 1 \in DOMAIN eventPage
         /\ Tail(eventPage) \in Seq(PageItems)
         /\ \A place \in DOMAIN Tail(eventPage) : place + 1 \in DOMAIN eventPage /\ Tail(eventPage)[place] = eventPage[place + 1]
<1>1. eventPage \in Seq(PageItems) /\ Len(eventPage) \in Nat \ {0}
  BY DEF RowsOK, PageOK
<1>2. Head(eventPage) = eventPage[1] /\ 1 \in DOMAIN eventPage /\ eventPage[1] \in PageItems
  BY <1>1
<1>3. Tail(eventPage) \in Seq(PageItems)
      /\ \A place \in DOMAIN Tail(eventPage) : place + 1 \in DOMAIN eventPage /\ Tail(eventPage)[place] = eventPage[place + 1]
  BY <1>1
<1> QED BY <1>2, <1>3 DEF PageItems

\* A pass gives up or passes an event over.
LEMMA PageShrinks ==
  ASSUME RowsOK, eventPage # <<>>, eventPage' \in {<<>>, Tail(eventPage)},
         UNCHANGED <<reportedSteps, confirmedSteps, verdict, effectForks>>,
         \A k \in PlanSteps : RowOfEvent(k)' /\ (eventRows[k].raw => eventRows'[k].raw)
  PROVE  RowsOK'
<1>1. CASE eventPage' = <<>>
  BY <1>1 DEF RowsOK, PageOK
<1>2. CASE eventPage' = Tail(eventPage)
  <2>1. \A place \in DOMAIN eventPage : eventPage[place].step \in PlanSteps
    BY ItemsOfPage
  <2>2. ASSUME NEW place \in DOMAIN Tail(eventPage), Tail(eventPage)[place].stored
        PROVE  eventRows'[Tail(eventPage)[place].step].raw
    <3>1. PICK p \in DOMAIN eventPage : Tail(eventPage)[place] = eventPage[p]
      BY <2>2, PageInHand
    <3>2. eventPage[p].step \in PlanSteps /\ eventRows[eventPage[p].step].raw
      BY <2>1, <2>2, <3>1 DEF RowsOK, PageOK
    <3> QED BY <3>1, <3>2
  <2> QED BY <1>2, <2>2, PageInHand DEF RowsOK, PageOK
<1> QED BY <1>1, <1>2

LEMMA EventIsStored ==
  ASSUME EffectsOK, RowsOK, LookAtEffect
  PROVE  RowsOK'
<1> DEFINE k == Head(eventPage).step
<1>1. eventPage # <<>> /\ k \in PlanSteps /\ UNCHANGED <<reportedSteps, confirmedSteps, verdict, effectForks>>
  BY PageInHand DEF LookAtEffect, chainOfEffects
<1>2. CASE UNCHANGED eventRows /\ eventPage' \in {<<>>, Tail(eventPage)}
  BY <1>1, <1>2, PageShrinks DEF RowsOK, RowOfEvent
<1>3. CASE /\ eventRows' = [eventRows EXCEPT ![k].raw = TRUE, ![k].canonical = TRUE]
           /\ eventPage' = [eventPage EXCEPT ![1].stored = TRUE]
  <2> HIDE DEF k
  <2>1. eventRows \in [PlanSteps -> StoredEvent]
    BY DEF EffectsOK
  <2>2. /\ eventRows'[k].raw /\ eventRows'[k].attributed = eventRows[k].attributed
        /\ \A j \in PlanSteps : j = k \/ eventRows'[j] = eventRows[j]
    BY <1>1, <1>3, <2>1 DEF StoredEvent
  <2>3. \A j \in PlanSteps : RowOfEvent(j)' /\ (eventRows[j].raw => eventRows'[j].raw)
    BY <1>1, <2>2 DEF RowsOK, RowOfEvent
  <2> DEFINE marked == [eventPage[1] EXCEPT !.stored = TRUE]
  <2>4. /\ eventPage \in Seq(PageItems) /\ 1 \in DOMAIN eventPage /\ eventPage[1].step = k
        /\ eventPage[1] \in PageItems
    BY <1>1, PageInHand DEF k, RowsOK, PageOK
  <2>5. marked \in PageItems /\ marked.step = k
    BY <2>4 DEF PageItems
  <2>6. eventPage' = [eventPage EXCEPT ![1] = marked]
    BY <1>3
  <2> HIDE DEF marked
  <2>7. /\ eventPage' \in Seq(PageItems) /\ DOMAIN eventPage' = DOMAIN eventPage /\ eventPage'[1].step = k
        /\ \A place \in DOMAIN eventPage : place = 1 \/ eventPage'[place] = eventPage[place]
    BY <2>4, <2>5, <2>6
  <2>8. \A place \in DOMAIN eventPage : eventPage[place].step \in PlanSteps
    BY ItemsOfPage
  <2>9. \A place \in DOMAIN eventPage' : eventPage'[place].stored => eventRows'[eventPage'[place].step].raw
    BY <2>2, <2>3, <2>7, <2>8 DEF RowsOK, PageOK
  <2> QED BY <1>1, <2>3, <2>7, <2>9 DEF RowsOK, PageOK
<1> QED BY <1>2, <1>3 DEF LookAtEffect

LEMMA ActivityIsRecorded ==
  ASSUME EffectsOK, RowsOK, RecordActivity
  PROVE  RowsOK'
<1> DEFINE k == Head(eventPage).step
           now == k \in reportedSteps
<1>1. /\ eventPage # <<>> /\ k \in PlanSteps /\ UNCHANGED <<reportedSteps, confirmedSteps, verdict, effectForks>>
      /\ eventRows[k].raw /\ eventPage' = Tail(eventPage)
      /\ eventRows' = [eventRows EXCEPT ![k].activity = TRUE, ![k].attributed = now]
  BY PageInHand DEF RecordActivity, chainOfEffects, RowsOK, PageOK
<1>2. eventRows \in [PlanSteps -> StoredEvent]
  BY DEF EffectsOK
<1> HIDE DEF k
<1>3. /\ eventRows'[k].raw = eventRows[k].raw /\ eventRows'[k].attributed = now
      /\ \A j \in PlanSteps : j = k \/ eventRows'[j] = eventRows[j]
  BY <1>1, <1>2 DEF StoredEvent
<1>4. \A j \in PlanSteps : RowOfEvent(j)' /\ (eventRows[j].raw => eventRows'[j].raw)
  BY <1>1, <1>3 DEF RowsOK, RowOfEvent
<1> QED BY <1>1, <1>4, PageShrinks

LEMMA RowsStep ==
  ASSUME EffectsOK, RowsOK, [EffectsNext]_effectVars
  PROVE  RowsOK'
<1>1. CASE QuoteAction
  BY <1>1, RowsRested DEF QuoteAction, chainOfEffects, RowsOK
<1>2. ASSUME NEW step \in PlanSteps, Executes(step) \/ ReportsTxid(step) \/ ConfirmsStep(step)
      PROVE  RowsOK'
  BY <1>2, RowsRested DEF Executes, ReportsTxid, ConfirmsStep, chainOfEffects, RowsOK
<1>3. ASSUME NEW step \in PlanSteps, ForkTakes(step)
      PROVE  RowsOK'
  <2>1. eventRows \in [PlanSteps -> StoredEvent] /\ eventRows' = [eventRows EXCEPT ![step].canonical = FALSE]
    BY <1>3 DEF ForkTakes, EffectsOK
  <2>2. /\ eventRows'[step].raw = eventRows[step].raw /\ eventRows'[step].activity = eventRows[step].activity
        /\ eventRows'[step].attributed = eventRows[step].attributed /\ ~eventRows'[step].canonical
        /\ \A j \in PlanSteps : j = step \/ eventRows'[j] = eventRows[j]
    BY <2>1 DEF StoredEvent
  <2>3. eventPage' = <<>> /\ effectForks' \in 0..MaxEffectForks /\ UNCHANGED <<reportedSteps, confirmedSteps, verdict>>
    BY <1>3, EffectsAssumption DEF ForkTakes, RowsOK
  <2> QED BY <2>2, <2>3 DEF RowsOK, RowOfEvent, PageOK
<1>4. ASSUME NEW contract \in {"v0-vault-sbtc", "v0-8-market"}, ReadEventPage(contract)
      PROVE  RowsOK'
  BY <1>4, PageIsRead
<1>5. CASE PageFails
  BY <1>5, PageShrinks DEF PageFails, chainOfEffects, RowsOK, RowOfEvent
<1>6. CASE Judge
  BY <1>6 DEF Judge, chainOfEffects, ReconciliationDecision, RowsOK, RowOfEvent, PageOK
<1>7. CASE UNCHANGED effectVars
  BY <1>7 DEF effectVars, RowsOK, RowOfEvent, PageOK
<1> QED BY <1>1, <1>2, <1>3, <1>4, <1>5, <1>6, <1>7, EventIsStored, ActivityIsRecorded DEF EffectsNext

LEMMA EffectsAlways == EffectsSpec => [](EffectsOK /\ RowsOK)
<1>1. EffectsOK /\ RowsOK /\ [EffectsNext]_effectVars => EffectsOK' /\ RowsOK'
  BY EffectsStep, RowsStep
<1> QED BY <1>1, EffectsStart, RowsStart, PTL DEF EffectsSpec

\* ingestEvents: however passes are torn and whatever a fork takes away, an activity is recorded of a stored event only
\* and attributed only to a step whose txid was reported, and the rows, the page and the verdict keep their types.
THEOREM ActivitiesHaveEvents == EffectsSpec => []EffectsTypeOK
<1>1. EffectsOK /\ RowsOK => EffectsTypeOK
  <2> SUFFICES ASSUME EffectsOK, RowsOK PROVE EffectsTypeOK
    OBVIOUS
  <2>1. promise.action \in FlowActions \union {"none"}
    <3>1. NoPromise.action = "none"
      BY DEF NoPromise
    <3> QED BY <3>1 DEF EffectsOK, PromiseIsKept
  <2>2. \A k \in PlanSteps : emitted[k] \in VaultEvents \union MarketEvents \union {Silent}
    BY DEF EffectsOK, SomeEvent
  <2>3. \A place \in DOMAIN eventPage : eventPage[place] \in [step : PlanSteps, stored : BOOLEAN]
    BY ItemsOfPage DEF PageItems
  <2>4. \A k \in PlanSteps : eventRows[k] \in [raw : BOOLEAN, activity : BOOLEAN, attributed : BOOLEAN, canonical : BOOLEAN]
    BY DEF EffectsOK, StoredEvent
  <2> QED BY <2>1, <2>2, <2>3, <2>4 DEF EffectsOK, RowsOK, RowOfEvent, EffectsTypeOK
<1> QED BY <1>1, EffectsAlways, PTL

\* VerdictFits, of every plan, fork and page: a workflow is called complete only when the chain gave its owner the
\* quoted minimum, and a single-step plan that paid its owner is not blamed (reconciliation.ts).
THEOREM VerdictIsEarned == EffectsSpec => VerdictFits
<1>1. EffectsOK /\ [EffectsNext]_effectVars =>
        [verdict' # verdict =>
           /\ verdict' = "completed" => GivenToOwner(1) + GivenToOwner(2) >= promise.minimum
           /\ verdict' = "action_required" =>
                ~(AsPlanned /\ promise.action \in {"zest_supply", "zest_withdraw", "granite_withdraw", "granite_borrow"}
                    /\ promise.to = "owner")]_effectVars
  BY EffectsStep, VerdictIsDue
<1> QED BY <1>1, EffectsAlways, PTL DEF EffectsSpec, VerdictFits

---------------------------------------------------------------------------
(* The four side by side, as TLC explores them (MCOperations).              *)

\* Every behaviour of the run is, for each of the four, one of its own; what the run adds is which of them moves.
LEMMA RunIsOfEach ==
  Spec => /\ AlertsInit /\ [][AlertsNext]_alertVars
          /\ TopologyInit /\ [][TopologyNext]_topologyVars
          /\ MarketsSpec /\ EffectsSpec
<1>1. Init => AlertsInit /\ TopologyInit /\ MarketsInit /\ EffectsInit
  BY DEF Init
<1>2. [Next]_operationsVars => [AlertsNext]_alertVars
  BY DEF Next, operationsVars
<1>3. [Next]_operationsVars => [TopologyNext]_topologyVars
  BY DEF Next, operationsVars
<1>4. [Next]_operationsVars => [MarketsNext]_snapshotVars
  BY DEF Next, operationsVars
<1>5. [Next]_operationsVars => [EffectsNext]_effectVars
  BY DEF Next, operationsVars
<1> QED BY <1>1, <1>2, <1>3, <1>4, <1>5, PTL DEF Spec, MarketsSpec, EffectsSpec

\* The safety of the run `operations`, for every number of processes, evaluators, fields, amounts and forks: what TLC
\* checks of the instance holds of all of them.
THEOREM WorkerIsSafe == Spec => [](TypeOK /\ NoNoticeTwice /\ RunsAlone /\ EvidenceIsDated) /\ VerdictFits
<1>1. AlertsTypeOK /\ TopologyTypeOK /\ MarketsTypeOK /\ EffectsTypeOK => TypeOK
  BY DEF TypeOK
<1> QED BY <1>1, RunIsOfEach, NoticesSafely, LocksSafely, EvidenceStaysDated, ActivitiesHaveEvents, VerdictIsEarned, PTL

=============================================================================
