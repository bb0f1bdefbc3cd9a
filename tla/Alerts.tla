------------------------------- MODULE Alerts -------------------------------
(* The alerts of the worker: what should be open is computed from a         *)
(* snapshot of the metrics (apps/worker/src/alerts.ts, evaluateAlerts, over *)
(* metricsSnapshot of packages/database/src/ops.ts), and the alerts table   *)
(* is brought to it one statement at a time (reconcileAlerts). The observer *)
(* and the process "all" hold locks of different names, so two evaluators   *)
(* may do this at once, each from a snapshot of its own.                    *)
EXTENDS Integers, FiniteSets

CONSTANTS
  Evaluators,
  LagWarning, LagCritical,          \* blocks behind the tip
  FailuresCritical,                 \* failed ticks in the window
  MinAttempts, RateWarning, RateCritical,   \* quotes: attempts, and failures in percent
  MaxChanges                        \* bound on how often a metric changes

ASSUME AlertsAssumption ==
  /\ IsFiniteSet(Evaluators)
  /\ {LagWarning, FailuresCritical, MinAttempts, RateWarning} \subseteq Nat \ {0}
  /\ LagCritical >= LagWarning /\ RateCritical >= RateWarning /\ MaxChanges \in Nat

VARIABLES
  metrics,      \* what the database says of the system now
  alerts,       \* the open alert of each key, and how often one was opened and resolved
  evaluator,    \* how far a pass of reconcileAlerts has come
  notified,     \* the notifications printed: opened and resolved, per key
  changes

alertVars == <<metrics, alerts, evaluator, notified, changes>>

AlertKeys == {"ingestion_lag", "ingestion_failing", "quote_failures", "workflow_stuck"}
NeedsAPerson == {"BROADCAST_UNKNOWN", "REORGED", "MANUAL_REVIEW"}

\* blocksBehind (none before the first tick), a checkpoint that stopped, failures, quotes, one workflow past its limit.
Healthy == [behind |-> 0, stopped |-> FALSE, failures |-> 0, attempts |-> 0, failed |-> 0, stuck |-> "none"]

MetricValues ==
  [behind : {0, LagWarning, LagCritical}, stopped : BOOLEAN, failures : {0, FailuresCritical},
   attempts : {0, 1, MinAttempts}, failed : {0, 1, MinAttempts}, stuck : {"none", "SUBMITTED", "MANUAL_REVIEW"}]

Idle == [at |-> "idle", desired |-> [k \in AlertKeys |-> "none"], todo |-> {}, notes |-> {}]

AlertsInit ==
  /\ metrics = Healthy
  /\ alerts = [k \in AlertKeys |-> [severity |-> "none", opened |-> 0, resolved |-> 0]]
  /\ evaluator = [e \in Evaluators |-> Idle]
  /\ notified = [k \in AlertKeys |-> [opened |-> 0, resolved |-> 0]]
  /\ changes = 0

---------------------------------------------------------------------------
(* The system changes: one kind of metric at a time. *)

Change(m) ==
  /\ changes < MaxChanges /\ m # metrics /\ m.failed <= m.attempts
  /\ \/ m = [metrics EXCEPT !.behind = m.behind]
     \/ m = [metrics EXCEPT !.stopped = m.stopped, !.failures = m.failures]
     \/ m = [metrics EXCEPT !.attempts = m.attempts, !.failed = m.failed]
     \/ m = [metrics EXCEPT !.stuck = m.stuck]
  /\ metrics' = m /\ changes' = changes + 1
  /\ UNCHANGED <<alerts, evaluator, notified>>

---------------------------------------------------------------------------
(* evaluateAlerts: the severity each key should be open with. *)

Graded(value, warning, critical) ==
  IF value >= critical THEN "critical" ELSE IF value >= warning THEN "warning" ELSE "none"

EvaluateAlerts(m) ==
  [k \in AlertKeys |->
     CASE k = "ingestion_lag"     -> Graded(m.behind, LagWarning, LagCritical)
       [] k = "ingestion_failing" -> IF m.stopped \/ m.failures >= FailuresCritical THEN "critical" ELSE "none"
       [] k = "quote_failures"    -> IF m.attempts < MinAttempts THEN "none"
                                     ELSE Graded((100 * m.failed) \div m.attempts, RateWarning, RateCritical)
       [] k = "workflow_stuck"    -> IF m.stuck = "none" THEN "none"
                                     ELSE IF m.stuck \in NeedsAPerson THEN "critical" ELSE "warning"]

Wanted(desired) == {k \in AlertKeys : desired[k] # "none"}
Open == {k \in AlertKeys : alerts[k].severity # "none"}

Snapshot(e) ==
  /\ evaluator[e].at = "idle"
  /\ LET desired == EvaluateAlerts(metrics)
     IN  evaluator' = [evaluator EXCEPT ![e] = [Idle EXCEPT !.at = "raise", !.desired = desired,
                                                            !.todo = Wanted(desired)]]
  /\ UNCHANGED <<metrics, alerts, notified, changes>>

---------------------------------------------------------------------------
(* reconcileAlerts *)

\* raiseAlert, first statement: an open alert of the key is updated, its severity too.
RaiseUpdate(e, k) ==
  /\ evaluator[e].at = "raise" /\ k \in evaluator[e].todo
  /\ IF k \in Open
     THEN /\ alerts' = [alerts EXCEPT ![k].severity = evaluator[e].desired[k]]
          /\ evaluator' = [evaluator EXCEPT ![e].todo = @ \ {k}]
     ELSE /\ evaluator' = [evaluator EXCEPT ![e].at = k] /\ UNCHANGED alerts
  /\ UNCHANGED <<metrics, notified, changes>>

\* The mutated form: a conflicting insert counts as an opening.
OpenedAlways(k) == TRUE

\* raiseAlert, second statement: the unique index lets one evaluator open it, and only that one is told so.
OpenedNow(k) == k \notin Open

RaiseInsert(e, k) ==
  /\ evaluator[e].at = k
  /\ alerts' = IF k \in Open THEN alerts
               ELSE [alerts EXCEPT ![k].severity = evaluator[e].desired[k], ![k].opened = @ + 1]
  /\ evaluator' = [evaluator EXCEPT ![e].at = "raise", ![e].todo = @ \ {k},
                                    ![e].notes = IF OpenedNow(k) THEN @ \cup {<<k, "opened">>} ELSE @]
  /\ UNCHANGED <<metrics, notified, changes>>

\* The mutated form: nothing is resolved.
UnwantedNever(desired) == {}

\* What is open and not wanted is resolved, as listed in one read.
Unwanted(desired) == Open \ Wanted(desired)

ListOpen(e) ==
  /\ evaluator[e].at = "raise" /\ evaluator[e].todo = {}
  /\ evaluator' = [evaluator EXCEPT ![e].at = "resolve", ![e].todo = Unwanted(evaluator[e].desired)]
  /\ UNCHANGED <<metrics, alerts, notified, changes>>

ResolveAlert(e, k) ==
  /\ evaluator[e].at = "resolve" /\ k \in evaluator[e].todo
  /\ evaluator' = [evaluator EXCEPT ![e].todo = @ \ {k},
                                    ![e].notes = IF k \in Open THEN @ \cup {<<k, "resolved">>} ELSE @]
  /\ alerts' = IF k \in Open THEN [alerts EXCEPT ![k].severity = "none", ![k].resolved = @ + 1] ELSE alerts
  /\ UNCHANGED <<metrics, notified, changes>>

\* The pass is over and its notifications are printed.
PrintNotifications(e) ==
  /\ evaluator[e].at = "resolve" /\ evaluator[e].todo = {}
  /\ notified' = [k \in AlertKeys |-> [w \in {"opened", "resolved"} |->
                    notified[k][w] + (IF <<k, w>> \in evaluator[e].notes THEN 1 ELSE 0)]]
  /\ evaluator' = [evaluator EXCEPT ![e] = Idle]
  /\ UNCHANGED <<metrics, alerts, changes>>

\* A statement fails or the process stops: what the pass has done stays, what it would have printed is lost.
FailPass(e) ==
  /\ evaluator[e].at # "idle"
  /\ changes < MaxChanges /\ changes' = changes + 1
  /\ evaluator' = [evaluator EXCEPT ![e] = Idle]
  /\ UNCHANGED <<metrics, alerts, notified>>

AlertsNext ==
  \/ \E m \in MetricValues : Change(m)
  \/ \E e \in Evaluators :
       \/ Snapshot(e) \/ ListOpen(e) \/ PrintNotifications(e) \/ FailPass(e)
       \/ \E k \in AlertKeys : RaiseUpdate(e, k) \/ RaiseInsert(e, k) \/ ResolveAlert(e, k)

\* A pass runs to its end and the next one starts: the loops of run.ts and observer.ts.
Pass(e) == \/ Snapshot(e) \/ ListOpen(e) \/ PrintNotifications(e)
           \/ \E k \in AlertKeys : RaiseUpdate(e, k) \/ RaiseInsert(e, k) \/ ResolveAlert(e, k)

AlertsSpec == AlertsInit /\ [][AlertsNext]_alertVars /\ \A e \in Evaluators : WF_alertVars(Pass(e))

---------------------------------------------------------------------------
(* Properties *)

AlertsTypeOK ==
  /\ metrics \in MetricValues /\ changes \in 0..MaxChanges
  /\ \A k \in AlertKeys : alerts[k].severity \in {"none", "warning", "critical"}

\* "Only a change produces a notification": whatever two evaluators do at once, an alert is not announced
\* more often than it was opened, nor called resolved more often than it was.
NoNoticeTwice ==
  \A k \in AlertKeys : /\ notified[k].opened <= alerts[k].opened
                       /\ notified[k].resolved <= alerts[k].resolved

\* The open alerts are the ones the metrics call for, with their severity.
AlertsMatch == \A k \in AlertKeys : alerts[k].severity = EvaluateAlerts(metrics)[k]

\* When the system has stopped changing, the open alerts come to be the ones its metrics call for, with
\* their severity, and stay so: no stale snapshot has the last word.
AlertsFollow == (changes = MaxChanges) ~> []AlertsMatch

=============================================================================
