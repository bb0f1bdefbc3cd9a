---------------------------- MODULE MCOperations ----------------------------
(***************************************************************************)
(* The worker on small instances: its alerts, its processes, the snapshots *)
(* their passes write, and what it makes of the events it reads.  As in    *)
(* MCService, the four share no variable, and `component` names the one    *)
(* that moves.                                                             *)
(***************************************************************************)
EXTENDS Alerts, Topology, Markets, Effects, TLC

CONSTANTS i1, i2, b1

VARIABLE component

operationsVars == <<component, alertVars, topologyVars, snapshotVars, effectVars>>

\* Two ingesters, of which one may run once, and a backfill beside them.
TwoIngestersAndABackfill == (i1 :> "ingest") @@ (i2 :> "ingest") @@ (b1 :> "backfill")

Init == component \in {"alerts", "topology", "markets", "effects"} /\ AlertsInit /\ TopologyInit /\ MarketsInit /\ EffectsInit

Next == /\ UNCHANGED component
        /\ \/ component = "alerts" /\ AlertsNext /\ UNCHANGED <<topologyVars, snapshotVars, effectVars>>
           \/ component = "topology" /\ TopologyNext /\ UNCHANGED <<alertVars, snapshotVars, effectVars>>
           \/ component = "markets" /\ MarketsNext /\ UNCHANGED <<alertVars, topologyVars, effectVars>>
           \/ component = "effects" /\ EffectsNext /\ UNCHANGED <<alertVars, topologyVars, snapshotVars>>

\* The component that moves keeps the fairness it states; the others are not asked to.
Fairness ==
  /\ \A e \in Evaluators :
       WF_operationsVars(component = "alerts" /\ Pass(e) /\ UNCHANGED <<component, topologyVars, snapshotVars, effectVars>>)
  /\ \A w \in Workers :
       WF_operationsVars(component = "topology" /\ Runs(w) /\ UNCHANGED <<component, alertVars, snapshotVars, effectVars>>)

Spec == Init /\ [][Next]_operationsVars /\ Fairness

\* Every variable keeps its type: metrics, alerts, locks, heights, snapshots and stored events stay within what the code can hold.
TypeOK == AlertsTypeOK /\ TopologyTypeOK /\ MarketsTypeOK /\ EffectsTypeOK

=============================================================================
