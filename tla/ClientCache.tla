----------------------------- MODULE ClientCache -----------------------------
(* The cache of the client (packages/client/src/cache.ts) under the React   *)
(* bindings (packages/react/src/context.ts and hooks.ts): entries and       *)
(* running loads by key, and the provider that drops what belongs to        *)
(* another wallet, network or tenant when the scope changes.                *)
(*                                                                          *)
(* JavaScript runs one callback at a time, so an action is one callback: a  *)
(* call of load up to its request, the settling of a request, an effect.    *)
(* A key is a scope and a resource.                                         *)
EXTENDS Integers, Sequences

CONSTANTS
  Scopes, FirstScope,
  Resources, Quote,     \* Quote is the resource that dropQuotes drops
  MaxLoads,             \* bound on the requests made
  MaxScopeSwitches

ASSUME ClientCacheAssumption ==
  FirstScope \in Scopes /\ Quote \in Resources /\ {MaxLoads, MaxScopeSwitches} \subseteq Nat

VARIABLES
  cacheScope,       \* the scope the tree is rendered with
  previousScope,    \* the scope the provider's effect saw last
  entries,          \* per key: status, the request its data came from, whether the data is still fresh
  inFlight,         \* per key: the request that runs
  loads,            \* the requests made, and whether what they were for has been dropped since
  scopeSwitches

cacheVars == <<cacheScope, previousScope, entries, inFlight, loads, scopeSwitches>>

CacheKeys == Scopes \X Resources
LoadIds == 1..MaxLoads
NoLoad == 0       \* nothing in flight, no data
SetByCaller == -1 \* data that was put there by set

\* No entry: what get answers for a key that has none.
IdleEntry == [status |-> "idle", data |-> NoLoad, fresh |-> FALSE]

CacheInit ==
  /\ cacheScope = FirstScope /\ previousScope = FirstScope
  /\ entries = [k \in CacheKeys |-> IdleEntry]
  /\ inFlight = [k \in CacheKeys |-> NoLoad]
  /\ loads = <<>> /\ scopeSwitches = 0

\* invalidate: entries and what runs for them go together.
Invalidate(dropped) ==
  LET present == {k \in dropped : entries[k].status # "idle"}
  IN  /\ entries' = [k \in CacheKeys |-> IF k \in present THEN IdleEntry ELSE entries[k]]
      /\ inFlight' = [k \in CacheKeys |-> IF k \in present THEN NoLoad ELSE inFlight[k]]
      /\ loads' = [l \in DOMAIN loads |-> [loads[l] EXCEPT !.dropped = @ \/ loads[l].key \in present]]

\* load: fresh data is served, a running request is joined (also by refresh), else one is made.
Serves(k, force) == entries[k].status = "ready" /\ entries[k].fresh /\ ~force

Load(k, force) ==
  /\ k[1] = cacheScope /\ ~Serves(k, force) /\ inFlight[k] = NoLoad
  /\ Len(loads) < MaxLoads
  /\ entries' = [entries EXCEPT ![k].status = "loading"]
  /\ loads' = Append(loads, [key |-> k, runs |-> TRUE, dropped |-> FALSE])
  /\ inFlight' = [inFlight EXCEPT ![k] = Len(loads) + 1]
  /\ UNCHANGED <<cacheScope, previousScope, scopeSwitches>>

\* The mutated form: any request that runs for the key will do.
StillWantedByKey(l) == inFlight[loads[l].key] # NoLoad

\* A request ends. Its answer or its error is kept only if it is still the one that runs for its key.
StillWanted(l) == inFlight[loads[l].key] = l

Ends(l, entry) ==
  /\ l \in DOMAIN loads /\ loads[l].runs
  /\ loads' = [loads EXCEPT ![l].runs = FALSE]
  /\ IF StillWanted(l)
     THEN /\ entries' = [entries EXCEPT ![loads[l].key] = entry]
          /\ inFlight' = [inFlight EXCEPT ![loads[l].key] = NoLoad]
     ELSE UNCHANGED <<entries, inFlight>>
  /\ UNCHANGED <<cacheScope, previousScope, scopeSwitches>>

Answered(l) == Ends(l, [status |-> "ready", data |-> l, fresh |-> TRUE])

\* A failed reload keeps the last good data.
Failed(l) == Ends(l, [status |-> "error", data |-> entries[loads[l].key].data, fresh |-> FALSE])

SetData(k) ==
  /\ k[1] = cacheScope
  /\ entries' = [entries EXCEPT ![k] = [status |-> "ready", data |-> SetByCaller, fresh |-> TRUE]]
  /\ UNCHANGED <<cacheScope, previousScope, inFlight, loads, scopeSwitches>>

Ages(k) ==
  /\ entries[k].fresh /\ entries' = [entries EXCEPT ![k].fresh = FALSE]
  /\ UNCHANGED <<cacheScope, previousScope, inFlight, loads, scopeSwitches>>

DropQuotes ==
  /\ Invalidate({k \in CacheKeys : k[2] = Quote})
  /\ UNCHANGED <<cacheScope, previousScope, scopeSwitches>>

---------------------------------------------------------------------------
(* CapitalProvider *)

\* The tree is rendered with another wallet, network or tenant: React runs the effects of one render
\* before the next one.
SwitchScope(s) ==
  /\ scopeSwitches < MaxScopeSwitches /\ scopeSwitches' = scopeSwitches + 1
  /\ previousScope = cacheScope /\ s # cacheScope
  /\ cacheScope' = s
  /\ UNCHANGED <<previousScope, entries, inFlight, loads>>

\* The provider's effect, after those of the hooks below it: keepScope.
KeepScope ==
  /\ previousScope # cacheScope
  /\ Invalidate({k \in CacheKeys : k[1] # cacheScope})
  /\ previousScope' = cacheScope
  /\ UNCHANGED <<cacheScope, scopeSwitches>>

CacheNext ==
  \/ DropQuotes \/ KeepScope
  \/ \E s \in Scopes : SwitchScope(s)
  \/ \E k \in CacheKeys : SetData(k) \/ Ages(k) \/ \E force \in BOOLEAN : Load(k, force)
  \/ \E l \in LoadIds : Answered(l) \/ Failed(l)

CacheSpec == CacheInit /\ [][CacheNext]_cacheVars

---------------------------------------------------------------------------
(* Properties *)

CacheTypeOK ==
  /\ cacheScope \in Scopes /\ Len(loads) <= MaxLoads
  /\ \A k \in CacheKeys : /\ entries[k].status \in {"idle", "loading", "ready", "error"}
                          /\ entries[k].data \in {NoLoad, SetByCaller} \cup DOMAIN loads
                          /\ inFlight[k] \in {NoLoad} \cup DOMAIN loads

\* "A load that finishes after its entry was dropped is discarded, so a wallet switch cannot be undone by a
\* slow answer": also when the wallet is switched back before the answer, and a new load of the same key
\* runs. A key has one request that counts, and once the provider has seen a switch nothing of another
\* scope is in the cache.
DroppedStaysDropped ==
  /\ \A k \in CacheKeys : entries[k].data \in DOMAIN loads =>
       loads[entries[k].data].key = k /\ ~loads[entries[k].data].dropped
  /\ \A l, m \in {n \in DOMAIN loads : loads[n].runs /\ ~loads[n].dropped} :
       loads[l].key = loads[m].key => l = m
  /\ previousScope = cacheScope => \A k \in CacheKeys : entries[k].status # "idle" => k[1] = cacheScope
=============================================================================
