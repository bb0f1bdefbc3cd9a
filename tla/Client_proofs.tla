---------------------------- MODULE Client_proofs ----------------------------
(* What is proved of the clients: the cache and the requests of the client  *)
(* package, a host that keeps its own workflow with the SDK, and the web     *)
(* app's action screens.                                                    *)
EXTENDS ClientCache, ClientRequests, SdkWorkflow, Screens, FiniteSetTheorems, SequenceTheorems, TLAPS

---------------------------------------------------------------------------
(* ClientCache *)

CacheEntry == [status : {"idle", "loading", "ready", "error"}, data : Int, fresh : BOOLEAN]
LoadRecord == [key : CacheKeys, runs : BOOLEAN, dropped : BOOLEAN]

CacheTypes ==
  /\ cacheScope \in Scopes /\ previousScope \in Scopes
  /\ entries \in [CacheKeys -> CacheEntry]
  /\ inFlight \in [CacheKeys -> Nat]
  /\ loads \in Seq(LoadRecord) /\ Len(loads) <= MaxLoads

\* What is in flight for a key runs for that key and was not dropped, and the key has an entry.
FlightsRun ==
  \A k \in CacheKeys : inFlight[k] # NoLoad =>
    /\ inFlight[k] \in DOMAIN loads /\ loads[inFlight[k]].key = k
    /\ loads[inFlight[k]].runs /\ ~loads[inFlight[k]].dropped
    /\ entries[k].status # "idle"

\* What runs and was not dropped is in flight: the two tables of the cache agree.
RunsAreInFlight ==
  \A l \in DOMAIN loads : loads[l].runs /\ ~loads[l].dropped => inFlight[loads[l].key] = l

\* Data comes from a load of the same key that was not dropped, or from the caller; no entry holds nothing.
DataIsOwn ==
  \A k \in CacheKeys :
    /\ entries[k].data \in {NoLoad, SetByCaller} \cup DOMAIN loads
    /\ entries[k].data \in DOMAIN loads => loads[entries[k].data].key = k /\ ~loads[entries[k].data].dropped
    /\ entries[k].status = "idle" => entries[k].data = NoLoad

\* Entries are of the scope rendered or of the one the provider's effect saw last.
EntriesInScope ==
  \A k \in CacheKeys : entries[k].status # "idle" => k[1] \in {cacheScope, previousScope}

CacheOK == CacheTypes /\ FlightsRun /\ RunsAreInFlight /\ DataIsOwn /\ EntriesInScope

\* Nothing is loaded at first.
LEMMA CacheStarts == CacheInit => CacheOK
<1> SUFFICES ASSUME CacheInit PROVE CacheOK
  OBVIOUS
<1> USE ClientCacheAssumption DEF CacheInit, IdleEntry, NoLoad
<1>1. CacheTypes
  <2>1. Len(loads) = 0 /\ MaxLoads \in Nat /\ loads \in Seq(LoadRecord)
    OBVIOUS
  <2> QED BY <2>1 DEF CacheTypes, CacheEntry
<1>2. FlightsRun /\ RunsAreInFlight /\ DataIsOwn /\ EntriesInScope
  BY DEF FlightsRun, RunsAreInFlight, DataIsOwn, EntriesInScope
<1> QED BY <1>1, <1>2 DEF CacheOK

\* invalidate takes entries, what runs for them and what their data came from together.
LEMMA InvalidateKeeps ==
  ASSUME CacheOK, NEW dropped \in SUBSET CacheKeys, Invalidate(dropped)
  PROVE  /\ entries' \in [CacheKeys -> CacheEntry] /\ inFlight' \in [CacheKeys -> Nat]
         /\ loads' \in Seq(LoadRecord) /\ Len(loads') <= MaxLoads
         /\ FlightsRun' /\ RunsAreInFlight' /\ DataIsOwn'
         /\ \A k \in CacheKeys : entries'[k].status # "idle" => k \notin dropped /\ entries[k].status # "idle"
<1> USE DEF CacheOK
<1> DEFINE present == {k \in dropped : entries[k].status # "idle"}
<1>1. /\ entries' = [k \in CacheKeys |-> IF k \in present THEN IdleEntry ELSE entries[k]]
      /\ inFlight' = [k \in CacheKeys |-> IF k \in present THEN NoLoad ELSE inFlight[k]]
      /\ loads' = [l \in DOMAIN loads |-> [loads[l] EXCEPT !.dropped = @ \/ loads[l].key \in present]]
  BY DEF Invalidate
<1>2. \A k \in present : entries[k].status # "idle" /\ k \in dropped
  OBVIOUS
<1>3. \A k \in CacheKeys : k \in dropped /\ k \notin present => entries[k].status = "idle"
  OBVIOUS
<1>4. PICK P : P = present
  OBVIOUS
<1>5. \A l \in DOMAIN loads : loads[l] \in LoadRecord
  BY DEF CacheTypes
<1>6. \A l \in DOMAIN loads : /\ loads'[l].key = loads[l].key /\ loads'[l].runs = loads[l].runs
                              /\ loads'[l].dropped = (loads[l].dropped \/ loads[l].key \in P)
                              /\ loads'[l] \in LoadRecord
  BY <1>1, <1>4, <1>5 DEF LoadRecord
<1>7. \A k \in CacheKeys : /\ k \in P => entries'[k] = IdleEntry /\ inFlight'[k] = NoLoad
                           /\ k \notin P => entries'[k] = entries[k] /\ inFlight'[k] = inFlight[k]
  BY <1>1, <1>4
<1>8. DOMAIN loads' = DOMAIN loads /\ DOMAIN loads = 1..Len(loads) /\ Len(loads) \in Nat
  BY <1>1 DEF CacheTypes
<1>9. loads' \in [1..Len(loads) -> LoadRecord]
  BY <1>1, <1>6, <1>8
<1>10. loads' \in Seq(LoadRecord) /\ Len(loads') = Len(loads)
  BY <1>8, <1>9, SeqDef
<1> HIDE DEF present
<1>11. entries' \in [CacheKeys -> CacheEntry] /\ inFlight' \in [CacheKeys -> Nat]
  BY <1>1 DEF CacheTypes, CacheEntry, IdleEntry, NoLoad
<1>12. FlightsRun'
  <2> SUFFICES ASSUME NEW k \in CacheKeys, inFlight'[k] # NoLoad
               PROVE  /\ inFlight'[k] \in DOMAIN loads' /\ loads'[inFlight'[k]].key = k
                      /\ loads'[inFlight'[k]].runs /\ ~loads'[inFlight'[k]].dropped
                      /\ entries'[k].status # "idle"
    BY DEF FlightsRun
  <2>1. k \notin P /\ inFlight'[k] = inFlight[k] /\ entries'[k] = entries[k]
    BY <1>7
  <2>2. PICK l \in DOMAIN loads : l = inFlight[k] /\ loads[l].key = k /\ loads[l].runs /\ ~loads[l].dropped
    BY <2>1 DEF FlightsRun
  <2>3. loads'[l].key = k /\ loads'[l].runs /\ ~loads'[l].dropped
    BY <1>6, <2>1, <2>2
  <2> QED BY <1>8, <2>1, <2>2, <2>3 DEF FlightsRun
<1>13. RunsAreInFlight'
  BY <1>5, <1>6, <1>7, <1>8 DEF RunsAreInFlight, LoadRecord
<1>14. DataIsOwn'
  <2> SUFFICES ASSUME NEW k \in CacheKeys
               PROVE  (/\ entries[k].data \in {NoLoad, SetByCaller} \cup DOMAIN loads
                       /\ entries[k].data \in DOMAIN loads => loads[entries[k].data].key = k /\ ~loads[entries[k].data].dropped
                       /\ entries[k].status = "idle" => entries[k].data = NoLoad)'
    BY DEF DataIsOwn
  <2>1. CASE k \in P
    BY <1>7, <1>8, <2>1 DEF IdleEntry, NoLoad
  <2>2. CASE k \notin P
    <3>1. entries'[k] = entries[k]
      BY <1>7, <2>2
    <3>2. ASSUME NEW d \in DOMAIN loads, d = entries[k].data PROVE loads'[d].key = k /\ ~loads'[d].dropped
      <4>1. loads[d].key = k /\ ~loads[d].dropped
        BY <3>2 DEF DataIsOwn
      <4> QED BY <1>6, <2>2, <4>1
    <3> QED BY <1>8, <3>1, <3>2 DEF DataIsOwn
  <2> QED BY <2>1, <2>2
<1>15. \A k \in CacheKeys : entries'[k].status # "idle" => k \notin dropped /\ entries[k].status # "idle"
  BY <1>2, <1>3, <1>4, <1>7 DEF IdleEntry
<1> QED BY <1>10, <1>11, <1>12, <1>13, <1>14, <1>15 DEF CacheTypes

\* Rendering another scope, and the effect that follows it.
LEMMA ScopesKeepCache ==
  ASSUME CacheOK, DropQuotes \/ KeepScope \/ \E s \in Scopes : SwitchScope(s)
  PROVE  CacheOK'
<1> USE DEF CacheOK
<1>1. CASE DropQuotes
  <2>1. {k \in CacheKeys : k[2] = Quote} \in SUBSET CacheKeys
    OBVIOUS
  <2>2. UNCHANGED <<cacheScope, previousScope>> /\ Invalidate({k \in CacheKeys : k[2] = Quote})
    BY <1>1 DEF DropQuotes
  <2>3. EntriesInScope'
    BY <2>1, <2>2, InvalidateKeeps DEF EntriesInScope
  <2> QED BY <2>1, <2>2, <2>3, InvalidateKeeps DEF CacheTypes
<1>2. CASE KeepScope
  <2>1. {k \in CacheKeys : k[1] # cacheScope} \in SUBSET CacheKeys
    OBVIOUS
  <2>2. cacheScope' = cacheScope /\ previousScope' = cacheScope /\ Invalidate({k \in CacheKeys : k[1] # cacheScope})
    BY <1>2 DEF KeepScope
  <2>3. \A k \in CacheKeys : entries'[k].status # "idle" => k \notin {x \in CacheKeys : x[1] # cacheScope}
    BY <2>1, <2>2, InvalidateKeeps
  <2>4. EntriesInScope'
    BY <2>2, <2>3 DEF EntriesInScope
  <2> QED BY <2>1, <2>2, <2>4, InvalidateKeeps DEF CacheTypes
<1>3. ASSUME NEW s \in Scopes, SwitchScope(s) PROVE CacheOK'
  <2>1. cacheScope' = s /\ previousScope = cacheScope /\ UNCHANGED <<previousScope, entries, inFlight, loads>>
    BY <1>3 DEF SwitchScope
  <2>2. EntriesInScope'
    BY <2>1 DEF EntriesInScope
  <2> QED BY <2>1, <2>2 DEF CacheTypes, FlightsRun, RunsAreInFlight, DataIsOwn
<1> QED BY <1>1, <1>2, <1>3

\* An entry that is set, or ages.
LEMMA EntriesKeepCache ==
  ASSUME CacheOK, NEW k \in CacheKeys, SetData(k) \/ Ages(k)
  PROVE  CacheOK'
<1> USE DEF CacheOK
<1>1. PICK e \in CacheEntry : /\ entries' = [entries EXCEPT ![k] = e]
                              /\ e.status = "idle" => entries[k].status = "idle"
                              /\ e.data \in {entries[k].data, SetByCaller}
                              /\ e.status = "idle" => e.data = entries[k].data
                              /\ e.status # "idle" => k[1] = cacheScope \/ entries[k].status # "idle"
  <2>1. CASE SetData(k)
    <3> DEFINE e == [status |-> "ready", data |-> SetByCaller, fresh |-> TRUE]
    <3>1. e \in CacheEntry /\ e.status = "ready" /\ e.data = SetByCaller
      BY DEF CacheEntry, SetByCaller
    <3>2. entries' = [entries EXCEPT ![k] = e] /\ k[1] = cacheScope
      BY <2>1 DEF SetData
    <3> HIDE DEF e
    <3> QED BY <3>1, <3>2
  <2>2. CASE Ages(k)
    <3>1. PICK old \in CacheEntry : old = entries[k]
      BY DEF CacheTypes
    <3> DEFINE e == [old EXCEPT !.fresh = FALSE]
    <3>2. e \in CacheEntry /\ e.status = old.status /\ e.data = old.data
      BY DEF CacheEntry
    <3>3. entries' = [entries EXCEPT ![k] = e]
      BY <2>2, <3>1 DEF Ages
    <3> HIDE DEF e
    <3> QED BY <3>1, <3>2, <3>3
  <2> QED BY <2>1, <2>2
<1>2. UNCHANGED <<cacheScope, previousScope, inFlight, loads>>
  BY DEF SetData, Ages
<1>3. CacheTypes'
  BY <1>1, <1>2 DEF CacheTypes
<1>4. FlightsRun' /\ RunsAreInFlight'
  BY <1>1, <1>2 DEF FlightsRun, RunsAreInFlight, CacheTypes
<1>5. DataIsOwn'
  <2>1. SetByCaller \notin DOMAIN loads
    BY DEF SetByCaller, CacheTypes
  <2> QED BY <1>1, <1>2, <2>1 DEF DataIsOwn, CacheTypes
<1>6. EntriesInScope'
  BY <1>1, <1>2 DEF EntriesInScope, CacheTypes
<1> QED BY <1>3, <1>4, <1>5, <1>6

\* A request is made for a key that none runs for.
LEMMA LoadKeepsCache ==
  ASSUME CacheOK, NEW k \in CacheKeys, NEW force \in BOOLEAN, Load(k, force)
  PROVE  CacheOK'
<1> USE DEF CacheOK
<1>1. PICK n \in Nat : n = Len(loads) /\ DOMAIN loads = 1..n /\ n < MaxLoads
  <2>1. loads \in Seq(LoadRecord) /\ Len(loads) < MaxLoads
    BY DEF CacheTypes, Load
  <2> QED BY <2>1
<1>2. PICK new \in LoadRecord : /\ loads' = Append(loads, new)
                               /\ new.key = k /\ new.runs /\ ~new.dropped
  <2> DEFINE new == [key |-> k, runs |-> TRUE, dropped |-> FALSE]
  <2>1. new \in LoadRecord /\ new.key = k /\ new.runs /\ ~new.dropped
    BY DEF LoadRecord
  <2>2. loads' = Append(loads, new)
    BY DEF Load
  <2> HIDE DEF new
  <2> QED BY <2>1, <2>2
<1>3. /\ loads' \in Seq(LoadRecord) /\ Len(loads') = n + 1 /\ DOMAIN loads' = 1..(n + 1)
      /\ loads'[n + 1] = new /\ \A l \in DOMAIN loads : loads'[l] = loads[l]
  BY <1>1, <1>2 DEF CacheTypes
<1>4. PICK old \in CacheEntry : old = entries[k]
  BY DEF CacheTypes
<1>5. PICK e \in CacheEntry : entries' = [entries EXCEPT ![k] = e] /\ e.status = "loading" /\ e.data = old.data
  <2> DEFINE e == [old EXCEPT !.status = "loading"]
  <2>1. e \in CacheEntry /\ e.status = "loading" /\ e.data = old.data
    BY DEF CacheEntry
  <2>2. entries' = [entries EXCEPT ![k] = e]
    BY <1>4 DEF Load
  <2> HIDE DEF e
  <2> QED BY <2>1, <2>2
<1>6. inFlight' = [inFlight EXCEPT ![k] = n + 1] /\ inFlight[k] = NoLoad /\ k[1] = cacheScope
      /\ UNCHANGED <<cacheScope, previousScope>>
  BY <1>1 DEF Load
<1>7. CacheTypes'
  BY <1>1, <1>3, <1>5, <1>6, ClientCacheAssumption DEF CacheTypes
<1>8. \A x \in CacheKeys : x # k => entries'[x] = entries[x] /\ inFlight'[x] = inFlight[x]
  BY <1>5, <1>6 DEF CacheTypes
<1>9. entries'[k] = e /\ inFlight'[k] = n + 1
  BY <1>5, <1>6 DEF CacheTypes
<1>10. FlightsRun'
  BY <1>1, <1>2, <1>3, <1>5, <1>8, <1>9 DEF FlightsRun
<1>11. RunsAreInFlight'
  <2> SUFFICES ASSUME NEW l \in DOMAIN loads', loads'[l].runs, ~loads'[l].dropped PROVE inFlight'[loads'[l].key] = l
    BY DEF RunsAreInFlight
  <2>1. CASE l = n + 1
    BY <1>2, <1>3, <1>9, <2>1
  <2>2. CASE l # n + 1
    <3>1. l \in DOMAIN loads
      BY <1>1, <1>3, <2>2
    <3>2. loads[l] \in LoadRecord /\ loads'[l] = loads[l]
      BY <1>3, <3>1 DEF CacheTypes
    <3>3. loads[l].key \in CacheKeys
      BY <3>2 DEF LoadRecord
    <3>4. inFlight[loads[l].key] = l /\ l # NoLoad
      BY <1>1, <3>1, <3>2 DEF RunsAreInFlight, NoLoad
    <3> QED BY <1>6, <1>8, <3>2, <3>3, <3>4
  <2> QED BY <2>1, <2>2
<1>12. DataIsOwn'
  <2> SUFFICES ASSUME NEW x \in CacheKeys
               PROVE  (/\ entries[x].data \in {NoLoad, SetByCaller} \cup DOMAIN loads
                       /\ entries[x].data \in DOMAIN loads => loads[entries[x].data].key = x /\ ~loads[entries[x].data].dropped
                       /\ entries[x].status = "idle" => entries[x].data = NoLoad)'
    BY DEF DataIsOwn
  <2>1. entries'[x].data = entries[x].data /\ (entries'[x].status = "idle" => entries[x].status = "idle")
    BY <1>4, <1>5, <1>8, <1>9
  <2>2. entries[x].data \in {NoLoad, SetByCaller} \cup DOMAIN loads
    BY DEF DataIsOwn
  <2>3. entries[x].data # n + 1
    BY <1>1, <2>2 DEF NoLoad, SetByCaller
  <2>4. DOMAIN loads' = DOMAIN loads \cup {n + 1}
    BY <1>1, <1>3
  <2>5. PICK d : d = entries[x].data
    OBVIOUS
  <2>6. d \in {NoLoad, SetByCaller} \cup DOMAIN loads' /\ (d \in DOMAIN loads' => d \in DOMAIN loads)
    BY <2>2, <2>3, <2>4, <2>5
  <2>7. d \in DOMAIN loads => loads'[d].key = x /\ ~loads'[d].dropped
    BY <1>3, <2>5 DEF DataIsOwn
  <2> QED BY <2>1, <2>5, <2>6, <2>7 DEF DataIsOwn
<1>13. EntriesInScope'
  BY <1>6, <1>8, <1>9 DEF EntriesInScope
<1> QED BY <1>7, <1>10, <1>11, <1>12, <1>13

\* A request that ends: what it brings is kept only when it is still the one in flight.
LEMMA EndKeepsCache ==
  ASSUME CacheOK, NEW l, NEW entry \in CacheEntry, Ends(l, entry), entry.status # "idle",
         entry.data \in {l, entries[loads[l].key].data}
  PROVE  CacheOK'
<1> USE DEF CacheOK
<1>1. PICK old \in LoadRecord : old = loads[l] /\ old.runs /\ l \in DOMAIN loads
  BY DEF CacheTypes, Ends
<1>2. PICK k \in CacheKeys : k = old.key
  BY DEF LoadRecord
<1>3. PICK new \in LoadRecord : /\ loads' = [loads EXCEPT ![l] = new]
                               /\ new.key = k /\ ~new.runs /\ new.dropped = old.dropped
  <2> DEFINE new == [old EXCEPT !.runs = FALSE]
  <2>1. new \in LoadRecord /\ new.key = k /\ ~new.runs /\ new.dropped = old.dropped
    BY <1>2 DEF LoadRecord
  <2>2. loads' = [loads EXCEPT ![l] = new]
    BY <1>1 DEF Ends
  <2> HIDE DEF new
  <2> QED BY <2>1, <2>2
<1>4. /\ loads' \in Seq(LoadRecord) /\ Len(loads') = Len(loads) /\ DOMAIN loads' = DOMAIN loads
      /\ loads'[l] = new /\ \A m \in DOMAIN loads : m # l => loads'[m] = loads[m]
  BY <1>1, <1>3 DEF CacheTypes
<1>5. \A m \in DOMAIN loads : /\ loads'[m].key = loads[m].key /\ loads'[m].dropped = loads[m].dropped
                              /\ loads'[m].runs => loads[m].runs
                              /\ loads[m].key \in CacheKeys
  <2> SUFFICES ASSUME NEW m \in DOMAIN loads
               PROVE  /\ loads'[m].key = loads[m].key /\ loads'[m].dropped = loads[m].dropped
                      /\ loads'[m].runs => loads[m].runs
                      /\ loads[m].key \in CacheKeys
    OBVIOUS
  <2>1. loads[m] \in LoadRecord
    BY DEF CacheTypes
  <2>2. loads[m].key \in CacheKeys
    BY <2>1 DEF LoadRecord
  <2> QED BY <1>1, <1>2, <1>3, <1>4, <2>2
<1>6. UNCHANGED <<cacheScope, previousScope>>
  BY DEF Ends
<1>7. CASE ~StillWanted(l)
  <2>1. UNCHANGED <<entries, inFlight>> /\ inFlight[k] # l
    BY <1>1, <1>2, <1>7 DEF Ends, StillWanted
  <2>2. old.dropped
    BY <1>1, <1>2, <2>1 DEF RunsAreInFlight
  <2>3. CacheTypes'
    BY <1>4, <1>6, <2>1 DEF CacheTypes
  <2>4. FlightsRun'
    BY <1>1, <1>4, <1>5, <2>1, <2>2 DEF FlightsRun
  <2>5. RunsAreInFlight'
    BY <1>4, <1>5, <2>1 DEF RunsAreInFlight
  <2>6. DataIsOwn' /\ EntriesInScope'
    BY <1>4, <1>5, <1>6, <2>1 DEF DataIsOwn, EntriesInScope
  <2> QED BY <2>3, <2>4, <2>5, <2>6
<1>8. CASE StillWanted(l)
  <2>1. /\ entries' = [entries EXCEPT ![k] = entry] /\ inFlight' = [inFlight EXCEPT ![k] = NoLoad]
        /\ inFlight[k] = l
    BY <1>1, <1>2, <1>8 DEF Ends, StillWanted
  <2>2. /\ entries'[k] = entry /\ inFlight'[k] = NoLoad
        /\ \A x \in CacheKeys : x # k => entries'[x] = entries[x] /\ inFlight'[x] = inFlight[x]
    BY <2>1 DEF CacheTypes
  <2>3. l # NoLoad /\ ~old.dropped /\ entries[k].status # "idle"
    <3>1. l # NoLoad
      BY <1>1 DEF CacheTypes, NoLoad
    <3> QED BY <1>1, <2>1, <3>1 DEF FlightsRun
  <2>4. CacheTypes'
    BY <1>4, <1>6, <2>1 DEF CacheTypes, NoLoad
  <2>5. FlightsRun'
    BY <1>2, <1>4, <2>2, <1>1 DEF FlightsRun
  <2>6. RunsAreInFlight'
    <3> SUFFICES ASSUME NEW m \in DOMAIN loads, loads'[m].runs, ~loads'[m].dropped PROVE inFlight'[loads'[m].key] = m
      BY <1>4 DEF RunsAreInFlight
    <3>1. m # l
      BY <1>3, <1>4
    <3>2. inFlight[loads[m].key] = m
      BY <1>5 DEF RunsAreInFlight
    <3> QED BY <1>5, <2>1, <2>2, <3>1, <3>2
  <2>7. DataIsOwn'
    <3> SUFFICES ASSUME NEW x \in CacheKeys
                 PROVE  (/\ entries[x].data \in {NoLoad, SetByCaller} \cup DOMAIN loads
                         /\ entries[x].data \in DOMAIN loads => loads[entries[x].data].key = x /\ ~loads[entries[x].data].dropped
                         /\ entries[x].status = "idle" => entries[x].data = NoLoad)'
      BY DEF DataIsOwn
    <3>1. CASE x # k
      BY <1>4, <1>5, <2>2, <3>1 DEF DataIsOwn
    <3>2. CASE x = k
      <4>1. entry.data \in {l, entries[k].data}
        BY <1>1, <1>2
      <4> QED BY <1>1, <1>2, <1>4, <1>5, <2>2, <2>3, <3>2, <4>1 DEF DataIsOwn
    <3> QED BY <3>1, <3>2
  <2>8. EntriesInScope'
    BY <1>6, <2>2, <2>3 DEF EntriesInScope
  <2> QED BY <2>4, <2>5, <2>6, <2>7, <2>8
<1> QED BY <1>7, <1>8

\* Every step of the cache and of the provider above it.
LEMMA CacheStep == CacheOK /\ [CacheNext]_cacheVars => CacheOK'
<1> SUFFICES ASSUME CacheOK, [CacheNext]_cacheVars PROVE CacheOK'
  OBVIOUS
<1>1. CASE UNCHANGED cacheVars
  BY <1>1 DEF cacheVars, CacheOK, CacheTypes, FlightsRun, RunsAreInFlight, DataIsOwn, EntriesInScope
<1>2. ASSUME NEW l \in LoadIds, Answered(l) PROVE CacheOK'
  <2> DEFINE entry == [status |-> "ready", data |-> l, fresh |-> TRUE]
  <2>1. entry \in CacheEntry /\ entry.status # "idle" /\ entry.data = l
    BY DEF CacheEntry, LoadIds
  <2>2. Ends(l, entry)
    BY <1>2 DEF Answered
  <2> HIDE DEF entry
  <2> QED BY <2>1, <2>2, EndKeepsCache
<1>3. ASSUME NEW l \in LoadIds, Failed(l) PROVE CacheOK'
  <2>1. l \in DOMAIN loads /\ loads[l] \in LoadRecord
    BY <1>3 DEF Failed, Ends, CacheOK, CacheTypes
  <2>2. entries[loads[l].key] \in CacheEntry
    BY <2>1 DEF LoadRecord, CacheOK, CacheTypes
  <2>3. PICK d \in Int : d = entries[loads[l].key].data
    BY <2>2 DEF CacheEntry
  <2> DEFINE entry == [status |-> "error", data |-> d, fresh |-> FALSE]
  <2>4. entry \in CacheEntry /\ entry.status # "idle" /\ entry.data = d
    BY DEF CacheEntry
  <2>5. Ends(l, entry)
    BY <1>3, <2>3 DEF Failed
  <2> HIDE DEF entry
  <2> QED BY <2>3, <2>4, <2>5, EndKeepsCache
<1>4. CASE CacheNext
  BY <1>2, <1>3, <1>4, ScopesKeepCache, EntriesKeepCache, LoadKeepsCache DEF CacheNext
<1> QED BY <1>1, <1>4

\* CapitalCache under CapitalProvider: a load that was dropped never comes back as data, not when the wallet is
\* switched back before its answer; one request counts per key; and once the provider has seen a switch, nothing
\* of another scope is left.  The tables keep their types.
THEOREM DroppedLoadsStayDropped == CacheSpec => [](CacheTypeOK /\ DroppedStaysDropped)
<1>1. CacheOK => CacheTypeOK
  BY DEF CacheOK, CacheTypes, CacheTypeOK, FlightsRun, DataIsOwn, CacheEntry
<1>2. CacheOK => DroppedStaysDropped
  BY DEF CacheOK, RunsAreInFlight, DataIsOwn, EntriesInScope, DroppedStaysDropped
<1> QED BY <1>1, <1>2, CacheStarts, CacheStep, PTL DEF CacheSpec

---------------------------------------------------------------------------
(* ClientRequests *)

SendSteps == {"unsent", "waiting", "answered", "sleeping", "next", "failed"}
SendErrors == {"none"} \cup TransportErrors \cup ErrorClasses
SendRecord == [at : SendSteps, index : Nat, error : SendErrors, waited : Nat]

RequestTypes ==
  /\ sending \in [ClientRequestIds -> SendRecord]
  /\ onWire \in [ClientRequestIds -> SUBSET Nat] /\ handled \in [ClientRequestIds -> SUBSET Nat]

\* The attempt of a request is one the policy has, and a sleeping one has a next.
AttemptAllowed(r, s) ==
  /\ s.index < AttemptsOf(r)
  /\ s.at = "sleeping" => s.index + 1 < AttemptsOf(r) /\ s.waited <= MaxRetryAfter /\ s.error # "aborted"

\* Only attempts that were made are on the wire or were handled.
OnlyMadeOnes ==
  \A r \in ClientRequestIds : /\ AttemptAllowed(r, sending[r])
                              /\ onWire[r] \cup handled[r] \subseteq 0..sending[r].index

RequestsOK == RequestTypes /\ OnlyMadeOnes

\* Nothing is sent at first.
LEMMA RequestsStart == RequestsInit => RequestsOK
<1> SUFFICES ASSUME RequestsInit PROVE RequestsOK
  OBVIOUS
<1>1. NotSent \in SendRecord /\ NotSent.at = "unsent" /\ NotSent.index = 0
  BY DEF NotSent, SendRecord, SendSteps, SendErrors
<1>2. \A r \in ClientRequestIds : AttemptsOf(r) > 0
  BY ClientRequestsAssumption DEF AttemptsOf
<1>3. \A r \in ClientRequestIds : AttemptAllowed(r, NotSent)
  BY <1>1, <1>2 DEF AttemptAllowed
<1> QED BY <1>1, <1>3 DEF RequestsInit, RequestsOK, RequestTypes, OnlyMadeOnes

\* A request whose client moves, while the wire gains the attempt at hand at most.
LEMMA SenderKeepsRequests ==
  ASSUME RequestsOK, NEW r \in ClientRequestIds, NEW new \in SendRecord,
         sending' = [sending EXCEPT ![r] = new], AttemptAllowed(r, new), new.index >= sending[r].index,
         NEW wire, onWire' = [onWire EXCEPT ![r] = wire], wire \subseteq onWire[r] \cup {sending[r].index},
         UNCHANGED handled
  PROVE  RequestsOK'
<1> USE DEF RequestsOK
<1>1. sending[r].index \in Nat /\ new.index \in Nat
  BY DEF RequestTypes, SendRecord
<1>2. onWire[r] \subseteq Nat /\ wire \subseteq Nat
  BY <1>1 DEF RequestTypes
<1>3. RequestTypes'
  BY <1>2 DEF RequestTypes
<1>4. sending'[r] = new /\ onWire'[r] = wire /\ \A q \in ClientRequestIds : q # r => sending'[q] = sending[q] /\ onWire'[q] = onWire[q]
  BY DEF RequestTypes
<1>5. onWire[r] \cup handled[r] \subseteq 0..sending[r].index
  BY DEF OnlyMadeOnes
<1>6. wire \cup handled[r] \subseteq 0..new.index
  BY <1>1, <1>5
<1> QED BY <1>3, <1>4, <1>6 DEF OnlyMadeOnes, AttemptAllowed

\* The catch of send leaves a request that has failed, or one that sleeps with an attempt left.
LEMMA CatchAllows ==
  ASSUME RequestsOK, NEW r \in ClientRequestIds, NEW error \in SendErrors, NEW retryAfter \in Nat, Catch(r, error, retryAfter)
  PROVE  \E new \in SendRecord : /\ sending' = [sending EXCEPT ![r] = new]
                                 /\ AttemptAllowed(r, new) /\ new.index = sending[r].index
<1> USE DEF RequestsOK
<1>1. PICK old \in SendRecord : old = sending[r] /\ AttemptAllowed(r, old)
  BY DEF RequestTypes, OnlyMadeOnes
<1>2. old.index \in Nat /\ AttemptsOf(r) \in Nat
  BY <1>1, ClientRequestsAssumption DEF SendRecord, AttemptsOf
<1> DEFINE last == old.index = AttemptsOf(r) - 1
           stops(delay) == last \/ ~IsRetryable(error) \/ r \in cancelled \/ delay > MaxRetryAfter
<1>3. PICK delay \in DelayFor(old.index, retryAfter) :
          sending' = [sending EXCEPT ![r].error = error,
                        ![r].at = IF stops(delay) THEN "failed" ELSE "sleeping",
                        ![r].waited = IF retryAfter > 0 THEN retryAfter ELSE 0]
  BY <1>1 DEF Catch
<1>4. retryAfter > 0 => delay = retryAfter
  BY DEF DelayFor
<1>5. PICK at \in SendSteps : at = (IF stops(delay) THEN "failed" ELSE "sleeping") /\ at \in {"failed", "sleeping"}
  BY DEF SendSteps
<1>6. PICK waited \in Nat : waited = IF retryAfter > 0 THEN retryAfter ELSE 0
  OBVIOUS
<1>7. at = "sleeping" => old.index + 1 < AttemptsOf(r) /\ waited <= MaxRetryAfter /\ error # "aborted"
  <2> SUFFICES ASSUME at = "sleeping" PROVE old.index + 1 < AttemptsOf(r) /\ waited <= MaxRetryAfter /\ error # "aborted"
    OBVIOUS
  <2>1. ~last /\ IsRetryable(error) /\ ~(delay > MaxRetryAfter)
    BY <1>5
  <2>2. old.index + 1 < AttemptsOf(r)
    BY <1>1, <1>2, <2>1 DEF AttemptAllowed
  <2>3. waited <= MaxRetryAfter
    BY <1>4, <1>6, <2>1, ClientRequestsAssumption
  <2> QED BY <2>1, <2>2, <2>3 DEF IsRetryable
<1> HIDE DEF last, stops
<1> DEFINE new == [old EXCEPT !.error = error, !.at = at, !.waited = waited]
<1>8. new \in SendRecord /\ new.at = at /\ new.error = error /\ new.waited = waited /\ new.index = old.index
  BY DEF SendRecord
<1>9. sending' = [sending EXCEPT ![r] = new]
  BY <1>1, <1>3, <1>5, <1>6 DEF RequestTypes
<1> HIDE DEF new
<1>10. AttemptAllowed(r, new)
  BY <1>1, <1>7, <1>8 DEF AttemptAllowed
<1> QED BY <1>1, <1>8, <1>9, <1>10

\* send goes out, is answered, waits and is woken: what moves is the request, and never past its last attempt.
LEMMA SendKeepsRequests ==
  ASSUME RequestsOK, NEW r \in ClientRequestIds, Attempt(r) \/ Answer(r) \/ Sleeps(r)
  PROVE  RequestsOK'
<1>1. PICK old \in SendRecord : old = sending[r] /\ AttemptAllowed(r, old)
  BY DEF RequestsOK, RequestTypes, OnlyMadeOnes
<1>2. old.index \in Nat /\ AttemptsOf(r) \in Nat /\ onWire \in [ClientRequestIds -> SUBSET Nat]
      /\ sending \in [ClientRequestIds -> SendRecord]
  BY <1>1, ClientRequestsAssumption DEF SendRecord, AttemptsOf, RequestsOK, RequestTypes
<1>3. onWire' = [onWire EXCEPT ![r] = onWire'[r]] /\ onWire'[r] \subseteq onWire[r] \cup {sending[r].index}
      /\ UNCHANGED handled
  BY <1>2 DEF Attempt, Answer, Sleeps
<1>4. ASSUME NEW at \in SendSteps \ {"sleeping"}, NEW error \in SendErrors, NEW index \in Nat,
             sending' = [sending EXCEPT ![r].at = at, ![r].error = error, ![r].index = index],
             index >= old.index, index < AttemptsOf(r)
      PROVE  RequestsOK'
  <2> DEFINE new == [old EXCEPT !.at = at, !.error = error, !.index = index]
  <2>1. new \in SendRecord /\ new.at = at /\ new.index = index
    BY DEF SendRecord
  <2>2. sending' = [sending EXCEPT ![r] = new]
    BY <1>1, <1>2, <1>4
  <2> HIDE DEF new
  <2>3. AttemptAllowed(r, new) /\ new.index >= sending[r].index
    BY <1>1, <1>4, <2>1 DEF AttemptAllowed
  <2> QED BY <1>3, <2>1, <2>2, <2>3, SenderKeepsRequests
<1>5. /\ old.error \in SendErrors /\ "aborted" \in SendErrors /\ old.index < AttemptsOf(r) /\ old.index >= old.index
      /\ {"failed", "waiting", "answered", "next"} \subseteq SendSteps \ {"sleeping"}
  BY <1>1, <1>2 DEF SendRecord, SendErrors, TransportErrors, AttemptAllowed, SendSteps
<1>6. CASE (Attempt(r) \/ Sleeps(r)) /\ r \in cancelled
  <2>1. sending' = [sending EXCEPT ![r].at = "failed", ![r].error = "aborted", ![r].index = old.index]
    BY <1>1, <1>2, <1>6 DEF Attempt, Sleeps, SendRecord
  <2> QED BY <1>2, <1>4, <1>5, <2>1
<1>7. CASE Attempt(r) /\ r \notin cancelled
  <2>1. sending' = [sending EXCEPT ![r].at = "waiting", ![r].error = old.error, ![r].index = old.index]
    BY <1>1, <1>2, <1>7 DEF Attempt, SendRecord
  <2> QED BY <1>2, <1>4, <1>5, <2>1
<1>8. CASE Answer(r)
  <2>1. sending' = [sending EXCEPT ![r].at = "answered", ![r].error = old.error, ![r].index = old.index]
    BY <1>1, <1>2, <1>8 DEF Answer, SendRecord
  <2> QED BY <1>2, <1>4, <1>5, <2>1
<1>9. CASE Sleeps(r) /\ r \notin cancelled
  <2>1. sending' = [sending EXCEPT ![r].at = "next", ![r].error = old.error, ![r].index = old.index + 1]
    BY <1>1, <1>2, <1>9 DEF Sleeps, SendRecord
  <2>2. PICK n \in Nat : n = old.index + 1 /\ n < AttemptsOf(r) /\ n >= old.index
    BY <1>1, <1>2, <1>9 DEF Sleeps, AttemptAllowed
  <2> QED BY <1>4, <1>5, <2>1, <2>2
<1> QED BY <1>6, <1>7, <1>8, <1>9

\* An attempt that ends without a result.
LEMMA ErrorKeepsRequests ==
  ASSUME RequestsOK, NEW r \in ClientRequestIds, ErrorBody(r) \/ TransportFails(r)
  PROVE  RequestsOK'
<1>1. onWire' = [onWire EXCEPT ![r] = onWire'[r]] /\ onWire'[r] \subseteq onWire[r] /\ UNCHANGED handled
  BY DEF ErrorBody, TransportFails, RequestsOK, RequestTypes
<1>2. \E error \in SendErrors, retryAfter \in Nat : Catch(r, error, retryAfter)
  BY ClientRequestsAssumption DEF ErrorBody, TransportFails, SendErrors, TransportErrors
<1>3. PICK new \in SendRecord : /\ sending' = [sending EXCEPT ![r] = new]
                               /\ AttemptAllowed(r, new) /\ new.index = sending[r].index
  BY <1>2, CatchAllows
<1>4. new.index >= sending[r].index /\ onWire'[r] \subseteq onWire[r] \cup {sending[r].index}
  BY <1>1, <1>3 DEF SendRecord
<1> QED BY <1>1, <1>3, <1>4, SenderKeepsRequests

\* The API runs the handler of what is on the wire, however late.
LEMMA HandlerKeepsRequests ==
  ASSUME RequestsOK, NEW r \in ClientRequestIds, NEW i, Handle(r, i)
  PROVE  RequestsOK'
<1> USE DEF RequestsOK
<1>1. i \in onWire[r] /\ i \in Nat /\ onWire[r] \subseteq Nat /\ handled[r] \subseteq Nat
  BY DEF Handle, RequestTypes
<1>2. PICK wire \in SUBSET Nat : wire = onWire[r] \ {i}
  BY <1>1
<1>3. PICK ran \in SUBSET Nat : ran = handled[r] \cup {i}
  BY <1>1
<1>4. onWire' = [onWire EXCEPT ![r] = wire] /\ handled' = [handled EXCEPT ![r] = ran] /\ UNCHANGED sending
  BY <1>2, <1>3 DEF Handle
<1>5. RequestTypes'
  BY <1>4 DEF RequestTypes
<1>6. wire \cup ran \subseteq onWire[r] \cup handled[r]
  BY <1>1, <1>2, <1>3
<1> QED BY <1>4, <1>5, <1>6 DEF OnlyMadeOnes, RequestTypes

\* Every step of a request and of the wire.
LEMMA RequestsStep == RequestsOK /\ [RequestsNext]_requestVars => RequestsOK'
<1> SUFFICES ASSUME RequestsOK, [RequestsNext]_requestVars PROVE RequestsOK'
  OBVIOUS
<1>1. CASE UNCHANGED <<sending, onWire, handled>>
  BY <1>1 DEF RequestsOK, RequestTypes, OnlyMadeOnes
<1>2. CASE RequestsNext
  <2>1. \A r \in ClientRequestIds : Cancel(r) => UNCHANGED <<sending, onWire, handled>>
    BY DEF Cancel
  <2> QED BY <1>1, <1>2, <2>1, SendKeepsRequests, ErrorKeepsRequests, HandlerKeepsRequests DEF RequestsNext
<1> QED BY <1>1, <1>2 DEF requestVars

\* send: whatever is lost or late, the API runs the handler of a write at most once and of a read as often as the
\* policy has attempts; a request sleeps no longer than its caller tolerates, and never after an abort.
THEOREM WritesRunOnce == RequestsSpec => [](RequestsTypeOK /\ WritesOnce)
<1>1. RequestsOK => RequestsTypeOK /\ WritesOnce
  <2> SUFFICES ASSUME RequestsOK PROVE RequestsTypeOK /\ WritesOnce
    OBVIOUS
  <2>1. ASSUME NEW r \in ClientRequestIds
        PROVE  /\ sending[r].index \in 0..LastAttempt /\ handled[r] \subseteq 0..LastAttempt
               /\ sending[r].error \in SendErrors
               /\ r \in Writes => Cardinality(handled[r]) <= 1
               /\ Cardinality(handled[r]) <= IF Attempts > 1 THEN Attempts ELSE 1
               /\ sending[r].at = "sleeping" => sending[r].waited <= MaxRetryAfter /\ sending[r].error # "aborted"
    <3>1. PICK n \in Nat : n = sending[r].index /\ n < AttemptsOf(r)
      BY DEF RequestsOK, RequestTypes, OnlyMadeOnes, AttemptAllowed, SendRecord
    <3>2. handled[r] \subseteq 0..n
      BY <3>1 DEF RequestsOK, OnlyMadeOnes
    <3>3. PICK D : D = 0..n
      OBVIOUS
    <3>4. IsFiniteSet(D) /\ Cardinality(D) = n + 1
      BY <3>1, <3>3, FS_Interval
    <3>5. Cardinality(handled[r]) <= n + 1 /\ Cardinality(handled[r]) \in Nat
      BY <3>2, <3>3, <3>4, FS_Subset, FS_CardinalityType
    <3>6. r \in Writes => AttemptsOf(r) = 1
      BY ClientRequestsAssumption DEF AttemptsOf
    <3>7. n \in 0..LastAttempt /\ LastAttempt \in Nat /\ n <= LastAttempt
      BY <3>1, ClientRequestsAssumption DEF AttemptsOf, LastAttempt
    <3>8. handled[r] \subseteq 0..LastAttempt
      BY <3>2, <3>7
    <3>9. Cardinality(handled[r]) <= IF Attempts > 1 THEN Attempts ELSE 1
      BY <3>1, <3>5, ClientRequestsAssumption DEF AttemptsOf
    <3>10. r \in Writes => Cardinality(handled[r]) <= 1
      BY <3>1, <3>5, <3>6
    <3>11. sending[r].at = "sleeping" => sending[r].waited <= MaxRetryAfter /\ sending[r].error # "aborted"
      BY DEF RequestsOK, OnlyMadeOnes, AttemptAllowed
    <3>12. sending[r].error \in SendErrors
      BY DEF RequestsOK, RequestTypes, SendRecord
    <3> QED BY <3>1, <3>7, <3>8, <3>9, <3>10, <3>11, <3>12
  <2> QED BY <2>1 DEF RequestsTypeOK, WritesOnce, SendErrors
<1> QED BY <1>1, RequestsStart, RequestsStep, PTL DEF RequestsSpec

---------------------------------------------------------------------------
(* SdkWorkflow *)

TxStates == {"none", "sent", "mined", "lost"}
Evidence == {"none", "partial", "outage", "mismatch"}

SdkTypes ==
  /\ flow \in [state : States, evidence : Evidence] /\ moves \in 0..MaxSdkMoves
  /\ input \in Amounts /\ plan \in Plans /\ expired \in BOOLEAN
  /\ asking \in Steps \cup {0} /\ done \in SUBSET Steps
  /\ tx \in [Steps -> TxStates] /\ broadcasts \in [Steps -> Nat]

NothingOut == \A s \in Steps : broadcasts[s] = 0

\* The states from which the wallet may be asked: now, after a plan, or after the same plan again.
Signing == flow.state \in {"DRAFT", "QUOTED", "AWAITING_SIGNATURE"}
           \/ (flow.state = "ACTION_REQUIRED" /\ flow.evidence = "partial")

\* A step that is out is done or is the one asked for last, and before the wallet is asked again it is done.
OutIsKnown == \A s \in Steps : broadcasts[s] > 0 => s \in done \cup {asking}
SignsOnlyNew == Signing => \A s \in Steps : broadcasts[s] > 0 => s \in done
OnceEach == \A s \in Steps : broadcasts[s] <= 1

\* Before a plan, and after a rejection of its first step, nothing is out; what is out belongs to a bound plan.
BoundBeforeOut ==
  /\ flow.state \in {"DRAFT", "QUOTED", "USER_REJECTED"} => NothingOut
  /\ EffectsBound(plan) \/ NothingOut

SdkOK == SdkTypes /\ OutIsKnown /\ SignsOnlyNew /\ OnceEach /\ BoundBeforeOut

\* A host starts with a draft and has asked nobody.
LEMMA SdkStarts == SdkInit => SdkOK
<1> SUFFICES ASSUME SdkInit PROVE SdkOK
  OBVIOUS
<1>1. NoInput \in Amounts /\ NoPlan \in Plans
  BY SdkAssumption DEF NoInput, NoPlan, Amounts, Plans
<1>2. SdkTypes
  <2>1. moves \in 0..MaxSdkMoves
    BY SdkAssumption DEF SdkInit
  <2>2. flow \in [state : States, evidence : Evidence]
    BY DEF SdkInit, States, Evidence
  <2>3. tx \in [Steps -> TxStates] /\ broadcasts \in [Steps -> Nat]
    BY DEF SdkInit, TxStates
  <2> QED BY <1>1, <2>1, <2>2, <2>3 DEF SdkInit, SdkTypes
<1>3. NothingOut /\ \A s \in Steps : ~(broadcasts[s] > 0)
  BY DEF SdkInit, NothingOut
<1> QED BY <1>2, <1>3 DEF SdkOK, OutIsKnown, SignsOnlyNew, OnceEach, NothingOut, BoundBeforeOut

\* A host that learns something about what is out, without going back to the wallet.
LEMMA LearningKeepsSdk ==
  ASSUME SdkOK, SdkTypes', UNCHANGED <<input, plan, asking, broadcasts>>, done \subseteq done',
         \/ UNCHANGED flow
         \/ ~Signing' /\ flow'.state # "USER_REJECTED"
         \/ flow'.state = "AWAITING_SIGNATURE" /\ done' = done \cup {asking}
  PROVE  SdkOK'
<1> USE DEF SdkOK
<1>1. OutIsKnown' /\ OnceEach'
  BY DEF OutIsKnown, OnceEach
<1>2. BoundBeforeOut'
  <2>1. EffectsBound(plan)' = EffectsBound(plan) /\ NothingOut' = NothingOut
    BY DEF EffectsBound, SendsOf, NothingOut
  <2> QED BY <2>1 DEF BoundBeforeOut, Signing
<1>3. SignsOnlyNew'
  BY DEF SignsOnlyNew, OutIsKnown, Signing
<1> QED BY <1>1, <1>2, <1>3

\* A quote, a plan bound to it, and the end of the quote's time.
LEMMA PlanningKeepsSdk ==
  ASSUME SdkOK, RecordQuote \/ RecordPlan \/ QuoteExpires
  PROVE  SdkOK'
<1> USE DEF SdkOK
<1>1. CASE RecordQuote
  <2>1. flow.state = "DRAFT" /\ flow' = [state |-> "QUOTED", evidence |-> "none"] /\ moves' \in 0..MaxSdkMoves
        /\ input' \in Amounts /\ UNCHANGED <<plan, expired, asking, done, tx, broadcasts>>
    BY <1>1, SdkAssumption DEF RecordQuote, MoveTo, CanTransition, ALLOWED, SdkTypes, States
  <2>2. SdkTypes'
    BY <2>1 DEF SdkTypes, States, Evidence
  <2>3. NothingOut /\ NothingOut'
    BY <2>1 DEF BoundBeforeOut, NothingOut
  <2> QED BY <2>1, <2>2, <2>3 DEF OutIsKnown, SignsOnlyNew, OnceEach, NothingOut, BoundBeforeOut
<1>2. CASE RecordPlan
  <2>1. flow' = [state |-> "AWAITING_SIGNATURE", evidence |-> "none"] /\ moves' \in 0..MaxSdkMoves
        /\ plan' \in Plans /\ EffectsBound(plan') /\ UNCHANGED <<input, expired, asking, done, tx, broadcasts>>
    BY <1>2, SdkAssumption DEF RecordPlan, MoveTo, PlanReady, SdkTypes
  <2>2. flow.state \in {"QUOTED", "STEP_CONFIRMED", "ACTION_REQUIRED"}
    BY <1>2 DEF RecordPlan, MoveTo, CanTransition, ALLOWED, SdkTypes, States
  <2>3. Signing
    <3>1. NextActionFor(flow.state, flow.evidence) \in {"SIGN", "FOLLOW_UP"}
      BY <1>2 DEF RecordPlan, ResumeHint
    <3>2. flow.state # "STEP_CONFIRMED"
      BY <3>1 DEF NextActionFor
    <3>3. flow.state = "ACTION_REQUIRED" => flow.evidence = "partial"
      BY <3>1 DEF NextActionFor
    <3> QED BY <2>2, <3>2, <3>3 DEF Signing
  <2>4. SdkTypes'
    BY <2>1 DEF SdkTypes, States, Evidence
  <2>5. EffectsBound(plan)'
    BY <2>1 DEF EffectsBound, SendsOf
  <2>6. BoundBeforeOut'
    BY <2>1, <2>5 DEF BoundBeforeOut
  <2> QED BY <2>1, <2>3, <2>4, <2>6 DEF OutIsKnown, SignsOnlyNew, OnceEach
<1>3. CASE QuoteExpires
  <2>1. UNCHANGED <<flow, moves, input, plan, asking, done, tx, broadcasts>> /\ expired' = TRUE
    BY <1>3 DEF QuoteExpires
  <2>2. SdkTypes'
    BY <2>1 DEF SdkTypes
  <2> QED BY <2>1, <2>2, LearningKeepsSdk
<1> QED BY <1>1, <1>2, <1>3

\* The wallet is asked for a step that is not done, so for one that is not out.
LEMMA AskingKeepsSdk ==
  ASSUME SdkOK, NEW s \in Steps, AskWallet(s)
  PROVE  SdkOK'
<1> USE DEF SdkOK
<1>1. flow.state = "AWAITING_SIGNATURE" /\ s \notin done /\ EffectsBound(plan)
      /\ UNCHANGED <<input, plan, expired, done>> /\ asking' = s
  BY DEF AskWallet, ResumeHint, CanSubmitWrite, FirstUnsigned, UnsignedSteps, PlanReady,
         WalletRejects, WalletBroadcasts, WalletIsUnclear
<1>2. broadcasts[s] = 0 /\ \A t \in Steps : broadcasts[t] > 0 => t \in done
  BY <1>1 DEF SignsOnlyNew, Signing, SdkTypes
<1>3. EffectsBound(plan)'
  BY <1>1 DEF EffectsBound, SendsOf
<1>4. CASE WalletRejects(s)
  <2>1. UNCHANGED <<tx, broadcasts>> /\ moves' \in 0..MaxSdkMoves
        /\ flow' = IF done # {} THEN [state |-> "ACTION_REQUIRED", evidence |-> "partial"]
                   ELSE [state |-> "USER_REJECTED", evidence |-> "none"]
    BY <1>4, SdkAssumption DEF WalletRejects, MoveTo, SdkTypes
  <2>2. SdkTypes'
    BY <1>1, <2>1 DEF SdkTypes, States, Evidence
  <2>3. OutIsKnown' /\ SignsOnlyNew' /\ OnceEach'
    BY <1>1, <1>2, <2>1 DEF OutIsKnown, SignsOnlyNew, OnceEach
  <2>4. flow'.state \in {"DRAFT", "QUOTED", "USER_REJECTED"} => NothingOut'
    <3>1. flow'.state \in {"DRAFT", "QUOTED", "USER_REJECTED"} => done = {}
      BY <2>1
    <3> QED BY <1>2, <2>1, <3>1 DEF NothingOut, SdkTypes
  <2> QED BY <1>3, <2>2, <2>3, <2>4 DEF BoundBeforeOut
<1>5. CASE WalletBroadcasts(s) \/ WalletIsUnclear(s)
  <2>1. moves' \in 0..MaxSdkMoves /\ \E to \in {"SUBMITTED", "BROADCAST_UNKNOWN"} : flow' = [state |-> to, evidence |-> "none"]
    BY <1>5, SdkAssumption DEF WalletBroadcasts, WalletIsUnclear, MoveTo, SdkTypes
  <2>2. \/ UNCHANGED <<tx, broadcasts>>
        \/ tx' = [tx EXCEPT ![s] = "sent"] /\ broadcasts' = [broadcasts EXCEPT ![s] = 1]
    BY <1>2, <1>5 DEF WalletBroadcasts, WalletIsUnclear
  <2>3. SdkTypes'
    BY <1>1, <2>1, <2>2 DEF SdkTypes, States, Evidence, TxStates
  <2>4. flow'.state \in {"SUBMITTED", "BROADCAST_UNKNOWN"}
    BY <2>1
  <2>5. OnceEach'
    BY <2>2 DEF OnceEach, SdkTypes
  <2>6. OutIsKnown'
    BY <1>1, <1>2, <2>2 DEF OutIsKnown, SdkTypes
  <2> QED BY <1>3, <2>3, <2>4, <2>5, <2>6 DEF SignsOnlyNew, Signing, BoundBeforeOut
<1> QED BY <1>4, <1>5 DEF AskWallet

\* Every move of the host that is not a question to the wallet, and the chain.
LEMMA WatchingKeepsSdk ==
  ASSUME SdkOK,
         \/ LosesSight \/ ResolveUnknownBroadcast \/ BeginConfirming \/ MarkStepConfirmed \/ ContinueAfterConfirmedStep
         \/ BeginReconciling \/ CompleteFromReconciliation \/ RecordProviderOutage \/ ApplyReorg \/ ResumeAfterReorg
         \/ ChainMoves
  PROVE  SdkOK'
<1> DEFINE Late == States \ {"DRAFT", "QUOTED", "AWAITING_SIGNATURE", "USER_REJECTED"}
<1>1. SdkTypes
  BY DEF SdkOK
<1>2. ASSUME NEW to \in Late, NEW evidence \in Evidence \ {"partial"}, MoveTo(to, evidence),
             UNCHANGED <<input, plan, expired, asking, tx, broadcasts>>, done' \in SUBSET Steps, done \subseteq done'
      PROVE  SdkOK'
  <2>1. flow' = [state |-> to, evidence |-> evidence] /\ moves' \in 0..MaxSdkMoves
    BY <1>1, <1>2, SdkAssumption DEF MoveTo, SdkTypes
  <2>2. SdkTypes'
    BY <1>1, <1>2, <2>1 DEF SdkTypes
  <2>3. ~Signing' /\ flow'.state # "USER_REJECTED"
    BY <1>2, <2>1 DEF Signing
  <2> QED BY <1>2, <2>2, <2>3, LearningKeepsSdk
<1>3. /\ {"BROADCAST_UNKNOWN", "SUBMITTED", "CONFIRMING", "STEP_CONFIRMED", "RECONCILING", "ACTION_REQUIRED",
          "REORGED", "MANUAL_REVIEW", "COMPLETED"} \subseteq Late
      /\ {"none", "outage", "mismatch"} \subseteq Evidence \ {"partial"}
  BY DEF States, Evidence
<1>4. asking # 0 => done \cup {asking} \in SUBSET Steps
  BY <1>1 DEF SdkTypes
<1> HIDE DEF Late
<1>5. CASE LosesSight \/ ResolveUnknownBroadcast \/ BeginConfirming \/ BeginReconciling \/ ResumeAfterReorg \/ ApplyReorg
  <2>1. /\ \E to \in {"BROADCAST_UNKNOWN", "SUBMITTED", "MANUAL_REVIEW", "CONFIRMING", "RECONCILING", "REORGED"} : MoveTo(to, "none")
        /\ UNCHANGED <<input, plan, expired, asking, done, tx, broadcasts>>
    BY <1>5 DEF LosesSight, ResolveUnknownBroadcast, BeginConfirming, BeginReconciling, ResumeAfterReorg, ApplyReorg
  <2>2. done' \in SUBSET Steps /\ done \subseteq done'
    BY <1>1, <2>1 DEF SdkTypes
  <2> QED BY <1>2, <1>3, <2>1, <2>2
<1>6. CASE MarkStepConfirmed
  <2>1. MoveTo("STEP_CONFIRMED", "none") /\ UNCHANGED <<input, plan, expired, asking, tx, broadcasts>>
        /\ done' = done \cup {asking} /\ asking # 0
    BY <1>6 DEF MarkStepConfirmed
  <2>2. done' \in SUBSET Steps /\ done \subseteq done'
    BY <1>4, <2>1
  <2> QED BY <1>2, <1>3, <2>1, <2>2
<1>7. CASE ContinueAfterConfirmedStep
  <2>1. /\ done' = done \cup {asking} /\ asking # 0 /\ moves' \in 0..MaxSdkMoves
        /\ flow' = [state |-> "AWAITING_SIGNATURE", evidence |-> "none"]
        /\ UNCHANGED <<input, plan, expired, asking, tx, broadcasts>>
    BY <1>1, <1>7, SdkAssumption DEF ContinueAfterConfirmedStep, SdkTypes
  <2>2. SdkTypes'
    BY <1>1, <1>4, <2>1 DEF SdkTypes, States, Evidence
  <2> QED BY <2>1, <2>2, LearningKeepsSdk
<1>8. CASE CompleteFromReconciliation
  <2>1. /\ MoveTo("COMPLETED", "none") \/ MoveTo("ACTION_REQUIRED", "mismatch")
        /\ UNCHANGED <<input, plan, expired, asking, done, tx, broadcasts>>
    BY <1>8 DEF CompleteFromReconciliation
  <2>2. done' \in SUBSET Steps /\ done \subseteq done'
    BY <1>1, <2>1 DEF SdkTypes
  <2> QED BY <1>2, <1>3, <2>1, <2>2
<1>9. CASE RecordProviderOutage
  <2>1. /\ \E to \in {"SUBMITTED", "CONFIRMING", "RECONCILING", "BROADCAST_UNKNOWN"} : MoveTo(to, "outage")
        /\ UNCHANGED <<input, plan, expired, asking, done, tx, broadcasts>>
    BY <1>9 DEF RecordProviderOutage
  <2>2. done' \in SUBSET Steps /\ done \subseteq done'
    BY <1>1, <2>1 DEF SdkTypes
  <2> QED BY <1>2, <1>3, <2>1, <2>2
<1>10. CASE ChainMoves
  <2>1. UNCHANGED <<flow, moves, input, plan, expired, asking, done, broadcasts>> /\ tx' \in [Steps -> TxStates]
    BY <1>1, <1>10 DEF ChainMoves, SdkTypes, TxStates
  <2>2. SdkTypes'
    BY <1>1, <2>1 DEF SdkTypes
  <2> QED BY <2>1, <2>2, LearningKeepsSdk
<1> QED BY <1>5, <1>6, <1>7, <1>8, <1>9, <1>10

\* Every step of the host, the wallet and the chain.
LEMMA SdkStep == SdkOK /\ [SdkNext]_sdkVars => SdkOK'
<1> SUFFICES ASSUME SdkOK, [SdkNext]_sdkVars PROVE SdkOK'
  OBVIOUS
<1>1. CASE UNCHANGED sdkVars
  BY <1>1, LearningKeepsSdk DEF sdkVars, SdkOK, SdkTypes
<1>2. CASE SdkNext
  BY <1>2, PlanningKeepsSdk, AskingKeepsSdk, WatchingKeepsSdk DEF SdkNext
<1> QED BY <1>1, <1>2

\* What is out is part of what the plan sends, and a bound plan sends the quote's amounts.
LEMMA OutIsBounded ==
  ASSUME SdkOK, NEW q \in Quantities
  PROVE  LetOut[q] <= input[q]
<1> DEFINE out == {s \in Steps : plan[s] = q /\ broadcasts[s] > 0}
           sent == {s \in Steps : plan[s] = q}
<1>1. LetOut[q] = Cardinality(out)
  BY DEF LetOut
<1>2. out \subseteq sent /\ sent \subseteq Steps
  OBVIOUS
<1>3. IsFiniteSet(sent)
  BY <1>2, SdkAssumption, FS_Subset
<1>4. Cardinality(out) <= Cardinality(sent)
  BY <1>2, <1>3, FS_Subset
<1>5. CASE EffectsBound(plan)
  <2>1. Cardinality(sent) = input[q]
    BY <1>5 DEF EffectsBound, SendsOf
  <2> HIDE DEF out, sent
  <2> QED BY <1>1, <1>4, <2>1
<1>6. CASE NothingOut
  <2>1. out = {}
    BY <1>6 DEF NothingOut, SdkOK, SdkTypes
  <2>2. Cardinality(out) = 0
    BY <2>1, FS_EmptySet
  <2>3. input[q] \in 0..MaxInputs
    BY DEF SdkOK, SdkTypes, Amounts
  <2> HIDE DEF out
  <2> QED BY <1>1, <2>2, <2>3, SdkAssumption
<1> QED BY <1>5, <1>6 DEF SdkOK, BoundBeforeOut

\* The helpers of core and the SDK, and a host that follows their hints: whatever the wallet, the reads and the chain
\* do, no step is broadcast twice, the steps together let out no more than the quote took in, and a workflow that is
\* labelled rejected has let out nothing.  For plans of any length.
THEOREM HostSpendsWithinQuote == SdkSpec => [](SdkTypeOK /\ SpentWithinQuote)
<1>1. SdkOK => SdkTypeOK
  BY DEF SdkOK, SdkTypes, SdkTypeOK, TxStates
<1>2. SdkOK => SpentWithinQuote
  BY OutIsBounded DEF SdkOK, OnceEach, BoundBeforeOut, NothingOut, SpentWithinQuote
<1> QED BY <1>1, <1>2, SdkStarts, SdkStep, PTL DEF SdkSpec

---------------------------------------------------------------------------
(* Screens *)

Phases == {"idle", "quoting", "starting", "validating", "signing", "reportingTx", "reportingUnknown", "refreshing"}
FlowStates == {"AWAITING_SIGNATURE", "SUBMITTED", "BROADCAST_UNKNOWN", "COMPLETED", "ACTION_REQUIRED"}
QuoteRow == [expires : Nat, executable : BOOLEAN]
FlowRow == [quote : Nat, state : FlowStates, broadcasts : Nat]

\* Rows, and the room the bounds have left for the answer that is awaited.
ScreenTypes ==
  /\ ScreensTypeOK
  /\ minted \in Seq(QuoteRow) /\ flows \in Seq(FlowRow)
  /\ \A w \in 1..Len(flows) : flows[w].quote \in 0..Len(minted)
  /\ seen \subseteq 1..Len(flows)
  /\ phase \in Phases
  /\ page = "closed" => phase = "idle" /\ quote = 0
  /\ phase = "quoting" => Len(minted) < MaxQuotes
  /\ phase = "starting" => Len(flows) < MaxStarts
  /\ phase \in {"validating", "signing", "reportingTx", "reportingUnknown"} => target # 0

NotSeen(q) == \A w \in seen : flows[w].quote # q

\* What the handler closed over is the quote of the page, unless that was dropped, and was not shown as sent.
HeldIsUnsent ==
  phase \in {"starting", "validating"} => held # 0 /\ (page # "borrow" => quote \in {0, held} /\ NotSeen(held))

\* So is the page's own, as long as the form or the way to ask again is shown.
QuoteIsUnsent ==
  quote # 0 /\ (page = "swap" \/ (page \in {"earn", "bridge"} /\ shown \in {"none", "AWAITING_SIGNATURE"})) => NotSeen(quote)

\* Once the page has shown a workflow as past its signature no reading of it will show otherwise.
ShownStays ==
  page \in {"earn", "bridge"} =>
    /\ phase = "quoting" => shown = "none"
    /\ quote # 0 /\ shown \notin {"none", "AWAITING_SIGNATURE"} =>
         Followed # 0 /\ flows[Followed].state # "AWAITING_SIGNATURE"

ScreensOK == ScreenTypes /\ HeldIsUnsent /\ QuoteIsUnsent /\ ShownStays

\* The server's rows only grow, keep their quote, and never ask for a signature again.
FlowsGoOn ==
  /\ flows' \in Seq(FlowRow) /\ Len(flows') >= Len(flows)
  /\ \A w \in 1..Len(flows) :
       /\ flows'[w].quote = flows[w].quote
       /\ flows[w].state # "AWAITING_SIGNATURE" => flows'[w].state # "AWAITING_SIGNATURE"

LEMMA BoundsOfScreens ==
  /\ Screen \subseteq Kinds
  /\ QuoteSeconds \in Nat /\ RefreshMargin \in Nat /\ MaxSeconds \in Nat /\ MaxQuotes \in Nat
  /\ MaxStarts \in Nat /\ MaxAsks \in Nat /\ MaxReloads \in Nat
<1>1. {QuoteSeconds, RefreshMargin, MaxSeconds, MaxQuotes, MaxStarts, MaxAsks, MaxReloads} \subseteq Nat
  BY ScreensAssumption
<1> QED BY <1>1, ScreensAssumption

LEMMA FlowChanges ==
  ASSUME ScreenTypes, NEW w \in 1..Len(flows), NEW row \in FlowRow, row.quote = flows[w].quote,
         flows[w].state # "AWAITING_SIGNATURE" => row.state # "AWAITING_SIGNATURE",
         flows' = [flows EXCEPT ![w] = row]
  PROVE  FlowsGoOn /\ Len(flows') = Len(flows)
<1>1. PICK s \in Seq(FlowRow) : s = flows
  BY DEF ScreenTypes
<1>2. PICK t : t = [s EXCEPT ![w] = row]
  OBVIOUS
<1>3. t \in Seq(FlowRow) /\ Len(t) = Len(s) /\ \A v \in 1..Len(s) : t[v] = IF v = w THEN row ELSE s[v]
  BY <1>1, <1>2
<1>4. flows' = t
  BY <1>1, <1>2
<1> QED BY <1>1, <1>3, <1>4 DEF FlowsGoOn

LEMMA FlowsStay ==
  ASSUME ScreenTypes, flows' = flows
  PROVE  FlowsGoOn /\ Len(flows') = Len(flows)
BY DEF ScreenTypes, FlowsGoOn

LEMMA FlowStarts ==
  ASSUME ScreenTypes, phase = "starting", flows' = WithStarted
  PROVE  /\ FlowsGoOn /\ Len(flows') = Len(flows) + 1 /\ Len(flows') <= MaxStarts
         /\ \A w \in 1..Len(flows') : flows'[w].quote \in 0..Len(minted)
<1>1. PICK s \in Seq(FlowRow) : s = flows
  BY DEF ScreenTypes
<1>2. PICK row \in FlowRow : row = [quote |-> held, state |-> "AWAITING_SIGNATURE", broadcasts |-> 0] /\ row.quote \in 0..Len(minted)
  <2>1. {quote, held} \subseteq 0..Len(minted) /\ Len(minted) \in Nat
    BY DEF ScreenTypes, ScreensTypeOK
  <2>2. held \in 0..Len(minted) /\ held \in Nat
    BY <2>1
  <2>3. [quote |-> held, state |-> "AWAITING_SIGNATURE", broadcasts |-> 0] \in FlowRow
    BY <2>2 DEF FlowRow, FlowStates
  <2> QED BY <2>2, <2>3
<1>3. PICK t : t = Append(s, row)
  OBVIOUS
<1>4. t \in Seq(FlowRow) /\ Len(t) = Len(s) + 1 /\ (\A v \in 1..Len(s) : t[v] = s[v]) /\ t[Len(s) + 1] = row
  BY <1>3, AppendProperties
<1>5. flows' = t
  BY <1>1, <1>2, <1>3 DEF WithStarted
<1>6. FlowsGoOn
  BY <1>1, <1>4, <1>5 DEF FlowsGoOn
<1>7. Len(flows) < MaxStarts /\ Len(flows) \in Nat /\ \A w \in 1..Len(flows) : flows[w].quote \in 0..Len(minted)
  BY <1>1 DEF ScreenTypes
<1>8. \A w \in 1..(Len(s) + 1) : w \in 1..Len(s) \/ w = Len(s) + 1
  OBVIOUS
<1> QED BY <1>1, <1>2, <1>4, <1>5, <1>6, <1>7, <1>8, BoundsOfScreens

\* What the page has shown stays with the rows it names.
LEMMA SeenKeeps ==
  ASSUME ScreenTypes, FlowsGoOn, seen' = seen, NEW q, NotSeen(q)
  PROVE  \A w \in seen' : flows'[w].quote # q
<1>1. \A w \in seen : w \in 1..Len(flows)
  BY DEF ScreenTypes
<1> QED BY <1>1 DEF FlowsGoOn, NotSeen

LEMMA ScreensStart ==
  ASSUME ScreensInit
  PROVE  ScreensOK
<1>1. minted = <<>> /\ flows = <<>> /\ Len(minted) = 0 /\ Len(flows) = 0
  BY DEF ScreensInit
<1>2. ScreensTypeOK
  BY <1>1, BoundsOfScreens DEF ScreensInit, ScreensTypeOK
<1>3. ScreenTypes
  BY <1>1, <1>2 DEF ScreensInit, ScreenTypes, Phases
<1>4. HeldIsUnsent /\ QuoteIsUnsent /\ ShownStays
  BY DEF ScreensInit, HeldIsUnsent, QuoteIsUnsent, ShownStays
<1> QED BY <1>3, <1>4 DEF ScreensOK

\* The fields of the type invariant one by one.
LEMMA ScreenFields ==
  ASSUME ScreenTypes
  PROVE  /\ page \in Kinds \cup {"closed"} /\ seconds \in 0..MaxSeconds /\ seconds \in Nat
         /\ quote \in 0..Len(minted) /\ held \in 0..Len(minted) /\ Len(minted) \in 0..MaxQuotes /\ Len(minted) \in Nat
         /\ started \in 0..Len(flows) /\ saved \in 0..Len(flows) /\ remembered \in 0..Len(flows) /\ target \in 0..Len(flows)
         /\ Len(flows) \in 0..MaxStarts /\ Len(flows) \in Nat /\ asks \in 0..MaxAsks /\ reloads \in 0..MaxReloads
         /\ shown \in FlowStates \cup {"none"}
<1>1. {quote, held} \subseteq 0..Len(minted) /\ {started, saved, remembered, target} \cup seen \subseteq 0..Len(flows)
  BY DEF ScreenTypes, ScreensTypeOK
<1>2. quote \in 0..Len(minted) /\ held \in 0..Len(minted)
  BY <1>1
<1>3. started \in 0..Len(flows) /\ saved \in 0..Len(flows) /\ remembered \in 0..Len(flows) /\ target \in 0..Len(flows)
  BY <1>1
<1>4. seconds \in Nat /\ Len(minted) \in Nat /\ Len(flows) \in Nat
  BY BoundsOfScreens DEF ScreenTypes, ScreensTypeOK
<1> QED BY <1>2, <1>3, <1>4 DEF ScreenTypes, ScreensTypeOK, FlowStates

\* And put together again.
LEMMA ScreenTypesOf ==
  ASSUME ScreenTypes, FlowsGoOn, Len(flows') <= MaxStarts,
         \A w \in 1..Len(flows') : flows'[w].quote \in 0..Len(minted'),
         minted' \in Seq(QuoteRow), Len(minted') <= MaxQuotes, Len(minted') >= Len(minted),
         page' \in Kinds \cup {"closed"}, seconds' \in 0..MaxSeconds,
         quote' \in 0..Len(minted'), held' \in 0..Len(minted'),
         started' \in 0..Len(flows'), saved' \in 0..Len(flows'), remembered' \in 0..Len(flows'), target' \in 0..Len(flows'),
         seen' \subseteq 1..Len(flows'), asks' \in 0..MaxAsks, reloads' \in 0..MaxReloads,
         shown' \in FlowStates \cup {"none"}, phase' \in Phases,
         page' = "closed" => phase' = "idle" /\ quote' = 0,
         phase' = "quoting" => Len(minted') < MaxQuotes,
         phase' = "starting" => Len(flows') < MaxStarts,
         phase' \in {"validating", "signing", "reportingTx", "reportingUnknown"} => target' # 0
  PROVE  ScreenTypes'
<1>1. Len(flows') \in Nat /\ Len(minted') \in Nat
  BY DEF FlowsGoOn
<1>2. ScreensTypeOK'
  <2>1. {quote, held}' \subseteq 0..Len(minted')
    OBVIOUS
  <2>2. seen' \subseteq 0..Len(flows')
    BY <1>1
  <2>3. ({started, saved, remembered, target} \cup seen)' \subseteq 0..Len(flows')
    BY <2>2
  <2>4. Len(minted') \in 0..MaxQuotes /\ Len(flows') \in 0..MaxStarts
    BY <1>1, BoundsOfScreens
  <2> QED BY <2>1, <2>3, <2>4 DEF ScreensTypeOK, FlowStates
<1> QED BY <1>2 DEF ScreenTypes, FlowsGoOn

LEMMA QuoteRows ==
  ASSUME ScreenTypes, flows' = flows
  PROVE  \A w \in 1..Len(flows') : flows'[w].quote \in 0..Len(minted)
BY DEF ScreenTypes

\* The steps that leave the rows of the server and what was shown of them alone.
LEMMA PageTypes ==
  ASSUME ScreenTypes, UNCHANGED <<minted, flows, seen>>,
         page' \in Kinds \cup {"closed"}, seconds' \in 0..MaxSeconds,
         quote' \in {0, quote}, held' \in {0, held, quote},
         started' \in {0, started}, saved' \in {0, saved}, remembered' \in 0..Len(flows), target' \in {0, target, started},
         asks' \in 0..MaxAsks, reloads' \in 0..MaxReloads,
         shown' \in FlowStates \cup {"none"}, phase' \in Phases,
         page' = "closed" => phase' = "idle" /\ quote' = 0,
         phase' = "quoting" => Len(minted) < MaxQuotes,
         phase' = "starting" => Len(flows) < MaxStarts,
         phase' \in {"validating", "signing", "reportingTx", "reportingUnknown"} => target' # 0
  PROVE  ScreenTypes'
<1>1. FlowsGoOn /\ Len(flows') = Len(flows)
  BY FlowsStay
<1>2. /\ quote \in 0..Len(minted) /\ held \in 0..Len(minted) /\ Len(minted) \in 0..MaxQuotes /\ Len(minted) \in Nat
      /\ started \in 0..Len(flows) /\ saved \in 0..Len(flows) /\ target \in 0..Len(flows)
      /\ Len(flows) \in 0..MaxStarts /\ Len(flows) \in Nat
  BY ScreenFields
<1>3. /\ quote' \in 0..Len(minted') /\ held' \in 0..Len(minted')
      /\ started' \in 0..Len(flows') /\ saved' \in 0..Len(flows') /\ remembered' \in 0..Len(flows') /\ target' \in 0..Len(flows')
  BY <1>2
<1>4. /\ \A w \in 1..Len(flows') : flows'[w].quote \in 0..Len(minted')
      /\ minted' \in Seq(QuoteRow) /\ seen' \subseteq 1..Len(flows')
  BY DEF ScreenTypes
<1>5. Len(flows') <= MaxStarts /\ Len(minted') <= MaxQuotes /\ Len(minted') >= Len(minted)
  BY <1>2, BoundsOfScreens
<1> QED BY <1>1, <1>3, <1>4, <1>5, ScreenTypesOf

LEMMA OpenAndWait ==
  ASSUME ScreensOK, OpenPage \/ SecondPasses \/ AskQuote \/ WalletOpens \/ DismissSwap
  PROVE  ScreensOK'
<1>1. UNCHANGED <<quote, held, target, started, remembered, minted, flows, seen, reloads>>
  BY DEF OpenPage, SecondPasses, AskQuote, WalletOpens, DismissSwap, handler, pageMemory, serverRows
<1>2. /\ saved' \in {0, saved} /\ phase' \in Phases
      /\ phase' = phase \/ phase' = "quoting" \/ (phase = "validating" /\ phase' \in {"signing", "idle"})
      /\ page' = page \/ (page = "closed" /\ page' \in Screen /\ phase' = phase /\ shown' = shown)
      /\ shown' = shown \/ (page = "swap" /\ shown' = "none")
  BY DEF OpenPage, SecondPasses, AskQuote, WalletOpens, DismissSwap, handler, pageMemory, serverRows,
         ScreensOK, ScreenTypes, Phases
<1>3. /\ page' \in Kinds \cup {"closed"} /\ seconds' \in 0..MaxSeconds /\ asks' \in 0..MaxAsks
  <2>1. page \in Kinds \cup {"closed"} /\ seconds \in 0..MaxSeconds /\ asks \in 0..MaxAsks
    BY DEF ScreensOK, ScreenTypes, ScreensTypeOK
  <2>2. page' \in Kinds \cup {"closed"}
    BY <1>2, <2>1, BoundsOfScreens
  <2>3. seconds' \in 0..MaxSeconds
    BY <2>1, BoundsOfScreens DEF OpenPage, SecondPasses, AskQuote, WalletOpens, DismissSwap
  <2>4. asks' \in 0..MaxAsks
    BY <2>1, BoundsOfScreens DEF OpenPage, SecondPasses, AskQuote, WalletOpens, DismissSwap
  <2> QED BY <2>2, <2>3, <2>4
<1>4. phase' = "quoting" /\ phase # "quoting" =>
        Len(minted) < MaxQuotes /\ (page \in {"earn", "bridge"} => shown = "none") /\ page # "closed" /\ page' = page /\ shown' = shown
  BY DEF OpenPage, SecondPasses, AskQuote, WalletOpens, DismissSwap, FormShown, EarnForm, BridgeForm, StageOf, pageMemory
<1>5. ScreenTypes'
  <2>1. /\ page' = "closed" => phase' = "idle" /\ quote' = 0
        /\ phase' = "quoting" => Len(minted) < MaxQuotes
        /\ phase' = "starting" => Len(flows) < MaxStarts
        /\ phase' \in {"validating", "signing", "reportingTx", "reportingUnknown"} => target' # 0
    <3>1. /\ page = "closed" => phase = "idle" /\ quote = 0
          /\ phase = "quoting" => Len(minted) < MaxQuotes
          /\ phase = "starting" => Len(flows) < MaxStarts
          /\ phase \in {"validating", "signing", "reportingTx", "reportingUnknown"} => target # 0
      BY DEF ScreensOK, ScreenTypes
    <3>2. page' = "closed" => page = "closed"
      BY <1>2, BoundsOfScreens DEF Kinds
    <3> QED BY <1>1, <1>2, <1>4, <3>1, <3>2
  <2>2. shown' \in FlowStates \cup {"none"} /\ remembered' \in 0..Len(flows) /\ reloads' \in 0..MaxReloads
    BY <1>1, <1>2, ScreenFields DEF ScreensOK
  <2> QED BY <1>1, <1>2, <1>3, <2>1, <2>2, PageTypes DEF ScreensOK
<1>6. HeldIsUnsent'
  BY <1>1, <1>2 DEF ScreensOK, HeldIsUnsent, NotSeen, ScreenTypes
<1>7. QuoteIsUnsent'
  BY <1>1, <1>2 DEF ScreensOK, QuoteIsUnsent, NotSeen, ScreenTypes
<1>8. ShownStays'
  BY <1>1, <1>2, <1>4 DEF ScreensOK, ShownStays, ScreenTypes, Followed
<1> QED BY <1>5, <1>6, <1>7, <1>8 DEF ScreensOK

LEMMA QuoteIsDropped ==
  ASSUME ScreensOK, EditForm \/ ResetBridge \/ StartAnother
  PROVE  ScreensOK'
<1>1. /\ UNCHANGED <<page, seconds, phase, held, target, minted, flows, seen, saved, asks, reloads>> /\ quote' = 0
      /\ started' \in {0, started} /\ page # "closed"
      /\ shown' = shown \/ shown' = "none"
      /\ phase = "quoting" => shown' = shown \/ shown' = "none"
  BY DEF EditForm, ResetBridge, StartAnother, handler, serverRows, EditEarn, EditBorrow, EditSwap, ForgetEarn, ForgetBorrow
<1>2. remembered' \in 0..Len(flows)
  <2>1. remembered \in 0..Len(flows) /\ Len(flows) \in Nat
    BY ScreenFields DEF ScreensOK
  <2>2. LatestUnfinished \in 0..Len(flows)
    BY <2>1 DEF LatestUnfinished
  <2> QED BY <2>1, <2>2 DEF EditForm, ResetBridge, StartAnother
<1>3. ScreenTypes'
  <2>1. /\ phase = "quoting" => Len(minted) < MaxQuotes
        /\ phase = "starting" => Len(flows) < MaxStarts
        /\ phase \in {"validating", "signing", "reportingTx", "reportingUnknown"} => target # 0
        /\ phase \in Phases
    BY DEF ScreensOK, ScreenTypes
  <2>2. /\ page \in Kinds /\ seconds \in 0..MaxSeconds /\ asks \in 0..MaxAsks /\ reloads \in 0..MaxReloads
        /\ shown' \in FlowStates \cup {"none"}
    BY <1>1, ScreenFields DEF ScreensOK
  <2> QED BY <1>1, <1>2, <2>1, <2>2, PageTypes DEF ScreensOK
<1>4. HeldIsUnsent'
  BY <1>1 DEF ScreensOK, HeldIsUnsent, NotSeen
<1>5. QuoteIsUnsent'
  BY <1>1 DEF QuoteIsUnsent
<1>6. ShownStays'
  BY <1>1 DEF ScreensOK, ShownStays
<1> QED BY <1>3, <1>4, <1>5, <1>6 DEF ScreensOK

\* The handler closes over a quote: of the form, or of the workflow that still asks for a signature.
LEMMA QuoteIsHeld ==
  ASSUME ScreensOK, PressSign \/ AskAgain
  PROVE  ScreensOK'
<1>1. /\ UNCHANGED <<page, seconds, quote, started, shown, remembered, saved, minted, flows, seen, asks, reloads>>
      /\ held' = quote /\ quote # 0 /\ phase = "idle" /\ target' \in {target, started}
      /\ \/ phase' = "starting" /\ Len(flows) < MaxStarts /\ (page \in {"earn", "bridge"} => shown = "none")
         \/ phase' = "validating" /\ target' # 0 /\ page = "earn" /\ shown = "AWAITING_SIGNATURE"
  <2>1. CASE PressSign
    <3>1. page \in {"earn", "bridge"} => shown = "none"
      BY <2>1 DEF PressSign, Signable, FormShown, EarnForm, BridgeForm, StageOf
    <3> QED BY <2>1, <3>1 DEF PressSign, Signable, pageMemory, serverRows
  <2>2. CASE AskAgain
    <3>1. shown = "AWAITING_SIGNATURE"
      BY <2>2 DEF AskAgain, StageOf
    <3> QED BY <2>2, <3>1 DEF AskAgain, pageMemory, serverRows
  <2> QED BY <2>1, <2>2
<1>2. page # "closed"
  BY <1>1 DEF ScreensOK, ScreenTypes
<1>3. ScreenTypes'
  <2>1. /\ page \in Kinds \cup {"closed"} /\ seconds \in 0..MaxSeconds /\ asks \in 0..MaxAsks /\ reloads \in 0..MaxReloads
        /\ shown \in FlowStates \cup {"none"} /\ remembered \in 0..Len(flows)
    BY ScreenFields DEF ScreensOK
  <2>2. phase' \in Phases
    BY <1>1 DEF Phases
  <2> QED BY <1>1, <1>2, <2>1, <2>2, PageTypes DEF ScreensOK
<1>4. page # "borrow" => NotSeen(quote)
  <2>1. page \in Kinds
    BY <1>2, ScreenFields DEF ScreensOK
  <2> QED BY <1>1, <2>1 DEF ScreensOK, QuoteIsUnsent, Kinds
<1>5. HeldIsUnsent'
  BY <1>1, <1>4 DEF HeldIsUnsent, NotSeen
<1>6. QuoteIsUnsent'
  BY <1>1 DEF ScreensOK, QuoteIsUnsent, NotSeen
<1>7. ShownStays'
  BY <1>1 DEF ScreensOK, ShownStays, Followed
<1> QED BY <1>3, <1>5, <1>6, <1>7 DEF ScreensOK

\* The quote that is answered is new: no workflow was started from it.
LEMMA QuoteIsNew ==
  ASSUME ScreensOK, QuoteAnswers
  PROVE  ScreensOK'
<1>1. /\ UNCHANGED <<page, seconds, held, target, started, shown, remembered, saved, flows, seen, asks, reloads>>
      /\ phase = "quoting" /\ phase' = "idle"
  BY DEF QuoteAnswers, handler
<1>2. FlowsGoOn /\ Len(flows') = Len(flows)
  BY <1>1, FlowsStay DEF ScreensOK
<1>3. /\ page \in Kinds \cup {"closed"} /\ seconds \in 0..MaxSeconds /\ seconds \in Nat
      /\ quote \in 0..Len(minted) /\ held \in 0..Len(minted) /\ Len(minted) \in 0..MaxQuotes /\ Len(minted) \in Nat
      /\ started \in 0..Len(flows) /\ saved \in 0..Len(flows) /\ remembered \in 0..Len(flows) /\ target \in 0..Len(flows)
      /\ Len(flows) \in 0..MaxStarts /\ Len(flows) \in Nat /\ asks \in 0..MaxAsks /\ reloads \in 0..MaxReloads
      /\ shown \in FlowStates \cup {"none"}
  BY ScreenFields DEF ScreensOK
<1>4. /\ \A w \in 1..Len(flows) : flows[w].quote \in 0..Len(minted)
      /\ seen \subseteq 1..Len(flows) /\ Len(minted) < MaxQuotes /\ page # "closed"
  BY <1>1 DEF ScreensOK, ScreenTypes
<1>5. /\ minted' \in Seq(QuoteRow) /\ Len(minted') <= MaxQuotes /\ Len(minted') >= Len(minted)
      /\ quote' \in 0..Len(minted')
      /\ (minted' = minted /\ quote' = quote) \/ quote' = Len(minted) + 1
  <2>1. CASE minted' = minted /\ quote' = quote
    BY <1>3, <2>1, BoundsOfScreens DEF ScreensOK, ScreenTypes
  <2>2. CASE \E executable \in BOOLEAN :
               minted' = Append(minted, [expires |-> seconds + QuoteSeconds, executable |-> executable]) /\ quote' = Len(minted')
    <3>1. PICK row \in QuoteRow : minted' = Append(minted, row)
      <4>1. PICK executable \in BOOLEAN : minted' = Append(minted, [expires |-> seconds + QuoteSeconds, executable |-> executable])
        BY <2>2
      <4>2. [expires |-> seconds + QuoteSeconds, executable |-> executable] \in QuoteRow
        BY <1>3, BoundsOfScreens DEF QuoteRow
      <4> QED BY <4>1, <4>2
    <3>2. minted' \in Seq(QuoteRow) /\ Len(minted') = Len(minted) + 1
      BY <3>1, AppendProperties DEF ScreensOK, ScreenTypes
    <3> QED BY <1>3, <1>4, <2>2, <3>2, BoundsOfScreens
  <2> QED BY <2>1, <2>2 DEF QuoteAnswers
<1>6. ScreenTypes'
  <2>1. \A w \in 1..Len(flows') : flows'[w].quote \in 0..Len(minted')
    BY <1>1, <1>3, <1>4, <1>5
  <2>2. held' \in 0..Len(minted')
    BY <1>1, <1>3, <1>5
  <2>3. "idle" \in Phases
    BY DEF Phases
  <2> QED BY <1>1, <1>2, <1>3, <1>4, <1>5, <2>1, <2>2, <2>3, ScreenTypesOf DEF ScreensOK
<1>7. quote' # quote => NotSeen(quote')
  BY <1>3, <1>4, <1>5 DEF NotSeen
<1>8. HeldIsUnsent'
  BY <1>1 DEF HeldIsUnsent
<1>9. QuoteIsUnsent'
  BY <1>1, <1>7 DEF ScreensOK, QuoteIsUnsent, NotSeen
<1>10. ShownStays'
  BY <1>1 DEF ScreensOK, ShownStays
<1> QED BY <1>6, <1>8, <1>9, <1>10 DEF ScreensOK

\* A step of the server's rows, whoever makes it: what the page holds is as unsent as it was.
LEMMA RowsMove ==
  ASSUME ScreensOK, FlowsGoOn, UNCHANGED <<page, held, minted, seen>>,
         quote' = quote \/ quote' = 0,
         \/ UNCHANGED <<shown, started, remembered>> \/ quote' = 0
         \/ page = "swap" \/ page = "borrow",
         phase' \in {"starting", "validating"} => phase = phase',
         phase' = "quoting" => phase = "quoting" /\ shown' = shown
  PROVE  HeldIsUnsent' /\ QuoteIsUnsent' /\ ShownStays'
<1>1. ScreenTypes
  BY DEF ScreensOK
<1>2. \A q : NotSeen(q) => \A w \in seen' : flows'[w].quote # q
  BY <1>1, SeenKeeps
<1>3. HeldIsUnsent'
  BY <1>2 DEF ScreensOK, HeldIsUnsent, NotSeen
<1>4. QuoteIsUnsent'
  BY <1>2 DEF ScreensOK, QuoteIsUnsent, NotSeen
<1>5. ShownStays'
  <2>1. started \in 0..Len(flows) /\ remembered \in 0..Len(flows) /\ Len(flows) \in Nat
    BY <1>1, ScreenFields
  <2>2. Followed # 0 => Followed \in 1..Len(flows)
    BY <2>1 DEF Followed
  <2>3. Followed # 0 /\ flows[Followed].state # "AWAITING_SIGNATURE" => flows'[Followed].state # "AWAITING_SIGNATURE"
    BY <2>2 DEF FlowsGoOn
  <2>4. UNCHANGED <<shown, started, remembered>> => Followed' = Followed
    BY DEF Followed
  <2> QED BY <2>3, <2>4 DEF ScreensOK, ShownStays
<1> QED BY <1>3, <1>4, <1>5

\* The types after a step that makes no quote.
LEMMA RowTypes ==
  ASSUME ScreenTypes, FlowsGoOn, Len(flows') <= MaxStarts,
         \A w \in 1..Len(flows') : flows'[w].quote \in 0..Len(minted),
         UNCHANGED <<page, seconds, minted, asks>>, page = "closed" => phase' = "idle" /\ quote' = 0,
         quote' \in {0, quote}, held' \in {0, held},
         started' \in 0..Len(flows'), saved' \in 0..Len(flows'), remembered' \in 0..Len(flows'), target' \in 0..Len(flows'),
         seen' \subseteq 1..Len(flows'), reloads' \in 0..MaxReloads,
         shown' \in FlowStates \cup {"none"}, phase' \in Phases,
         phase' \in {"quoting", "starting"} => phase' = phase /\ Len(flows') = Len(flows),
         phase' \in {"validating", "signing", "reportingTx", "reportingUnknown"} => target' # 0
  PROVE  ScreenTypes'
<1>1. /\ page \in Kinds \cup {"closed"} /\ seconds \in 0..MaxSeconds
      /\ quote \in 0..Len(minted) /\ held \in 0..Len(minted) /\ Len(minted) \in 0..MaxQuotes /\ Len(minted) \in Nat
      /\ asks \in 0..MaxAsks
  BY ScreenFields
<1>2. phase = "quoting" => Len(minted) < MaxQuotes
  BY DEF ScreenTypes
<1>3. phase = "starting" => Len(flows) < MaxStarts
  BY DEF ScreenTypes
<1>4. minted' \in Seq(QuoteRow) /\ Len(minted') <= MaxQuotes /\ Len(minted') >= Len(minted)
  BY <1>1, BoundsOfScreens DEF ScreenTypes
<1>5. quote' \in 0..Len(minted') /\ held' \in 0..Len(minted')
  BY <1>1
<1> QED BY <1>1, <1>2, <1>3, <1>4, <1>5, ScreenTypesOf

\* The server answers the start, or does not.
LEMMA StartIsAnswered ==
  ASSUME ScreensOK, StartAnswers \/ StartFails
  PROVE  ScreensOK'
<1>1. ScreenTypes /\ phase = "starting" /\ page # "closed" /\ page \in Kinds
  <2>1. ScreenTypes /\ phase = "starting"
    BY DEF ScreensOK, StartAnswers, StartFails
  <2>2. page # "closed"
    BY <2>1 DEF ScreenTypes
  <2> QED BY <2>1, <2>2, ScreenFields
<1>2. /\ started \in 0..Len(flows) /\ saved \in 0..Len(flows) /\ remembered \in 0..Len(flows) /\ target \in 0..Len(flows)
      /\ Len(flows) \in Nat /\ reloads \in 0..MaxReloads /\ shown \in FlowStates \cup {"none"} /\ Len(flows) <= MaxStarts
  BY <1>1, ScreenFields, BoundsOfScreens
<1>3. FlowsGoOn /\ Len(flows') <= MaxStarts /\ Len(flows') \in Nat
      /\ \A w \in 1..Len(flows') : flows'[w].quote \in 0..Len(minted)
  <2>1. CASE flows' = WithStarted
    BY <1>1, <1>2, <2>1, FlowStarts
  <2>2. CASE flows' = flows
    BY <1>1, <1>2, <2>2, FlowsStay, QuoteRows
  <2> QED BY <2>1, <2>2 DEF StartAnswers, StartFails
<1>4. Len(flows') >= Len(flows) /\ seen \subseteq 1..Len(flows')
  <2>1. Len(flows') >= Len(flows)
    BY <1>3 DEF FlowsGoOn
  <2>2. seen \subseteq 1..Len(flows)
    BY <1>1 DEF ScreenTypes
  <2> QED BY <1>2, <1>3, <2>1, <2>2
<1>5. CASE StartFails
  <2>1. /\ UNCHANGED <<page, seconds, held, target, quote, started, shown, remembered, minted, saved, seen, asks, reloads>>
        /\ phase' = "idle"
    BY <1>5 DEF StartFails, handler, pageMemory
  <2>2. HeldIsUnsent' /\ QuoteIsUnsent' /\ ShownStays'
    BY <1>3, <2>1, RowsMove
  <2>3. ScreenTypes'
    <3>1. /\ started' \in 0..Len(flows') /\ saved' \in 0..Len(flows') /\ remembered' \in 0..Len(flows') /\ target' \in 0..Len(flows')
      BY <1>2, <1>3, <1>4, <2>1
    <3> QED BY <1>1, <1>2, <1>3, <1>4, <2>1, <3>1, RowTypes DEF Phases
  <2> QED BY <2>2, <2>3 DEF ScreensOK
<1>6. CASE StartAnswers
  <2>1. /\ UNCHANGED <<page, seconds, held, minted, quote, remembered, seen, asks, reloads>>
        /\ phase' = "validating" /\ target' = Len(flows') /\ flows' = WithStarted
    BY <1>6 DEF StartAnswers
  <2>2. /\ page \in {"earn", "bridge"} => shown' = "AWAITING_SIGNATURE"
        /\ started' \in {started, target'} /\ saved' \in {saved, target'} /\ shown' \in {shown, "AWAITING_SIGNATURE"}
    <3>1. CASE page = "earn"
      BY <1>6, <3>1 DEF StartAnswers, EarnStarted
    <3>2. CASE page = "borrow"
      BY <1>6, <3>2 DEF StartAnswers, BorrowStarted, EarnStarted
    <3>3. CASE page = "bridge"
      BY <1>6, <3>3 DEF StartAnswers, BridgeStarted
    <3>4. CASE page = "swap"
      BY <1>6, <3>4 DEF StartAnswers
    <3> QED BY <1>1, <3>1, <3>2, <3>3, <3>4 DEF Kinds
  <2>3. Len(flows') = Len(flows) + 1
    BY <1>1, <2>1, FlowStarts
  <2>4. ScreenTypes'
    <3>1. /\ started' \in 0..Len(flows') /\ saved' \in 0..Len(flows') /\ remembered' \in 0..Len(flows') /\ target' \in 0..Len(flows')
          /\ target' # 0
      BY <1>2, <2>1, <2>2, <2>3
    <3>2. shown' \in FlowStates \cup {"none"}
      BY <1>2, <2>2 DEF FlowStates
    <3> QED BY <1>1, <1>2, <1>3, <1>4, <2>1, <3>1, <3>2, RowTypes DEF Phases
  <2>5. \A q : NotSeen(q) => \A w \in seen' : flows'[w].quote # q
    BY <1>1, <1>3, <2>1, SeenKeeps
  <2>6. held # 0 /\ (page # "borrow" => quote \in {0, held} /\ NotSeen(held))
    BY <1>1 DEF ScreensOK, HeldIsUnsent
  <2>7. HeldIsUnsent'
    BY <2>1, <2>5, <2>6 DEF HeldIsUnsent, NotSeen
  <2>8. QuoteIsUnsent'
    BY <2>1, <2>5, <2>6 DEF QuoteIsUnsent, NotSeen
  <2>9. ShownStays'
    BY <2>1, <2>2 DEF ShownStays
  <2> QED BY <2>4, <2>7, <2>8, <2>9 DEF ScreensOK
<1> QED BY <1>5, <1>6

LEMMA BroadcastIsCounted ==
  ASSUME ScreenTypes, NEW w \in 1..Len(flows), NEW n \in 0..1, flows' = [flows EXCEPT ![w].broadcasts = @ + n]
  PROVE  FlowsGoOn /\ Len(flows') = Len(flows)
<1>1. PICK old \in FlowRow : old = flows[w]
  BY DEF ScreenTypes
<1>2. PICK row : row = [old EXCEPT !.broadcasts = old.broadcasts + n]
  OBVIOUS
<1>3. row \in FlowRow /\ row.quote = old.quote /\ row.state = old.state
  BY <1>2 DEF FlowRow
<1>4. flows' = [flows EXCEPT ![w] = row]
  BY <1>1, <1>2
<1> QED BY <1>1, <1>3, <1>4, FlowChanges

LEMMA StateMoves ==
  ASSUME ScreenTypes, NEW w \in 1..Len(flows), NEW state \in FlowStates \ {"AWAITING_SIGNATURE"},
         flows' = [flows EXCEPT ![w].state = state]
  PROVE  FlowsGoOn /\ Len(flows') = Len(flows)
<1>1. PICK old \in FlowRow : old = flows[w]
  BY DEF ScreenTypes
<1>2. PICK row : row = [old EXCEPT !.state = state]
  OBVIOUS
<1>3. row \in FlowRow /\ row.quote = old.quote /\ row.state = state
  BY <1>2 DEF FlowRow
<1>4. flows' = [flows EXCEPT ![w] = row]
  BY <1>1, <1>2
<1> QED BY <1>1, <1>3, <1>4, FlowChanges

LEMMA QuotesOfRows ==
  ASSUME ScreenTypes, FlowsGoOn, Len(flows') = Len(flows)
  PROVE  /\ \A w \in 1..Len(flows') : flows'[w].quote \in 0..Len(minted)
         /\ Len(flows') <= MaxStarts
<1>1. Len(flows) <= MaxStarts
  BY ScreenFields, BoundsOfScreens
<1> QED BY <1>1 DEF ScreenTypes, FlowsGoOn

LEMMA ReportedRow ==
  ASSUME ScreenTypes, target \in 1..Len(flows), flows' = Reported
  PROVE  FlowsGoOn /\ Len(flows') = Len(flows)
<1>1. CASE flows[target].state # "AWAITING_SIGNATURE"
  BY <1>1, FlowsStay DEF Reported
<1>2. CASE flows[target].state = "AWAITING_SIGNATURE"
  <2>1. PICK state \in FlowStates \ {"AWAITING_SIGNATURE"} :
          state = IF phase = "reportingTx" THEN "SUBMITTED" ELSE "BROADCAST_UNKNOWN"
    BY DEF FlowStates
  <2>2. flows' = [flows EXCEPT ![target].state = state]
    BY <1>2, <2>1 DEF Reported
  <2> QED BY <2>2, StateMoves
<1> QED BY <1>1, <1>2

\* The wallet answers, the answer is reported, the worker moves a workflow.
LEMMA WalletAndWorkerAnswer ==
  ASSUME ScreensOK, WalletAnswers \/ ReportFails \/ WorkerMoves
  PROVE  ScreensOK'
<1>1. ScreenTypes
  BY DEF ScreensOK
<1>2. /\ UNCHANGED <<page, seconds, held, target, quote, started, shown, remembered, minted, saved, seen, asks, reloads>>
      /\ phase' \in Phases
      /\ phase' = phase \/ phase' \in {"idle", "reportingTx", "reportingUnknown"}
  BY <1>1 DEF WalletAnswers, ReportFails, WorkerMoves, handler, pageMemory, ScreenTypes, Phases
<1>3. /\ started \in 0..Len(flows) /\ saved \in 0..Len(flows) /\ remembered \in 0..Len(flows) /\ target \in 0..Len(flows)
      /\ Len(flows) \in Nat /\ reloads \in 0..MaxReloads /\ shown \in FlowStates \cup {"none"}
  BY <1>1, ScreenFields
<1>4. phase \in {"signing", "reportingTx", "reportingUnknown"} => target \in 1..Len(flows)
  BY <1>1, <1>3 DEF ScreenTypes
<1>5. FlowsGoOn /\ Len(flows') = Len(flows)
  <2>1. CASE WalletAnswers
    <3>1. PICK n \in 0..1 : flows' = flows \/ flows' = [flows EXCEPT ![target].broadcasts = @ + n]
      BY <2>1 DEF WalletAnswers
    <3>2. target \in 1..Len(flows)
      BY <1>4, <2>1 DEF WalletAnswers
    <3> QED BY <1>1, <3>1, <3>2, FlowsStay, BroadcastIsCounted
  <2>2. CASE ReportFails
    <3>1. target \in 1..Len(flows)
      BY <1>4, <2>2 DEF ReportFails
    <3>2. flows' = flows \/ flows' = Reported
      BY <2>2 DEF ReportFails
    <3> QED BY <1>1, <3>1, <3>2, FlowsStay, ReportedRow
  <2>3. CASE WorkerMoves
    <3>1. PICK w \in DOMAIN flows, state \in {"COMPLETED", "ACTION_REQUIRED"} : flows' = [flows EXCEPT ![w].state = state]
      BY <2>3 DEF WorkerMoves
    <3>2. w \in 1..Len(flows) /\ state \in FlowStates \ {"AWAITING_SIGNATURE"}
      BY <1>1, <3>1 DEF ScreenTypes, FlowStates
    <3> QED BY <1>1, <3>1, <3>2, StateMoves
  <2> QED BY <2>1, <2>2, <2>3
<1>6. HeldIsUnsent' /\ QuoteIsUnsent' /\ ShownStays'
  BY <1>2, <1>5, RowsMove
<1>7. page = "closed" => phase' = "idle" /\ quote' = 0
  BY <1>1, <1>2 DEF ScreenTypes, WalletAnswers, ReportFails, WorkerMoves
<1>8. ScreenTypes'
  <2>1. phase' \in {"validating", "signing", "reportingTx", "reportingUnknown"} => target # 0
    BY <1>1, <1>2, <1>4, <1>3 DEF ScreenTypes, WalletAnswers, ReportFails, WorkerMoves
  <2>2. seen' \subseteq 1..Len(flows')
    BY <1>1, <1>2, <1>5 DEF ScreenTypes
  <2>3. /\ started' \in 0..Len(flows') /\ saved' \in 0..Len(flows') /\ remembered' \in 0..Len(flows') /\ target' \in 0..Len(flows')
    BY <1>2, <1>3, <1>5
  <2> QED BY <1>1, <1>2, <1>3, <1>5, <1>7, <2>1, <2>2, <2>3, QuotesOfRows, RowTypes
<1> QED BY <1>6, <1>8 DEF ScreensOK

\* The answer to the report: the swap screen shows the workflow as sent, and drops its quote.
LEMMA ReportIsAnswered ==
  ASSUME ScreensOK, ReportAnswers
  PROVE  ScreensOK'
<1>1. ScreenTypes
  BY DEF ScreensOK
<1>2. /\ UNCHANGED <<page, seconds, held, target, started, remembered, minted, asks, reloads>>
      /\ phase \in {"reportingTx", "reportingUnknown"} /\ phase' \in {"idle", "refreshing"}
      /\ \/ UNCHANGED <<saved, seen, quote, shown>>
         \/ page = "swap" /\ saved' = target /\ seen' = seen \cup {target} /\ shown' = "SUBMITTED" /\ quote' = 0
  BY DEF ReportAnswers, AfterReport, handler
<1>3. /\ started \in 0..Len(flows) /\ saved \in 0..Len(flows) /\ remembered \in 0..Len(flows) /\ target \in 1..Len(flows)
      /\ Len(flows) \in Nat /\ reloads \in 0..MaxReloads /\ shown \in FlowStates \cup {"none"} /\ page # "closed"
      /\ seen \subseteq 1..Len(flows)
  BY <1>1, <1>2, ScreenFields DEF ScreenTypes
<1>4. FlowsGoOn /\ Len(flows') = Len(flows)
  BY <1>1, <1>3, ReportedRow DEF ReportAnswers
<1>5. HeldIsUnsent' /\ QuoteIsUnsent' /\ ShownStays'
  <2>1. CASE UNCHANGED <<saved, seen, quote, shown>>
    BY <1>2, <1>4, <2>1, RowsMove
  <2>2. CASE page = "swap" /\ quote' = 0
    BY <1>2, <2>2 DEF HeldIsUnsent, QuoteIsUnsent, ShownStays
  <2> QED BY <1>2, <2>1, <2>2
<1>6. ScreenTypes'
  <2>1. seen' \subseteq 1..Len(flows') /\ shown' \in FlowStates \cup {"none"} /\ quote' \in {0, quote}
    BY <1>2, <1>3, <1>4 DEF FlowStates
  <2>2. /\ started' \in 0..Len(flows') /\ saved' \in 0..Len(flows') /\ remembered' \in 0..Len(flows') /\ target' \in 0..Len(flows')
    BY <1>2, <1>3, <1>4
  <2> QED BY <1>1, <1>2, <1>3, <1>4, <2>1, <2>2, QuotesOfRows, RowTypes DEF Phases
<1> QED BY <1>5, <1>6 DEF ScreensOK

\* The page reads its workflow again: past the signature it stays past it.
LEMMA WorkflowIsRead ==
  ASSUME ScreensOK, ReadWorkflow
  PROVE  ScreensOK'
<1>1. ScreenTypes
  BY DEF ScreensOK
<1>2. /\ UNCHANGED <<page, seconds, held, target, quote, started, remembered, minted, flows, asks, reloads>>
      /\ phase' = "idle" /\ Followed # 0 /\ page # "swap" /\ phase \in {"idle", "refreshing"}
      /\ \/ /\ shown' = flows[Followed].state /\ saved' \in {0, saved}
            /\ seen' = IF shown' = "AWAITING_SIGNATURE" THEN seen ELSE seen \cup {Followed}
         \/ UNCHANGED <<shown, seen, saved>>
  BY DEF ReadWorkflow, handler, serverRows
<1>3. /\ started \in 0..Len(flows) /\ saved \in 0..Len(flows) /\ remembered \in 0..Len(flows) /\ target \in 0..Len(flows)
      /\ Len(flows) \in Nat /\ reloads \in 0..MaxReloads /\ shown \in FlowStates \cup {"none"}
      /\ seen \subseteq 1..Len(flows)
  BY <1>1, ScreenFields DEF ScreenTypes
<1>4. Followed \in 1..Len(flows) /\ Followed' = Followed
  BY <1>2, <1>3 DEF Followed
<1>5. flows[Followed] \in FlowRow
  BY <1>1, <1>4 DEF ScreenTypes
<1>6. flows[Followed].state \in FlowStates
  BY <1>5 DEF FlowRow
<1>7. FlowsGoOn /\ Len(flows') = Len(flows)
  BY <1>1, <1>2, FlowsStay
<1>8. ScreenTypes'
  <2>1. seen' \subseteq 1..Len(flows') /\ shown' \in FlowStates \cup {"none"}
    BY <1>2, <1>3, <1>4, <1>6
  <2>2. /\ started' \in 0..Len(flows') /\ saved' \in 0..Len(flows') /\ remembered' \in 0..Len(flows') /\ target' \in 0..Len(flows')
    BY <1>2, <1>3
  <2>3. page = "closed" => quote = 0
    BY <1>1 DEF ScreenTypes
  <2> QED BY <1>1, <1>2, <1>3, <1>7, <2>1, <2>2, <2>3, QuotesOfRows, RowTypes DEF Phases
<1>9. HeldIsUnsent'
  BY <1>2 DEF HeldIsUnsent
<1>10. QuoteIsUnsent' /\ ShownStays'
  <2>1. CASE UNCHANGED <<shown, seen, saved>>
    BY <1>2, <1>4, <2>1 DEF ScreensOK, QuoteIsUnsent, ShownStays, NotSeen
  <2>2. CASE /\ shown' = flows[Followed].state
             /\ seen' = IF shown' = "AWAITING_SIGNATURE" THEN seen ELSE seen \cup {Followed}
    <3>1. ShownStays'
      BY <1>2, <1>4, <1>6, <2>2 DEF ScreensOK, ShownStays, FlowStates
    <3>2. QuoteIsUnsent'
      <4>1. CASE shown' = "AWAITING_SIGNATURE"
        <5>1. page \in {"earn", "bridge"} /\ quote # 0 => shown \in {"none", "AWAITING_SIGNATURE"}
          BY <1>2, <2>2, <4>1 DEF ScreensOK, ShownStays
        <5> QED BY <1>2, <2>2, <4>1, <5>1 DEF ScreensOK, QuoteIsUnsent, NotSeen
      <4>2. CASE shown' # "AWAITING_SIGNATURE"
        BY <1>2, <1>6, <2>2, <4>2 DEF QuoteIsUnsent, FlowStates
      <4> QED BY <4>1, <4>2
    <3> QED BY <3>1, <3>2
  <2> QED BY <1>2, <2>1, <2>2
<1> QED BY <1>8, <1>9, <1>10 DEF ScreensOK

LEMMA PageReloads ==
  ASSUME ScreensOK, Reload
  PROVE  ScreensOK'
<1>1. ScreenTypes
  BY DEF ScreensOK
<1>2. /\ UNCHANGED <<page, seconds, minted, saved, seen, asks>> /\ page # "closed"
      /\ phase' = "idle" /\ held' = 0 /\ target' = 0 /\ quote' = 0 /\ started' = 0 /\ shown' = "none"
      /\ reloads < MaxReloads /\ reloads' = reloads + 1
      /\ remembered' \in {LatestUnfinished, saved}
      /\ flows' = flows \/ (phase = "signing" /\ flows' = [flows EXCEPT ![target].broadcasts = @ + 1])
  BY DEF Reload
<1>3. /\ saved \in 0..Len(flows) /\ target \in 0..Len(flows) /\ Len(flows) \in Nat /\ reloads \in 0..MaxReloads
      /\ seen \subseteq 1..Len(flows) /\ (phase = "signing" => target # 0)
  BY <1>1, ScreenFields DEF ScreenTypes
<1>4. LatestUnfinished \in 0..Len(flows)
  BY <1>3 DEF LatestUnfinished
<1>5. FlowsGoOn /\ Len(flows') = Len(flows)
  <2>1. CASE flows' = flows
    BY <1>1, <2>1, FlowsStay
  <2>2. CASE phase = "signing" /\ flows' = [flows EXCEPT ![target].broadcasts = @ + 1]
    <3>1. target \in 1..Len(flows)
      BY <1>3, <2>2
    <3>2. 1 \in 0..1
      OBVIOUS
    <3> QED BY <1>1, <2>2, <3>1, <3>2, BroadcastIsCounted
  <2> QED BY <1>2, <2>1, <2>2
<1>6. ScreenTypes'
  <2>1. reloads' \in 0..MaxReloads
    BY <1>2, <1>3, BoundsOfScreens
  <2>2. /\ started' \in 0..Len(flows') /\ saved' \in 0..Len(flows') /\ remembered' \in 0..Len(flows') /\ target' \in 0..Len(flows')
    BY <1>2, <1>3, <1>4, <1>5
  <2>3. seen' \subseteq 1..Len(flows')
    BY <1>2, <1>3, <1>5
  <2>4. quote' \in {0, quote} /\ held' \in {0, held} /\ phase' \in Phases /\ shown' \in FlowStates \cup {"none"}
    BY <1>2 DEF Phases
  <2> QED BY <1>1, <1>2, <1>5, <2>1, <2>2, <2>3, <2>4, QuotesOfRows, RowTypes
<1>7. HeldIsUnsent' /\ QuoteIsUnsent' /\ ShownStays'
  BY <1>2 DEF HeldIsUnsent, QuoteIsUnsent, ShownStays
<1> QED BY <1>6, <1>7 DEF ScreensOK

LEMMA ScreensStep ==
  ASSUME ScreensOK, [ScreensNext]_screenVars
  PROVE  /\ ScreensOK'
         /\ phase # "signing" /\ phase' = "signing" =>
              /\ minted[held].expires > seconds
              /\ page = "borrow" \/ \A w \in seen : flows[w].quote # held
<1>1. ScreensOK'
  <2>1. CASE UNCHANGED screenVars
    BY <2>1 DEF screenVars, ScreensOK, ScreenTypes, ScreensTypeOK, HeldIsUnsent, QuoteIsUnsent, ShownStays, NotSeen, Followed
  <2> QED BY <2>1, OpenAndWait, QuoteIsDropped, QuoteIsHeld, QuoteIsNew, StartIsAnswered, WalletAndWorkerAnswer, ReportIsAnswered, WorkflowIsRead, PageReloads DEF ScreensNext
<1>2. ASSUME phase # "signing", phase' = "signing"
      PROVE  /\ minted[held].expires > seconds
             /\ page = "borrow" \/ \A w \in seen : flows[w].quote # held
  <2>1. WalletOpens
    BY <1>2 DEF ScreensNext, screenVars, OpenPage, SecondPasses, AskQuote, QuoteAnswers, EditForm, ResetBridge, PressSign,
                StartAnswers, StartFails, WalletAnswers, ReportAnswers, AfterReport, ReportFails, ReadWorkflow, AskAgain,
                StartAnother, DismissSwap, Reload, WorkerMoves
  <2>2. phase = "validating" /\ PlanValid(held)
    BY <1>2, <2>1 DEF WalletOpens
  <2>3. page = "borrow" \/ \A w \in seen : flows[w].quote # held
    BY <2>2 DEF ScreensOK, HeldIsUnsent, NotSeen
  <2>4. minted[held].expires > seconds
    <3>1. held \in 1..Len(minted) /\ seconds \in Nat
      BY <2>2, ScreenFields DEF ScreensOK, HeldIsUnsent
    <3>2. minted[held] \in QuoteRow
      BY <3>1 DEF ScreensOK, ScreenTypes
    <3>3. PICK e \in Nat : e = minted[held].expires
      BY <3>2 DEF QuoteRow
    <3>4. ~(e - seconds <= 0)
      BY <2>2, <3>3 DEF PlanValid, Expired, SecondsLeft
    <3> QED BY <3>1, <3>3, <3>4
  <2> QED BY <2>3, <2>4
<1> QED BY <1>1, <1>2

\* On every screen, with any number of quotes, workflows, reloads and failing calls: the wallet is opened with a
\* quote that is live at that moment and, but for the borrow screen, with none that was shown to be sent.
THEOREM WalletIsOpenedOnce == ScreensSpec => []ScreensTypeOK /\ WalletOpensOnce
<1>1. ScreensInit => ScreensOK
  BY ScreensStart
<1>2. ScreensOK /\ [ScreensNext]_screenVars => ScreensOK'
  BY ScreensStep
<1>3. ScreensOK => ScreensTypeOK
  BY DEF ScreensOK, ScreenTypes
<1>4. ScreensOK /\ [ScreensNext]_screenVars =>
        [(phase # "signing" /\ phase' = "signing") =>
           /\ minted[held].expires > seconds
           /\ page = "borrow" \/ \A w \in seen : flows[w].quote # held]_screenVars
  BY ScreensStep
<1> QED BY <1>1, <1>2, <1>3, <1>4, PTL DEF ScreensSpec, WalletOpensOnce
=============================================================================
