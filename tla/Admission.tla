----------------------------- MODULE Admission -----------------------------
(* Quotes and the start of workflows, as POST /quotes and POST /workflows   *)
(* of apps/api run them (apps/api/src/execution.ts, createQuote and         *)
(* startWorkflow), beside an operator who switches the capability off and   *)
(* on (packages/database/src/ops.ts).                                       *)
(*                                                                          *)
(* A request runs one statement at a time and anything may happen between   *)
(* two of them. A quote request stores a quote of its own name. What the    *)
(* provider and the engine answer is left open: they fail, or they give a   *)
(* quote that may be executed or may not.                                   *)
EXTENDS Integers, FiniteSets

CONSTANTS
  QuoteRequests,    \* requests for a quote
  StartRequests,    \* requests to start a workflow
  Keys,             \* idempotency keys
  Tenants,          \* (application, owner) pairs
  Registry,         \* the state the registry gives the capability
  QuoteLife,        \* how long a quote can be used
  MaxTime,          \* bound on the clock
  MaxSwitches,      \* bound on what the operator does
  NoOne

ASSUME AdmissionAssumption ==
  /\ QuoteLife \in Nat \ {0} /\ MaxTime \in Nat /\ MaxSwitches \in Nat
  /\ Registry \in {"enabled", "read_only", "paused", "disabled", "unlisted"}
  /\ QuoteRequests \cap StartRequests = {}

VARIABLES
  quotes,       \* the quotes table: what is stored under a request's name
  plans,        \* the quotes that have their plan stored
  workflows,    \* the workflows table
  override,     \* the operator's row for the capability
  quoteEvents,  \* the quote events operators count
  request,      \* what a request has done so far
  offSince,     \* the requests that have only ever seen the capability off
  clock,
  switches

admissionVars == <<quotes, plans, workflows, override, quoteEvents, request, offSince, clock, switches>>

AdmissionRequests == QuoteRequests \cup StartRequests

NoQuote == [expires |-> 0, executable |-> FALSE, stored |-> FALSE]

Unsent == [at |-> "unsent", key |-> NoOne, tenant |-> NoOne, quote |-> NoOne,
           made |-> NoQuote, dated |-> 0, answer |-> NoOne]

AdmissionInit ==
  /\ quotes = [q \in QuoteRequests |-> NoQuote] /\ plans = {} /\ workflows = {}
  /\ override = "none" /\ quoteEvents = {}
  /\ request = [r \in AdmissionRequests |-> Unsent]
  /\ offSince = {} /\ clock = 0 /\ switches = 0

Strictness(state) ==
  CASE state = "disabled" -> 3 [] state = "paused" -> 2 [] state = "read_only" -> 1 [] OTHER -> 0

\* The view effective_capabilities: the stricter of the registry and the override.
Effective ==
  IF Registry # "unlisted" /\ Strictness(override) > Strictness(Registry) THEN override ELSE Registry

Enabled == Effective = "enabled"

GoTo(r, step) == request' = [request EXCEPT ![r].at = step]

---------------------------------------------------------------------------
(* The operator and time. *)

SetOverride(state) ==
  /\ switches < MaxSwitches /\ Registry # "unlisted" /\ override # state
  /\ override' = state /\ switches' = switches + 1
  /\ UNCHANGED <<quotes, plans, workflows, quoteEvents, request, clock, offSince>>

ClearOverride ==
  /\ switches < MaxSwitches /\ override # "none"
  /\ override' = "none" /\ switches' = switches + 1
  /\ offSince' = IF Registry = "enabled" THEN {} ELSE offSince
  /\ UNCHANGED <<quotes, plans, workflows, quoteEvents, request, clock>>

TimePasses ==
  /\ clock < MaxTime /\ clock' = clock + 1
  /\ UNCHANGED <<quotes, plans, workflows, override, quoteEvents, request, offSince, switches>>

\* The process stops while it serves r: nothing of the request goes on.
Crash(r) ==
  /\ request[r].at \notin {"unsent", "answered", "failed", "gone"}
  /\ GoTo(r, "gone")
  /\ UNCHANGED <<quotes, plans, workflows, override, quoteEvents, offSince, clock, switches>>

Send(r) == offSince' = IF Enabled THEN offSince ELSE offSince \cup {r}

---------------------------------------------------------------------------
(* POST /quotes *)

SendQuote(r) ==
  /\ request[r].at = "unsent" /\ GoTo(r, "capability") /\ Send(r)
  /\ UNCHANGED <<quotes, plans, workflows, override, quoteEvents, clock, switches>>

\* requireEnabled, before anything is read.
CheckQuoted(r) ==
  /\ request[r].at = "capability"
  /\ GoTo(r, IF Enabled THEN "engine" ELSE "refused")
  /\ UNCHANGED <<quotes, plans, workflows, override, quoteEvents, offSince, clock, switches>>

\* Disputed prices, unreadable market data and an engine that cannot quote all end the request.
QuoteUnchecked(r) ==
  /\ request[r].at = "engine"
  /\ \/ GoTo(r, "refused")
     \/ \E executable \in BOOLEAN :
          request' = [request EXCEPT ![r].at = "store_quote",
                        ![r].made = [expires |-> clock + QuoteLife, executable |-> executable, stored |-> TRUE]]
  /\ UNCHANGED <<quotes, plans, workflows, override, quoteEvents, offSince, clock, switches>>

InsertQuote(r) ==
  /\ request[r].at = "store_quote"
  /\ quotes' = [quotes EXCEPT ![r] = request[r].made]
  /\ GoTo(r, "store_plan")
  /\ UNCHANGED <<plans, workflows, override, quoteEvents, offSince, clock, switches>>

InsertPlan(r) ==
  /\ request[r].at = "store_plan"
  /\ plans' = plans \cup {r}
  /\ GoTo(r, "quoted")
  /\ UNCHANGED <<quotes, workflows, override, quoteEvents, offSince, clock, switches>>

\* The event is written last, and its own failure is not the request's.
CountQuote(r) ==
  /\ request[r].at \in {"quoted", "refused"}
  /\ \E kept \in BOOLEAN :
       quoteEvents' = IF kept THEN quoteEvents \cup {<<r, request[r].at>>} ELSE quoteEvents
  /\ GoTo(r, IF request[r].at = "quoted" THEN "answered" ELSE "failed")
  /\ UNCHANGED <<quotes, plans, workflows, override, offSince, clock, switches>>

---------------------------------------------------------------------------
(* POST /workflows *)

SendStart(r, q, key, tenant) ==
  /\ request[r].at = "unsent"
  /\ request' = [request EXCEPT ![r].at = "find_quote", ![r].quote = q, ![r].key = key, ![r].tenant = tenant]
  /\ Send(r)
  /\ UNCHANGED <<quotes, plans, workflows, override, quoteEvents, clock, switches>>

\* The mutated form: the quote alone is looked for.
FoundWithoutPlan(q) == quotes[q].stored

\* findStoredQuote: a quote whose plan was never stored is not found.
Found(q) == quotes[q].stored /\ q \in plans

FindQuote(r) ==
  /\ request[r].at = "find_quote"
  /\ IF Found(request[r].quote)
     THEN request' = [request EXCEPT ![r].at = "recheck", ![r].made = quotes[request[r].quote]]
     ELSE GoTo(r, "failed")
  /\ UNCHANGED <<quotes, plans, workflows, override, quoteEvents, offSince, clock, switches>>

\* The mutated form: the capability is judged when the quote is given, and not again.
MayStartOnce(r) == clock < request[r].made.expires /\ request[r].made.executable

\* The capability again, then expiry and executability, with no wait after the answer.
MayStart(r) == Enabled /\ clock < request[r].made.expires /\ request[r].made.executable

CheckStart(r) ==
  /\ request[r].at = "recheck"
  /\ request' = IF MayStart(r)
                THEN [request EXCEPT ![r].at = "find_key", ![r].dated = clock]
                ELSE [request EXCEPT ![r].at = "failed"]
  /\ UNCHANGED <<quotes, plans, workflows, override, quoteEvents, offSince, clock, switches>>

OfKey(key) == {w \in workflows : w.key = key}

FindKey(r) ==
  /\ request[r].at = "find_key"
  /\ GoTo(r, IF OfKey(request[r].key) = {} THEN "insert" ELSE "existing")
  /\ UNCHANGED <<quotes, plans, workflows, override, quoteEvents, offSince, clock, switches>>

\* The mutated form: no unique key.
FreeUnchecked(key) == TRUE

\* idempotency_key is unique over the whole table: the second insert of a key fails.
Free(key) == OfKey(key) = {}

CreateWorkflowRow(r) ==
  /\ request[r].at = "insert"
  /\ IF Free(request[r].key)
     THEN /\ workflows' = workflows \cup {[id |-> r, key |-> request[r].key, tenant |-> request[r].tenant,
                                           quote |-> request[r].quote, createdAt |-> request[r].dated]}
          /\ request' = [request EXCEPT ![r].at = "answered", ![r].answer = r]
     ELSE /\ GoTo(r, "failed") /\ UNCHANGED workflows
  /\ UNCHANGED <<quotes, plans, override, quoteEvents, offSince, clock, switches>>

\* The key was used before: its workflow is answered to the tenant it belongs to.
Existing(r) == {w \in OfKey(request[r].key) : w.tenant = request[r].tenant}

AnswerExisting(r) ==
  /\ request[r].at = "existing"
  /\ IF Existing(r) = {}
     THEN GoTo(r, "failed")
     ELSE \E w \in Existing(r) : request' = [request EXCEPT ![r].at = "answered", ![r].answer = w.id]
  /\ UNCHANGED <<quotes, plans, workflows, override, quoteEvents, offSince, clock, switches>>

AdmissionNext ==
  \/ \E state \in {"paused", "disabled"} : SetOverride(state)
  \/ ClearOverride \/ TimePasses
  \/ \E r \in AdmissionRequests : Crash(r)
  \/ \E r \in QuoteRequests : \/ SendQuote(r) \/ CheckQuoted(r) \/ QuoteUnchecked(r)
                              \/ InsertQuote(r) \/ InsertPlan(r) \/ CountQuote(r)
  \/ \E r \in StartRequests :
       \/ \E q \in QuoteRequests, key \in Keys, tenant \in Tenants : SendStart(r, q, key, tenant)
       \/ FindQuote(r) \/ CheckStart(r) \/ FindKey(r) \/ CreateWorkflowRow(r) \/ AnswerExisting(r)

AdmissionSpec == AdmissionInit /\ [][AdmissionNext]_admissionVars

---------------------------------------------------------------------------
(* Properties *)

AdmissionTypeOK ==
  /\ plans \subseteq QuoteRequests
  /\ \A q \in QuoteRequests : quotes[q].expires \in 0..(MaxTime + QuoteLife)
  /\ \A w \in workflows : w.id \in StartRequests /\ w.key \in Keys /\ w.tenant \in Tenants
  /\ override \in {"none", "paused", "disabled"} /\ clock \in 0..MaxTime

\* "The same idempotency key always names the same workflow": whatever requests overlap, a key has one
\* workflow, and a request is only ever answered with the workflow of its key and of its own tenant.
KeyNamesOneWorkflow ==
  /\ \A w, v \in workflows : w.key = v.key => w = v
  /\ \A r \in StartRequests : request[r].at = "answered" =>
       \E w \in workflows : /\ w.id = request[r].answer
                            /\ w.key = request[r].key /\ w.tenant = request[r].tenant

\* A workflow only starts from a quote stored whole (its plan too, although the two are stored apart),
\* that may be executed, and that had not expired when the workflow was dated.
StartedFromLiveQuote ==
  \A w \in workflows : /\ w.quote \in plans /\ quotes[w.quote].executable
                       /\ w.createdAt < quotes[w.quote].expires

\* A request that has only seen the capability switched off stores no quote and starts no workflow, also
\* one for a quote made before the switch. (One that was already past its check may.)
SwitchedOffStops ==
  \A r \in offSince : ~(r \in QuoteRequests /\ quotes[r].stored) /\ ~\E w \in workflows : w.id = r
=============================================================================
