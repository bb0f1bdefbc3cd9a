--------------------------- MODULE Service_proofs ---------------------------
(* What is proved of the admission of workflows, of the API's front, of its *)
(* lists and its answer on what a vault has earned, and of the webhooks,    *)
(* for any number of requests, keys, calls, callers, windows, rows, pages,  *)
(* share rates, events and dispatchers.                                     *)
EXTENDS Admission, ApiGate, Endpoints, Performance, Webhooks, FiniteSetTheorems, SequenceTheorems, WellFoundedInduction, TLAPS

---------------------------------------------------------------------------
(* Admission: an idempotency key names one workflow, a workflow starts from  *)
(* a quote that is whole and live, and a capability that is off stays off    *)
(* for the requests that come while it is.                                   *)

QuoteSteps == {"unsent", "capability", "engine", "refused", "store_quote", "store_plan", "quoted",
               "answered", "failed", "gone"}
StartSteps == {"unsent", "find_quote", "recheck", "find_key", "insert", "existing",
               "answered", "failed", "gone"}

StoredQuotes == [expires : Int, executable : BOOLEAN, stored : BOOLEAN]
WorkflowRows == [id : StartRequests, key : Keys, tenant : Tenants, quote : QuoteRequests, createdAt : Int]
RequestRecords == [at : QuoteSteps \cup StartSteps, key : Keys \cup {NoOne}, tenant : Tenants \cup {NoOne},
                   quote : QuoteRequests \cup {NoOne}, made : StoredQuotes, dated : Int,
                   answer : StartRequests \cup {NoOne}]

\* What rows and requests are, and that each request runs the steps of its own handler.
Shape ==
  /\ quotes \in [QuoteRequests -> StoredQuotes] /\ plans \subseteq QuoteRequests
  /\ workflows \subseteq WorkflowRows /\ clock \in Int
  /\ request \in [AdmissionRequests -> RequestRecords]
  /\ \A r \in QuoteRequests : request[r].at \in QuoteSteps
  /\ \A r \in StartRequests : request[r].at \in StartSteps
  /\ \A r \in StartRequests : request[r].at # "unsent" =>
       request[r].key \in Keys /\ request[r].tenant \in Tenants /\ request[r].quote \in QuoteRequests

\* A plan is stored after its quote and the quote is not written again, so what a start has read of a
\* quote is what is stored; past its check the quote was live when the start was dated.
QuotesKept ==
  /\ \A q \in plans : request[q].at \in {"quoted", "answered", "gone"}
  /\ \A r \in StartRequests : request[r].at \in {"recheck", "find_key", "insert"} =>
       request[r].quote \in plans /\ request[r].made = quotes[request[r].quote]
  /\ \A r \in StartRequests : request[r].at \in {"find_key", "insert"} =>
       request[r].made.executable /\ request[r].dated < request[r].made.expires

\* While a request is among those that only saw the capability off, it is off, the request has not passed a
\* check, and nothing of it is stored. A request that was not sent has stored nothing.
OffKept ==
  /\ offSince \subseteq AdmissionRequests
  /\ offSince # {} => ~Enabled
  /\ \A r \in offSince : request[r].at \in {"capability", "refused", "find_quote", "recheck", "failed", "gone"}
  /\ \A r \in AdmissionRequests : request[r].at = "unsent" \/ r \in offSince =>
       /\ r \in QuoteRequests => ~quotes[r].stored
       /\ \A w \in workflows : w.id # r

AdmissionInv ==
  Shape /\ QuotesKept /\ OffKept /\ KeyNamesOneWorkflow /\ StartedFromLiveQuote

\* Nothing is stored or sent at first.
LEMMA InitSafe == AdmissionInit => AdmissionInv
BY AdmissionAssumption
   DEF AdmissionInit, AdmissionInv, Shape, QuotesKept, OffKept, KeyNamesOneWorkflow, StartedFromLiveQuote,
       Unsent, NoQuote, AdmissionRequests, QuoteSteps, StartSteps, StoredQuotes, RequestRecords, WorkflowRows

-----------------------------------------------------------------------------
(* What a step leaves in the request that takes it.                        *)

\* The others hold what they held.
Others(r) == \A s \in AdmissionRequests \ {r} : request'[s] = request[s]

\* r holds rec after the step.
Becomes(r, rec) ==
  /\ request' \in [AdmissionRequests -> RequestRecords]
  /\ rec \in RequestRecords /\ request'[r] = rec /\ Others(r)

\* The step as the code writes it, in these terms.
LEMMA Update ==
  ASSUME Shape, NEW r \in AdmissionRequests, NEW rec \in RequestRecords,
         request' = [request EXCEPT ![r] = rec]
  PROVE  Becomes(r, rec)
BY DEF Becomes, Others, Shape

\* A step that only moves on.
LEMMA GoesTo ==
  ASSUME Shape, NEW r \in AdmissionRequests, NEW step \in QuoteSteps \cup StartSteps, GoTo(r, step)
  PROVE  Becomes(r, [request[r] EXCEPT !.at = step])
BY DEF Becomes, Others, Shape, GoTo, RequestRecords

\* The engine's quote is held.
LEMMA IsGiven ==
  ASSUME Shape, NEW r \in QuoteRequests, NEW executable \in BOOLEAN,
         request' = [request EXCEPT ![r].at = "store_quote",
                       ![r].made = [expires |-> clock + QuoteLife, executable |-> executable, stored |-> TRUE]]
  PROVE  Becomes(r, [request[r] EXCEPT !.at = "store_quote",
                            !.made = [expires |-> clock + QuoteLife, executable |-> executable, stored |-> TRUE]])
<1> DEFINE rec == [request[r] EXCEPT !.at = "store_quote",
                            !.made = [expires |-> clock + QuoteLife, executable |-> executable, stored |-> TRUE]]
<1>1. r \in AdmissionRequests
  BY DEF AdmissionRequests
<1>2. rec \in RequestRecords
  <2>1. [expires |-> clock + QuoteLife, executable |-> executable, stored |-> TRUE] \in StoredQuotes
    BY AdmissionAssumption DEF Shape, StoredQuotes
  <2> QED  BY <1>1, <2>1 DEF Shape, RequestRecords, QuoteSteps
<1>3. request' = [request EXCEPT ![r] = rec]
  OBVIOUS
<1> QED  BY <1>1, <1>2, <1>3, Update

\* A start is sent with a quote, a key and a tenant.
LEMMA IsSent ==
  ASSUME Shape, NEW r \in StartRequests, NEW q \in QuoteRequests, NEW key \in Keys, NEW tenant \in Tenants,
         request' = [request EXCEPT ![r].at = "find_quote", ![r].quote = q, ![r].key = key, ![r].tenant = tenant]
  PROVE  Becomes(r, [request[r] EXCEPT !.at = "find_quote", !.quote = q, !.key = key, !.tenant = tenant])
<1> DEFINE rec == [request[r] EXCEPT !.at = "find_quote", !.quote = q, !.key = key, !.tenant = tenant]
<1>1. r \in AdmissionRequests
  BY DEF AdmissionRequests
<1>2. rec \in RequestRecords
  BY <1>1 DEF Shape, RequestRecords, StartSteps
<1>3. request' = [request EXCEPT ![r] = rec]
  OBVIOUS
<1> QED  BY <1>1, <1>2, <1>3, Update

\* A start holds the quote it has read.
LEMMA HasRead ==
  ASSUME Shape, NEW r \in StartRequests, NEW q \in QuoteRequests,
         request' = [request EXCEPT ![r].at = "recheck", ![r].made = quotes[q]]
  PROVE  Becomes(r, [request[r] EXCEPT !.at = "recheck", !.made = quotes[q]])
<1> DEFINE rec == [request[r] EXCEPT !.at = "recheck", !.made = quotes[q]]
<1>1. r \in AdmissionRequests
  BY DEF AdmissionRequests
<1>2. rec \in RequestRecords
  BY <1>1 DEF Shape, RequestRecords, StartSteps
<1>3. request' = [request EXCEPT ![r] = rec]
  OBVIOUS
<1> QED  BY <1>1, <1>2, <1>3, Update

\* A start has passed its check and is dated.
LEMMA IsDated ==
  ASSUME Shape, NEW r \in StartRequests,
         request' = [request EXCEPT ![r].at = "find_key", ![r].dated = clock]
  PROVE  Becomes(r, [request[r] EXCEPT !.at = "find_key", !.dated = clock])
<1> DEFINE rec == [request[r] EXCEPT !.at = "find_key", !.dated = clock]
<1>1. r \in AdmissionRequests
  BY DEF AdmissionRequests
<1>2. rec \in RequestRecords
  BY <1>1 DEF Shape, RequestRecords, StartSteps
<1>3. request' = [request EXCEPT ![r] = rec]
  OBVIOUS
<1> QED  BY <1>1, <1>2, <1>3, Update

\* A start is answered with a workflow.
LEMMA IsAnswered ==
  ASSUME Shape, NEW r \in StartRequests, NEW id \in StartRequests,
         request' = [request EXCEPT ![r].at = "answered", ![r].answer = id]
  PROVE  Becomes(r, [request[r] EXCEPT !.at = "answered", !.answer = id])
<1> DEFINE rec == [request[r] EXCEPT !.at = "answered", !.answer = id]
<1>1. r \in AdmissionRequests
  BY DEF AdmissionRequests
<1>2. rec \in RequestRecords
  BY <1>1 DEF Shape, RequestRecords, StartSteps
<1>3. request' = [request EXCEPT ![r] = rec]
  OBVIOUS
<1> QED  BY <1>1, <1>2, <1>3, Update

-----------------------------------------------------------------------------
(* Each action keeps the invariant.                                        *)

\* What a step of r may come to without any table changing.
MayComeTo(r, step) ==
  /\ request[r].at # "unsent"
  /\ r \in QuoteRequests => step \in QuoteSteps /\ (r \in plans => step \in {"quoted", "answered", "gone"})
  /\ r \in StartRequests => /\ step \in StartSteps \ {"recheck", "find_key", "answered"}
                            /\ step = "insert" => request[r].at = "find_key"
  /\ r \in offSince => step \in {"refused", "find_quote", "failed", "gone"}

\* Steps that move on and write nothing: refusals, failures, lookups, crashes.
LEMMA MovesOn ==
  ASSUME AdmissionInv, NEW r \in AdmissionRequests, NEW step \in (QuoteSteps \cup StartSteps) \ {"unsent"},
         GoTo(r, step), MayComeTo(r, step), UNCHANGED <<quotes, plans, workflows, override, offSince, clock>>
  PROVE  AdmissionInv'
<1> USE AdmissionAssumption DEF AdmissionRequests, QuoteSteps, StartSteps
<1>1. Becomes(r, [request[r] EXCEPT !.at = step])
  BY GoesTo DEF AdmissionInv
<1>2. /\ Others(r) /\ request'[r].at = step /\ request'[r].key = request[r].key
      /\ request'[r].tenant = request[r].tenant /\ request'[r].quote = request[r].quote
      /\ request'[r].made = request[r].made /\ request'[r].dated = request[r].dated
      /\ request'[r].answer = request[r].answer
  BY <1>1 DEF Becomes, RequestRecords, AdmissionInv, Shape
<1>3. Shape'
  BY <1>1, <1>2 DEF MayComeTo, AdmissionInv, Shape, Becomes, Others
<1>4. QuotesKept'
  BY <1>2 DEF MayComeTo, AdmissionInv, QuotesKept, Shape, Others
<1>5. OffKept'
  BY <1>2 DEF MayComeTo, AdmissionInv, OffKept, Shape, Others, Enabled, Effective
<1>6. KeyNamesOneWorkflow'
  BY <1>2 DEF MayComeTo, AdmissionInv, KeyNamesOneWorkflow, Shape, Others
<1>7. StartedFromLiveQuote'
  BY <1>2 DEF AdmissionInv, StartedFromLiveQuote, QuotesKept, Shape, Others
<1> QED  BY <1>3, <1>4, <1>5, <1>6, <1>7 DEF AdmissionInv

\* By cases on the action; a step that writes a table is shown to keep each part.
LEMMA Keeps ==
  ASSUME AdmissionInv, [AdmissionNext]_admissionVars
  PROVE  AdmissionInv'
<1> USE AdmissionAssumption DEF AdmissionRequests, QuoteSteps, StartSteps
<1>1. ASSUME NEW state \in {"paused", "disabled"}, SetOverride(state)
       PROVE  AdmissionInv'
  <2>1. Shape'
    BY <1>1 DEF AdmissionInv, Shape, SetOverride, Enabled, Effective, Strictness
  <2>2. QuotesKept'
    BY <1>1 DEF AdmissionInv, QuotesKept, Shape, SetOverride, Enabled, Effective, Strictness
  <2>3. OffKept'
    BY <1>1 DEF AdmissionInv, OffKept, Shape, SetOverride, Enabled, Effective, Strictness
  <2>4. KeyNamesOneWorkflow'
    BY <1>1 DEF AdmissionInv, KeyNamesOneWorkflow, Shape, SetOverride, Enabled, Effective, Strictness
  <2>5. StartedFromLiveQuote'
    BY <1>1 DEF AdmissionInv, StartedFromLiveQuote, QuotesKept, Shape, SetOverride, Enabled, Effective, Strictness
  <2> QED  BY <2>1, <2>2, <2>3, <2>4, <2>5 DEF AdmissionInv
<1>2. ASSUME ClearOverride
       PROVE  AdmissionInv'
  <2>1. Shape'
    BY <1>2 DEF AdmissionInv, Shape, ClearOverride, Enabled, Effective, Strictness
  <2>2. QuotesKept'
    BY <1>2 DEF AdmissionInv, QuotesKept, Shape, ClearOverride, Enabled, Effective, Strictness
  <2>3. OffKept'
    BY <1>2 DEF AdmissionInv, OffKept, Shape, ClearOverride, Enabled, Effective, Strictness
  <2>4. KeyNamesOneWorkflow'
    BY <1>2 DEF AdmissionInv, KeyNamesOneWorkflow, Shape, ClearOverride, Enabled, Effective, Strictness
  <2>5. StartedFromLiveQuote'
    BY <1>2 DEF AdmissionInv, StartedFromLiveQuote, QuotesKept, Shape, ClearOverride, Enabled, Effective, Strictness
  <2> QED  BY <2>1, <2>2, <2>3, <2>4, <2>5 DEF AdmissionInv
<1>3. ASSUME TimePasses
       PROVE  AdmissionInv'
  <2>1. Shape'
    BY <1>3 DEF AdmissionInv, Shape, TimePasses, Enabled, Effective
  <2>2. QuotesKept'
    BY <1>3 DEF AdmissionInv, QuotesKept, Shape, TimePasses, Enabled, Effective
  <2>3. OffKept'
    BY <1>3 DEF AdmissionInv, OffKept, Shape, TimePasses, Enabled, Effective
  <2>4. KeyNamesOneWorkflow'
    BY <1>3 DEF AdmissionInv, KeyNamesOneWorkflow, Shape, TimePasses, Enabled, Effective
  <2>5. StartedFromLiveQuote'
    BY <1>3 DEF AdmissionInv, StartedFromLiveQuote, QuotesKept, Shape, TimePasses, Enabled, Effective
  <2> QED  BY <2>1, <2>2, <2>3, <2>4, <2>5 DEF AdmissionInv
<1>4. ASSUME NEW r \in AdmissionRequests, Crash(r)
       PROVE  AdmissionInv'
  BY <1>4, MovesOn DEF Crash, MayComeTo, AdmissionInv, Shape, QuotesKept, OffKept
<1>5. ASSUME NEW r \in QuoteRequests, SendQuote(r)
       PROVE  AdmissionInv'
  <2>1. Becomes(r, [request[r] EXCEPT !.at = "capability"])
    BY <1>5, GoesTo DEF SendQuote, AdmissionInv
  <2>2. /\ request[r].at = "unsent"
        /\ offSince' = IF Enabled THEN offSince ELSE offSince \cup {r}
        /\ UNCHANGED <<quotes, plans, workflows, override, clock>>
    BY <1>5 DEF SendQuote, Send
  <2>3. /\ Others(r) /\ request'[r].at = "capability"
        /\ request'[r].key = request[r].key /\ request'[r].tenant = request[r].tenant
        /\ request'[r].quote = request[r].quote
        /\ request'[r].made = request[r].made /\ request'[r].dated = request[r].dated /\ request'[r].answer = request[r].answer
    BY <2>1 DEF Becomes, RequestRecords, AdmissionInv, Shape
  <2>4. Shape'
    BY <2>1, <2>2, <2>3 DEF AdmissionInv, Shape, Becomes, Others
  <2>5. QuotesKept'
    BY <2>2, <2>3 DEF AdmissionInv, QuotesKept, Shape, Others
  <2>6. OffKept'
    BY <2>2, <2>3 DEF AdmissionInv, OffKept, Shape, Others, Enabled, Effective
  <2>7. KeyNamesOneWorkflow'
    BY <2>2, <2>3 DEF AdmissionInv, KeyNamesOneWorkflow, Shape, Others
  <2>8. StartedFromLiveQuote'
    BY <2>2, <2>3 DEF AdmissionInv, StartedFromLiveQuote, QuotesKept, Shape, Others
  <2> QED  BY <2>4, <2>5, <2>6, <2>7, <2>8 DEF AdmissionInv
<1>6. ASSUME NEW r \in QuoteRequests, CheckQuoted(r)
       PROVE  AdmissionInv'
  <2>1. CASE Enabled
    BY <1>6, <2>1, MovesOn DEF CheckQuoted, MayComeTo, AdmissionInv, Shape, QuotesKept, OffKept
  <2>2. CASE ~Enabled
    BY <1>6, <2>2, MovesOn DEF CheckQuoted, MayComeTo, AdmissionInv, Shape, QuotesKept, OffKept
  <2> QED  BY <1>6, <2>1, <2>2 DEF CheckQuoted
<1>7. ASSUME NEW r \in QuoteRequests, QuoteUnchecked(r)
       PROVE  AdmissionInv'
  <2>1. CASE GoTo(r, "refused")
    BY <1>7, <2>1, MovesOn DEF QuoteUnchecked, MayComeTo, AdmissionInv, Shape, QuotesKept, OffKept
  <2>2. ASSUME NEW executable \in BOOLEAN,
               request' = [request EXCEPT ![r].at = "store_quote",
                             ![r].made = [expires |-> clock + QuoteLife, executable |-> executable, stored |-> TRUE]]
        PROVE  AdmissionInv'
    <3>1. Becomes(r, [request[r] EXCEPT !.at = "store_quote",
                            !.made = [expires |-> clock + QuoteLife, executable |-> executable, stored |-> TRUE]])
      BY <1>7, <2>2, IsGiven DEF AdmissionInv
    <3>2. /\ request[r].at = "engine"
          /\ UNCHANGED <<quotes, plans, workflows, override, offSince, clock>>
      BY <1>7, <2>2 DEF QuoteUnchecked
    <3>3. /\ Others(r) /\ request'[r].at = "store_quote"
          /\ request'[r].made = [expires |-> clock + QuoteLife, executable |-> executable, stored |-> TRUE]
          /\ request'[r].key = request[r].key /\ request'[r].tenant = request[r].tenant
          /\ request'[r].quote = request[r].quote
          /\ request'[r].dated = request[r].dated /\ request'[r].answer = request[r].answer
      BY <3>1 DEF Becomes, RequestRecords, AdmissionInv, Shape
    <3>4. Shape'
      BY <2>2, <3>1, <3>2, <3>3 DEF AdmissionInv, Shape, Becomes, Others
    <3>5. QuotesKept'
      BY <2>2, <3>2, <3>3 DEF AdmissionInv, QuotesKept, Shape, Others
    <3>6. OffKept'
      BY <2>2, <3>2, <3>3 DEF AdmissionInv, OffKept, Shape, Others, Enabled, Effective
    <3>7. KeyNamesOneWorkflow'
      BY <2>2, <3>2, <3>3 DEF AdmissionInv, KeyNamesOneWorkflow, Shape, Others
    <3>8. StartedFromLiveQuote'
      BY <2>2, <3>2, <3>3 DEF AdmissionInv, StartedFromLiveQuote, QuotesKept, Shape, Others
    <3> QED  BY <3>4, <3>5, <3>6, <3>7, <3>8 DEF AdmissionInv
  <2> QED  BY <1>7, <2>1, <2>2 DEF QuoteUnchecked
<1>8. ASSUME NEW r \in QuoteRequests, InsertQuote(r)
       PROVE  AdmissionInv'
  <2>1. Becomes(r, [request[r] EXCEPT !.at = "store_plan"])
    BY <1>8, GoesTo DEF InsertQuote, AdmissionInv
  <2>2. /\ request[r].at = "store_quote"
        /\ quotes' = [quotes EXCEPT ![r] = request[r].made]
        /\ UNCHANGED <<plans, workflows, override, offSince, clock>>
    BY <1>8 DEF InsertQuote
  <2>3. /\ Others(r) /\ request'[r].at = "store_plan"
        /\ request'[r].key = request[r].key /\ request'[r].tenant = request[r].tenant
        /\ request'[r].quote = request[r].quote
        /\ request'[r].made = request[r].made /\ request'[r].dated = request[r].dated /\ request'[r].answer = request[r].answer
    BY <2>1 DEF Becomes, RequestRecords, AdmissionInv, Shape
  <2>4. Shape'
    BY <2>1, <2>2, <2>3 DEF AdmissionInv, Shape, Becomes, Others, RequestRecords
  <2>5. QuotesKept'
    BY <2>2, <2>3 DEF AdmissionInv, QuotesKept, Shape, Others
  <2>6. OffKept'
    BY <2>2, <2>3 DEF AdmissionInv, OffKept, Shape, Others, Enabled, Effective
  <2>7. KeyNamesOneWorkflow'
    BY <2>2, <2>3 DEF AdmissionInv, KeyNamesOneWorkflow, Shape, Others
  <2>8. StartedFromLiveQuote'
    BY <2>2, <2>3 DEF AdmissionInv, StartedFromLiveQuote, QuotesKept, Shape, Others
  <2> QED  BY <2>4, <2>5, <2>6, <2>7, <2>8 DEF AdmissionInv
<1>9. ASSUME NEW r \in QuoteRequests, InsertPlan(r)
       PROVE  AdmissionInv'
  <2>1. Becomes(r, [request[r] EXCEPT !.at = "quoted"])
    BY <1>9, GoesTo DEF InsertPlan, AdmissionInv
  <2>2. /\ request[r].at = "store_plan"
        /\ plans' = plans \cup {r}
        /\ UNCHANGED <<quotes, workflows, override, offSince, clock>>
    BY <1>9 DEF InsertPlan
  <2>3. /\ Others(r) /\ request'[r].at = "quoted"
        /\ request'[r].key = request[r].key /\ request'[r].tenant = request[r].tenant
        /\ request'[r].quote = request[r].quote
        /\ request'[r].made = request[r].made /\ request'[r].dated = request[r].dated /\ request'[r].answer = request[r].answer
    BY <2>1 DEF Becomes, RequestRecords, AdmissionInv, Shape
  <2>4. Shape'
    BY <2>1, <2>2, <2>3 DEF AdmissionInv, Shape, Becomes, Others
  <2>5. QuotesKept'
    BY <2>2, <2>3 DEF AdmissionInv, QuotesKept, Shape, Others
  <2>6. OffKept'
    BY <2>2, <2>3 DEF AdmissionInv, OffKept, Shape, Others, Enabled, Effective
  <2>7. KeyNamesOneWorkflow'
    BY <2>2, <2>3 DEF AdmissionInv, KeyNamesOneWorkflow, Shape, Others
  <2>8. StartedFromLiveQuote'
    BY <2>2, <2>3 DEF AdmissionInv, StartedFromLiveQuote, QuotesKept, Shape, Others
  <2> QED  BY <2>4, <2>5, <2>6, <2>7, <2>8 DEF AdmissionInv
<1>10. ASSUME NEW r \in QuoteRequests, CountQuote(r)
       PROVE  AdmissionInv'
  <2>1. CASE request[r].at = "quoted"
    BY <1>10, <2>1, MovesOn DEF CountQuote, MayComeTo, AdmissionInv, Shape, QuotesKept, OffKept
  <2>2. CASE request[r].at = "refused"
    BY <1>10, <2>2, MovesOn DEF CountQuote, MayComeTo, AdmissionInv, Shape, QuotesKept, OffKept
  <2> QED  BY <1>10, <2>1, <2>2 DEF CountQuote
<1>11. ASSUME NEW r \in StartRequests, NEW q \in QuoteRequests, NEW key \in Keys, NEW tenant \in Tenants,
              SendStart(r, q, key, tenant)
       PROVE  AdmissionInv'
  <2>1. Becomes(r, [request[r] EXCEPT !.at = "find_quote", !.quote = q, !.key = key, !.tenant = tenant])
    BY <1>11, IsSent DEF SendStart, AdmissionInv
  <2>2. /\ request[r].at = "unsent"
        /\ offSince' = IF Enabled THEN offSince ELSE offSince \cup {r}
        /\ UNCHANGED <<quotes, plans, workflows, override, clock>>
    BY <1>11 DEF SendStart, Send
  <2>3. /\ Others(r) /\ request'[r].at = "find_quote" /\ request'[r].quote = q /\ request'[r].key = key /\ request'[r].tenant = tenant
        /\ request'[r].made = request[r].made /\ request'[r].dated = request[r].dated /\ request'[r].answer = request[r].answer
    BY <2>1 DEF Becomes, RequestRecords, AdmissionInv, Shape
  <2>4. Shape'
    BY <2>1, <2>2, <2>3 DEF AdmissionInv, Shape, Becomes, Others
  <2>5. QuotesKept'
    BY <2>2, <2>3 DEF AdmissionInv, QuotesKept, Shape, Others
  <2>6. OffKept'
    BY <2>2, <2>3 DEF AdmissionInv, OffKept, Shape, Others, Enabled, Effective
  <2>7. KeyNamesOneWorkflow'
    BY <2>2, <2>3 DEF AdmissionInv, KeyNamesOneWorkflow, Shape, Others
  <2>8. StartedFromLiveQuote'
    BY <2>2, <2>3 DEF AdmissionInv, StartedFromLiveQuote, QuotesKept, Shape, Others
  <2> QED  BY <2>4, <2>5, <2>6, <2>7, <2>8 DEF AdmissionInv
<1>12. ASSUME NEW r \in StartRequests, FindQuote(r)
       PROVE  AdmissionInv'
  <2>1. CASE Found(request[r].quote)
    <3>1. Becomes(r, [request[r] EXCEPT !.at = "recheck", !.made = quotes[request[r].quote]])
      BY <1>12, <2>1, HasRead DEF FindQuote, AdmissionInv, Shape
    <3>2. /\ request[r].at = "find_quote"
          /\ UNCHANGED <<quotes, plans, workflows, override, offSince, clock>>
      BY <1>12, <2>1 DEF FindQuote
    <3>3. /\ Others(r) /\ request'[r].at = "recheck" /\ request'[r].made = quotes[request[r].quote]
          /\ request'[r].key = request[r].key /\ request'[r].tenant = request[r].tenant
          /\ request'[r].quote = request[r].quote
          /\ request'[r].dated = request[r].dated /\ request'[r].answer = request[r].answer
      BY <3>1 DEF Becomes, RequestRecords, AdmissionInv, Shape
    <3>4. Shape'
      BY <2>1, <3>1, <3>2, <3>3 DEF AdmissionInv, Shape, Becomes, Others
    <3>5. QuotesKept'
      BY <2>1, <3>2, <3>3 DEF AdmissionInv, QuotesKept, Shape, Others, Found
    <3>6. OffKept'
      BY <2>1, <3>2, <3>3 DEF AdmissionInv, OffKept, Shape, Others, Enabled, Effective
    <3>7. KeyNamesOneWorkflow'
      BY <2>1, <3>2, <3>3 DEF AdmissionInv, KeyNamesOneWorkflow, Shape, Others
    <3>8. StartedFromLiveQuote'
      BY <2>1, <3>2, <3>3 DEF AdmissionInv, StartedFromLiveQuote, QuotesKept, Shape, Others
    <3> QED  BY <3>4, <3>5, <3>6, <3>7, <3>8 DEF AdmissionInv
  <2>2. CASE ~Found(request[r].quote)
    BY <1>12, <2>2, MovesOn DEF FindQuote, MayComeTo, AdmissionInv, Shape, QuotesKept, OffKept
  <2> QED  BY <1>12, <2>1, <2>2 DEF FindQuote
<1>13. ASSUME NEW r \in StartRequests, CheckStart(r)
       PROVE  AdmissionInv'
  <2>1. CASE MayStart(r)
    <3>1. Becomes(r, [request[r] EXCEPT !.at = "find_key", !.dated = clock])
      BY <1>13, <2>1, IsDated DEF CheckStart, AdmissionInv
    <3>2. /\ request[r].at = "recheck"
          /\ UNCHANGED <<quotes, plans, workflows, override, offSince, clock>>
      BY <1>13, <2>1 DEF CheckStart
    <3>3. /\ Others(r) /\ request'[r].at = "find_key" /\ request'[r].dated = clock
          /\ request'[r].key = request[r].key /\ request'[r].tenant = request[r].tenant
          /\ request'[r].quote = request[r].quote
          /\ request'[r].made = request[r].made /\ request'[r].answer = request[r].answer
      BY <3>1 DEF Becomes, RequestRecords, AdmissionInv, Shape
    <3>4. Shape'
      BY <2>1, <3>1, <3>2, <3>3 DEF AdmissionInv, Shape, Becomes, Others
    <3>5. QuotesKept'
      BY <2>1, <3>2, <3>3 DEF AdmissionInv, QuotesKept, Shape, Others, MayStart
    <3>6. OffKept'
      BY <2>1, <3>2, <3>3 DEF AdmissionInv, OffKept, Shape, Others, Enabled, Effective, MayStart
    <3>7. KeyNamesOneWorkflow'
      BY <2>1, <3>2, <3>3 DEF AdmissionInv, KeyNamesOneWorkflow, Shape, Others
    <3>8. StartedFromLiveQuote'
      BY <2>1, <3>2, <3>3 DEF AdmissionInv, StartedFromLiveQuote, QuotesKept, Shape, Others
    <3> QED  BY <3>4, <3>5, <3>6, <3>7, <3>8 DEF AdmissionInv
  <2>2. CASE ~MayStart(r)
    BY <1>13, <2>2, MovesOn DEF CheckStart, MayComeTo, AdmissionInv, Shape, QuotesKept, OffKept, GoTo
  <2> QED  BY <1>13, <2>1, <2>2 DEF CheckStart
<1>14. ASSUME NEW r \in StartRequests, FindKey(r)
       PROVE  AdmissionInv'
  <2>1. CASE OfKey(request[r].key) = {}
    BY <1>14, <2>1, MovesOn DEF FindKey, MayComeTo, AdmissionInv, Shape, QuotesKept, OffKept
  <2>2. CASE OfKey(request[r].key) # {}
    BY <1>14, <2>2, MovesOn DEF FindKey, MayComeTo, AdmissionInv, Shape, QuotesKept, OffKept
  <2> QED  BY <1>14, <2>1, <2>2 DEF FindKey
<1>15. ASSUME NEW r \in StartRequests, CreateWorkflowRow(r)
       PROVE  AdmissionInv'
  <2>1. CASE Free(request[r].key)
    <3>1. Becomes(r, [request[r] EXCEPT !.at = "answered", !.answer = r])
      BY <1>15, <2>1, IsAnswered DEF CreateWorkflowRow, AdmissionInv
    <3>2. /\ request[r].at = "insert"
          /\ workflows' = workflows \cup {[id |-> r, key |-> request[r].key, tenant |-> request[r].tenant,
                                      quote |-> request[r].quote, createdAt |-> request[r].dated]}
          /\ UNCHANGED <<quotes, plans, override, offSince, clock>>
      BY <1>15, <2>1 DEF CreateWorkflowRow
    <3>3. /\ Others(r) /\ request'[r].at = "answered" /\ request'[r].answer = r
          /\ request'[r].key = request[r].key /\ request'[r].tenant = request[r].tenant
          /\ request'[r].quote = request[r].quote
          /\ request'[r].made = request[r].made /\ request'[r].dated = request[r].dated
      BY <3>1 DEF Becomes, RequestRecords, AdmissionInv, Shape
    <3> DEFINE row == [id |-> r, key |-> request[r].key, tenant |-> request[r].tenant,
                       quote |-> request[r].quote, createdAt |-> request[r].dated]
    <3>4. /\ row \in WorkflowRows /\ workflows' = workflows \cup {row}
          /\ row.id = r /\ row.key = request[r].key /\ row.tenant = request[r].tenant
          /\ request[r].at = "insert" /\ UNCHANGED <<quotes, plans, clock>>
      BY <3>2 DEF AdmissionInv, Shape, RequestRecords, WorkflowRows
    <3>5. Shape'
      <4> HIDE DEF row
      <4>1. workflows' \subseteq WorkflowRows
        BY <3>4 DEF AdmissionInv, Shape
      <4>2. /\ request' \in [AdmissionRequests -> RequestRecords]
            /\ \A s \in QuoteRequests : request'[s].at \in QuoteSteps
        BY <3>1, <3>3 DEF AdmissionInv, Shape, Becomes, Others
      <4>3. \A s \in StartRequests : /\ request'[s].at \in StartSteps
                                     /\ request'[s].at # "unsent" => /\ request'[s].key \in Keys
                                          /\ request'[s].tenant \in Tenants /\ request'[s].quote \in QuoteRequests
        BY <3>3, <3>4 DEF AdmissionInv, Shape, Others
      <4> QED  BY <3>4, <4>1, <4>2, <4>3 DEF AdmissionInv, Shape
    <3>6. QuotesKept'
      BY <2>1, <3>2, <3>3 DEF AdmissionInv, QuotesKept, Shape, Others
    <3>7. OffKept'
      BY <2>1, <3>2, <3>3 DEF AdmissionInv, OffKept, Shape, Others, Enabled, Effective
    <3>8. KeyNamesOneWorkflow'
      <4> HIDE DEF row
      <4>1. \A w, v \in workflows' : w.key = v.key => w = v
        BY <2>1, <3>4 DEF AdmissionInv, KeyNamesOneWorkflow, Free, OfKey
      <4>2. \E w \in workflows' : w.id = request'[r].answer /\ w.key = request'[r].key /\ w.tenant = request'[r].tenant
        BY <3>3, <3>4
      <4>3. ASSUME NEW s \in StartRequests, s # r, request'[s].at = "answered"
            PROVE  \E w \in workflows' : w.id = request'[s].answer /\ w.key = request'[s].key
                                          /\ w.tenant = request'[s].tenant
        BY <3>3, <3>4, <4>3 DEF Others, AdmissionInv, KeyNamesOneWorkflow
      <4> QED  BY <4>1, <4>2, <4>3 DEF KeyNamesOneWorkflow
    <3>9. StartedFromLiveQuote'
      BY <2>1, <3>2, <3>3 DEF AdmissionInv, StartedFromLiveQuote, QuotesKept, Shape, Others
    <3> QED  BY <3>5, <3>6, <3>7, <3>8, <3>9 DEF AdmissionInv
  <2>2. CASE ~Free(request[r].key)
    BY <1>15, <2>2, MovesOn DEF CreateWorkflowRow, MayComeTo, AdmissionInv, Shape, QuotesKept, OffKept
  <2> QED  BY <1>15, <2>1, <2>2 DEF CreateWorkflowRow
<1>16. ASSUME NEW r \in StartRequests, AnswerExisting(r)
       PROVE  AdmissionInv'
  <2>1. CASE Existing(r) = {}
    BY <1>16, <2>1, MovesOn DEF AnswerExisting, MayComeTo, AdmissionInv, Shape, QuotesKept, OffKept
  <2>2. ASSUME NEW w \in Existing(r),
               request' = [request EXCEPT ![r].at = "answered", ![r].answer = w.id]
        PROVE  AdmissionInv'
    <3>1. Becomes(r, [request[r] EXCEPT !.at = "answered", !.answer = w.id])
      BY <1>16, <2>2, IsAnswered DEF AdmissionInv, Shape, WorkflowRows, Existing, OfKey
    <3>2. /\ request[r].at = "existing"
          /\ UNCHANGED <<quotes, plans, workflows, override, offSince, clock>>
      BY <1>16, <2>2 DEF AnswerExisting
    <3>3. /\ Others(r) /\ request'[r].at = "answered" /\ request'[r].answer = w.id
          /\ request'[r].key = request[r].key /\ request'[r].tenant = request[r].tenant
          /\ request'[r].quote = request[r].quote
          /\ request'[r].made = request[r].made /\ request'[r].dated = request[r].dated
      BY <3>1 DEF Becomes, RequestRecords, AdmissionInv, Shape
    <3>4. Shape'
      BY <2>2, <3>1, <3>2, <3>3 DEF AdmissionInv, Shape, Becomes, Others
    <3>5. QuotesKept'
      BY <2>2, <3>2, <3>3 DEF AdmissionInv, QuotesKept, Shape, Others
    <3>6. OffKept'
      BY <2>2, <3>2, <3>3 DEF AdmissionInv, OffKept, Shape, Others, Enabled, Effective
    <3>7. KeyNamesOneWorkflow'
      BY <2>2, <3>2, <3>3 DEF AdmissionInv, KeyNamesOneWorkflow, Shape, Others, Existing, OfKey
    <3>8. StartedFromLiveQuote'
      BY <2>2, <3>2, <3>3 DEF AdmissionInv, StartedFromLiveQuote, QuotesKept, Shape, Others
    <3> QED  BY <3>4, <3>5, <3>6, <3>7, <3>8 DEF AdmissionInv
  <2> QED  BY <1>16, <2>1, <2>2 DEF AnswerExisting
<1>17. CASE UNCHANGED admissionVars
  <2>1. Shape'
    BY <1>17 DEF AdmissionInv, Shape, admissionVars, Enabled, Effective
  <2>2. QuotesKept'
    BY <1>17 DEF AdmissionInv, QuotesKept, Shape, admissionVars, Enabled, Effective
  <2>3. OffKept'
    BY <1>17 DEF AdmissionInv, OffKept, Shape, admissionVars, Enabled, Effective
  <2>4. KeyNamesOneWorkflow'
    BY <1>17 DEF AdmissionInv, KeyNamesOneWorkflow, Shape, admissionVars, Enabled, Effective
  <2>5. StartedFromLiveQuote'
    BY <1>17 DEF AdmissionInv, StartedFromLiveQuote, QuotesKept, Shape, admissionVars, Enabled, Effective
  <2> QED  BY <2>1, <2>2, <2>3, <2>4, <2>5 DEF AdmissionInv
<1> QED  BY <1>1, <1>2, <1>3, <1>4, <1>5, <1>6, <1>7, <1>8, <1>9, <1>10, <1>11, <1>12, <1>13, <1>14, <1>15, <1>16, <1>17 DEF AdmissionNext

-----------------------------------------------------------------------------
(* Times stay within the clock's bound and the life of a quote.            *)

Expiries == 0..(MaxTime + QuoteLife)

Dated ==
  /\ clock \in 0..MaxTime /\ override \in {"none", "paused", "disabled"}
  /\ \A q \in QuoteRequests : request[q].made.expires \in Expiries /\ quotes[q].expires \in Expiries

\* A step that makes no quote leaves the ones that requests hold.
LEMMA NothingIsMade ==
  ASSUME Dated, UNCHANGED <<clock, override, quotes>>,
         \A q \in QuoteRequests : request'[q].made = request[q].made
  PROVE  Dated'
BY DEF Dated, Expiries

LEMMA StaysDated ==
  ASSUME Shape, Dated, [AdmissionNext]_admissionVars
  PROVE  Dated'
<1> USE AdmissionAssumption DEF AdmissionRequests
<1>1. request \in [AdmissionRequests -> RequestRecords] /\ quotes \in [QuoteRequests -> StoredQuotes]
  BY DEF Shape
<1>2. ASSUME NEW r \in AdmissionRequests, NEW step, GoTo(r, step)
      PROVE  \A q \in QuoteRequests : request'[q].made = request[q].made
  BY <1>1, <1>2 DEF GoTo, RequestRecords
<1>3. ASSUME NEW state \in {"paused", "disabled"}, SetOverride(state) PROVE Dated'
  BY <1>3 DEF SetOverride, Dated
<1>4. CASE ClearOverride
  BY <1>4 DEF ClearOverride, Dated
<1>5. CASE TimePasses
  BY <1>5 DEF TimePasses, Dated
<1>6. ASSUME NEW r \in AdmissionRequests, Crash(r) PROVE Dated'
  BY <1>2, <1>6, NothingIsMade DEF Crash
<1>7. ASSUME NEW r \in QuoteRequests, SendQuote(r) \/ CheckQuoted(r) PROVE Dated'
  BY <1>2, <1>7, NothingIsMade DEF SendQuote, CheckQuoted
<1>8. ASSUME NEW r \in QuoteRequests, QuoteUnchecked(r) PROVE Dated'
  <2>1. CASE GoTo(r, "refused")
    BY <1>2, <1>8, <2>1, NothingIsMade DEF QuoteUnchecked
  <2>2. ASSUME NEW executable \in BOOLEAN,
               request' = [request EXCEPT ![r].at = "store_quote",
                             ![r].made = [expires |-> clock + QuoteLife, executable |-> executable, stored |-> TRUE]]
        PROVE  Dated'
    <3>1. clock + QuoteLife \in Expiries
      BY DEF Dated, Expiries
    <3>2. request'[r].made.expires = clock + QuoteLife
      BY <1>1, <2>2 DEF RequestRecords
    <3>3. \A q \in QuoteRequests : q = r \/ request'[q] = request[q]
      BY <1>1, <2>2
    <3> QED  BY <1>8, <3>1, <3>2, <3>3 DEF QuoteUnchecked, Dated, Expiries
  <2> QED  BY <1>8, <2>1, <2>2 DEF QuoteUnchecked
<1>9. ASSUME NEW r \in QuoteRequests, InsertQuote(r) PROVE Dated'
  <2>1. quotes' = [quotes EXCEPT ![r] = request[r].made] /\ UNCHANGED <<clock, override>>
        /\ \A q \in QuoteRequests : request'[q].made = request[q].made
    BY <1>2, <1>9 DEF InsertQuote
  <2>2. \A q \in QuoteRequests : quotes'[q] = IF q = r THEN request[r].made ELSE quotes[q]
    BY <1>1, <2>1
  <2> QED  BY <2>1, <2>2 DEF Dated, Expiries
<1>10. ASSUME NEW r \in QuoteRequests, InsertPlan(r) PROVE Dated'
  BY <1>2, <1>10, NothingIsMade DEF InsertPlan
<1>11. ASSUME NEW r \in QuoteRequests, CountQuote(r) PROVE Dated'
  <2>1. GoTo(r, "answered") \/ GoTo(r, "failed")
    BY <1>11 DEF CountQuote
  <2>2. \A q \in QuoteRequests : request'[q].made = request[q].made
    BY <1>2, <2>1
  <2> QED  BY <1>11, <2>2, NothingIsMade DEF CountQuote
<1>12. ASSUME NEW r \in StartRequests, \A q \in QuoteRequests : request'[q] = request[q],
              UNCHANGED <<clock, override, quotes>>
       PROVE  Dated'
  BY <1>12, NothingIsMade
<1>13. ASSUME NEW r \in StartRequests, NEW q \in QuoteRequests, NEW key \in Keys, NEW tenant \in Tenants,
              SendStart(r, q, key, tenant)
       PROVE  Dated'
  <2>1. \A p \in QuoteRequests : request'[p] = request[p]
    BY <1>1, <1>13 DEF SendStart
  <2> QED  BY <1>12, <1>13, <2>1 DEF SendStart
<1>14. ASSUME NEW r \in StartRequests,
              \/ FindQuote(r) \/ CheckStart(r) \/ FindKey(r) \/ CreateWorkflowRow(r) \/ AnswerExisting(r)
       PROVE  Dated'
  <2>1. \A q \in QuoteRequests : q # r
    OBVIOUS
  <2>2. \A q \in QuoteRequests : request'[q] = request[q]
    BY <1>1, <1>14, <2>1 DEF FindQuote, CheckStart, FindKey, CreateWorkflowRow, AnswerExisting, GoTo
  <2> QED  BY <1>12, <1>14, <2>2 DEF FindQuote, CheckStart, FindKey, CreateWorkflowRow, AnswerExisting
<1>15. CASE UNCHANGED admissionVars
  BY <1>15 DEF admissionVars, Dated
<1> QED  BY <1>3, <1>4, <1>5, <1>6, <1>7, <1>8, <1>9, <1>10, <1>11, <1>13, <1>14, <1>15 DEF AdmissionNext

-----------------------------------------------------------------------------
(* What follows for the specification.                                     *)

\* The invariant holds always.
LEMMA AlwaysInv == AdmissionSpec => []AdmissionInv
<1>1. AdmissionInv /\ [AdmissionNext]_admissionVars => AdmissionInv'
  BY Keeps
<1> QED  BY InitSafe, <1>1, PTL DEF AdmissionSpec

\* Quotes, workflows, the operator's row and the clock keep their types.
THEOREM AdmissionTypes == AdmissionSpec => []AdmissionTypeOK
<1>1. AdmissionInit => Dated
  BY AdmissionAssumption DEF AdmissionInit, Dated, Expiries, Unsent, NoQuote, AdmissionRequests
<1>2. AdmissionInv /\ Dated /\ [AdmissionNext]_admissionVars => Dated'
  BY StaysDated DEF AdmissionInv
<1>3. AdmissionInv /\ Dated => AdmissionTypeOK
  BY DEF AdmissionInv, Shape, WorkflowRows, Dated, Expiries, AdmissionTypeOK
<1> QED  BY AlwaysInv, <1>1, <1>2, <1>3, PTL DEF AdmissionSpec

\* However many requests use one key at once, it names one workflow, and nobody is answered another's.
THEOREM KeyIsIdempotent == AdmissionSpec => []KeyNamesOneWorkflow
<1>1. AdmissionInv => KeyNamesOneWorkflow
  BY DEF AdmissionInv
<1> QED  BY AlwaysInv, <1>1, PTL

\* A workflow starts from a quote stored with its plan, executable and not expired at the workflow's date.
THEOREM StartsFromLiveQuote == AdmissionSpec => []StartedFromLiveQuote
<1>1. AdmissionInv => StartedFromLiveQuote
  BY DEF AdmissionInv
<1> QED  BY AlwaysInv, <1>1, PTL

\* Requests that have only seen the capability off store and start nothing.
THEOREM OffStaysOff == AdmissionSpec => []SwitchedOffStops
<1>1. AdmissionInv => SwitchedOffStops
  BY DEF AdmissionInv, OffKept, SwitchedOffStops, AdmissionRequests
<1> QED  BY AlwaysInv, <1>1, PTL

---------------------------------------------------------------------------
(* ApiGate *)

CallSteps == {"unsent", "authenticate", "hit", "given_up", "admitted", "exchange", "done", "refused"}
NonceStates == {"none", "unused", "used"}
CallRecord == [at : CallSteps, caller : Callers, window : Nat, valid : BOOLEAN,
               read : NonceStates \cup {"expired"}, inWindow : BOOLEAN]
NonceRecord == [state : NonceStates, expires : Nat, lock : SUBSET Calls]
SessionRecord == [by : Calls, expires : Nat]
Entry == [hits : Nat, expires : Nat]

GateTypes ==
  /\ gateClock \in 0..MaxGateTime
  /\ nonce \in NonceRecord /\ judged \subseteq Calls /\ sessions \subseteq SessionRecord
  /\ counter \in [Callers -> [Windows -> Entry]]
  /\ call \in [Calls -> CallRecord]

\* The row's lock is held by the call that exchanges, and by one; what it has read stays true while it holds it.
RowIsLocked ==
  /\ \A c \in Calls : call[c].at = "exchange" => c \in nonce.lock
  /\ \A c, d \in nonce.lock : c = d
  /\ nonce.state = "none" => nonce.lock = {}
  /\ \A c \in Calls : call[c].at = "exchange" /\ call[c].read = "unused" => nonce.state = "unused"

\* The nonce is spent before a signature is judged, and a call that was judged has its answer.
JudgedOnce ==
  /\ judged # {} => nonce.state = "used"
  /\ \A c, d \in judged : c = d
  /\ \A c \in judged : call[c].at \in {"done", "refused"}
  /\ \A s \in sessions : s.by \in judged /\ call[s.by].valid
  /\ \A s, t \in sessions : s = t

\* The window of a time.
WindowOf(t) == t \div WindowLength

\* A counter is not there, or disappears after its window is over.
Outlives(entry, w) ==
  (entry.hits = 0 /\ entry.expires = 0) \/ \A t \in Nat : entry.expires <= t => w < WindowOf(t)

\* A call is counted in the window it was sent in, which has begun; a counter outlives its window, and while that
\* lasts it has counted all that were let in.
LimitHeld ==
  /\ \A c \in Calls : call[c].at # "unsent" => call[c].window \in Windows /\ call[c].window <= WindowOf(gateClock)
  /\ \A b \in Callers, w \in Windows : Outlives(counter[b][w], w)
  /\ \A b \in Callers, w \in Windows : WindowOf(gateClock) <= w => Cardinality(LetIn(b, w)) <= counter[b][w].hits
  /\ WithinLimit

\* The calls whose hit was counted; a call is counted once.
HitBy == {c \in Calls : call[c].at \in {"admitted", "exchange", "done", "refused"}}

HitsBounded == \A b \in Callers, w \in Windows : counter[b][w].hits <= Cardinality(HitBy)

GateOK == GateTypes /\ RowIsLocked /\ JudgedOnce /\ LimitHeld /\ HitsBounded

\* Sets of calls can be counted: a smaller one counts no more, one more call one more at most.
LEMMA CountsCalls ==
  ASSUME NEW S \in SUBSET Calls, NEW T \in SUBSET Calls
  PROVE  /\ Cardinality(S) \in Nat
         /\ T \subseteq S => Cardinality(T) <= Cardinality(S)
         /\ \A c \in Calls : T \subseteq S \cup {c} => Cardinality(T) <= Cardinality(S) + 1
         /\ \A c \in T : c \notin S /\ S \subseteq T => Cardinality(S) + 1 <= Cardinality(T)
<1>1. IsFiniteSet(S) /\ IsFiniteSet(T)
  BY GateAssumption, FS_Subset
<1>2. Cardinality(S) \in Nat /\ Cardinality(T) \in Nat
  BY <1>1, FS_CardinalityType
<1>3. T \subseteq S => Cardinality(T) <= Cardinality(S)
  BY <1>1, FS_Subset
<1>4. \A c \in Calls : c \notin S => IsFiniteSet(S \cup {c}) /\ Cardinality(S \cup {c}) = Cardinality(S) + 1
  BY <1>1, FS_AddElement
<1>5. ASSUME NEW c \in Calls, T \subseteq S \cup {c} PROVE Cardinality(T) <= Cardinality(S) + 1
  <2>1. CASE c \in S
    <3>1. T \subseteq S
      BY <1>5, <2>1
    <3> QED BY <1>2, <1>3, <3>1
  <2>2. CASE c \notin S
    <3>1. Cardinality(T) <= Cardinality(S \cup {c})
      BY <1>4, <1>5, <2>2, FS_Subset
    <3> QED BY <1>4, <2>2, <3>1
  <2> QED BY <2>1, <2>2
<1>6. ASSUME NEW c \in T, c \notin S, S \subseteq T PROVE Cardinality(S) + 1 <= Cardinality(T)
  <2>1. S \cup {c} \subseteq T /\ c \in Calls
    BY <1>6
  <2>2. Cardinality(S \cup {c}) <= Cardinality(T)
    BY <1>1, <2>1, FS_Subset
  <2> QED BY <1>4, <1>6, <2>1, <2>2
<1> QED BY <1>2, <1>3, <1>5, <1>6

\* Windows follow each other, and none is over before its length has passed.
LEMMA WindowsFollow ==
  /\ \A t \in Nat : WindowOf(t) \in Nat
  /\ \A t, u \in Nat : t <= u => WindowOf(t) <= WindowOf(u)
  /\ \A t, u \in Nat : t + WindowLength <= u => WindowOf(t) < WindowOf(u)
<1>1. WindowLength \in Nat \ {0}
  BY GateAssumption
<1>2. ASSUME NEW t \in Nat PROVE WindowOf(t) \in Nat
  BY <1>1 DEF WindowOf
<1>3. ASSUME NEW t \in Nat, NEW u \in Nat, t <= u PROVE WindowOf(t) <= WindowOf(u)
  BY <1>1, <1>3 DEF WindowOf
<1>4. ASSUME NEW t \in Nat, NEW u \in Nat, t + WindowLength <= u PROVE WindowOf(t) < WindowOf(u)
  BY <1>1, <1>4 DEF WindowOf
<1> QED BY <1>2, <1>3, <1>4

\* Nothing is sent or stored at first.
LEMMA GateStarts == GateInit => GateOK
<1> SUFFICES ASSUME GateInit PROVE GateOK
  OBVIOUS
<1>0. MaxGateTime \in Nat /\ WindowLength \in Nat \ {0} /\ Limit \in Nat
  BY GateAssumption
<1>1. NotMade \in CallRecord /\ NotMade.at = "unsent"
  BY DEF NotMade, CallRecord, CallSteps, Callers, NonceStates
<1>2. NoCounter \in Entry /\ NoCounter.hits = 0
  BY DEF NoCounter, Entry
<1>3. /\ \A c \in Calls : call[c] = NotMade
      /\ judged = {} /\ sessions = {} /\ nonce.lock = {}
      /\ \A b \in Callers, w \in Windows : counter[b][w] = NoCounter
  BY DEF GateInit
<1>4. GateTypes
  BY <1>0, <1>1, <1>2 DEF GateInit, GateTypes, NonceRecord, NonceStates
<1>5. RowIsLocked /\ JudgedOnce
  BY <1>1, <1>3 DEF RowIsLocked, JudgedOnce
<1>6. \A b, w : LetIn(b, w) = {} /\ HitBy = {}
  BY <1>1, <1>3 DEF LetIn, HitBy
<1>7. Cardinality({}) = 0
  BY FS_EmptySet
<1>8. LimitHeld
  <2>1. NoCounter.hits = 0 /\ NoCounter.expires = 0
    BY DEF NoCounter
  <2> QED BY <1>0, <1>1, <1>2, <1>3, <1>6, <1>7, <2>1 DEF LimitHeld, WithinLimit, Outlives
<1>9. HitsBounded
  BY <1>2, <1>3, <1>6, <1>7 DEF HitsBounded
<1> QED BY <1>4, <1>5, <1>8, <1>9 DEF GateOK

\* A step that counts nothing and lets nobody in keeps the limits.
LEMMA LimitKept ==
  ASSUME GateOK, GateTypes', gateClock' >= gateClock, counter' = counter,
         \A b \in Callers, w \in Windows : LetIn(b, w)' \subseteq LetIn(b, w), HitBy \subseteq HitBy',
         \A c \in Calls : call'[c].at # "unsent" => call'[c].window \in Windows /\ call'[c].window <= WindowOf(gateClock')
  PROVE  LimitHeld' /\ HitsBounded'
<1>1. gateClock \in Nat /\ gateClock' \in Nat /\ Limit \in Nat
  BY GateAssumption DEF GateOK, GateTypes
<1>2. WindowOf(gateClock) \in Nat /\ WindowOf(gateClock') \in Nat /\ WindowOf(gateClock) <= WindowOf(gateClock')
  BY <1>1, WindowsFollow
<1>3. ASSUME NEW b \in Callers, NEW w \in Windows
      PROVE  /\ Cardinality(LetIn(b, w)') <= Cardinality(LetIn(b, w))
             /\ Cardinality(LetIn(b, w)') \in Nat /\ Cardinality(LetIn(b, w)) \in Nat
             /\ counter[b][w].hits \in Nat /\ w \in Int
  <2>1. LetIn(b, w) \in SUBSET Calls /\ LetIn(b, w)' \in SUBSET Calls
    BY DEF LetIn
  <2>2. counter[b][w].hits \in Nat
    BY DEF GateOK, GateTypes, Entry
  <2>3. w \in Int
    BY GateAssumption DEF Windows
  <2> QED BY <2>1, <2>2, <2>3, CountsCalls
<1>4. \A b \in Callers, w \in Windows : WindowOf(gateClock') <= w => Cardinality(LetIn(b, w)') <= counter'[b][w].hits
  <2> SUFFICES ASSUME NEW b \in Callers, NEW w \in Windows, WindowOf(gateClock') <= w
               PROVE  Cardinality(LetIn(b, w)') <= counter[b][w].hits
    OBVIOUS
  <2>1. WindowOf(gateClock) <= w
    BY <1>2, <1>3
  <2>2. Cardinality(LetIn(b, w)) <= counter[b][w].hits
    BY <2>1 DEF GateOK, LimitHeld
  <2> QED BY <1>3, <2>2
<1>5. WithinLimit'
  <2> SUFFICES ASSUME NEW b \in Callers, NEW w \in Windows PROVE Cardinality(LetIn(b, w)') <= Limit
    BY DEF WithinLimit, Callers, Windows
  <2>1. Cardinality(LetIn(b, w)) <= Limit
    BY DEF GateOK, LimitHeld, WithinLimit
  <2> QED BY <1>1, <1>3, <2>1
<1>6. HitsBounded'
  <2> SUFFICES ASSUME NEW b \in Callers, NEW w \in Windows PROVE counter[b][w].hits <= Cardinality(HitBy')
    BY DEF HitsBounded, Callers, Windows
  <2>1. HitBy \in SUBSET Calls /\ HitBy' \in SUBSET Calls
    BY DEF HitBy
  <2>2. Cardinality(HitBy) <= Cardinality(HitBy') /\ Cardinality(HitBy) \in Nat /\ Cardinality(HitBy') \in Nat
    BY <2>1, CountsCalls
  <2>3. counter[b][w].hits <= Cardinality(HitBy)
    BY DEF GateOK, HitsBounded
  <2> QED BY <1>3, <2>2, <2>3
<1>7. \A b \in Callers, w \in Windows : Outlives(counter'[b][w], w)
  BY DEF GateOK, LimitHeld
<1>8. LimitHeld'
  BY <1>4, <1>5, <1>7 DEF LimitHeld, Callers, Windows, WindowOf, Outlives
<1> QED BY <1>6, <1>8

\* c holds rec after a step and the other calls what they held.
CallBecomes(c, rec) ==
  /\ call' \in [Calls -> CallRecord] /\ call'[c] = rec
  /\ \A d \in Calls \ {c} : call'[d] = call[d]

\* The step as the code writes it, in these terms.
LEMMA CallUpdate ==
  ASSUME GateOK, NEW c \in Calls, NEW rec \in CallRecord, call' = [call EXCEPT ![c] = rec]
  PROVE  CallBecomes(c, rec)
  BY DEF GateOK, GateTypes, CallBecomes

\* A step that only moves on.
LEMMA CallGoes ==
  ASSUME GateOK, NEW c \in Calls, NEW step \in CallSteps, At(c, step)
  PROVE  CallBecomes(c, [call[c] EXCEPT !.at = step])
<1>1. PICK rec \in CallRecord : rec = [call[c] EXCEPT !.at = step]
  BY DEF GateOK, GateTypes, CallRecord
<1>2. call' = [call EXCEPT ![c] = rec]
  BY <1>1 DEF At
<1> QED BY <1>1, <1>2, CallUpdate

\* Time passes, a key is revoked, an application is disabled.
LEMMA WorldKeepsGate ==
  ASSUME GateOK, GateTick \/ RevokeApiKey \/ DisableApp \/ UNCHANGED gateVars
  PROVE  GateOK'
<1>1. UNCHANGED <<nonce, judged, sessions, counter, call>> /\ gateClock' \in 0..MaxGateTime /\ gateClock' >= gateClock
      /\ gateClock \in Nat /\ gateClock' \in Nat
  <2>1. gateClock \in 0..MaxGateTime /\ MaxGateTime \in Nat
    BY GateAssumption DEF GateOK, GateTypes
  <2>2. CASE GateTick
    BY <2>1, <2>2 DEF GateTick
  <2>3. CASE RevokeApiKey \/ DisableApp \/ UNCHANGED gateVars
    BY <2>1, <2>3 DEF RevokeApiKey, DisableApp, gateVars
  <2> QED BY <2>2, <2>3
<1>2. GateTypes' /\ RowIsLocked' /\ JudgedOnce'
  BY <1>1 DEF GateOK, GateTypes, RowIsLocked, JudgedOnce
<1>3. \A c \in Calls : call'[c].at # "unsent" => call'[c].window \in Windows /\ call'[c].window <= WindowOf(gateClock')
  <2> TAKE c \in Calls
  <2> HAVE call'[c].at # "unsent"
  <2>1. call[c].window \in Windows /\ call[c].window <= WindowOf(gateClock) /\ call[c].window \in Nat
    BY <1>1 DEF GateOK, LimitHeld, GateTypes, CallRecord
  <2>2. WindowOf(gateClock) <= WindowOf(gateClock') /\ WindowOf(gateClock) \in Nat /\ WindowOf(gateClock') \in Nat
    BY <1>1, WindowsFollow
  <2> QED BY <1>1, <2>1, <2>2
<1>4. \A b, w : LetIn(b, w)' = LetIn(b, w)
  BY <1>1 DEF LetIn
<1>5. HitBy' = HitBy
  BY <1>1 DEF HitBy
<1>6. LimitHeld' /\ HitsBounded'
  BY <1>1, <1>2, <1>3, <1>4, <1>5, LimitKept
<1> QED BY <1>2, <1>6 DEF GateOK

\* A call is sent, reads its credential, or gives up on Redis: it holds no row, is not judged and is not let in.
LEMMA FrontKeepsGate ==
  ASSUME GateOK, NEW c \in Calls,
         \/ \E who \in Callers, valid \in BOOLEAN : SendCall(c, who, valid)
         \/ Authenticate(c) \/ GiveUpOnRedis(c)
  PROVE  GateOK'
<1>1. PICK rec \in CallRecord :
        /\ CallBecomes(c, rec)
        /\ call[c].at \in {"unsent", "authenticate", "hit"}
        /\ rec.at \in {"authenticate", "hit", "refused", "given_up"}
        /\ rec.window \in Windows /\ rec.window <= WindowOf(gateClock)
  <2>1. CASE \E who \in Callers, valid \in BOOLEAN : SendCall(c, who, valid)
    <3>1. PICK who \in Callers, valid \in BOOLEAN : SendCall(c, who, valid)
      BY <2>1
    <3>2. PICK window \in Nat : window = gateClock \div WindowLength
      BY WindowsFollow, GateAssumption DEF WindowOf, GateOK, GateTypes
    <3> DEFINE rec == [NotMade EXCEPT !.at = "authenticate", !.caller = who, !.valid = valid, !.window = window]
    <3>3. call' = [call EXCEPT ![c] = rec] /\ call[c].at = "unsent"
      BY <3>1, <3>2 DEF SendCall
    <3>4. rec \in CallRecord /\ rec.at = "authenticate" /\ rec.window = window
      BY DEF NotMade, CallRecord, CallSteps, NonceStates
    <3>5. window \in Windows
      <4>1. gateClock \in Nat /\ MaxGateTime \in Nat /\ gateClock <= MaxGateTime
        BY GateAssumption DEF GateOK, GateTypes
      <4>2. WindowOf(gateClock) <= WindowOf(MaxGateTime) /\ WindowOf(MaxGateTime) \in Nat
        BY <4>1, WindowsFollow
      <4> QED BY <3>2, <4>2 DEF WindowOf, Windows
    <3> HIDE DEF rec
    <3>6. CallBecomes(c, rec)
      BY <3>3, <3>4, CallUpdate
    <3> QED BY <3>2, <3>3, <3>4, <3>5, <3>6 DEF WindowOf
  <2>2. CASE Authenticate(c) \/ GiveUpOnRedis(c)
    <3>1. PICK step \in {"hit", "refused", "given_up"} : At(c, step)
      BY <2>2 DEF Authenticate, GiveUpOnRedis, GivenUp
    <3>2. CallBecomes(c, [call[c] EXCEPT !.at = step])
      BY <3>1, CallGoes DEF CallSteps
    <3>3. PICK rec \in CallRecord : rec = [call[c] EXCEPT !.at = step]
      BY <3>1 DEF GateOK, GateTypes, CallRecord, CallSteps
    <3>4. rec.at = step /\ rec.window = call[c].window
      BY <3>3 DEF GateOK, GateTypes, CallRecord
    <3>5. call[c].at \in {"authenticate", "hit"}
      BY <2>2 DEF Authenticate, GiveUpOnRedis
    <3> QED BY <3>2, <3>3, <3>4, <3>5 DEF GateOK, LimitHeld
  <2> QED BY <2>1, <2>2
<1>2. UNCHANGED <<gateClock, nonce, judged, sessions, counter>>
  BY DEF SendCall, Authenticate, GiveUpOnRedis
<1>3. call[c].at \notin {"admitted", "exchange", "done", "refused"} /\ c \notin judged
  BY <1>1 DEF GateOK, JudgedOnce
<1>4. GateTypes'
  BY <1>1, <1>2 DEF GateOK, GateTypes, CallBecomes
<1>5. RowIsLocked'
  BY <1>1, <1>2 DEF GateOK, RowIsLocked, CallBecomes
<1>6. JudgedOnce'
  <2>1. \A d \in judged : call'[d] = call[d]
    BY <1>1, <1>3 DEF CallBecomes, GateOK, GateTypes
  <2> QED BY <1>2, <2>1 DEF GateOK, JudgedOnce
<1>7. \A b \in Callers, w \in Windows : LetIn(b, w)' \subseteq LetIn(b, w)
  BY <1>1, <1>2, <1>3 DEF LetIn, CallBecomes
<1>8. HitBy \subseteq HitBy'
  BY <1>1, <1>3 DEF HitBy, CallBecomes
<1>9. \A d \in Calls : call'[d].at # "unsent" => call'[d].window \in Windows /\ call'[d].window <= WindowOf(gateClock')
  BY <1>1, <1>2 DEF CallBecomes, GateOK, LimitHeld, WindowOf
<1>10. gateClock' >= gateClock
  BY <1>2 DEF GateOK, GateTypes
<1>11. LimitHeld' /\ HitsBounded'
  BY <1>2, <1>4, <1>7, <1>8, <1>9, <1>10, LimitKept
<1> QED BY <1>4, <1>5, <1>6, <1>11 DEF GateOK

\* A hit is counted: it lets a call in only while the counter, which outlives the window, is within the limit.
LEMMA HitKeepsGate ==
  ASSUME GateOK, NEW c \in Calls, HitReaches(c)
  PROVE  GateOK'
<1>0. PICK old \in CallRecord : old = call[c] /\ old.at \in {"hit", "given_up"}
  BY DEF GateOK, GateTypes, HitReaches
<1>1. PICK b \in Callers, w \in Windows : b = old.caller /\ w = old.window /\ w <= WindowOf(gateClock)
  BY <1>0 DEF GateOK, LimitHeld, CallRecord
<1>2. PICK entry \in Entry : entry = Counted(counter[b][w])
  <2>1. PICK before \in Entry : before = counter[b][w]
    BY <1>1 DEF GateOK, GateTypes
  <2>2. gateClock + WindowLength \in Nat
    <3>1. gateClock \in 0..MaxGateTime /\ MaxGateTime \in Nat /\ WindowLength \in Nat
      BY GateAssumption DEF GateOK, GateTypes
    <3> QED BY <3>1
  <2>3. Counted(before) \in Entry
    BY <2>2 DEF Counted, Entry
  <2> QED BY <2>1, <2>3
<1>3. PICK inWindow \in BOOLEAN : inWindow = (gateClock \div WindowLength = w)
  OBVIOUS
<1>4. PICK at \in {"admitted", "refused"} : at = IF old.at = "hit" /\ Allowed(entry.hits) THEN "admitted" ELSE "refused"
  OBVIOUS
<1> DEFINE rec == [old EXCEPT !.inWindow = inWindow, !.at = at]
<1>5. /\ counter' = [counter EXCEPT ![b][w] = entry] /\ call' = [call EXCEPT ![c] = rec]
      /\ UNCHANGED <<gateClock, nonce, judged, sessions>>
  <2>1. counter' = [counter EXCEPT ![b][w] = entry] /\ UNCHANGED <<gateClock, nonce, judged, sessions>>
    BY <1>0, <1>1, <1>2 DEF HitReaches
  <2>2. call' = [call EXCEPT ![c].inWindow = inWindow, ![c].at = at]
    BY <1>0, <1>1, <1>2, <1>3, <1>4 DEF HitReaches
  <2>3. call' = [call EXCEPT ![c] = rec]
    BY <1>0, <2>2
  <2> QED BY <2>1, <2>3
<1>6. rec \in CallRecord /\ rec.at = at /\ rec.inWindow = inWindow /\ rec.caller = b /\ rec.window = w /\ rec.valid = old.valid
  BY <1>1 DEF CallRecord, CallSteps
<1> HIDE DEF rec
<1>7. CallBecomes(c, rec)
  BY <1>5, <1>6, CallUpdate
<1>8. counter'[b][w] = entry /\ \A a \in Callers, v \in Windows : <<a, v>> # <<b, w>> => counter'[a][v] = counter[a][v]
  BY <1>5 DEF GateOK, GateTypes
<1>9. GateTypes'
  <2>1. counter' \in [Callers -> [Windows -> Entry]]
    BY <1>5 DEF GateOK, GateTypes
  <2> QED BY <1>5, <1>7, <2>1 DEF GateOK, GateTypes, CallBecomes
<1>10. RowIsLocked'
  BY <1>4, <1>5, <1>6, <1>7 DEF GateOK, RowIsLocked, CallBecomes
<1>11. JudgedOnce'
  <2>1. \A d \in judged : call'[d] = call[d] /\ d # c
    BY <1>0, <1>7 DEF CallBecomes, GateOK, JudgedOnce, GateTypes
  <2> QED BY <1>5, <2>1 DEF GateOK, JudgedOnce
<1>12. /\ gateClock \in Nat /\ WindowOf(gateClock) \in Nat /\ Limit \in Nat /\ WindowLength \in Nat /\ w \in Int
  BY WindowsFollow, GateAssumption DEF GateOK, GateTypes, Windows
<1>13. entry.hits = 1 \/ (counter[b][w].expires > gateClock /\ entry.hits = counter[b][w].hits + 1)
  BY <1>2 DEF Counted
<1>14. WindowOf(gateClock) = w => entry.hits = counter[b][w].hits + 1
  <2> SUFFICES ASSUME WindowOf(gateClock) = w PROVE entry.hits = counter[b][w].hits + 1
    OBVIOUS
  <2>1. CASE counter[b][w].expires > gateClock
    BY <1>2, <2>1 DEF Counted, GateOK, GateTypes, Entry
  <2>2. CASE counter[b][w].expires <= gateClock
    <3>1. Outlives(counter[b][w], w)
      BY DEF GateOK, LimitHeld
    <3>2. counter[b][w].hits = 0
      BY <1>12, <2>2, <3>1 DEF Outlives
    <3>3. entry.hits = 1
      BY <1>2, <2>2, <3>2, <1>12 DEF Counted, GateOK, GateTypes, Entry
    <3> QED BY <3>2, <3>3
  <2>3. counter[b][w].expires \in Nat
    BY DEF GateOK, GateTypes, Entry
  <2> QED BY <1>12, <2>1, <2>2, <2>3
<1>15. \A a \in Callers, v \in Windows : Outlives(counter'[a][v], v)
  <2> SUFFICES ASSUME NEW a \in Callers, NEW v \in Windows PROVE Outlives(counter'[a][v], v)
    OBVIOUS
  <2>1. CASE <<a, v>> # <<b, w>>
    BY <1>8, <2>1 DEF GateOK, LimitHeld
  <2>2. CASE a = b /\ v = w
    <3>1. SUFFICES ASSUME NEW t \in Nat, entry.expires <= t PROVE w < WindowOf(t)
      BY <1>8, <2>2 DEF Outlives
    <3>2. CASE counter[b][w].expires > gateClock
      <4>1. entry.expires = counter[b][w].expires
        BY <1>2, <3>2 DEF Counted, GateOK, GateTypes, Entry
      <4>2. counter[b][w].expires # 0
        BY <1>12, <3>2
      <4>3. Outlives(counter[b][w], w)
        BY DEF GateOK, LimitHeld
      <4> QED BY <3>1, <4>1, <4>2, <4>3 DEF Outlives
    <3>3. CASE ~ (counter[b][w].expires > gateClock)
      <4>1. entry.expires = gateClock + WindowLength
        BY <1>2, <3>3 DEF Counted
      <4>2. WindowOf(gateClock) < WindowOf(t) /\ WindowOf(t) \in Nat
        BY <1>12, <3>1, <4>1, WindowsFollow
      <4> QED BY <1>1, <1>12, <4>2
    <3> QED BY <3>2, <3>3
  <2> QED BY <2>1, <2>2
<1>16. \A a \in Callers, v \in Windows :
         LetIn(a, v)' \subseteq LetIn(a, v) \cup (IF at = "admitted" /\ inWindow /\ a = b /\ v = w THEN {c} ELSE {})
  <2> SUFFICES ASSUME NEW a \in Callers, NEW v \in Windows, NEW d \in LetIn(a, v)', d \notin LetIn(a, v)
               PROVE  d = c /\ at = "admitted" /\ inWindow /\ a = b /\ v = w
    OBVIOUS
  <2>1. /\ d \in Calls /\ call'[d].caller = a /\ call'[d].window = v /\ call'[d].inWindow
        /\ call'[d].at \in {"admitted", "exchange", "done"} \/ d \in judged
    BY <1>5 DEF LetIn
  <2>2. d = c
    BY <1>7, <2>1 DEF LetIn, CallBecomes
  <2>3. c \notin judged
    BY <1>0 DEF GateOK, JudgedOnce
  <2>4. call'[c] = rec
    BY <1>7 DEF CallBecomes
  <2> QED BY <1>4, <1>6, <2>1, <2>2, <2>3, <2>4
<1>17. /\ \A a \in Callers, v \in Windows : WindowOf(gateClock) <= v => Cardinality(LetIn(a, v)') <= counter'[a][v].hits
       /\ WithinLimit'
  <2>0. ASSUME NEW a \in Callers, NEW v \in Windows
        PROVE  /\ Cardinality(LetIn(a, v)') \in Nat /\ Cardinality(LetIn(a, v)) \in Nat
               /\ LetIn(a, v)' \subseteq LetIn(a, v) => Cardinality(LetIn(a, v)') <= Cardinality(LetIn(a, v))
               /\ LetIn(a, v)' \subseteq LetIn(a, v) \cup {c} => Cardinality(LetIn(a, v)') <= Cardinality(LetIn(a, v)) + 1
               /\ Cardinality(LetIn(a, v)) <= Limit
               /\ WindowOf(gateClock) <= v => Cardinality(LetIn(a, v)) <= counter[a][v].hits
               /\ counter[a][v].hits \in Nat /\ v \in Nat
    <3>1. LetIn(a, v) \in SUBSET Calls /\ LetIn(a, v)' \in SUBSET Calls
      BY DEF LetIn
    <3>2. v \in Nat
      BY DEF Windows
    <3> QED BY <3>1, <3>2, CountsCalls DEF GateOK, LimitHeld, WithinLimit, GateTypes, Entry
  <2>1. ASSUME NEW a \in Callers, NEW v \in Windows
        PROVE  /\ Cardinality(LetIn(a, v)') <= Limit
               /\ WindowOf(gateClock) <= v => Cardinality(LetIn(a, v)') <= counter'[a][v].hits
    <3>1. CASE a # b \/ v # w
      <4>1. LetIn(a, v)' \subseteq LetIn(a, v)
        BY <1>16, <3>1
      <4>2. counter'[a][v] = counter[a][v]
        BY <1>8, <3>1
      <4> QED BY <1>12, <2>0, <4>1, <4>2, GateAssumption
    <3>2. CASE a = b /\ v = w /\ ~ (at = "admitted" /\ inWindow)
      <4>1. LetIn(a, v)' \subseteq LetIn(a, v)
        BY <1>16, <3>2
      <4>2. WindowOf(gateClock) <= v => WindowOf(gateClock) = w
        BY <1>1, <1>12, <3>2
      <4>3. counter'[a][v].hits = entry.hits
        BY <1>8, <3>2
      <4>4. Cardinality(LetIn(a, v)') <= Limit
        BY <1>12, <2>0, <4>1
      <4>5. ASSUME WindowOf(gateClock) <= v PROVE Cardinality(LetIn(a, v)') <= counter'[a][v].hits
        <5>1. entry.hits = counter[a][v].hits + 1
          BY <1>14, <3>2, <4>2, <4>5
        <5> QED BY <2>0, <4>1, <4>3, <4>5, <5>1
      <4> QED BY <4>4, <4>5
    <3>3. CASE a = b /\ v = w /\ at = "admitted" /\ inWindow
      <4>1. WindowOf(gateClock) = w /\ entry.hits <= Limit
        BY <1>3, <1>4, <3>3 DEF WindowOf, Allowed
      <4>2. LetIn(a, v)' \subseteq LetIn(a, v) \cup {c}
        BY <1>16, <3>3
      <4>3. counter'[a][v].hits = entry.hits
        BY <1>8, <3>3
      <4>4. Cardinality(LetIn(a, v)) <= counter[b][w].hits
        BY <1>12, <2>0, <3>3, <4>1
      <4> QED BY <1>12, <1>14, <2>0, <3>3, <4>1, <4>2, <4>3, <4>4
    <3> QED BY <3>1, <3>2, <3>3
  <2> QED BY <2>1 DEF WithinLimit, Callers, Windows
<1>18. \A d \in Calls : call'[d].at # "unsent" => call'[d].window \in Windows /\ call'[d].window <= WindowOf(gateClock')
  BY <1>1, <1>5, <1>6, <1>7 DEF CallBecomes, GateOK, LimitHeld, WindowOf
<1>19. LimitHeld'
  BY <1>5, <1>15, <1>17, <1>18 DEF LimitHeld, Callers, Windows, WindowOf, Outlives
<1>20. HitsBounded'
  <2>1. HitBy \in SUBSET Calls /\ HitBy' \in SUBSET Calls /\ c \in HitBy' /\ c \notin HitBy /\ HitBy \subseteq HitBy'
    BY <1>0, <1>4, <1>6, <1>7 DEF HitBy, CallBecomes
  <2>2. Cardinality(HitBy) + 1 <= Cardinality(HitBy') /\ Cardinality(HitBy) \in Nat /\ Cardinality(HitBy') \in Nat
    BY <2>1, CountsCalls
  <2>3. ASSUME NEW a \in Callers, NEW v \in Windows PROVE counter'[a][v].hits <= Cardinality(HitBy')
    <3>1. counter[a][v].hits <= Cardinality(HitBy) /\ counter[a][v].hits \in Nat
      BY DEF GateOK, HitsBounded, GateTypes, Entry
    <3>2. counter'[a][v].hits \in {1, counter[a][v].hits, counter[a][v].hits + 1}
      BY <1>8, <1>13
    <3> QED BY <2>2, <3>1, <3>2
  <2> QED BY <2>3 DEF HitsBounded, Callers, Windows
<1> QED BY <1>9, <1>10, <1>11, <1>19, <1>20 DEF GateOK

\* A call that was let in goes on: it stays let in, or leaves without having been judged.
LEMMA SignInKeepsLimits ==
  ASSUME GateOK, GateTypes', NEW c \in Calls, NEW rec \in CallRecord, CallBecomes(c, rec),
         UNCHANGED <<gateClock, counter>>, call[c].at \in {"admitted", "exchange"}, judged \subseteq judged',
         judged' \subseteq judged \cup {c},
         rec.at \in {"exchange", "done", "refused"}, rec.caller = call[c].caller, rec.window = call[c].window,
         rec.inWindow = call[c].inWindow
  PROVE  LimitHeld' /\ HitsBounded'
<1>1. \A b \in Callers, w \in Windows : LetIn(b, w)' \subseteq LetIn(b, w)
  <2> SUFFICES ASSUME NEW b \in Callers, NEW w \in Windows, NEW d \in LetIn(b, w)' PROVE d \in LetIn(b, w)
    OBVIOUS
  <2>1. CASE d = c
    BY <2>1 DEF LetIn, CallBecomes
  <2>2. CASE d # c
    BY <2>2 DEF LetIn, CallBecomes
  <2> QED BY <2>1, <2>2
<1>2. HitBy \subseteq HitBy'
  BY DEF HitBy, CallBecomes
<1>3. \A d \in Calls : call'[d].at # "unsent" => call'[d].window \in Windows /\ call'[d].window <= WindowOf(gateClock')
  BY DEF CallBecomes, GateOK, LimitHeld, WindowOf
<1>4. gateClock' >= gateClock
  BY DEF GateOK, GateTypes
<1> QED BY <1>1, <1>2, <1>3, <1>4, LimitKept

\* A nonce is issued.
LEMMA ChallengeKeepsGate ==
  ASSUME GateOK, NEW c \in Calls, Challenge(c)
  PROVE  GateOK'
<1>1. PICK rec \in CallRecord : rec = [call[c] EXCEPT !.at = "done"]
  BY DEF GateOK, GateTypes, CallRecord, CallSteps
<1>2. /\ CallBecomes(c, rec) /\ rec.at = "done" /\ rec.caller = call[c].caller /\ rec.window = call[c].window
      /\ rec.inWindow = call[c].inWindow /\ rec.valid = call[c].valid
  BY <1>1, CallGoes DEF Challenge, CallSteps, GateOK, GateTypes, CallRecord
<1>3. UNCHANGED <<gateClock, judged, sessions, counter>> /\ call[c].at = "admitted" /\ nonce.state = "none"
  BY DEF Challenge
<1>4. PICK row \in NonceRecord : nonce' = row /\ row.state = "unused" /\ row.lock = {}
  <2>1. gateClock + NonceLife \in Nat
    <3>1. gateClock \in 0..MaxGateTime /\ MaxGateTime \in Nat /\ NonceLife \in Nat
      BY GateAssumption DEF GateOK, GateTypes
    <3> QED BY <3>1
  <2>2. PICK row : row = [state |-> "unused", expires |-> gateClock + NonceLife, lock |-> {}]
    OBVIOUS
  <2>3. row \in NonceRecord /\ row.state = "unused" /\ row.lock = {}
    BY <2>1, <2>2 DEF NonceRecord, NonceStates
  <2> QED BY <2>2, <2>3 DEF Challenge
<1>5. judged = {}
  BY <1>3 DEF GateOK, JudgedOnce
<1>6. GateTypes'
  BY <1>2, <1>3, <1>4 DEF GateOK, GateTypes, CallBecomes
<1>7. \A d \in Calls : call'[d].at # "exchange" \/ (call'[d].at = "exchange" /\ call[d].at = "exchange" /\ d # c)
  BY <1>2 DEF CallBecomes
<1>8. \A d \in Calls : call[d].at # "exchange"
  <2> SUFFICES ASSUME NEW d \in Calls, call[d].at = "exchange" PROVE FALSE
    OBVIOUS
  <2>1. d \in nonce.lock
    BY DEF GateOK, RowIsLocked
  <2> QED BY <1>3, <2>1 DEF GateOK, RowIsLocked
<1>9. RowIsLocked' /\ JudgedOnce'
  BY <1>3, <1>4, <1>5, <1>7, <1>8 DEF GateOK, RowIsLocked, JudgedOnce
<1>10. LimitHeld' /\ HitsBounded'
  BY <1>2, <1>3, <1>6, SignInKeepsLimits
<1> QED BY <1>6, <1>9, <1>10 DEF GateOK

\* The row is locked and read.
LEMMA LockKeepsGate ==
  ASSUME GateOK, NEW c \in Calls, LockNonce(c)
  PROVE  GateOK'
<1>1. PICK read \in NonceStates \cup {"expired"} : read = IF nonce.expires <= gateClock THEN "expired" ELSE nonce.state
  BY DEF GateOK, GateTypes, NonceRecord
<1>2. PICK old \in CallRecord : old = call[c]
  BY DEF GateOK, GateTypes
<1>3. PICK rec : rec = [old EXCEPT !.at = "exchange", !.read = read]
  OBVIOUS
<1>4. /\ rec \in CallRecord /\ rec.at = "exchange" /\ rec.read = read /\ rec.caller = old.caller
      /\ rec.window = old.window /\ rec.inWindow = old.inWindow /\ rec.valid = old.valid
  BY <1>3 DEF CallRecord, CallSteps
<1>5. call' = [call EXCEPT ![c] = rec]
  BY <1>1, <1>2, <1>3 DEF LockNonce
<1>6. CallBecomes(c, rec)
  BY <1>4, <1>5, CallUpdate
<1>7. /\ UNCHANGED <<gateClock, judged, sessions, counter>> /\ call[c].at = "admitted"
      /\ nonce.state # "none" /\ nonce.lock = {}
  BY DEF LockNonce, RowFree
<1>8. nonce' \in NonceRecord /\ nonce'.state = nonce.state /\ nonce'.lock = {c}
  BY DEF LockNonce, GateOK, GateTypes, NonceRecord
<1>9. GateTypes'
  BY <1>6, <1>7, <1>8 DEF GateOK, GateTypes, CallBecomes
<1>10. RowIsLocked'
  BY <1>1, <1>4, <1>6, <1>7, <1>8 DEF GateOK, RowIsLocked, CallBecomes
<1>11. JudgedOnce'
  <2>1. \A d \in judged : call'[d] = call[d]
    BY <1>6, <1>7 DEF CallBecomes, GateOK, GateTypes, JudgedOnce
  <2> QED BY <1>7, <1>8, <2>1 DEF GateOK, JudgedOnce
<1>12. LimitHeld' /\ HitsBounded'
  BY <1>2, <1>4, <1>6, <1>7, <1>9, SignInKeepsLimits
<1> QED BY <1>9, <1>10, <1>11, <1>12 DEF GateOK

\* The exchange ends without judging: the nonce was spent or expired, or the connection is lost.
LEMMA RefusalKeepsGate ==
  ASSUME GateOK, NEW c \in Calls, call[c].at = "exchange", At(c, "refused"),
         nonce' = [nonce EXCEPT !.lock = @ \ {c}], UNCHANGED <<gateClock, judged, sessions, counter>>
  PROVE  GateOK'
<1>1. PICK rec \in CallRecord : rec = [call[c] EXCEPT !.at = "refused"]
  BY DEF GateOK, GateTypes, CallRecord, CallSteps
<1>2. /\ CallBecomes(c, rec) /\ rec.at = "refused" /\ rec.caller = call[c].caller /\ rec.window = call[c].window
      /\ rec.inWindow = call[c].inWindow /\ rec.valid = call[c].valid
  BY <1>1, CallGoes DEF CallSteps, GateOK, GateTypes, CallRecord
<1>3. nonce' \in NonceRecord /\ nonce'.state = nonce.state /\ nonce'.lock = nonce.lock \ {c}
  BY DEF GateOK, GateTypes, NonceRecord
<1>4. GateTypes'
  BY <1>2, <1>3 DEF GateOK, GateTypes, CallBecomes
<1>5. RowIsLocked'
  BY <1>2, <1>3 DEF GateOK, RowIsLocked, CallBecomes
<1>6. JudgedOnce'
  <2>1. \A d \in judged : call'[d] = call[d]
    BY <1>2 DEF CallBecomes, GateOK, GateTypes, JudgedOnce
  <2> QED BY <1>3, <2>1 DEF GateOK, JudgedOnce
<1>7. LimitHeld' /\ HitsBounded'
  BY <1>2, <1>4, SignInKeepsLimits
<1> QED BY <1>4, <1>5, <1>6, <1>7 DEF GateOK

\* The exchange judges the signature: the nonce was unused, so nothing was judged before, and it is used from now on.
LEMMA JudgingKeepsGate ==
  ASSUME GateOK, NEW c \in Calls, Exchange(c), call[c].read = "unused"
  PROVE  GateOK'
<1>0. call[c].at = "exchange" /\ nonce.state = "unused" /\ c \in nonce.lock
  BY DEF Exchange, GateOK, RowIsLocked
<1>1. judged = {} /\ sessions = {}
  BY <1>0 DEF GateOK, JudgedOnce
<1>2. PICK step \in {"done", "refused"} : At(c, step)
  BY DEF Exchange
<1>3. PICK rec \in CallRecord : rec = [call[c] EXCEPT !.at = step]
  BY DEF GateOK, GateTypes, CallRecord, CallSteps
<1>4. /\ CallBecomes(c, rec) /\ rec.at = step /\ rec.caller = call[c].caller /\ rec.window = call[c].window
      /\ rec.inWindow = call[c].inWindow /\ rec.valid = call[c].valid
  BY <1>2, <1>3, CallGoes DEF CallSteps, GateOK, GateTypes, CallRecord
<1>5. nonce' \in NonceRecord /\ nonce'.state = "used" /\ nonce'.lock = nonce.lock \ {c}
  BY DEF Exchange, GateOK, GateTypes, NonceRecord, NonceStates
<1>6. judged' = {c} /\ UNCHANGED <<gateClock, counter>>
  BY <1>1 DEF Exchange
<1>7. sessions' = {} \/ (rec.valid /\ \E s \in SessionRecord : s.by = c /\ sessions' = {s})
  <2>1. gateClock + SessionLife \in Nat
    <3>1. gateClock \in 0..MaxGateTime /\ MaxGateTime \in Nat /\ SessionLife \in Nat
      BY GateAssumption DEF GateOK, GateTypes
    <3> QED BY <3>1
  <2>2. PICK s : s = [by |-> c, expires |-> gateClock + SessionLife]
    OBVIOUS
  <2>3. s \in SessionRecord /\ s.by = c
    BY <2>1, <2>2 DEF SessionRecord
  <2> QED BY <1>1, <1>4, <2>2, <2>3 DEF Exchange
<1>8. GateTypes'
  BY <1>4, <1>5, <1>6, <1>7 DEF GateOK, GateTypes, CallBecomes
<1>9. RowIsLocked'
  <2>1. \A d \in Calls : call'[d].at = "exchange" => d # c /\ call[d].at = "exchange"
    BY <1>2, <1>4 DEF CallBecomes
  <2>2. \A d \in Calls : call[d].at = "exchange" => d = c
    BY <1>0 DEF GateOK, RowIsLocked
  <2> QED BY <1>5, <2>1, <2>2 DEF GateOK, RowIsLocked
<1>10. JudgedOnce'
  <2>1. call'[c] = rec
    BY <1>4 DEF CallBecomes
  <2> QED BY <1>2, <1>4, <1>5, <1>6, <1>7, <2>1 DEF JudgedOnce
<1>11. LimitHeld' /\ HitsBounded'
  BY <1>0, <1>1, <1>4, <1>6, <1>8, SignInKeepsLimits
<1> QED BY <1>8, <1>9, <1>10, <1>11 DEF GateOK

\* Every step of the gate keeps its invariant.
LEMMA GateStep == GateOK /\ [GateNext]_gateVars => GateOK'
<1> SUFFICES ASSUME GateOK, [GateNext]_gateVars PROVE GateOK'
  OBVIOUS
<1>1. CASE GateTick \/ RevokeApiKey \/ DisableApp \/ UNCHANGED gateVars
  BY <1>1, WorldKeepsGate
<1>2. ASSUME NEW c \in Calls,
             \/ \E who \in Callers, valid \in BOOLEAN : (valid => who = "client") /\ SendCall(c, who, valid)
             \/ Authenticate(c) \/ HitReaches(c) \/ GiveUpOnRedis(c)
             \/ Challenge(c) \/ LockNonce(c) \/ Exchange(c) \/ LoseExchange(c)
      PROVE  GateOK'
  <2>1. CASE Exchange(c) \/ LoseExchange(c)
    <3>1. CASE Exchange(c) /\ call[c].read = "unused"
      BY <3>1, JudgingKeepsGate
    <3>2. CASE (Exchange(c) /\ call[c].read # "unused") \/ LoseExchange(c)
      BY <3>2, RefusalKeepsGate DEF Exchange, LoseExchange
    <3> QED BY <2>1, <3>1, <3>2
  <2> QED BY <1>2, <2>1, FrontKeepsGate, HitKeepsGate, ChallengeKeepsGate, LockKeepsGate
<1> QED BY <1>1, <1>2 DEF GateNext

\* A set whose members are all equal has one at most.
LEMMA AtMostOne ==
  ASSUME NEW S, \A x, y \in S : x = y
  PROVE  Cardinality(S) <= 1
<1>1. CASE S = {}
  BY <1>1, FS_EmptySet
<1>2. CASE S # {}
  <2>1. PICK x : S = {x}
    BY <1>2
  <2> QED BY <2>1, FS_Singleton
<1> QED BY <1>1, <1>2

\* However many exchanges of one nonce overlap and break off, one signature is looked at and a session comes from
\* that one alone (identity.ts, the row lock of SELECT FOR UPDATE; SignatureJudgedOnce).
THEOREM OneSignatureIsJudged == GateSpec => []SignatureJudgedOnce
<1>1. GateOK => SignatureJudgedOnce
  <2> SUFFICES ASSUME GateOK PROVE SignatureJudgedOnce
    OBVIOUS
  <2>1. Cardinality(judged) <= 1 /\ Cardinality(sessions) <= 1
    BY AtMostOne DEF GateOK, JudgedOnce
  <2> QED BY <2>1 DEF GateOK, JudgedOnce, SignatureJudgedOnce
<1> QED BY <1>1, GateStarts, GateStep, PTL DEF GateSpec

\* No caller is let in more often in a window than its limit, for every limit, window length and number of calls,
\* with hits counted late, counters that disappear and a Redis that does not answer (rateLimit.ts; WithinLimit);
\* and clock, row and counters keep their types.
THEOREM LimitIsNeverPassed == GateSpec => [](GateTypeOK /\ WithinLimit)
<1>1. GateOK => GateTypeOK /\ WithinLimit
  <2> SUFFICES ASSUME GateOK PROVE GateTypeOK /\ WithinLimit
    OBVIOUS
  <2>1. ASSUME NEW b \in Callers, NEW w \in Windows PROVE counter[b][w].hits \in 0..Cardinality(Calls)
    <3>1. HitBy \in SUBSET Calls /\ HitBy \subseteq Calls
      BY DEF HitBy
    <3>2. Cardinality(HitBy) <= Cardinality(Calls) /\ Cardinality(HitBy) \in Nat /\ Cardinality(Calls) \in Nat
      BY <3>1, CountsCalls
    <3>3. counter[b][w].hits \in Nat /\ counter[b][w].hits <= Cardinality(HitBy)
      BY DEF GateOK, GateTypes, Entry, HitsBounded
    <3> QED BY <3>2, <3>3
  <2> QED BY <2>1 DEF GateOK, GateTypes, NonceRecord, LimitHeld, GateTypeOK
<1> QED BY <1>1, GateStarts, GateStep, PTL DEF GateSpec

---------------------------------------------------------------------------
(* Webhooks *)

DeliveryRecord == [id : Recorders \cup {NoDelivery}, status : {"none", "pending", "delivered", "abandoned"}, attempts : Nat]
RecorderRecord == [at : {"idle", "existing", "answered"}, event : Events \cup {NoDelivery}, answer : Recorders \cup {NoDelivery}]
DispatcherRecord == [at : {"idle", "posting", "failing"}, event : Events \cup {NoDelivery}, read : Nat]

WebhookTypes ==
  /\ active \in BOOLEAN
  /\ delivery \in [Events -> DeliveryRecord]
  /\ recorder \in [Recorders -> RecorderRecord]
  /\ dispatcher \in [Dispatchers -> DispatcherRecord]
  /\ tries \in [Events -> Nat]

\* Whoever is at work is at work on an event whose row is there, and rows are never removed.
WorksOnARow ==
  /\ \A r \in Recorders : recorder[r].at # "idle" => recorder[r].event \in Events /\ ~Inserts(recorder[r].event)
  /\ \A d \in Dispatchers : dispatcher[d].at # "idle" => dispatcher[d].event \in Events /\ ~Inserts(dispatcher[d].event)

\* What a failing dispatcher has read is behind the posts that have ended, its own among them.
ReadsBehind ==
  \A d \in Dispatchers : dispatcher[d].at = "failing" =>
    dispatcher[d].read < tries[dispatcher[d].event] /\ dispatcher[d].read < MaxTries

Posters(e) == {d \in Dispatchers : dispatcher[d].at = "posting" /\ dispatcher[d].event = e}

\* A delivery that may be posted has room below the bound on posts, and every post in progress has room above it.
RoomForPosts ==
  \A e \in Events : /\ delivery[e].status \in {"none", "pending"} => delivery[e].attempts <= MaxTries
                    /\ delivery[e].attempts + Cardinality(Posters(e)) <= MaxTries + Cardinality(Dispatchers)

WebhooksOK == WebhookTypes /\ WorksOnARow /\ ReadsBehind /\ RoomForPosts /\ AbandonedAfterAllTries

\* Dispatchers can be counted: no set of them is larger than all of them, and one that leaves a set makes it smaller.
LEMMA CountsDispatchers ==
  ASSUME NEW S \in SUBSET Dispatchers, NEW T \in SUBSET Dispatchers
  PROVE  /\ Cardinality(S) \in Nat /\ Cardinality(Dispatchers) \in Nat
         /\ Cardinality(S) <= Cardinality(Dispatchers)
         /\ T \subseteq S => Cardinality(T) <= Cardinality(S)
         /\ \A d \in S : T \subseteq S \ {d} => Cardinality(T) + 1 <= Cardinality(S)
<1>1. IsFiniteSet(Dispatchers) /\ IsFiniteSet(S) /\ IsFiniteSet(T)
  BY WebhooksAssumption, FS_Subset
<1>2. Cardinality(S) \in Nat /\ Cardinality(Dispatchers) \in Nat /\ Cardinality(T) \in Nat
  BY <1>1, FS_CardinalityType
<1>3. Cardinality(S) <= Cardinality(Dispatchers)
  BY <1>1, FS_Subset
<1>4. T \subseteq S => Cardinality(T) <= Cardinality(S)
  BY <1>1, FS_Subset
<1>5. ASSUME NEW d \in S, T \subseteq S \ {d} PROVE Cardinality(T) + 1 <= Cardinality(S)
  <2>1. IsFiniteSet(S \ {d}) /\ Cardinality(S \ {d}) = Cardinality(S) - 1
    BY <1>1, FS_RemoveElement
  <2>2. Cardinality(T) <= Cardinality(S \ {d})
    BY <1>5, <2>1, FS_Subset
  <2> QED BY <1>2, <2>1, <2>2
<1> QED BY <1>2, <1>3, <1>4, <1>5

\* There are no rows and nobody is at work at first.
LEMMA WebhooksStart == WebhooksInit => WebhooksOK
<1> SUFFICES ASSUME WebhooksInit PROVE WebhooksOK
  OBVIOUS
<1> USE DEF WebhooksInit, NoRow, Resting
<1>1. WebhookTypes
  BY DEF WebhookTypes, DeliveryRecord, RecorderRecord, DispatcherRecord
<1>2. WorksOnARow /\ ReadsBehind
  BY DEF WorksOnARow, ReadsBehind
<1>3. RoomForPosts
  <2> SUFFICES ASSUME NEW e \in Events
               PROVE  delivery[e].attempts <= MaxTries
                      /\ delivery[e].attempts + Cardinality(Posters(e)) <= MaxTries + Cardinality(Dispatchers)
    BY DEF RoomForPosts
  <2>1. delivery[e].attempts = 0 /\ MaxTries \in Nat
    BY WebhooksAssumption
  <2>2. Posters(e) \in SUBSET Dispatchers
    BY DEF Posters
  <2>3. Cardinality(Posters(e)) \in Nat /\ Cardinality(Dispatchers) \in Nat
        /\ Cardinality(Posters(e)) <= Cardinality(Dispatchers)
    BY <2>2, CountsDispatchers
  <2> QED BY <2>1, <2>3
<1>4. AbandonedAfterAllTries
  BY DEF AbandonedAfterAllTries
<1> QED BY <1>1, <1>2, <1>3, <1>4 DEF WebhooksOK

\* Switching the endpoint, and a producer that inserts an event or finds it there.
LEMMA RecordingKeepsWebhooks ==
  ASSUME WebhooksOK,
         CreateWebhookEndpoint \/ DeleteWebhookEndpoint
         \/ \E r \in Recorders : FindDelivery(r) \/ \E e \in Events : InsertDelivery(r, e)
  PROVE  WebhooksOK'
<1> USE DEF WebhooksOK
<1>1. CASE CreateWebhookEndpoint \/ DeleteWebhookEndpoint
  <2>1. active' \in BOOLEAN /\ UNCHANGED <<delivery, recorder, dispatcher, tries>>
    BY <1>1 DEF CreateWebhookEndpoint, DeleteWebhookEndpoint
  <2> QED BY <2>1 DEF WebhookTypes, WorksOnARow, Inserts, ReadsBehind, RoomForPosts, Posters, AbandonedAfterAllTries
<1>2. ASSUME NEW r \in Recorders, NEW e \in Events, InsertDelivery(r, e), Inserts(e) PROVE WebhooksOK'
  <2>1. /\ delivery' = [delivery EXCEPT ![e] = [id |-> r, status |-> "pending", attempts |-> 0]]
        /\ recorder' = [recorder EXCEPT ![r] = [at |-> "answered", event |-> e, answer |-> r]]
        /\ UNCHANGED <<active, dispatcher, tries>>
    BY <1>2 DEF InsertDelivery
  <2>2. WebhookTypes'
    BY <2>1 DEF WebhookTypes, DeliveryRecord, RecorderRecord
  <2>3. WorksOnARow'
    BY <2>1 DEF WorksOnARow, Inserts, WebhookTypes
  <2>4. ReadsBehind'
    BY <2>1 DEF ReadsBehind
  <2>5. RoomForPosts'
    <3> SUFFICES ASSUME NEW x \in Events
                 PROVE  (/\ delivery[x].status \in {"none", "pending"} => delivery[x].attempts <= MaxTries
                         /\ delivery[x].attempts + Cardinality(Posters(x)) <= MaxTries + Cardinality(Dispatchers))'
      BY DEF RoomForPosts
    <3>1. Posters(x)' = Posters(x)
      BY <2>1 DEF Posters
    <3>2. CASE x # e
      BY <2>1, <3>1, <3>2 DEF RoomForPosts, WebhookTypes
    <3>3. CASE x = e
      <4>1. delivery'[x].attempts = 0 /\ MaxTries \in Nat
        BY <2>1, <3>3, WebhooksAssumption DEF WebhookTypes
      <4>2. Posters(x) \in SUBSET Dispatchers
        BY DEF Posters
      <4>3. Cardinality(Posters(x)) \in Nat /\ Cardinality(Dispatchers) \in Nat
            /\ Cardinality(Posters(x)) <= Cardinality(Dispatchers)
        BY <4>2, CountsDispatchers
      <4> QED BY <3>1, <4>1, <4>3
    <3> QED BY <3>2, <3>3
  <2>6. AbandonedAfterAllTries'
    <3>1. \A x \in Events : delivery'[x].attempts <= tries'[x] /\ (delivery'[x].status = "abandoned" => tries'[x] >= MaxAttempts)
      BY <2>1 DEF AbandonedAfterAllTries, WebhookTypes
    <3>2. ASSUME NEW q \in Recorders, recorder'[q].at = "answered" PROVE recorder'[q].answer = delivery'[recorder'[q].event].id
      <4>1. CASE q = r
        BY <2>1, <4>1 DEF WebhookTypes
      <4>2. CASE q # r
        <5>1. recorder'[q] = recorder[q]
          BY <2>1, <4>2 DEF WebhookTypes
        <5>2. recorder[q].event \in Events /\ recorder[q].event # e
          BY <1>2, <3>2, <5>1 DEF WorksOnARow
        <5> QED BY <2>1, <3>2, <5>1, <5>2 DEF AbandonedAfterAllTries, WebhookTypes
      <4> QED BY <4>1, <4>2
    <3> QED BY <3>1, <3>2 DEF AbandonedAfterAllTries
  <2> QED BY <2>2, <2>3, <2>4, <2>5, <2>6
<1>3. ASSUME NEW r \in Recorders, \/ FindDelivery(r)
                                 \/ \E e \in Events : InsertDelivery(r, e) /\ ~Inserts(e)
      PROVE  WebhooksOK'
  <2>1. PICK rec \in RecorderRecord :
            /\ recorder' = [recorder EXCEPT ![r] = rec]
            /\ rec.at # "idle" => rec.event \in Events /\ ~Inserts(rec.event)
            /\ rec.at = "answered" => rec.answer = delivery[rec.event].id
    <3>1. CASE FindDelivery(r)
      <4>1. recorder[r] \in RecorderRecord /\ recorder[r].event \in Events /\ ~Inserts(recorder[r].event)
        BY <3>1 DEF WebhookTypes, WorksOnARow, FindDelivery
      <4>2. PICK id \in Recorders \cup {NoDelivery} : id = delivery[recorder[r].event].id
        BY <4>1 DEF WebhookTypes, DeliveryRecord
      <4> DEFINE rec == [recorder[r] EXCEPT !.at = "answered", !.answer = id]
      <4>3. rec \in RecorderRecord /\ rec.at = "answered" /\ rec.answer = id /\ rec.event = recorder[r].event
        BY <4>1, <4>2 DEF RecorderRecord
      <4>4. recorder' = [recorder EXCEPT ![r] = rec]
        BY <3>1, <4>2 DEF FindDelivery, WebhookTypes
      <4> HIDE DEF rec
      <4> QED BY <4>1, <4>2, <4>3, <4>4
    <3>2. ASSUME NEW e \in Events, InsertDelivery(r, e), ~Inserts(e)
          PROVE  \E rec \in RecorderRecord :
                   /\ recorder' = [recorder EXCEPT ![r] = rec]
                   /\ rec.at # "idle" => rec.event \in Events /\ ~Inserts(rec.event)
                   /\ rec.at = "answered" => rec.answer = delivery[rec.event].id
      <4> DEFINE rec == [recorder[r] EXCEPT !.at = "existing", !.event = e]
      <4>1. rec \in RecorderRecord /\ rec.at = "existing" /\ rec.event = e
        BY DEF WebhookTypes, RecorderRecord
      <4>2. recorder' = [recorder EXCEPT ![r] = rec]
        BY <3>2 DEF InsertDelivery
      <4> HIDE DEF rec
      <4> QED BY <3>2, <4>1, <4>2
    <3> QED BY <1>3, <3>1, <3>2
  <2>2. UNCHANGED <<active, delivery, dispatcher, tries>>
    BY <1>3 DEF FindDelivery, InsertDelivery
  <2>3. WebhookTypes'
    BY <2>1, <2>2 DEF WebhookTypes
  <2>4. WorksOnARow'
    BY <2>1, <2>2 DEF WorksOnARow, Inserts, WebhookTypes
  <2>5. ReadsBehind' /\ RoomForPosts'
    BY <2>2 DEF ReadsBehind, RoomForPosts, Posters
  <2>6. AbandonedAfterAllTries'
    BY <2>1, <2>2 DEF AbandonedAfterAllTries, WebhookTypes
  <2> QED BY <2>3, <2>4, <2>5, <2>6
<1> QED BY <1>1, <1>2, <1>3

\* A dispatcher that begins, stops or ends leaves the posts of the others as they are.
LEMMA PostersMove ==
  ASSUME NEW d \in Dispatchers, NEW rec \in DispatcherRecord, WebhookTypes,
         dispatcher' = [dispatcher EXCEPT ![d] = rec], NEW e \in Events
  PROVE  /\ Cardinality(Posters(e)) \in Nat /\ Cardinality(Posters(e)') \in Nat /\ Cardinality(Dispatchers) \in Nat
         /\ Cardinality(Posters(e)') <= Cardinality(Dispatchers)
         /\ rec.at # "posting" => Cardinality(Posters(e)') <= Cardinality(Posters(e))
         /\ rec.at # "posting" /\ dispatcher[d].at = "posting" /\ dispatcher[d].event = e
              => Cardinality(Posters(e)') + 1 <= Cardinality(Posters(e))
         /\ rec.event # e => Cardinality(Posters(e)') <= Cardinality(Posters(e))
<1>1. \A x \in Dispatchers : dispatcher'[x] = IF x = d THEN rec ELSE dispatcher[x]
  BY DEF WebhookTypes
<1>2. Posters(e) \in SUBSET Dispatchers /\ Posters(e)' \in SUBSET Dispatchers
  BY DEF Posters
<1>3. rec.at # "posting" \/ rec.event # e => Posters(e)' \subseteq Posters(e) \ {d}
  BY <1>1 DEF Posters
<1>4. dispatcher[d].at = "posting" /\ dispatcher[d].event = e => d \in Posters(e)
  BY DEF Posters
<1> QED BY <1>2, <1>3, <1>4, CountsDispatchers

\* A dispatcher at rest.
LEMMA RestingIsADispatcher == Resting \in DispatcherRecord /\ Resting.at = "idle"
BY DEF Resting, DispatcherRecord

\* A dispatcher takes a pending delivery, or stops.
LEMMA PostingKeepsWebhooks ==
  ASSUME WebhooksOK, NEW d \in Dispatchers, DispatcherStops(d) \/ \E e \in Events : Post(d, e)
  PROVE  WebhooksOK'
<1> USE DEF WebhooksOK
<1>1. PICK rec \in DispatcherRecord :
          /\ dispatcher' = [dispatcher EXCEPT ![d] = rec]
          /\ rec.at \in {"idle", "posting"}
          /\ rec.at = "posting" => rec.event \in Events /\ delivery[rec.event].status = "pending"
  <2>1. CASE DispatcherStops(d)
    BY <2>1, RestingIsADispatcher DEF DispatcherStops
  <2>2. ASSUME NEW e \in Events, Post(d, e)
        PROVE  \E rec \in DispatcherRecord :
                 /\ dispatcher' = [dispatcher EXCEPT ![d] = rec]
                 /\ rec.at \in {"idle", "posting"}
                 /\ rec.at = "posting" => rec.event \in Events /\ delivery[rec.event].status = "pending"
    <3> DEFINE rec == [Resting EXCEPT !.at = "posting", !.event = e]
    <3>1. rec \in DispatcherRecord /\ rec.at = "posting" /\ rec.event = e
      BY DEF Resting, DispatcherRecord
    <3>2. dispatcher' = [dispatcher EXCEPT ![d] = rec] /\ delivery[e].status = "pending"
      BY <2>2 DEF Post
    <3> HIDE DEF rec
    <3> QED BY <3>1, <3>2
  <2> QED BY <2>1, <2>2
<1>2. UNCHANGED <<active, delivery, recorder, tries>>
  BY DEF DispatcherStops, Post
<1>3. WebhookTypes'
  BY <1>1, <1>2 DEF WebhookTypes
<1>4. WorksOnARow'
  BY <1>1, <1>2 DEF WorksOnARow, Inserts, WebhookTypes
<1>5. ReadsBehind'
  BY <1>1, <1>2 DEF ReadsBehind, WebhookTypes
<1>6. RoomForPosts'
  <2> SUFFICES ASSUME NEW e \in Events
               PROVE  delivery[e].attempts + Cardinality(Posters(e)') <= MaxTries + Cardinality(Dispatchers)
    BY <1>2 DEF RoomForPosts
  <2>1. delivery[e].attempts \in Nat /\ MaxTries \in Nat
    BY WebhooksAssumption DEF WebhookTypes, DeliveryRecord
  <2>2. CASE rec.at = "posting" /\ rec.event = e
    <3>1. delivery[e].attempts <= MaxTries
      BY <1>1, <2>2 DEF RoomForPosts
    <3>2. Cardinality(Posters(e)') \in Nat /\ Cardinality(Dispatchers) \in Nat
          /\ Cardinality(Posters(e)') <= Cardinality(Dispatchers)
      BY <1>1, PostersMove
    <3> QED BY <2>1, <3>1, <3>2
  <2>3. CASE ~(rec.at = "posting" /\ rec.event = e)
    <3>1. delivery[e].attempts + Cardinality(Posters(e)) <= MaxTries + Cardinality(Dispatchers)
      BY DEF RoomForPosts
    <3>2. Cardinality(Posters(e)') <= Cardinality(Posters(e)) /\ Cardinality(Posters(e)') \in Nat
          /\ Cardinality(Posters(e)) \in Nat /\ Cardinality(Dispatchers) \in Nat
      BY <1>1, <2>3, PostersMove
    <3> QED BY <2>1, <3>1, <3>2
  <2> QED BY <2>2, <2>3
<1>7. AbandonedAfterAllTries'
  BY <1>2 DEF AbandonedAfterAllTries
<1> QED BY <1>3, <1>4, <1>5, <1>6, <1>7

\* A post that went through: one more post has ended, and the counter follows.
LEMMA DeliveryKeepsWebhooks ==
  ASSUME WebhooksOK, NEW d \in Dispatchers, Delivered(d)
  PROVE  WebhooksOK'
<1> USE DEF WebhooksOK
<1>1. PICK e \in Events : e = dispatcher[d].event /\ ~Inserts(e)
  BY DEF Delivered, WorksOnARow
<1>2. PICK row \in DeliveryRecord : row = delivery[e]
  BY DEF WebhookTypes
<1>3. PICK n \in Nat : n = tries[e]
  BY DEF WebhookTypes
<1>4. PICK new \in DeliveryRecord : /\ delivery' = [delivery EXCEPT ![e] = new]
                                   /\ new.id = row.id /\ new.status = "delivered" /\ new.attempts = row.attempts + 1
  <2>1. PICK k \in Nat : k = row.attempts + 1
    BY DEF DeliveryRecord
  <2> DEFINE new == [row EXCEPT !.status = "delivered", !.attempts = k]
  <2>2. new \in DeliveryRecord /\ new.id = row.id /\ new.status = "delivered" /\ new.attempts = k
    BY DEF DeliveryRecord
  <2>3. delivery' = [delivery EXCEPT ![e] = new]
    BY <1>1, <1>2, <2>1 DEF Delivered
  <2> HIDE DEF new
  <2> QED BY <2>1, <2>2, <2>3
<1>5. PICK rec \in DispatcherRecord : dispatcher' = [dispatcher EXCEPT ![d] = rec] /\ rec.at = "idle"
  BY RestingIsADispatcher DEF Delivered
<1>6. tries' = [tries EXCEPT ![e] = n + 1] /\ UNCHANGED <<active, recorder>> /\ dispatcher[d].at = "posting"
  BY <1>1, <1>3 DEF Delivered
<1>7. WebhookTypes'
  BY <1>4, <1>5, <1>6 DEF WebhookTypes
<1>8. WorksOnARow'
  BY <1>1, <1>4, <1>5, <1>6 DEF WorksOnARow, Inserts, WebhookTypes
<1>9. ReadsBehind'
  <2> SUFFICES ASSUME NEW x \in Dispatchers, dispatcher'[x].at = "failing"
               PROVE  dispatcher'[x].read < tries'[dispatcher'[x].event] /\ dispatcher'[x].read < MaxTries
    BY DEF ReadsBehind
  <2>1. dispatcher'[x] = dispatcher[x] /\ x # d
    BY <1>5 DEF WebhookTypes
  <2>2. dispatcher[x].event \in Events /\ dispatcher[x].read \in Nat
    BY <2>1 DEF WorksOnARow, WebhookTypes, DispatcherRecord
  <2>3. tries[dispatcher[x].event] \in Nat /\ tries'[dispatcher[x].event] \in Nat /\ tries'[dispatcher[x].event] >= tries[dispatcher[x].event]
    BY <1>3, <1>6, <2>2 DEF WebhookTypes
  <2> QED BY <2>1, <2>2, <2>3 DEF ReadsBehind
<1>10. RoomForPosts'
  <2> SUFFICES ASSUME NEW x \in Events
               PROVE  (/\ delivery[x].status \in {"none", "pending"} => delivery[x].attempts <= MaxTries
                       /\ delivery[x].attempts + Cardinality(Posters(x)) <= MaxTries + Cardinality(Dispatchers))'
    BY DEF RoomForPosts
  <2>1. delivery[x].attempts \in Nat /\ MaxTries \in Nat
    BY WebhooksAssumption DEF WebhookTypes, DeliveryRecord
  <2>2. /\ Cardinality(Posters(x)) \in Nat /\ Cardinality(Posters(x)') \in Nat /\ Cardinality(Dispatchers) \in Nat
        /\ Cardinality(Posters(x)') <= Cardinality(Posters(x))
        /\ x = e => Cardinality(Posters(x)') + 1 <= Cardinality(Posters(x))
    BY <1>1, <1>5, <1>6, PostersMove
  <2>3. CASE x = e
    <3>1. delivery'[x] = new /\ delivery[x].attempts = row.attempts
      BY <1>2, <1>4, <2>3 DEF WebhookTypes
    <3> QED BY <1>4, <2>1, <2>2, <2>3, <3>1 DEF RoomForPosts
  <2>4. CASE x # e
    <3>1. delivery'[x] = delivery[x]
      BY <1>4, <2>4 DEF WebhookTypes
    <3> QED BY <2>1, <2>2, <3>1 DEF RoomForPosts
  <2> QED BY <2>3, <2>4
<1>11. AbandonedAfterAllTries'
  <2>1. ASSUME NEW x \in Events
        PROVE  delivery'[x].attempts <= tries'[x] /\ (delivery'[x].status = "abandoned" => tries'[x] >= MaxAttempts)
    <3>1. CASE x = e
      <4>1. delivery'[x] = new /\ tries'[x] = n + 1 /\ row.attempts <= n
        BY <1>2, <1>3, <1>4, <1>6, <3>1 DEF WebhookTypes, AbandonedAfterAllTries
      <4> QED BY <1>4, <4>1 DEF DeliveryRecord
    <3>2. CASE x # e
      BY <1>4, <1>6, <3>2 DEF AbandonedAfterAllTries, WebhookTypes
    <3> QED BY <3>1, <3>2
  <2>2. \A x \in Events : delivery'[x].id = delivery[x].id
    BY <1>2, <1>4 DEF WebhookTypes
  <2> QED BY <1>6, <2>1, <2>2 DEF AbandonedAfterAllTries, WorksOnARow
<1> QED BY <1>7, <1>8, <1>9, <1>10, <1>11

\* A post that failed has ended when the counter is read ...
LEMMA ReadKeepsWebhooks ==
  ASSUME WebhooksOK, NEW d \in Dispatchers, ReadAttempts(d)
  PROVE  WebhooksOK'
<1> USE DEF WebhooksOK
<1>1. PICK e \in Events : e = dispatcher[d].event /\ ~Inserts(e)
  BY DEF ReadAttempts, WorksOnARow
<1>2. PICK n \in Nat : n = tries[e] /\ n < MaxTries
  BY <1>1 DEF WebhookTypes, ReadAttempts
<1>3. PICK old \in DispatcherRecord : old = dispatcher[d] /\ old.event = e /\ old.at = "posting"
  BY <1>1 DEF WebhookTypes, ReadAttempts
<1>4. PICK k \in Nat : k = delivery[e].attempts /\ k <= n
  BY <1>2 DEF WebhookTypes, DeliveryRecord, AbandonedAfterAllTries
<1>5. PICK rec \in DispatcherRecord : /\ dispatcher' = [dispatcher EXCEPT ![d] = rec]
                                     /\ rec.at = "failing" /\ rec.event = e /\ rec.read = k
  <2> DEFINE rec == [old EXCEPT !.at = "failing", !.read = k]
  <2>1. rec \in DispatcherRecord /\ rec.at = "failing" /\ rec.event = e /\ rec.read = k
    BY <1>3 DEF DispatcherRecord
  <2>2. dispatcher' = [dispatcher EXCEPT ![d] = rec]
    BY <1>1, <1>3, <1>4 DEF ReadAttempts, WebhookTypes
  <2> HIDE DEF rec
  <2> QED BY <2>1, <2>2
<1>6. tries' = [tries EXCEPT ![e] = n + 1] /\ UNCHANGED <<active, delivery, recorder>>
  BY <1>1, <1>2 DEF ReadAttempts
<1>7. WebhookTypes'
  BY <1>5, <1>6 DEF WebhookTypes
<1>8. WorksOnARow'
  BY <1>1, <1>5, <1>6 DEF WorksOnARow, Inserts, WebhookTypes
<1>9. ReadsBehind'
  <2> SUFFICES ASSUME NEW x \in Dispatchers, dispatcher'[x].at = "failing"
               PROVE  dispatcher'[x].read < tries'[dispatcher'[x].event] /\ dispatcher'[x].read < MaxTries
    BY DEF ReadsBehind
  <2>1. CASE x = d
    <3>1. dispatcher'[x] = rec /\ tries'[e] = n + 1
      BY <1>5, <1>6, <2>1 DEF WebhookTypes
    <3> QED BY <1>2, <1>4, <1>5, <3>1, WebhooksAssumption
  <2>2. CASE x # d
    <3>1. dispatcher'[x] = dispatcher[x]
      BY <1>5, <2>2 DEF WebhookTypes
    <3>2. dispatcher[x].event \in Events /\ dispatcher[x].read \in Nat
      BY <3>1 DEF WorksOnARow, WebhookTypes, DispatcherRecord
    <3>3. tries[dispatcher[x].event] \in Nat /\ tries'[dispatcher[x].event] \in Nat /\ tries'[dispatcher[x].event] >= tries[dispatcher[x].event]
      BY <1>2, <1>6, <3>2 DEF WebhookTypes
    <3> QED BY <3>1, <3>2, <3>3 DEF ReadsBehind
  <2> QED BY <2>1, <2>2
<1>10. RoomForPosts'
  <2> SUFFICES ASSUME NEW x \in Events
               PROVE  delivery[x].attempts + Cardinality(Posters(x)') <= MaxTries + Cardinality(Dispatchers)
    BY <1>6 DEF RoomForPosts
  <2>1. delivery[x].attempts \in Nat /\ MaxTries \in Nat
    BY WebhooksAssumption DEF WebhookTypes, DeliveryRecord
  <2>2. delivery[x].attempts + Cardinality(Posters(x)) <= MaxTries + Cardinality(Dispatchers)
    BY DEF RoomForPosts
  <2>3. Cardinality(Posters(x)') <= Cardinality(Posters(x)) /\ Cardinality(Posters(x)') \in Nat
        /\ Cardinality(Posters(x)) \in Nat /\ Cardinality(Dispatchers) \in Nat
    BY <1>5, PostersMove
  <2> QED BY <2>1, <2>2, <2>3
<1>11. AbandonedAfterAllTries'
  <2>1. ASSUME NEW x \in Events
        PROVE  delivery'[x].attempts <= tries'[x] /\ (delivery'[x].status = "abandoned" => tries'[x] >= MaxAttempts)
    <3>1. tries[x] \in Nat /\ tries'[x] \in Nat /\ tries'[x] >= tries[x] /\ delivery[x].attempts \in Nat
      BY <1>2, <1>6 DEF WebhookTypes, DeliveryRecord
    <3> QED BY <1>6, <3>1, WebhooksAssumption DEF AbandonedAfterAllTries
  <2> QED BY <1>6, <2>1 DEF AbandonedAfterAllTries
<1> QED BY <1>7, <1>8, <1>9, <1>10, <1>11

\* ... and the row is written from what was read, however far it has moved since.
LEMMA FailureKeepsWebhooks ==
  ASSUME WebhooksOK, NEW d \in Dispatchers, WriteFailure(d)
  PROVE  WebhooksOK'
<1> USE DEF WebhooksOK
<1>1. PICK e \in Events : e = dispatcher[d].event /\ ~Inserts(e)
  BY DEF WriteFailure, WorksOnARow
<1>2. PICK k \in Nat : k = dispatcher[d].read /\ k < tries[e] /\ k < MaxTries
  BY <1>1 DEF WebhookTypes, DispatcherRecord, WriteFailure, ReadsBehind
<1>3. PICK row \in DeliveryRecord : row = delivery[e]
  BY DEF WebhookTypes
<1>4. PICK new \in DeliveryRecord : /\ delivery' = [delivery EXCEPT ![e] = new]
                                   /\ new.id = row.id /\ new.attempts = k + 1
                                   /\ new.status = IF Abandons(k + 1) THEN "abandoned" ELSE "pending"
  <2>1. PICK status \in {"pending", "abandoned"} : status = IF Abandons(k + 1) THEN "abandoned" ELSE "pending"
    OBVIOUS
  <2>2. PICK n \in Nat : n = k + 1
    OBVIOUS
  <2> DEFINE new == [row EXCEPT !.attempts = n, !.status = status]
  <2>3. new \in DeliveryRecord /\ new.id = row.id /\ new.attempts = n /\ new.status = status
    BY DEF DeliveryRecord
  <2>4. delivery' = [delivery EXCEPT ![e] = new]
    BY <1>1, <1>2, <1>3, <2>1, <2>2 DEF WriteFailure
  <2> HIDE DEF new
  <2> QED BY <2>1, <2>2, <2>3, <2>4
<1>5. PICK rec \in DispatcherRecord : dispatcher' = [dispatcher EXCEPT ![d] = rec] /\ rec.at = "idle"
  BY RestingIsADispatcher DEF WriteFailure
<1>6. UNCHANGED <<active, recorder, tries>>
  BY DEF WriteFailure
<1>7. WebhookTypes'
  BY <1>4, <1>5, <1>6 DEF WebhookTypes
<1>8. WorksOnARow'
  BY <1>1, <1>4, <1>5, <1>6 DEF WorksOnARow, Inserts, WebhookTypes
<1>9. ReadsBehind'
  BY <1>5, <1>6 DEF ReadsBehind, WebhookTypes
<1>10. RoomForPosts'
  <2> SUFFICES ASSUME NEW x \in Events
               PROVE  (/\ delivery[x].status \in {"none", "pending"} => delivery[x].attempts <= MaxTries
                       /\ delivery[x].attempts + Cardinality(Posters(x)) <= MaxTries + Cardinality(Dispatchers))'
    BY DEF RoomForPosts
  <2>1. delivery[x].attempts \in Nat /\ MaxTries \in Nat
    BY WebhooksAssumption DEF WebhookTypes, DeliveryRecord
  <2>2. /\ Cardinality(Posters(x)) \in Nat /\ Cardinality(Posters(x)') \in Nat /\ Cardinality(Dispatchers) \in Nat
        /\ Cardinality(Posters(x)') <= Cardinality(Posters(x)) /\ Cardinality(Posters(x)') <= Cardinality(Dispatchers)
    BY <1>5, PostersMove
  <2>3. CASE x = e
    <3>1. delivery'[x] = new
      BY <1>4, <2>3 DEF WebhookTypes
    <3> QED BY <1>2, <1>4, <2>1, <2>2, <3>1
  <2>4. CASE x # e
    <3>1. delivery'[x] = delivery[x]
      BY <1>4, <2>4 DEF WebhookTypes
    <3> QED BY <2>1, <2>2, <3>1 DEF RoomForPosts
  <2> QED BY <2>3, <2>4
<1>11. AbandonedAfterAllTries'
  <2>1. ASSUME NEW x \in Events
        PROVE  delivery'[x].attempts <= tries'[x] /\ (delivery'[x].status = "abandoned" => tries'[x] >= MaxAttempts)
    <3>1. CASE x = e
      <4>1. delivery'[x] = new /\ tries'[x] \in Nat /\ k + 1 <= tries'[x]
        BY <1>2, <1>4, <1>6, <3>1 DEF WebhookTypes
      <4> QED BY <1>4, <4>1, WebhooksAssumption DEF Abandons
    <3>2. CASE x # e
      BY <1>4, <1>6, <3>2 DEF AbandonedAfterAllTries, WebhookTypes
    <3> QED BY <3>1, <3>2
  <2>2. \A x \in Events : delivery'[x].id = delivery[x].id
    BY <1>3, <1>4 DEF WebhookTypes
  <2> QED BY <1>6, <2>1, <2>2 DEF AbandonedAfterAllTries, WorksOnARow
<1> QED BY <1>7, <1>8, <1>9, <1>10, <1>11

\* Every step of the producers and the dispatchers.
LEMMA WebhooksStep == WebhooksOK /\ [WebhooksNext]_webhookVars => WebhooksOK'
<1> SUFFICES ASSUME WebhooksOK, [WebhooksNext]_webhookVars PROVE WebhooksOK'
  OBVIOUS
<1>1. CASE UNCHANGED webhookVars
  BY <1>1 DEF webhookVars, WebhooksOK, WebhookTypes, WorksOnARow, Inserts, ReadsBehind, RoomForPosts, Posters,
              AbandonedAfterAllTries
<1>2. CASE WebhooksNext
  BY <1>2, RecordingKeepsWebhooks, PostingKeepsWebhooks, DeliveryKeepsWebhooks, ReadKeepsWebhooks, FailureKeepsWebhooks
  DEF WebhooksNext
<1> QED BY <1>1, <1>2

\* processWebhookDeliveryAttempt and recordWebhookDelivery: whatever the overlap of the attempts, a delivery is given
\* up only after max_attempts posts have ended, its counter never runs ahead of them, and every producer of an event
\* is answered one delivery.  The rows keep their types, the counter its bound.
THEOREM GivenUpAfterAllTries == WebhooksSpec => [](WebhooksTypeOK /\ AbandonedAfterAllTries)
<1>1. WebhooksOK => WebhooksTypeOK /\ AbandonedAfterAllTries
  <2> SUFFICES ASSUME WebhooksOK, NEW e \in Events PROVE delivery[e].attempts \in 0..(MaxTries + Cardinality(Dispatchers))
    BY DEF WebhooksOK, WebhookTypes, WebhooksTypeOK, DeliveryRecord
  <2>1. delivery[e].attempts \in Nat /\ MaxTries \in Nat
    BY WebhooksAssumption DEF WebhooksOK, WebhookTypes, DeliveryRecord
  <2>2. Posters(e) \in SUBSET Dispatchers
    BY DEF Posters
  <2>3. Cardinality(Posters(e)) \in Nat /\ Cardinality(Dispatchers) \in Nat
    BY <2>2, CountsDispatchers
  <2> QED BY <2>1, <2>3 DEF WebhooksOK, RoomForPosts
<1> QED BY <1>1, WebhooksStart, WebhooksStep, PTL DEF WebhooksSpec

-----------------------------------------------------------------------------
(* The performance shown to an owner. *)

MoveRecord == [stage : {"none", "quoted", "executed"}, action : {"none", "supply", "withdraw_supply"},
               amount : Nat, shares : Nat, fee : Nat]
FlowRecord == [deposits : Nat, withdrawals : Nat, fees : Nat]
AnswerRecord == [stage : {"none", "flows", "shown"}, cashFlows : FlowRecord, earned : Nat, unattributed : Nat,
                 points : Seq(Nat), ahead : Int]

PerformanceTypes ==
  /\ shareRate \in ShareRates /\ shareRate \in Nat \ {0} /\ heldShares \in Nat /\ ownerMoves \in 0..MaxOwnerMoves
  /\ pendingMove \in MoveRecord /\ cashFlows \in FlowRecord /\ truth \in [paid : Nat, received : Nat]
  /\ pendingMove.action = "supply" => pendingMove.amount \in SupplyAmounts
  /\ observations \in Seq(Nat \union {UnknownQuantity})
  /\ answer \in AnswerRecord /\ Len(answer.points) # 1

\* What a workflow under way has moved already and no cash flow says yet.
Underway(action) == IF pendingMove.stage = "executed" /\ pendingMove.action = action THEN pendingMove.amount ELSE 0

PaidInIsFlown == truth.paid = cashFlows.deposits + Underway("supply")

\* A withdrawal executes at no less than its quote.
GotOutCoversFlows == truth.received >= cashFlows.withdrawals + Underway("withdraw_supply")

\* What was paid in last is still held, or has been got out besides.
HeldCoversSupply ==
  Underway("supply") # 0 => truth.received + Worth(heldShares) >= cashFlows.withdrawals + Underway("supply")

QuotedAtMostWorth == pendingMove.action = "withdraw_supply" => pendingMove.amount <= Worth(pendingMove.shares)

\* The answer in hand, of the flows it was worked out from.
AnswerIsCovered ==
  /\ answer.stage # "none" => answer.cashFlows.withdrawals - answer.cashFlows.deposits <= answer.ahead
  /\ answer.stage = "shown" => answer.earned <= AtLeast(answer.ahead, 0)

PerformanceOK ==
  /\ PerformanceTypes /\ PaidInIsFlown /\ GotOutCoversFlows /\ HeldCoversSupply /\ QuotedAtMostWorth /\ AnswerIsCovered

\* What shares are worth.
LEMMA WorthOfShares ==
  ASSUME NEW r \in Nat, NEW n \in Nat, NEW m \in Nat, m <= n
  PROVE  n * r \in Nat /\ (n - m) * r + m * r = n * r /\ (n + m) * r = n * r + m * r
<1>1. n * r \in Nat /\ m * r \in Nat
  OBVIOUS
<1>2. (n - m) * r = n * r - m * r
  OBVIOUS
<1>3. (n + m) * r = n * r + m * r
  OBVIOUS
<1> QED BY <1>1, <1>2, <1>3

LEMMA WorthRises ==
  ASSUME NEW r \in Nat, NEW s \in Nat, s >= r, NEW n \in Nat
  PROVE  n * s >= n * r
<1>1. PICK d \in Nat : d = s - r
  OBVIOUS
<1>2. n * d \in Nat
  OBVIOUS
<1>3. n * s = n * r + n * d
  BY <1>1
<1> QED BY <1>2, <1>3

LEMMA WholeShares ==
  ASSUME NEW a \in Nat, NEW r \in Nat \ {0}, a % r = 0
  PROVE  a \div r \in Nat /\ (a \div r) * r = a
OBVIOUS

LEMMA PerformanceStarts == PerformanceInit => PerformanceOK
<1> SUFFICES ASSUME PerformanceInit PROVE PerformanceOK
  OBVIOUS
<1>1. shareRate \in ShareRates /\ shareRate \in Nat \ {0}
  <2>1. PICK r \in ShareRates : \A s \in ShareRates : r <= s
    <3>1. ShareRates \in SUBSET Nat /\ ShareRates # {}
      BY PerformanceAssumption
    <3>2. PICK r \in ShareRates : \A s \in ShareRates : ~(<<s, r>> \in OpToRel(<, Nat))
      BY <3>1, NatLessThanWellFounded, WFMin
    <3>3. \A s \in ShareRates : ~(s < r)
      BY <3>1, <3>2 DEF OpToRel
    <3> QED BY <3>1, <3>3
  <2>2. shareRate \in ShareRates
    BY <2>1 DEF PerformanceInit
  <2> QED BY <2>2, PerformanceAssumption
<1>2. NoFlows \in FlowRecord /\ NoMove \in MoveRecord /\ NoMove.stage = "none" /\ NoMove.action = "none"
  BY DEF NoFlows, FlowRecord, NoMove, MoveRecord
<1>3. NoAnswer \in AnswerRecord /\ Len(NoAnswer.points) # 1 /\ NoAnswer.stage = "none"
  BY <1>2 DEF NoAnswer, AnswerRecord
<1>4. PerformanceTypes
  BY <1>1, <1>2, <1>3, PerformanceAssumption DEF PerformanceInit, PerformanceTypes
<1>5. Underway("supply") = 0 /\ Underway("withdraw_supply") = 0
  BY <1>2 DEF Underway, PerformanceInit
<1>6. PaidInIsFlown /\ GotOutCoversFlows /\ HeldCoversSupply /\ QuotedAtMostWorth /\ AnswerIsCovered
  BY <1>2, <1>3, <1>5 DEF PaidInIsFlown, GotOutCoversFlows, HeldCoversSupply, QuotedAtMostWorth, AnswerIsCovered,
     PerformanceInit, NoFlows
<1> QED BY <1>4, <1>6 DEF PerformanceOK

\* The vault earns.
LEMMA RateRisesKeepsPerformance ==
  ASSUME PerformanceOK, RateRises
  PROVE  PerformanceOK'
<1>1. PICK s \in ShareRates : s > shareRate /\ shareRate' = s
  BY DEF RateRises
<1>2. s \in Nat \ {0}
  BY PerformanceAssumption
<1>3. PerformanceTypes'
  BY <1>1, <1>2 DEF PerformanceOK, PerformanceTypes, RateRises
<1>4. heldShares \in Nat /\ shareRate \in Nat /\ pendingMove.shares \in Nat /\ pendingMove.amount \in Nat
      /\ truth.received \in Nat /\ cashFlows.withdrawals \in Nat
  BY DEF PerformanceOK, PerformanceTypes, MoveRecord, FlowRecord
<1>5. heldShares * s >= heldShares * shareRate /\ pendingMove.shares * s >= pendingMove.shares * shareRate
  BY <1>1, <1>2, <1>4, WorthRises
<1>6. \A a : Underway(a)' = Underway(a)
  BY DEF Underway, RateRises
<1>7. HeldCoversSupply'
  <2>1. Underway("supply") \in Nat
    BY <1>4 DEF Underway
  <2>2. Worth(heldShares)' = heldShares * s
    BY <1>1 DEF Worth, RateRises
  <2>3. Worth(heldShares) \in Nat /\ Worth(heldShares) = heldShares * shareRate /\ heldShares * s \in Nat
    BY <1>2, <1>4 DEF Worth
  <2> QED BY <1>4, <1>5, <1>6, <2>1, <2>2, <2>3 DEF PerformanceOK, HeldCoversSupply, RateRises
<1>8. QuotedAtMostWorth'
  <2>1. Worth(pendingMove.shares)' = pendingMove.shares * s
    BY <1>1 DEF Worth, RateRises
  <2>2. pendingMove.shares * s \in Nat /\ pendingMove.shares * shareRate \in Nat
    BY <1>2, <1>4
  <2> QED BY <1>4, <1>5, <2>1, <2>2 DEF PerformanceOK, QuotedAtMostWorth, Worth, RateRises
<1> QED BY <1>3, <1>6, <1>7, <1>8 DEF PerformanceOK, PaidInIsFlown, GotOutCoversFlows, AnswerIsCovered, RateRises

\* The books and the answer do not change.
LEMMA SameBooks ==
  ASSUME PerformanceOK, PerformanceTypes', UNCHANGED <<cashFlows, truth, answer>>,
         Underway("supply")' = Underway("supply"), Underway("withdraw_supply")' = Underway("withdraw_supply"),
         HeldCoversSupply', QuotedAtMostWorth'
  PROVE  PerformanceOK'
BY DEF PerformanceOK, PaidInIsFlown, GotOutCoversFlows, AnswerIsCovered

LEMMA QuoteKeepsPerformance ==
  ASSUME PerformanceOK, QuoteMove
  PROVE  PerformanceOK'
<1>1. PICK move \in MoveRecord :
        /\ pendingMove' = move /\ move.stage = "quoted"
        /\ move.action = "withdraw_supply" => move.amount = Worth(move.shares)
        /\ move.action = "supply" => move.amount \in SupplyAmounts
  <2>1. PICK fee \in QuotedFees :
          \/ \E a \in SupplyAmounts :
               pendingMove' = [stage |-> "quoted", action |-> "supply", amount |-> a, shares |-> 0, fee |-> fee]
          \/ \E n \in 1..heldShares :
               pendingMove' = [stage |-> "quoted", action |-> "withdraw_supply", amount |-> Worth(n), shares |-> n,
                               fee |-> fee]
    BY DEF QuoteMove
  <2>2. fee \in Nat
    BY PerformanceAssumption
  <2>3. ASSUME NEW a \in SupplyAmounts,
               pendingMove' = [stage |-> "quoted", action |-> "supply", amount |-> a, shares |-> 0, fee |-> fee]
        PROVE  \E move \in MoveRecord : /\ pendingMove' = move /\ move.stage = "quoted"
                                        /\ move.action = "withdraw_supply" => move.amount = Worth(move.shares)
                                        /\ move.action = "supply" => move.amount \in SupplyAmounts
    BY <2>2, <2>3, PerformanceAssumption DEF MoveRecord
  <2>4. ASSUME NEW n \in 1..heldShares,
               pendingMove' = [stage |-> "quoted", action |-> "withdraw_supply", amount |-> Worth(n), shares |-> n,
                               fee |-> fee]
        PROVE  \E move \in MoveRecord : /\ pendingMove' = move /\ move.stage = "quoted"
                                        /\ move.action = "withdraw_supply" => move.amount = Worth(move.shares)
                                        /\ move.action = "supply" => move.amount \in SupplyAmounts
    <3>1. n \in Nat /\ Worth(n) \in Nat
      BY DEF PerformanceOK, PerformanceTypes, Worth
    <3> QED BY <2>2, <2>4, <3>1 DEF MoveRecord
  <2> QED BY <2>1, <2>3, <2>4
<1>2. PerformanceTypes'
  BY <1>1, PerformanceAssumption DEF PerformanceOK, PerformanceTypes, QuoteMove
<1>3. \A a : Underway(a)' = 0 /\ Underway(a) = 0
  BY <1>1 DEF Underway, QuoteMove, NoMove
<1>4. QuotedAtMostWorth'
  <2>1. Worth(move.shares)' = Worth(move.shares) /\ Worth(move.shares) \in Nat
    BY DEF Worth, QuoteMove, MoveRecord, PerformanceOK, PerformanceTypes
  <2>2. Worth(pendingMove.shares)' = Worth(move.shares)'
    BY <1>1 DEF Worth
  <2> QED BY <1>1, <2>1, <2>2 DEF QuotedAtMostWorth
<1> QED BY <1>2, <1>3, <1>4, SameBooks DEF HeldCoversSupply, QuoteMove

\* The transaction executes at the rate of its block.
LEMMA ExecuteKeepsPerformance ==
  ASSUME PerformanceOK, Execute
  PROVE  PerformanceOK'
<1>1. PICK move \in MoveRecord : move = pendingMove
  BY DEF PerformanceOK, PerformanceTypes
<1>2. /\ move.stage = "quoted" /\ move.amount \in Nat /\ move.shares \in Nat
      /\ heldShares \in Nat /\ shareRate \in Nat \ {0} /\ truth.paid \in Nat /\ truth.received \in Nat
      /\ cashFlows.withdrawals \in Nat /\ cashFlows.deposits \in Nat
      /\ truth = [paid |-> truth.paid, received |-> truth.received]
  BY <1>1 DEF Execute, MoveRecord, PerformanceOK, PerformanceTypes, FlowRecord
<1> DEFINE done == [move EXCEPT !.stage = "executed"]
<1>3. done \in MoveRecord /\ done.stage = "executed" /\ done.action = move.action /\ done.amount = move.amount
      /\ done.shares = move.shares /\ pendingMove' = done
  BY <1>1 DEF MoveRecord, Execute
<1> HIDE DEF done
<1>4. \A a : Underway(a) = 0 /\ Underway(a)' = IF move.action = a THEN move.amount ELSE 0
  BY <1>1, <1>2, <1>3 DEF Underway
<1>5. QuotedAtMostWorth'
  BY <1>1, <1>3 DEF QuotedAtMostWorth, PerformanceOK, Execute, Worth
<1>6. CASE /\ move.action = "supply" /\ heldShares' = heldShares + move.amount \div shareRate
           /\ truth' = [truth EXCEPT !.paid = @ + move.amount]
  <2>1. move.amount % shareRate = 0
    BY <1>1, <1>6, PerformanceAssumption DEF PerformanceOK, PerformanceTypes
  <2>2. PICK n \in Nat : n = move.amount \div shareRate /\ n * shareRate = move.amount
    BY <1>2, <2>1, WholeShares
  <2>3. /\ heldShares' \in Nat /\ truth'.paid = truth.paid + move.amount /\ truth'.received = truth.received
        /\ truth' \in [paid : Nat, received : Nat]
    BY <1>2, <1>6, <2>2
  <2>4. PerformanceTypes'
    BY <1>1, <1>3, <1>6, <2>3 DEF PerformanceOK, PerformanceTypes, Execute
  <2>5. Worth(heldShares)' = heldShares * shareRate + move.amount /\ heldShares * shareRate \in Nat
    BY <1>2, <1>6, <2>2 DEF Worth, Execute
  <2>6. PaidInIsFlown' /\ GotOutCoversFlows'
    BY <1>2, <1>4, <1>6, <2>3 DEF PerformanceOK, PaidInIsFlown, GotOutCoversFlows, Execute
  <2>7. HeldCoversSupply'
    <3>1. truth.received >= cashFlows.withdrawals
      BY <1>2, <1>4 DEF PerformanceOK, GotOutCoversFlows
    <3>2. Underway("supply")' = move.amount /\ cashFlows' = cashFlows
      BY <1>4, <1>6 DEF Execute
    <3> QED BY <1>2, <2>3, <2>5, <3>1, <3>2 DEF HeldCoversSupply
  <2> QED BY <1>5, <2>4, <2>6, <2>7 DEF PerformanceOK, AnswerIsCovered, Execute
<1>7. CASE /\ move.action = "withdraw_supply" /\ move.shares <= heldShares
           /\ heldShares' = heldShares - move.shares
           /\ truth' = [truth EXCEPT !.received = @ + Worth(move.shares)]
  <2>1. Worth(move.shares) \in Nat /\ move.amount <= Worth(move.shares)
    BY <1>1, <1>2, <1>7 DEF Worth, PerformanceOK, QuotedAtMostWorth
  <2>2. heldShares' \in Nat /\ truth'.received = truth.received + Worth(move.shares) /\ truth'.paid = truth.paid
        /\ truth' \in [paid : Nat, received : Nat]
    BY <1>2, <1>7, <2>1
  <2>3. PerformanceTypes'
    BY <1>3, <1>7, <2>2 DEF PerformanceOK, PerformanceTypes, Execute
  <2>4. PaidInIsFlown' /\ GotOutCoversFlows' /\ HeldCoversSupply'
    BY <1>2, <1>4, <1>7, <2>1, <2>2 DEF PerformanceOK, PaidInIsFlown, GotOutCoversFlows, HeldCoversSupply, Execute
  <2> QED BY <1>5, <2>3, <2>4 DEF PerformanceOK, AnswerIsCovered, Execute
<1> QED BY <1>1, <1>6, <1>7 DEF Execute

\* The workflow is completed, or ends otherwise.
LEMMA CompleteKeepsPerformance ==
  ASSUME PerformanceOK, Complete
  PROVE  PerformanceOK'
<1>1. PICK move \in MoveRecord : move = pendingMove
  BY DEF PerformanceOK, PerformanceTypes
<1>2. /\ move.stage = "executed" /\ move.amount \in Nat /\ move.fee \in Nat /\ cashFlows \in FlowRecord
      /\ truth.paid \in Nat /\ truth.received \in Nat
  BY <1>1 DEF Complete, MoveRecord, PerformanceOK, PerformanceTypes
<1>3. PICK d \in Nat : d = cashFlows.deposits + Underway("supply")
  BY <1>1, <1>2 DEF FlowRecord, Underway
<1>4. PICK w \in Nat : w = cashFlows.withdrawals + Underway("withdraw_supply")
  BY <1>1, <1>2 DEF FlowRecord, Underway
<1>5. cashFlows'.deposits = d /\ cashFlows'.withdrawals = w /\ cashFlows' \in FlowRecord
  <2>1. cashFlows' = FlowsWith(move)
    BY <1>1 DEF Complete
  <2>2. FlowsWith(move) = [deposits |-> d, withdrawals |-> w, fees |-> cashFlows.fees + move.fee]
    BY <1>1, <1>2, <1>3, <1>4 DEF FlowsWith, Underway
  <2>3. cashFlows.fees + move.fee \in Nat
    BY <1>2 DEF FlowRecord
  <2> QED BY <2>1, <2>2, <2>3 DEF FlowRecord
<1>6. NoMove \in MoveRecord /\ NoMove.stage = "none" /\ NoMove.action = "none" /\ pendingMove' = NoMove
  BY DEF NoMove, MoveRecord, Complete
<1>7. \A a : Underway(a)' = 0
  BY <1>6 DEF Underway
<1>8. PerformanceTypes'
  BY <1>5, <1>6 DEF PerformanceOK, PerformanceTypes, Complete
<1>9. truth' = truth /\ truth.paid = d /\ truth.received >= w
  BY <1>3, <1>4 DEF Complete, PerformanceOK, PaidInIsFlown, GotOutCoversFlows
<1>10. PaidInIsFlown' /\ GotOutCoversFlows' /\ HeldCoversSupply' /\ QuotedAtMostWorth'
  BY <1>2, <1>5, <1>6, <1>7, <1>9 DEF PaidInIsFlown, GotOutCoversFlows, HeldCoversSupply, QuotedAtMostWorth
<1> QED BY <1>8, <1>10 DEF PerformanceOK, AnswerIsCovered, Complete

LEMMA EndKeepsPerformance ==
  ASSUME PerformanceOK, EndUncompleted
  PROVE  PerformanceOK'
<1>1. PICK move \in MoveRecord : move = pendingMove
  BY DEF PerformanceOK, PerformanceTypes
<1>2. /\ move.amount \in Nat /\ cashFlows.deposits \in Nat /\ cashFlows.withdrawals \in Nat
      /\ truth.paid \in Nat /\ truth.received \in Nat /\ truth \in [paid : Nat, received : Nat]
  BY DEF MoveRecord, FlowRecord, PerformanceOK, PerformanceTypes
<1>3. truth'.paid = cashFlows.deposits /\ truth'.received = truth.received /\ truth' \in [paid : Nat, received : Nat]
  <2>1. CASE move.stage = "executed" /\ move.action = "supply"
    <3>1. truth.paid = cashFlows.deposits + move.amount
      BY <1>1, <2>1 DEF PerformanceOK, PaidInIsFlown, Underway
    <3>2. truth.paid - move.amount = cashFlows.deposits
      BY <1>2, <3>1
    <3>3. truth' = [truth EXCEPT !.paid = truth.paid - move.amount]
      BY <1>1, <2>1 DEF EndUncompleted
    <3> QED BY <1>2, <3>2, <3>3
  <2>2. CASE ~(move.stage = "executed" /\ move.action = "supply")
    <3>1. truth' = truth /\ truth.paid = cashFlows.deposits
      BY <1>1, <1>2, <2>2 DEF PerformanceOK, PaidInIsFlown, Underway, EndUncompleted
    <3> QED BY <1>2, <3>1
  <2> QED BY <2>1, <2>2
<1>4. NoMove \in MoveRecord /\ NoMove.stage = "none" /\ NoMove.action = "none" /\ pendingMove' = NoMove
  BY DEF NoMove, MoveRecord, EndUncompleted
<1>5. \A a : Underway(a)' = 0
  BY <1>4 DEF Underway
<1>6. PerformanceTypes'
  BY <1>3, <1>4 DEF PerformanceOK, PerformanceTypes, EndUncompleted
<1>7. truth.received >= cashFlows.withdrawals
  BY <1>1, <1>2 DEF PerformanceOK, GotOutCoversFlows, Underway
<1>8. PaidInIsFlown' /\ GotOutCoversFlows' /\ HeldCoversSupply' /\ QuotedAtMostWorth'
  BY <1>2, <1>3, <1>4, <1>5, <1>7 DEF PaidInIsFlown, GotOutCoversFlows, HeldCoversSupply, QuotedAtMostWorth, EndUncompleted
<1> QED BY <1>6, <1>8 DEF PerformanceOK, AnswerIsCovered, EndUncompleted

\* Shares come, go or are redeemed without the platform.
LEMMA MoveOutsideKeepsPerformance ==
  ASSUME PerformanceOK, MoveOutside
  PROVE  PerformanceOK'
<1>1. /\ heldShares \in Nat /\ shareRate \in Nat \ {0} /\ truth.paid \in Nat /\ truth.received \in Nat
      /\ cashFlows.withdrawals \in Nat /\ cashFlows.deposits \in Nat /\ truth \in [paid : Nat, received : Nat]
      /\ Underway("supply") \in Nat /\ Underway("withdraw_supply") \in Nat
  BY DEF PerformanceOK, PerformanceTypes, FlowRecord, MoveRecord, Underway
<1>2. Worth(heldShares) \in Nat /\ Worth(1) = shareRate
  BY <1>1 DEF Worth
<1>3. /\ heldShares' \in Nat /\ truth' \in [paid : Nat, received : Nat] /\ truth'.paid = truth.paid
      /\ truth'.received >= truth.received /\ truth'.received + Worth(heldShares)' >= truth.received + Worth(heldShares)
  <2>1. CASE heldShares' = heldShares + 1 /\ UNCHANGED truth
    <3>1. Worth(heldShares)' = Worth(heldShares) + shareRate
      BY <1>1, <2>1 DEF Worth, MoveOutside
    <3> QED BY <1>1, <1>2, <2>1, <3>1
  <2>2. CASE heldShares > 0 /\ heldShares' = heldShares - 1 /\ truth' = [truth EXCEPT !.received = @ + Worth(1)]
    <3>1. Worth(heldShares)' = Worth(heldShares) - shareRate
      BY <1>1, <2>2 DEF Worth, MoveOutside
    <3>2. truth'.received = truth.received + shareRate /\ truth'.paid = truth.paid /\ truth' \in [paid : Nat, received : Nat]
      BY <1>1, <1>2, <2>2
    <3> QED BY <1>1, <1>2, <2>2, <3>1, <3>2
  <2> QED BY <2>1, <2>2 DEF MoveOutside
<1>4. ownerMoves' \in 0..MaxOwnerMoves
  BY PerformanceAssumption DEF MoveOutside, PerformanceOK, PerformanceTypes
<1>5. PerformanceTypes'
  BY <1>3, <1>4 DEF PerformanceOK, PerformanceTypes, MoveOutside
<1>6. \A a : Underway(a)' = Underway(a)
  BY DEF Underway, MoveOutside
<1>7. Worth(heldShares)' \in Nat
  BY <1>1, <1>3 DEF Worth, MoveOutside
<1>8. PaidInIsFlown' /\ GotOutCoversFlows' /\ HeldCoversSupply'
  <2>1. truth'.received \in Nat
    BY <1>3
  <2> QED BY <1>1, <1>2, <1>3, <1>6, <1>7, <2>1
        DEF PerformanceOK, PaidInIsFlown, GotOutCoversFlows, HeldCoversSupply, MoveOutside
<1>9. QuotedAtMostWorth'
  BY DEF PerformanceOK, QuotedAtMostWorth, Worth, MoveOutside
<1> QED BY <1>5, <1>8, <1>9 DEF PerformanceOK, AnswerIsCovered, MoveOutside

LEMMA ObserveKeepsPerformance ==
  ASSUME PerformanceOK, ObservePosition
  PROVE  PerformanceOK'
<1>1. Worth(heldShares) \in Nat
  BY DEF Worth, PerformanceOK, PerformanceTypes
<1>2. PICK q \in Nat \union {UnknownQuantity} : observations' = Append(observations, q)
  BY <1>1 DEF ObservePosition
<1>3. observations' \in Seq(Nat \union {UnknownQuantity})
  BY <1>2 DEF PerformanceOK, PerformanceTypes
<1>4. PerformanceTypes'
  BY <1>3 DEF PerformanceOK, PerformanceTypes, ObservePosition
<1> QED BY <1>4, SameBooks DEF PerformanceOK, HeldCoversSupply, QuotedAtMostWorth, Underway, Worth, ObservePosition

\* The two statements of an answer.
LEMMA AnswerKeepsPerformance ==
  ASSUME PerformanceOK, ReadCashFlows \/ ShowPerformance
  PROVE  PerformanceOK'
<1>1. UNCHANGED <<shareRate, heldShares, pendingMove, cashFlows, observations, truth, ownerMoves>>
  BY DEF ReadCashFlows, ShowPerformance
<1>2. answer \in AnswerRecord /\ cashFlows \in FlowRecord /\ heldShares \in Nat /\ truth.paid \in Nat
      /\ truth.received \in Nat /\ shareRate \in Nat /\ observations \in Seq(Nat \union {UnknownQuantity})
  BY DEF PerformanceOK, PerformanceTypes
<1>3. PICK f \in FlowRecord : f = IF answer.stage = "none" THEN cashFlows ELSE answer.cashFlows
  BY <1>2 DEF AnswerRecord
<1>4. f.deposits \in Nat /\ f.withdrawals \in Nat /\ f.fees \in Nat
  BY DEF FlowRecord
<1>5. ASSUME answer' \in AnswerRecord, Len(answer'.points) # 1, AnswerIsCovered' PROVE PerformanceOK'
  <2>1. PerformanceTypes'
    BY <1>1, <1>5 DEF PerformanceOK, PerformanceTypes
  <2> QED BY <1>1, <1>5, <2>1 DEF PerformanceOK, PaidInIsFlown, GotOutCoversFlows, HeldCoversSupply, QuotedAtMostWorth,
         Underway, Worth
<1>6. CASE ReadCashFlows
  <2>1. PICK ahead \in Int : ahead = truth.received + Worth(heldShares) - truth.paid
    BY <1>2 DEF Worth
  <2>2. f.withdrawals - f.deposits <= ahead
    <3>1. Worth(heldShares) \in Nat /\ f = cashFlows
      BY <1>2, <1>3, <1>6 DEF Worth, ReadCashFlows
    <3>2. Underway("supply") \in Nat /\ Underway("withdraw_supply") \in Nat
      BY DEF Underway, PerformanceOK, PerformanceTypes, MoveRecord
    <3>3. truth.paid = f.deposits + Underway("supply") /\ truth.received >= f.withdrawals
      BY <1>2, <1>4, <3>1, <3>2 DEF PerformanceOK, PaidInIsFlown, GotOutCoversFlows
    <3>4. PICK supply \in Nat, worth \in Nat, got \in Nat, paid \in Nat :
            supply = Underway("supply") /\ worth = Worth(heldShares) /\ got = truth.received /\ paid = truth.paid
      BY <1>2, <3>1, <3>2
    <3>5. supply # 0 => got + worth >= f.withdrawals + supply
      BY <3>1, <3>4 DEF PerformanceOK, HeldCoversSupply
    <3>6. paid = f.deposits + supply /\ got >= f.withdrawals /\ ahead = got + worth - paid
      BY <2>1, <3>3, <3>4
    <3> QED BY <1>4, <3>4, <3>5, <3>6
  <2> DEFINE read == [NoAnswer EXCEPT !.stage = "flows", !.cashFlows = f, !.ahead = ahead]
  <2>3. /\ read \in AnswerRecord /\ read.points = <<>> /\ read.stage = "flows" /\ read.cashFlows = f /\ read.ahead = ahead
    <3>1. NoFlows \in FlowRecord /\ <<>> \in Seq(Nat)
      BY DEF NoFlows, FlowRecord
    <3>2. NoAnswer \in AnswerRecord /\ NoAnswer.points = <<>>
      BY <3>1 DEF NoAnswer, AnswerRecord
    <3>3. read.points = NoAnswer.points /\ read.stage = "flows" /\ read.cashFlows = f /\ read.ahead = ahead
      BY <3>2 DEF AnswerRecord
    <3>4. read \in AnswerRecord
      BY <3>2 DEF AnswerRecord
    <3> QED BY <3>2, <3>3, <3>4
  <2>4. answer' = read
    BY <1>3, <1>6, <2>1 DEF ReadCashFlows
  <2> HIDE DEF read
  <2>5. AnswerIsCovered' /\ Len(answer'.points) # 1
    BY <2>2, <2>3, <2>4 DEF AnswerIsCovered
  <2> QED BY <1>5, <2>3, <2>4, <2>5
<1>7. CASE ShowPerformance
  <2>1. answer.stage = "flows" /\ f = answer.cashFlows /\ answer.ahead \in Int /\ f.withdrawals - f.deposits <= answer.ahead
    BY <1>2, <1>3, <1>7 DEF ShowPerformance, PerformanceOK, AnswerIsCovered, AnswerRecord
  <2>2. PICK earned \in Nat : earned = RealizedGains(f) /\ earned <= AtLeast(answer.ahead, 0)
    <3>1. RealizedGains(f) \in Nat /\ RealizedGains(f) <= AtLeast(answer.ahead, 0)
      BY <1>4, <2>1 DEF RealizedGains, GainsBeyondDeposits, AtLeast
    <3> QED BY <3>1
  <2>3. ASSUME NEW i \in DOMAIN observations PROVE observations[i] \in Int
    <3>1. observations[i] \in Nat \union {UnknownQuantity}
      BY <1>2
    <3> QED BY <3>1 DEF UnknownQuantity
  <2>4. CurrentValue \in Nat
    <3>1. CASE observations = <<>>
      BY <3>1 DEF CurrentValue
    <3>2. CASE observations # <<>>
      <4>1. Len(observations) \in DOMAIN observations
        BY <1>2, <3>2
      <4> QED BY <2>3, <3>2, <4>1 DEF CurrentValue, AtLeast
    <3> QED BY <3>1, <3>2
  <2>5. PICK unattributed \in Nat : unattributed = UnattributedInflow(f)
    <3>1. UnattributedInflow(f) \in Nat
      BY <1>4, <2>4 DEF UnattributedInflow, AtLeast
    <3> QED BY <3>1
  <2>6. PICK points \in Seq(Nat) : points = Points(f) /\ Len(points) # 1
    <3>1. CASE Len(observations) < 2
      <4>1. Points(f) = <<>> /\ <<>> \in Seq(Nat) /\ Len(<<>>) # 1
        BY <3>1 DEF Points
      <4> QED BY <4>1
    <3>2. CASE ~(Len(observations) < 2)
      <4>1. PICK n \in Nat : n = Len(observations) /\ DOMAIN observations = 1..n /\ n >= 2
        BY <1>2, <3>2
      <4>2. CostBasis(f) \in Int
        BY <1>4 DEF CostBasis, AtLeast
      <4>3. \A i \in 1..n : AtLeast(AtLeast(observations[i], 0) - CostBasis(f), 0) \in Nat
        BY <2>3, <4>1, <4>2 DEF AtLeast
      <4>4. Points(f) = [i \in 1..n |-> AtLeast(AtLeast(observations[i], 0) - CostBasis(f), 0)]
        BY <3>2, <4>1 DEF Points
      <4>5. PICK pts \in [1..n -> Nat] : pts = Points(f)
        BY <4>3, <4>4
      <4>6. Points(f) \in Seq(Nat) /\ Len(Points(f)) = n
        <5>1. pts \in Seq(Nat)
          BY <4>1
        <5>2. DOMAIN pts = 1..n /\ DOMAIN pts = 1..Len(pts) /\ Len(pts) \in Nat
          BY <5>1, LenProperties
        <5>3. Len(pts) = n
          BY <4>1, <5>2
        <5> QED BY <4>5, <5>1, <5>3
      <4>7. Len(Points(f)) # 1
        BY <4>1, <4>6
      <4> QED BY <4>6, <4>7
    <3> QED BY <3>1, <3>2
  <2> DEFINE new == [answer EXCEPT !.stage = "shown", !.earned = earned, !.unattributed = unattributed, !.points = points]
  <2>7. /\ new \in AnswerRecord /\ new.points = points /\ new.stage = "shown" /\ new.cashFlows = f
        /\ new.ahead = answer.ahead /\ new.earned = earned
    BY <1>2, <2>1 DEF AnswerRecord
  <2>8. answer' = new
    BY <1>7, <2>1, <2>2, <2>5, <2>6 DEF ShowPerformance
  <2> HIDE DEF new
  <2>9. AnswerIsCovered' /\ Len(answer'.points) # 1
    BY <2>1, <2>2, <2>6, <2>7, <2>8 DEF AnswerIsCovered
  <2> QED BY <1>5, <2>7, <2>8, <2>9
<1> QED BY <1>6, <1>7

\* attributeCashFlowYield: an owner is never told of more than it was ahead, whatever the rates, the fees, the moves
\* outside the platform and the workflows that end without completing.
THEOREM NoYieldIsInvented == PerformanceSpec => [](PerformanceTypeOK /\ EarnedIsAhead)
<1>1. PerformanceOK /\ [PerformanceNext]_performanceVars => PerformanceOK'
  <2> SUFFICES ASSUME PerformanceOK, [PerformanceNext]_performanceVars PROVE PerformanceOK'
    OBVIOUS
  <2>1. CASE UNCHANGED performanceVars
    BY <2>1 DEF performanceVars, PerformanceOK, PerformanceTypes, PaidInIsFlown, GotOutCoversFlows, HeldCoversSupply,
                QuotedAtMostWorth, AnswerIsCovered, Underway, Worth
  <2>2. CASE PerformanceNext
    BY <2>2, RateRisesKeepsPerformance, QuoteKeepsPerformance, ExecuteKeepsPerformance, CompleteKeepsPerformance,
       EndKeepsPerformance, MoveOutsideKeepsPerformance, ObserveKeepsPerformance, AnswerKeepsPerformance
       DEF PerformanceNext
  <2> QED BY <2>1, <2>2
<1>2. PerformanceOK => PerformanceTypeOK /\ EarnedIsAhead
  BY DEF PerformanceOK, PerformanceTypes, AnswerIsCovered, PerformanceTypeOK, EarnedIsAhead, AnswerRecord, FlowRecord
<1> QED BY <1>1, <1>2, PerformanceStarts, PTL DEF PerformanceSpec

-----------------------------------------------------------------------------
(* Whose rows a request reaches. *)

\* The key a cursor carries of a row.
KeyOf(row) == [id |-> row.id, createdAt |-> row.createdAt]

EndpointTypes ==
  /\ caller \in Principals /\ listRead \in {"workflows", "markets"}
  /\ asked \in [owner : Addresses \union {NoOwner}, network : Networks]
  /\ listRows \subseteq Rows /\ \A a, b \in listRows : a.id = b.id => a = b
  /\ paging \in [stage : {"first", "next", "done", "unfinished"}, items : Seq(listRows),
                 cursor : [id : Nat \union {-1}, createdAt : Nat \union {-1}], pages : 0..MaxPages, atStart : SUBSET listRows]
  /\ reached \in [app : ListApps \union {NoOwner}, owner : Addresses \union {NoOwner}]

\* The rows given so far are of the list and in its order.
Ordered(items) == \A i, j \in DOMAIN items : i < j => Precedes(items[i], items[j])
GivenInOrder == Ordered(paging.items) /\ \A i \in DOMAIN paging.items : InList(paging.items[i])

\* What there was when the list was begun has been given, or is beyond the cursor.
NothingPassedOver ==
  /\ \A row \in paging.atStart : InList(row)
  /\ paging.stage = "first" => paging.items = <<>> /\ paging.cursor = NoCursor /\ paging.pages = 0
  /\ paging.stage = "next" =>
       /\ paging.pages < MaxPages /\ paging.items # <<>> /\ paging.cursor = KeyOf(paging.items[Len(paging.items)])
       /\ \A row \in paging.atStart : (\E i \in DOMAIN paging.items : paging.items[i] = row) \/ Precedes(paging.cursor, row)
  /\ paging.stage = "done" => \A row \in paging.atStart : \E i \in DOMAIN paging.items : paging.items[i] = row

ReachesItsOwn ==
  reached # NotReached => reached.app = caller.app /\ (caller.kind = "session" => reached.owner = caller.address)

EndpointsOK == EndpointTypes /\ GivenInOrder /\ NothingPassedOver /\ ReachesItsOwn

\* The order of a list is strict, and the same of a row and of its key.
LEMMA OrderOfRows ==
  /\ \A a \in Rows : ~Precedes(a, a) /\ KeyOf(a) # NoCursor
  /\ \A a, b, c \in Rows : Precedes(a, b) /\ Precedes(b, c) => Precedes(a, c)
  /\ \A a, b \in Rows : Precedes(KeyOf(a), b) <=> Precedes(a, b)
<1>1. \A a \in Rows : a.id \in Nat /\ a.createdAt \in Nat
  BY EndpointsAssumption DEF Rows
<1>2. \A a \in Rows : ~Precedes(a, a)
  BY <1>1 DEF Precedes
<1>3. \A a \in Rows : KeyOf(a) # NoCursor
  BY <1>1 DEF KeyOf, NoCursor
<1>4. \A a, b, c \in Rows : Precedes(a, b) /\ Precedes(b, c) => Precedes(a, c)
  BY <1>1 DEF Precedes
<1>5. \A a, b \in Rows : Precedes(KeyOf(a), b) <=> Precedes(a, b)
  BY DEF Precedes, KeyOf
<1> QED BY <1>2, <1>3, <1>4, <1>5

\* Principals are keys, sessions of an address, and client ids.
LEMMA PrincipalsAct ==
  ASSUME EndpointTypes
  PROVE  /\ caller.app = CallersApp /\ CallersApp \in ListApps /\ caller.address \in Addresses \union {NoOwner}
         /\ caller.kind \in {"key", "session", "client"}
         /\ caller.kind = "session" => caller.address \in Addresses /\ caller.address # NoOwner
BY EndpointsAssumption DEF EndpointTypes, Principals

\* A list of workflows holds no row that is not the caller's.
LEMMA ListIsItsOwn ==
  ASSUME EndpointTypes, listRead = "workflows", NEW row, InList(row)
  PROVE  row.app = caller.app /\ (caller.kind = "session" => row.owner = caller.address)
BY PrincipalsAct DEF InList, OfTenant, OwnerFilter

LEMMA EndpointsStart ==
  ASSUME EndpointsInit
  PROVE  EndpointsOK
<1>1. <<>> \in Seq(listRows) /\ NoCursor \in [id : Nat \union {-1}, createdAt : Nat \union {-1}] /\ 0 \in 0..MaxPages
  BY EndpointsAssumption DEF NoCursor
<1>2. NotReached \in [app : ListApps \union {NoOwner}, owner : Addresses \union {NoOwner}]
  BY DEF NotReached
<1>3. EndpointTypes
  BY <1>1, <1>2 DEF EndpointsInit, EndpointTypes
<1> QED BY <1>3 DEF EndpointsInit, EndpointsOK, GivenInOrder, Ordered, NothingPassedOver, ReachesItsOwn

\* A row is added behind or before the cursor, at any time.
LEMMA AddingKeepsEndpoints ==
  ASSUME EndpointsOK, RowIsAdded
  PROVE  EndpointsOK'
<1>1. PICK row \in Rows : (\A other \in listRows : other.id # row.id) /\ listRows' = listRows \union {row}
  BY DEF RowIsAdded
<1>2. UNCHANGED <<caller, listRead, asked, paging, reached>>
  BY DEF RowIsAdded
<1>3. listRows' \subseteq Rows /\ \A a, b \in listRows' : a.id = b.id => a = b
  BY <1>1 DEF EndpointsOK, EndpointTypes
<1>4. paging.items \in Seq(listRows) => paging.items \in Seq(listRows')
  <2>1. ASSUME NEW s \in Seq(listRows) PROVE s \in Seq(listRows')
    BY <1>1
  <2> QED BY <2>1
<1>5. paging \in [stage : {"first", "next", "done", "unfinished"}, items : Seq(listRows'),
                 cursor : [id : Nat \union {-1}, createdAt : Nat \union {-1}], pages : 0..MaxPages, atStart : SUBSET listRows']
  BY <1>1, <1>4 DEF EndpointsOK, EndpointTypes
<1>6. EndpointTypes'
  BY <1>2, <1>3, <1>5 DEF EndpointsOK, EndpointTypes
<1> QED BY <1>2, <1>6 DEF EndpointsOK, GivenInOrder, Ordered, NothingPassedOver, ReachesItsOwn, Precedes, InList, OfTenant, OwnerFilter

\* What there was when the list was begun: the first page begins it.
StartOf(stage) == IF stage = "first" THEN {row \in listRows : InList(row)} ELSE paging.atStart

\* What a page holds: of the list, in its order, beyond what was given, and no row left out before its last.
LEMMA PageFollows ==
  ASSUME EndpointsOK, paging.stage \in {"first", "next"},
         NEW length \in 0..(PageLimit + 1), NEW page \in [1..length -> listRows], Fetched(page),
         NEW kept \in Nat, kept = IF length > PageLimit THEN PageLimit ELSE length
  PROVE  /\ kept <= length /\ SubSeq(page, 1, kept) \in Seq(listRows) /\ Len(SubSeq(page, 1, kept)) = kept
         /\ \A i \in 1..kept : SubSeq(page, 1, kept)[i] = page[i]
         /\ \A i \in 1..length : InList(page[i])
         /\ \A i, j \in 1..length : i < j => Precedes(page[i], page[j])
         /\ \A i \in DOMAIN paging.items, j \in 1..length : Precedes(paging.items[i], page[j])
         /\ \A row \in StartOf(paging.stage) :
              \/ \E i \in DOMAIN paging.items : paging.items[i] = row
              \/ \E j \in 1..kept : page[j] = row
              \/ length > PageLimit /\ Precedes(page[kept], row)
<1> DEFINE beyond == {row \in listRows : InList(row) /\ Beyond(paging.cursor, row)}
<1>1. length \in Nat /\ PageLimit \in Nat \ {0} /\ kept <= length /\ DOMAIN page = 1..length
  <2>1. PageLimit \in Nat \ {0}
    BY EndpointsAssumption
  <2> QED BY <2>1
<1>2. page \in Seq(listRows) /\ Len(page) = length
  <2>1. page \in Seq(listRows)
    BY <1>1
  <2>2. DOMAIN page = 1..Len(page) /\ Len(page) \in Nat
    BY <2>1, LenProperties
  <2> QED BY <1>1, <2>1, <2>2
<1>3. SubSeq(page, 1, kept) = [i \in 1..kept |-> page[i]]
  BY <1>1, <1>2
<1>4. PICK fits \in [1..kept -> listRows] : fits = SubSeq(page, 1, kept) /\ \A i \in 1..kept : fits[i] = page[i]
  <2>1. \A i \in 1..kept : i \in 1..length /\ page[i] \in listRows
    BY <1>1
  <2> QED BY <1>3, <2>1
<1>5. fits \in Seq(listRows) /\ Len(fits) = kept
  <2>1. fits \in Seq(listRows) /\ DOMAIN fits = 1..kept
    BY <1>4
  <2>2. DOMAIN fits = 1..Len(fits) /\ Len(fits) \in Nat
    BY <2>1, LenProperties
  <2> QED BY <2>1, <2>2
<1>6. /\ \A i \in 1..length : page[i] \in beyond
      /\ \A i, j \in 1..length : i < j => Precedes(page[i], page[j])
      /\ \A row \in beyond : (\E i \in 1..length : page[i] = row)
                             \/ (length = PageLimit + 1 /\ \A i \in 1..length : Precedes(page[i], row))
  BY <1>1, <1>2 DEF Fetched
<1>7. listRows \subseteq Rows /\ paging.items \in Seq(listRows)
  BY DEF EndpointsOK, EndpointTypes
<1>8. \A i \in DOMAIN paging.items : paging.items[i] \in Rows
  BY <1>7
<1>9. ASSUME NEW i \in DOMAIN paging.items, NEW j \in 1..length PROVE Precedes(paging.items[i], page[j])
  <2>1. paging.items # <<>>
    BY <1>7
  <2>2. paging.stage = "next" /\ paging.cursor = KeyOf(paging.items[Len(paging.items)])
    BY <2>1 DEF EndpointsOK, NothingPassedOver
  <2>3. PICK n \in Nat : n = Len(paging.items) /\ n \in DOMAIN paging.items /\ i <= n /\ i \in Nat
    BY <1>7, <2>1
  <2>4. page[j] \in listRows /\ page[j] \in Rows /\ Beyond(paging.cursor, page[j])
    BY <1>6, <1>7
  <2>5. Precedes(paging.items[n], page[j])
    BY <1>8, <2>2, <2>3, <2>4, OrderOfRows DEF Beyond
  <2>6. i = n \/ Precedes(paging.items[i], paging.items[n])
    BY <2>3 DEF EndpointsOK, GivenInOrder, Ordered
  <2> QED BY <1>8, <2>3, <2>4, <2>5, <2>6, OrderOfRows
<1>10. ASSUME NEW row \in StartOf(paging.stage)
       PROVE  (\E i \in DOMAIN paging.items : paging.items[i] = row) \/ row \in beyond
  <2>1. row \in listRows /\ InList(row)
    BY DEF StartOf, EndpointsOK, EndpointTypes, NothingPassedOver
  <2>2. CASE paging.stage = "first"
    BY <2>1, <2>2 DEF EndpointsOK, NothingPassedOver, Beyond
  <2>3. CASE paging.stage = "next"
    BY <2>1, <2>3 DEF EndpointsOK, NothingPassedOver, Beyond, StartOf
  <2> QED BY <2>2, <2>3
<1>11. ASSUME NEW row \in beyond
       PROVE  (\E j \in 1..kept : page[j] = row) \/ (length > PageLimit /\ Precedes(page[kept], row))
  <2>1. CASE length > PageLimit
    <3>1. kept = PageLimit /\ length = kept + 1 /\ kept \in 1..length /\ length \in 1..length
      BY <1>1, <2>1
    <3>2. CASE \E i \in 1..length : page[i] = row
      <4>1. PICK i \in 1..length : page[i] = row
        BY <3>2
      <4>2. i \in 1..kept \/ (i = length /\ kept < i)
        BY <3>1
      <4> QED BY <1>6, <2>1, <3>1, <4>1, <4>2
    <3> QED BY <1>6, <2>1, <3>1, <3>2
  <2>2. CASE ~(length > PageLimit)
    BY <1>1, <1>6, <2>2
  <2> QED BY <2>1, <2>2
<1>12. \A i \in 1..length : InList(page[i])
  BY <1>6
<1> HIDE DEF beyond
<1>13. \A row \in StartOf(paging.stage) :
              \/ \E i \in DOMAIN paging.items : paging.items[i] = row
              \/ \E j \in 1..kept : page[j] = row
              \/ length > PageLimit /\ Precedes(page[kept], row)
  BY <1>10, <1>11
<1> QED BY <1>1, <1>4, <1>5, <1>6, <1>9, <1>12, <1>13

LEMMA PageKeepsEndpoints ==
  ASSUME EndpointsOK, ReadPage
  PROVE  EndpointsOK'
<1>1. PICK length \in 0..(PageLimit + 1) : \E page \in [1..length -> listRows] :
        /\ Fetched(page)
        /\ paging' = [stage |-> IF ~(length > PageLimit) THEN "done"
                                ELSE IF paging.pages + 1 = MaxPages THEN "unfinished" ELSE "next",
                      items |-> paging.items \o SubSeq(page, 1, IF length > PageLimit THEN PageLimit ELSE length),
                      cursor |-> NextCursor(SubSeq(page, 1, IF length > PageLimit THEN PageLimit ELSE length), length > PageLimit),
                      pages |-> paging.pages + 1,
                      atStart |-> IF paging.stage = "first" THEN {row \in listRows : InList(row)} ELSE paging.atStart]
  BY DEF ReadPage
<1>2. UNCHANGED <<caller, listRead, asked, listRows, reached>> /\ paging.stage \in {"first", "next"}
  BY DEF ReadPage
<1>3. PageLimit \in Nat \ {0} /\ MaxPages \in Nat \ {0}
  <2>1. {PageLimit, MaxPages} \subseteq Nat \ {0}
    BY EndpointsAssumption
  <2> QED BY <2>1
<1>4. PICK kept \in Nat : kept = (IF length > PageLimit THEN PageLimit ELSE length) /\ (length > PageLimit => kept # 0)
  BY <1>3
<1>5. PICK page \in [1..length -> listRows] :
        /\ Fetched(page)
        /\ paging' = [stage |-> IF ~(length > PageLimit) THEN "done"
                                ELSE IF paging.pages + 1 = MaxPages THEN "unfinished" ELSE "next",
                      items |-> paging.items \o SubSeq(page, 1, kept),
                      cursor |-> NextCursor(SubSeq(page, 1, kept), length > PageLimit),
                      pages |-> paging.pages + 1,
                      atStart |-> StartOf(paging.stage)]
  BY <1>1, <1>4 DEF StartOf
<1>6. PICK fits \in Seq(listRows) :
         /\ fits = SubSeq(page, 1, kept) /\ Len(fits) = kept /\ kept <= length /\ DOMAIN fits = 1..kept
         /\ \A i \in 1..kept : fits[i] = page[i] /\ InList(fits[i])
         /\ \A i, j \in 1..kept : i < j => Precedes(fits[i], fits[j])
         /\ \A i \in DOMAIN paging.items, j \in 1..kept : Precedes(paging.items[i], fits[j])
  <2>1. kept <= length /\ \A i \in 1..kept : i \in 1..length
    BY <1>3, <1>4
  <2>2. SubSeq(page, 1, kept) \in Seq(listRows) /\ Len(SubSeq(page, 1, kept)) = kept
    BY <1>2, <1>4, <1>5, PageFollows
  <2>3. PICK fits \in Seq(listRows) : fits = SubSeq(page, 1, kept) /\ Len(fits) = kept
    BY <2>2
  <2>4. \A i \in 1..kept : fits[i] = page[i] /\ InList(fits[i])
    BY <1>2, <1>4, <1>5, <2>1, <2>3, PageFollows
  <2>5. \A i, j \in 1..kept : i < j => Precedes(fits[i], fits[j])
    <3>1. \A i, j \in 1..length : i < j => Precedes(page[i], page[j])
      BY <1>2, <1>4, <1>5, PageFollows
    <3>2. ASSUME NEW i \in 1..kept, NEW j \in 1..kept, i < j PROVE Precedes(fits[i], fits[j])
      <4>1. i \in 1..length /\ j \in 1..length /\ fits[i] = page[i] /\ fits[j] = page[j]
        BY <2>1, <2>4
      <4> QED BY <3>1, <3>2, <4>1
    <3> QED BY <3>2
  <2>6. \A i \in DOMAIN paging.items, j \in 1..kept : Precedes(paging.items[i], fits[j])
    <3>1. \A i \in DOMAIN paging.items, j \in 1..length : Precedes(paging.items[i], page[j])
      BY <1>2, <1>4, <1>5, PageFollows
    <3>2. ASSUME NEW i \in DOMAIN paging.items, NEW j \in 1..kept PROVE Precedes(paging.items[i], fits[j])
      <4>1. j \in 1..length /\ fits[j] = page[j]
        BY <2>1, <2>4
      <4> QED BY <3>1, <4>1
    <3> QED BY <3>2
  <2>7. DOMAIN fits = 1..kept
    BY <2>3, LenProperties
  <2> QED BY <2>1, <2>3, <2>4, <2>5, <2>6, <2>7
<1>7. \A row \in StartOf(paging.stage) :
         \/ \E i \in DOMAIN paging.items : paging.items[i] = row
         \/ \E j \in 1..kept : fits[j] = row
         \/ length > PageLimit /\ Precedes(fits[kept], row)
  <2>1. \A row \in StartOf(paging.stage) :
         \/ \E i \in DOMAIN paging.items : paging.items[i] = row
         \/ \E j \in 1..kept : page[j] = row
         \/ length > PageLimit /\ Precedes(page[kept], row)
    BY <1>2, <1>4, <1>5, PageFollows
  <2>2. length > PageLimit => kept \in 1..kept
    BY <1>4
  <2> QED BY <1>6, <2>1, <2>2
<1>8. PICK held \in Nat : held = Len(paging.items) /\ DOMAIN paging.items = 1..held /\ paging.items \in Seq(listRows)
  BY DEF EndpointsOK, EndpointTypes
<1>9. PICK new \in Seq(listRows) :
         /\ new = paging.items \o fits /\ Len(new) = held + kept /\ DOMAIN new = 1..(held + kept)
         /\ \A i \in 1..held : new[i] = paging.items[i]
         /\ \A j \in 1..kept : new[held + j] = fits[j]
  <2>1. PICK items \in Seq(listRows) : items = paging.items /\ Len(items) = held
    BY <1>8
  <2>2. items \o fits \in Seq(listRows) /\ Len(items \o fits) = held + kept
        /\ \A i \in 1..(held + kept) : (items \o fits)[i] = IF i <= held THEN items[i] ELSE fits[i - held]
    <3>1. items \o fits \in Seq(listRows) /\ Len(items \o fits) = Len(items) + Len(fits)
          /\ \A i \in 1..(Len(items) + Len(fits)) :
                (items \o fits)[i] = IF i <= Len(items) THEN items[i] ELSE fits[i - Len(items)]
      BY ConcatProperties
    <3>2. Len(items) = held /\ Len(fits) = kept
      BY <1>6, <2>1
    <3> QED BY <3>1, <3>2
  <2>3. PICK new \in Seq(listRows) : new = items \o fits /\ Len(new) = held + kept
        /\ \A i \in 1..(held + kept) : new[i] = IF i <= held THEN items[i] ELSE fits[i - held]
    BY <2>2
  <2>4. \A i \in 1..held : new[i] = items[i]
    <3>1. \A i \in 1..held : i \in 1..(held + kept) /\ i <= held
      OBVIOUS
    <3> QED BY <2>3, <3>1
  <2>5. \A j \in 1..kept : new[held + j] = fits[j]
    <3>1. \A j \in 1..kept : held + j \in 1..(held + kept) /\ ~(held + j <= held) /\ (held + j) - held = j
      OBVIOUS
    <3> QED BY <2>3, <3>1
  <2>6. DOMAIN new = 1..(held + kept)
    BY <2>3, LenProperties
  <2> QED BY <2>1, <2>3, <2>4, <2>5, <2>6
<1>10. \A i \in 1..(held + kept) : i \in 1..held \/ \E j \in 1..kept : i = held + j
  <2>1. ASSUME NEW i \in 1..(held + kept), ~(i \in 1..held) PROVE i - held \in 1..kept /\ i = held + (i - held)
    BY <2>1
  <2> QED BY <2>1
<1>11. Ordered(new) /\ \A i \in DOMAIN new : InList(new[i])
  <2>1. ASSUME NEW i \in 1..(held + kept), NEW j \in 1..(held + kept), i < j PROVE Precedes(new[i], new[j])
    <3>1. CASE j \in 1..held
      <4>1. i \in 1..held
        BY <2>1, <3>1
      <4> QED BY <1>8, <1>9, <2>1, <3>1, <4>1 DEF EndpointsOK, GivenInOrder, Ordered
    <3>2. ASSUME NEW b \in 1..kept, j = held + b PROVE Precedes(new[i], new[j])
      <4>1. CASE i \in 1..held
        BY <1>6, <1>8, <1>9, <3>2, <4>1
      <4>2. ASSUME NEW a \in 1..kept, i = held + a PROVE Precedes(new[i], new[j])
        <5>1. a < b
          BY <2>1, <3>2, <4>2
        <5> QED BY <1>6, <1>9, <3>2, <4>2, <5>1
      <4> QED BY <1>10, <4>1, <4>2
    <3> QED BY <1>10, <3>1, <3>2
  <2>2. ASSUME NEW i \in 1..(held + kept) PROVE InList(new[i])
    <3>1. CASE i \in 1..held
      BY <1>8, <1>9, <3>1 DEF EndpointsOK, GivenInOrder
    <3>2. CASE \E j \in 1..kept : i = held + j
      BY <1>6, <1>9, <3>2
    <3> QED BY <1>10, <3>1, <3>2
  <2> QED BY <1>9, <2>1, <2>2 DEF Ordered
<1>12. ASSUME NEW row, (\E i \in DOMAIN paging.items : paging.items[i] = row) \/ (\E j \in 1..kept : fits[j] = row)
       PROVE  \E i \in DOMAIN new : new[i] = row
  <2>1. \A i \in 1..held : i \in DOMAIN new
    BY <1>9
  <2>2. \A j \in 1..kept : held + j \in DOMAIN new
    BY <1>9
  <2> QED BY <1>8, <1>9, <1>12, <2>1, <2>2
<1>13. PICK start \in SUBSET listRows : start = StartOf(paging.stage) /\ \A row \in start : InList(row)
  BY DEF StartOf, EndpointsOK, EndpointTypes, NothingPassedOver
<1>14. \A row : InList(row)' <=> InList(row)
  BY <1>2 DEF InList, OfTenant, OwnerFilter
<1>15. \A a, b : Precedes(a, b)' <=> Precedes(a, b)
  BY <1>2 DEF Precedes
<1>16. PICK cursor \in [id : Nat \union {-1}, createdAt : Nat \union {-1}] :
         /\ cursor = NextCursor(fits, length > PageLimit)
         /\ length > PageLimit => cursor = KeyOf(fits[kept])
  <2>1. CASE length > PageLimit
    <3>1. kept \in 1..kept /\ fits[kept] \in listRows
      BY <1>4, <1>6, <2>1
    <3>2. fits[kept].id \in Nat /\ fits[kept].createdAt \in Nat
      BY <3>1, EndpointsAssumption DEF EndpointsOK, EndpointTypes, Rows
    <3> QED BY <1>6, <2>1, <3>2 DEF NextCursor, KeyOf
  <2>2. CASE ~(length > PageLimit)
    <3>1. NextCursor(fits, length > PageLimit) = NoCursor
      BY <2>2 DEF NextCursor
    <3>2. NoCursor \in [id : Nat \union {-1}, createdAt : Nat \union {-1}]
      BY DEF NoCursor
    <3> QED BY <2>2, <3>1, <3>2
  <2> QED BY <2>1, <2>2
<1>17. /\ paging'.items = new /\ paging'.atStart = start /\ paging'.cursor = cursor /\ paging'.pages = paging.pages + 1
       /\ paging'.stage = IF ~(length > PageLimit) THEN "done"
                          ELSE IF paging.pages + 1 = MaxPages THEN "unfinished" ELSE "next"
       /\ paging' = [stage |-> paging'.stage, items |-> new, cursor |-> cursor, pages |-> paging.pages + 1, atStart |-> start]
  BY <1>5, <1>6, <1>9, <1>13, <1>16
<1>18. paging.pages + 1 \in 0..MaxPages
  BY <1>2, <1>3 DEF EndpointsOK, EndpointTypes, NothingPassedOver
<1>19. EndpointTypes'
  BY <1>2, <1>17, <1>18 DEF EndpointsOK, EndpointTypes
<1>20. GivenInOrder'
  BY <1>11, <1>14, <1>15, <1>17 DEF GivenInOrder, Ordered
<1>21. NothingPassedOver'
  <2>1. \A row \in start : (\E i \in DOMAIN new : new[i] = row) \/ (length > PageLimit /\ Precedes(fits[kept], row))
    BY <1>7, <1>12, <1>13
  <2>2. length > PageLimit => new # <<>> /\ new[Len(new)] = fits[kept] /\ fits[kept] \in Rows
    <3>1. ASSUME length > PageLimit PROVE kept \in 1..kept /\ Len(new) = held + kept /\ fits[kept] \in Rows
      <4>1. kept \in 1..kept /\ fits[kept] \in listRows
        BY <1>4, <1>6, <3>1
      <4>2. fits[kept] \in Rows
        BY <4>1 DEF EndpointsOK, EndpointTypes
      <4>3. Len(new) = held + kept
        BY <1>9
      <4> QED BY <4>1, <4>2, <4>3
    <3>2. length > PageLimit => kept \in 1..kept /\ Len(new) = held + kept /\ fits[kept] \in Rows
      BY <3>1
    <3>3. kept \in 1..kept => new[held + kept] = fits[kept]
      BY <1>9
    <3>4. kept \in 1..kept /\ Len(new) = held + kept => Len(new) # 0
      OBVIOUS
    <3>5. Len(new) # 0 => new # <<>>
      OBVIOUS
    <3> HIDE <3>1
    <3> QED BY <3>2, <3>3, <3>4, <3>5
  <2>3. length > PageLimit => \A row \in start : Precedes(fits[kept], row) => Precedes(cursor, row)
    BY <1>16, <2>2, OrderOfRows DEF EndpointsOK, EndpointTypes
  <2>4. (\A row \in paging'.atStart : InList(row)')
    BY <1>13, <1>14, <1>17
  <2>5. paging'.stage = "next" => paging.pages + 1 < MaxPages
    BY <1>17, <1>18, <1>3
  <2> QED BY <1>15, <1>16, <1>17, <2>1, <2>2, <2>3, <2>4, <2>5 DEF NothingPassedOver, KeyOf
<1> QED BY <1>2, <1>19, <1>20, <1>21 DEF EndpointsOK, ReachesItsOwn

\* The other routes: whose row each reaches.
LEMMA RoutesKeepEndpoints ==
  ASSUME EndpointsOK,
         ReadPositions \/ ReadShared \/ ReadRisk \/ ActFor \/ ManageWebhooks
           \/ \E row \in listRows : ReadOneWorkflow(row) \/ ReportSignature(row)
  PROVE  EndpointsOK'
<1>1. UNCHANGED <<caller, listRead, asked, listRows, paging>>
  BY DEF ReadPositions, ReadShared, ReadRisk, ActFor, ManageWebhooks, ReadOneWorkflow, ReportSignature, Reaches
<1>2. OwnerFilter \in Addresses \union {NoOwner} /\ (caller.kind = "session" => OwnerFilter = caller.address)
  BY PrincipalsAct DEF EndpointsOK, OwnerFilter, EndpointTypes
<1>3. ASSUME NEW owner \in Addresses \union {NoOwner}, NEW app, app = caller.app,
             caller.kind = "session" => owner = caller.address, reached' = [app |-> app, owner |-> owner]
      PROVE  EndpointsOK'
  <2>1. reached' \in [app : ListApps \union {NoOwner}, owner : Addresses \union {NoOwner}]
    BY <1>3, PrincipalsAct DEF EndpointsOK
  <2>2. ReachesItsOwn'
    BY <1>1, <1>3 DEF ReachesItsOwn
  <2>3. EndpointTypes'
    BY <1>1, <2>1 DEF EndpointsOK, EndpointTypes
  <2> QED BY <1>1, <2>2, <2>3 DEF EndpointsOK, GivenInOrder, Ordered, NothingPassedOver, Precedes, InList, OfTenant, OwnerFilter
<1>4. CASE ReadPositions \/ ReadRisk \/ ActFor
  BY <1>2, <1>3, <1>4 DEF ReadPositions, ReadRisk, ActFor, Reaches
<1>5. CASE ManageWebhooks
  BY <1>3, <1>5 DEF ManageWebhooks, Reaches
<1>6. CASE ReadShared
  <2>1. reached' = NotReached /\ NotReached \in [app : ListApps \union {NoOwner}, owner : Addresses \union {NoOwner}]
    BY <1>6 DEF ReadShared, NotReached
  <2>2. EndpointTypes' /\ ReachesItsOwn'
    BY <1>1, <2>1 DEF EndpointsOK, EndpointTypes, ReachesItsOwn, NotReached
  <2> QED BY <1>1, <2>2 DEF EndpointsOK, GivenInOrder, Ordered, NothingPassedOver, Precedes, InList, OfTenant, OwnerFilter
<1>7. ASSUME NEW row \in listRows, ReadOneWorkflow(row) \/ ReportSignature(row) PROVE EndpointsOK'
  <2>1. FoundForTenant(row) /\ reached' = [app |-> row.app, owner |-> row.owner] /\ row.owner \in Addresses
    BY <1>7 DEF ReadOneWorkflow, ReportSignature, Reaches, EndpointsOK, EndpointTypes, Rows
  <2>2. row.app = caller.app /\ (caller.kind = "session" => row.owner = caller.address)
    BY <2>1, PrincipalsAct DEF FoundForTenant, OfTenant, EndpointsOK
  <2> QED BY <1>3, <2>1, <2>2
<1> QED BY <1>4, <1>5, <1>6, <1>7

\* The tenant filters and keyset cursors of identity.ts and registry.ts: whatever rows are added while a list is read,
\* however many share a time and however small the page, what was there is given once and nobody reaches another's.
THEOREM OwnRowsAreGivenOnce == EndpointsSpec => [](EndpointsTypeOK /\ OwnRowsOnce)
<1>1. EndpointsOK /\ [EndpointsNext]_endpointVars => EndpointsOK'
  <2> SUFFICES ASSUME EndpointsOK, [EndpointsNext]_endpointVars PROVE EndpointsOK'
    OBVIOUS
  <2>1. CASE UNCHANGED endpointVars
    BY <2>1 DEF endpointVars, EndpointsOK, EndpointTypes, GivenInOrder, Ordered, NothingPassedOver, ReachesItsOwn, Precedes,
                InList, OfTenant, OwnerFilter
  <2>2. CASE EndpointsNext
    BY <2>2, AddingKeepsEndpoints, PageKeepsEndpoints, RoutesKeepEndpoints DEF EndpointsNext
  <2> QED BY <2>1, <2>2
<1>2. EndpointsOK => EndpointsTypeOK
  BY DEF EndpointsOK, EndpointTypes, EndpointsTypeOK
<1>3. EndpointsOK => OwnRowsOnce
  <2> SUFFICES ASSUME EndpointsOK PROVE OwnRowsOnce
    OBVIOUS
  <2>1. \A i \in DOMAIN paging.items : paging.items[i] \in Rows /\ InList(paging.items[i])
    BY DEF EndpointsOK, EndpointTypes, GivenInOrder
  <2>2. \A i, j \in DOMAIN paging.items : i < j => paging.items[i] # paging.items[j]
    BY <2>1, OrderOfRows DEF EndpointsOK, GivenInOrder, Ordered
  <2>3. listRead = "workflows" => \A i \in DOMAIN paging.items :
          paging.items[i].app = caller.app /\ (caller.kind = "session" => paging.items[i].owner = caller.address)
    BY <2>1, ListIsItsOwn DEF EndpointsOK
  <2> QED BY <2>2, <2>3 DEF EndpointsOK, NothingPassedOver, ReachesItsOwn, OwnRowsOnce
<1> QED BY <1>1, <1>2, <1>3, EndpointsStart, PTL DEF EndpointsSpec
=============================================================================
