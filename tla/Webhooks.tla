------------------------------ MODULE Webhooks ------------------------------
(* Webhook endpoints and the delivery of events to them                     *)
(* (packages/database/src/webhooks.ts and the webhook routes of             *)
(* apps/api/src/app.ts). The repository holds the table and what one        *)
(* attempt does to it; who picks the pending deliveries up and posts them   *)
(* is not in it, so the dispatchers below are external: two of them may try *)
(* the same delivery at once, and their outcomes arrive in any order.       *)
EXTENDS Integers, FiniteSets

CONSTANTS
  Events, Recorders, Dispatchers,
  MaxAttempts,      \* webhook_deliveries.max_attempts
  MaxTries,         \* bound on the posts made for one event
  NoDelivery

ASSUME WebhooksAssumption == MaxAttempts \in Nat \ {0} /\ MaxTries \in Nat /\ IsFiniteSet(Dispatchers)

VARIABLES
  active,       \* the endpoint of the application is active
  delivery,     \* the webhook_deliveries row of each event
  recorder,     \* a producer recording an event: what it was answered
  dispatcher,   \* a post in progress
  tries         \* posts that have ended, per event

webhookVars == <<active, delivery, recorder, dispatcher, tries>>

NoRow == [id |-> NoDelivery, status |-> "none", attempts |-> 0]
Resting == [at |-> "idle", event |-> NoDelivery, read |-> 0]

WebhooksInit ==
  /\ active = FALSE
  /\ delivery = [e \in Events |-> NoRow]
  /\ recorder = [r \in Recorders |-> [at |-> "idle", event |-> NoDelivery, answer |-> NoDelivery]]
  /\ dispatcher = [d \in Dispatchers |-> Resting]
  /\ tries = [e \in Events |-> 0]

CreateWebhookEndpoint ==
  /\ ~active /\ active' = TRUE
  /\ UNCHANGED <<delivery, recorder, dispatcher, tries>>

\* The endpoint is switched off, never removed: its deliveries keep their rows.
DeleteWebhookEndpoint ==
  /\ active /\ active' = FALSE
  /\ UNCHANGED <<delivery, recorder, dispatcher, tries>>

---------------------------------------------------------------------------
(* recordWebhookDelivery: INSERT ... ON CONFLICT, then the row that was there. *)

\* The unique key (endpoint_id, event_id) decides between two inserts.
Inserts(e) == delivery[e].status = "none"

InsertDelivery(r, e) ==
  /\ recorder[r].at = "idle" /\ active
  /\ IF Inserts(e)
     THEN /\ delivery' = [delivery EXCEPT ![e] = [id |-> r, status |-> "pending", attempts |-> 0]]
          /\ recorder' = [recorder EXCEPT ![r] = [at |-> "answered", event |-> e, answer |-> r]]
     ELSE /\ recorder' = [recorder EXCEPT ![r] = [@ EXCEPT !.at = "existing", !.event = e]]
          /\ UNCHANGED delivery
  /\ UNCHANGED <<active, dispatcher, tries>>

FindDelivery(r) ==
  /\ recorder[r].at = "existing"
  /\ recorder' = [recorder EXCEPT ![r].at = "answered", ![r].answer = delivery[recorder[r].event].id]
  /\ UNCHANGED <<active, delivery, dispatcher, tries>>

---------------------------------------------------------------------------
(* processWebhookDeliveryAttempt *)

Post(d, e) ==
  /\ dispatcher[d].at = "idle" /\ delivery[e].status = "pending"
  /\ dispatcher' = [dispatcher EXCEPT ![d] = [Resting EXCEPT !.at = "posting", !.event = e]]
  /\ UNCHANGED <<active, delivery, recorder, tries>>

\* One UPDATE that looks at nothing: delivered wins over whatever the row says.
Delivered(d) ==
  /\ dispatcher[d].at = "posting"
  /\ LET e == dispatcher[d].event
     IN  /\ delivery' = [delivery EXCEPT ![e].status = "delivered", ![e].attempts = @ + 1]
         /\ tries' = [tries EXCEPT ![e] = @ + 1]
  /\ dispatcher' = [dispatcher EXCEPT ![d] = Resting]
  /\ UNCHANGED <<active, recorder>>

\* A failure reads the counter first ...
ReadAttempts(d) ==
  /\ dispatcher[d].at = "posting" /\ tries[dispatcher[d].event] < MaxTries
  /\ dispatcher' = [dispatcher EXCEPT ![d].at = "failing", ![d].read = delivery[dispatcher[d].event].attempts]
  /\ tries' = [tries EXCEPT ![dispatcher[d].event] = @ + 1]
  /\ UNCHANGED <<active, delivery, recorder>>

\* The mutated form: one attempt too few.
AbandonsEarly(nextAttempt) == nextAttempt + 1 >= MaxAttempts

\* ... and then writes it back with a status, whatever the row has become.
Abandons(nextAttempt) == nextAttempt >= MaxAttempts

WriteFailure(d) ==
  /\ dispatcher[d].at = "failing"
  /\ LET next == dispatcher[d].read + 1
     IN  delivery' = [delivery EXCEPT ![dispatcher[d].event].attempts = next,
                        ![dispatcher[d].event].status = IF Abandons(next) THEN "abandoned" ELSE "pending"]
  /\ dispatcher' = [dispatcher EXCEPT ![d] = Resting]
  /\ UNCHANGED <<active, recorder, tries>>

DispatcherStops(d) ==
  /\ dispatcher[d].at # "idle"
  /\ dispatcher' = [dispatcher EXCEPT ![d] = Resting]
  /\ UNCHANGED <<active, delivery, recorder, tries>>

WebhooksNext ==
  \/ CreateWebhookEndpoint \/ DeleteWebhookEndpoint
  \/ \E r \in Recorders : FindDelivery(r) \/ \E e \in Events : InsertDelivery(r, e)
  \/ \E d \in Dispatchers :
       \/ Delivered(d) \/ ReadAttempts(d) \/ WriteFailure(d) \/ DispatcherStops(d)
       \/ \E e \in Events : Post(d, e)

WebhooksSpec == WebhooksInit /\ [][WebhooksNext]_webhookVars

---------------------------------------------------------------------------
(* Properties *)

WebhooksTypeOK ==
  /\ active \in BOOLEAN
  /\ \A e \in Events : /\ delivery[e].status \in {"none", "pending", "delivered", "abandoned"}
                       /\ delivery[e].attempts \in 0..(MaxTries + Cardinality(Dispatchers))

\* However its outcomes overlap, a delivery is given up only after as many posts have ended as it is allowed,
\* the counter never runs ahead of the posts, and every producer of one event is answered one delivery.
AbandonedAfterAllTries ==
  /\ \A e \in Events : /\ delivery[e].attempts <= tries[e]
                       /\ delivery[e].status = "abandoned" => tries[e] >= MaxAttempts
  /\ \A r \in Recorders : recorder[r].at = "answered" => recorder[r].answer = delivery[recorder[r].event].id
=============================================================================
