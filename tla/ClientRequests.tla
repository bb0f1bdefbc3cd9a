--------------------------- MODULE ClientRequests ---------------------------
(* How the client sends a request (packages/client/src/http.ts, send over   *)
(* attempt, delayFor and toApiError, with isRetryable of errors.ts), and    *)
(* the network between it and the API: an attempt may reach the API or not, *)
(* and its answer may come back, be lost, or come after the deadline.       *)
(*                                                                          *)
(* client.ts sets retry for every GET and for nothing else.                 *)
EXTENDS Integers, FiniteSets

CONSTANTS
  Reads, Writes,      \* the requests a page makes: GETs, and POSTs and DELETEs
  Attempts,           \* RetryPolicy.attempts
  BaseDelay, MaxDelay, MaxRetryAfter,
  RetryAfters         \* the retry-after values the API sends (0: none)

ASSUME ClientRequestsAssumption ==
  /\ Attempts \in Nat /\ {BaseDelay, MaxDelay, MaxRetryAfter} \subseteq Nat
  /\ RetryAfters \subseteq Nat /\ 0 \in RetryAfters
  /\ Reads \cap Writes = {}

VARIABLES
  sending,    \* per request: what send is doing, the attempt, what the last error asked for
  onWire,     \* per request: the attempts that are on their way to the API
  handled,    \* per request: the attempts whose handler the API has run
  cancelled   \* the requests whose signal is aborted

requestVars == <<sending, onWire, handled, cancelled>>

ClientRequestIds == Reads \cup Writes

\* What an attempt may end with: a result, a transport error by its kind, or an error body by its class.
TransportErrors == {"timeout", "network", "protocol", "aborted"}
ErrorClasses == {"retryable_read", "user_action", "requote", "investigation"}

NotSent == [at |-> "unsent", index |-> 0, error |-> "none", waited |-> 0]

RequestsInit ==
  /\ sending = [r \in ClientRequestIds |-> NotSent]
  /\ onWire = [r \in ClientRequestIds |-> {}]
  /\ handled = [r \in ClientRequestIds |-> {}]
  /\ cancelled = {}

\* The mutated forms: one attempt more than the policy has; writes are retried as reads are.
AttemptsOfOneMore(r) == IF r \in Reads /\ Attempts > 1 THEN Attempts + 1 ELSE 1
AttemptsOfAny(r) == IF Attempts > 1 THEN Attempts ELSE 1

\* spec.retry is set for reads only.
AttemptsOf(r) == IF r \in Reads /\ Attempts > 1 THEN Attempts ELSE 1

IsRetryable(error) == error \in {"timeout", "network", "retryable_read"}

\* delayFor: a retry-after wins, else exponential backoff up to a cap (the jitter adds at most BaseDelay).
Backoff(index) == IF BaseDelay * 2^index <= MaxDelay THEN BaseDelay * 2^index ELSE MaxDelay
DelayFor(index, retryAfter) == IF retryAfter > 0 THEN {retryAfter} ELSE Backoff(index) .. (Backoff(index) + BaseDelay)

---------------------------------------------------------------------------
(* attempt *)

\* The request goes out, or the signal was aborted before: fetch throws at once.
Attempt(r) ==
  /\ sending[r].at \in {"unsent", "next"}
  /\ IF r \in cancelled
     THEN /\ sending' = [sending EXCEPT ![r].at = "failed", ![r].error = "aborted"] /\ UNCHANGED onWire
     ELSE /\ sending' = [sending EXCEPT ![r].at = "waiting"]
          /\ onWire' = [onWire EXCEPT ![r] = @ \cup {sending[r].index}]
  /\ UNCHANGED <<handled, cancelled>>

\* The API runs the handler of an attempt, also of one the client has given up on.
Handle(r, i) ==
  /\ i \in onWire[r] /\ onWire' = [onWire EXCEPT ![r] = @ \ {i}]
  /\ handled' = [handled EXCEPT ![r] = @ \cup {i}]
  /\ UNCHANGED <<sending, cancelled>>

Answer(r) ==
  /\ sending[r].at = "waiting" /\ sending[r].index \in handled[r]
  /\ sending' = [sending EXCEPT ![r].at = "answered"]
  /\ UNCHANGED <<onWire, handled, cancelled>>

\* The catch of send: throw, or wait and go on.
Catch(r, error, retryAfter) ==
  LET last == sending[r].index = AttemptsOf(r) - 1
  IN  \E delay \in DelayFor(sending[r].index, retryAfter) :
        sending' = [sending EXCEPT ![r].error = error,
          ![r].at = IF last \/ ~IsRetryable(error) \/ r \in cancelled \/ delay > MaxRetryAfter
                    THEN "failed" ELSE "sleeping",
          ![r].waited = IF retryAfter > 0 THEN retryAfter ELSE 0]

\* An error body: the API answered without running the handler to its effect (rate limit, refusal) or after.
ErrorBody(r) ==
  /\ sending[r].at = "waiting" /\ sending[r].index \in onWire[r] \cup handled[r]
  /\ \E class \in ErrorClasses, retryAfter \in RetryAfters : Catch(r, class, retryAfter)
  /\ onWire' = [onWire EXCEPT ![r] = @ \ {sending[r].index}]
  /\ UNCHANGED <<handled, cancelled>>

\* The deadline, a broken connection, an unreadable answer. Nobody knows what the API has done or will do.
TransportFails(r) ==
  /\ sending[r].at = "waiting"
  /\ \/ r \in cancelled /\ Catch(r, "aborted", 0)
     \/ r \notin cancelled /\ Catch(r, "timeout", 0)
     \/ r \notin cancelled /\ Catch(r, "network", 0)
     \/ sending[r].index \in handled[r] /\ Catch(r, "protocol", 0)
  /\ UNCHANGED <<onWire, handled, cancelled>>

\* defaultSleep: it ends, or the abort ends it with an error of its own.
Sleeps(r) ==
  /\ sending[r].at = "sleeping"
  /\ sending' = IF r \in cancelled
                THEN [sending EXCEPT ![r].at = "failed", ![r].error = "aborted"]
                ELSE [sending EXCEPT ![r].at = "next", ![r].index = @ + 1]
  /\ UNCHANGED <<onWire, handled, cancelled>>

Cancel(r) ==
  /\ r \notin cancelled /\ sending[r].at \notin {"answered", "failed"}
  /\ cancelled' = cancelled \cup {r}
  /\ UNCHANGED <<sending, onWire, handled>>

RequestsNext ==
  \E r \in ClientRequestIds :
    \/ Attempt(r) \/ Answer(r) \/ ErrorBody(r) \/ TransportFails(r) \/ Sleeps(r) \/ Cancel(r)
    \/ \E i \in 0..Attempts : Handle(r, i)

RequestsSpec == RequestsInit /\ [][RequestsNext]_requestVars

---------------------------------------------------------------------------
(* Properties *)

LastAttempt == IF Attempts > 1 THEN Attempts - 1 ELSE 0

RequestsTypeOK ==
  \A r \in ClientRequestIds : /\ sending[r].index \in 0..LastAttempt /\ handled[r] \subseteq 0..LastAttempt
                              /\ sending[r].error \in {"none"} \cup TransportErrors \cup ErrorClasses

\* "Only safe reads are retried. A POST is sent at most once": whatever is lost or late, the API runs a
\* write once at most and a read as often as the policy allows, a wait the API asked for is never longer
\* than the caller tolerates, and a request that was cancelled is not sent again.
WritesOnce ==
  \A r \in ClientRequestIds :
    /\ r \in Writes => Cardinality(handled[r]) <= 1
    /\ Cardinality(handled[r]) <= IF Attempts > 1 THEN Attempts ELSE 1
    /\ sending[r].at = "sleeping" => sending[r].waited <= MaxRetryAfter /\ sending[r].error # "aborted"
=============================================================================
