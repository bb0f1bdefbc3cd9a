------------------------------ MODULE ApiGate ------------------------------
(* Who the API lets in (apps/api/src/app.ts, admit): the credential is read *)
(* (auth.ts, authenticate, over packages/database/src/identity.ts), then    *)
(* the caller's counter of the current window is raised in Redis            *)
(* (rateLimit.ts), and only then the handler runs. The handler modelled     *)
(* here is the sign-in: a nonce is issued to a wallet and its signature is  *)
(* exchanged for a session (challenge and verify).                          *)
(*                                                                          *)
(* One application, one API key, one nonce; a call carries the key, the     *)
(* session or the application's client id. Redis answers or not, and may    *)
(* count a hit whose caller has given up on it.                             *)
EXTENDS Integers, FiniteSets

CONSTANTS
  Calls,          \* the calls that are made, numbered in the order they are made
  Limit,          \* hits a caller may make in a window
  WindowLength,   \* ticks in a window
  NonceLife, SessionLife,
  MaxGateTime     \* bound on the clock

ASSUME GateAssumption ==
  /\ IsFiniteSet(Calls)
  /\ Calls \cup {Limit, WindowLength, NonceLife, SessionLife, MaxGateTime} \subseteq Nat \ {0}

VARIABLES
  gateClock,
  revoked,      \* the API key has been revoked
  disabled,     \* the application has been disabled
  nonce,        \* the auth_nonces row, and who holds its row lock
  judged,       \* the calls whose signature has been looked at
  sessions,     \* the user_sessions rows: when each expires
  counter,      \* Redis: hits and expiry, per caller and window
  call          \* what each call has done so far

gateVars == <<gateClock, revoked, disabled, nonce, judged, sessions, counter, call>>

Callers == {"key", "session", "client"}
Windows == 0..(MaxGateTime \div WindowLength)
NoCounter == [hits |-> 0, expires |-> 0]
NotMade == [at |-> "unsent", caller |-> "client", window |-> 0, valid |-> FALSE, read |-> "none",
            inWindow |-> TRUE]

GateInit ==
  /\ gateClock = 0 /\ revoked = FALSE /\ disabled = FALSE
  /\ nonce = [state |-> "none", expires |-> 0, lock |-> {}]
  /\ judged = {} /\ sessions = {}
  /\ counter = [b \in Callers |-> [w \in Windows |-> NoCounter]]
  /\ call = [c \in Calls |-> NotMade]

At(c, step) == call' = [call EXCEPT ![c].at = step]

GateTick ==
  /\ gateClock < MaxGateTime /\ gateClock' = gateClock + 1
  /\ UNCHANGED <<revoked, disabled, nonce, judged, sessions, counter, call>>

RevokeApiKey ==
  /\ ~revoked /\ revoked' = TRUE
  /\ UNCHANGED <<gateClock, disabled, nonce, judged, sessions, counter, call>>

DisableApp ==
  /\ ~disabled /\ disabled' = TRUE
  /\ UNCHANGED <<gateClock, revoked, nonce, judged, sessions, counter, call>>

---------------------------------------------------------------------------
(* admit *)

\* Whether the credential of a caller is good now.
Live(caller) ==
  /\ ~disabled
  /\ caller = "key" => ~revoked
  /\ caller = "session" => \E s \in sessions : s.expires > gateClock

\* admit takes the time first: it names the window, whatever happens before the hit.
SendCall(c, caller, valid) ==
  /\ call[c].at = "unsent" /\ \A d \in Calls : d < c => call[d].at # "unsent"
  /\ call' = [call EXCEPT ![c] = [NotMade EXCEPT !.at = "authenticate", !.caller = caller, !.valid = valid,
                                                 !.window = gateClock \div WindowLength]]
  /\ UNCHANGED <<gateClock, revoked, disabled, nonce, judged, sessions, counter>>

Authenticate(c) ==
  /\ call[c].at = "authenticate"
  /\ At(c, IF Live(call[c].caller) THEN "hit" ELSE "refused")
  /\ UNCHANGED <<gateClock, revoked, disabled, nonce, judged, sessions, counter>>

\* INCR and EXPIRE NX: the first hit of a key sets when it disappears, and nothing moves that later.
Counted(entry) ==
  LET live == IF entry.expires > gateClock THEN entry ELSE [hits |-> 0, expires |-> gateClock + WindowLength]
  IN  [live EXCEPT !.hits = @ + 1]

\* decide
Allowed(count) == count <= Limit

\* The hit is counted and answered, or it is counted after the caller has given up on it.
HitReaches(c) ==
  /\ call[c].at \in {"hit", "given_up"}
  /\ LET b == call[c].caller
         w == call[c].window
     IN  /\ counter' = [counter EXCEPT ![b][w] = Counted(@)]
         /\ call' = [call EXCEPT ![c].inWindow = (gateClock \div WindowLength = w),
                                 ![c].at = IF @ = "hit" /\ Allowed(Counted(counter[b][w]).hits)
                                           THEN "admitted" ELSE "refused"]
  /\ UNCHANGED <<gateClock, revoked, disabled, nonce, judged, sessions>>

\* The mutated form: a limiter that cannot answer lets the call in.
GivenUpOpen == "admitted"

\* Redis is disconnected or does not answer in time: the call is refused, and the hit may still be counted.
GivenUp == "given_up"

GiveUpOnRedis(c) ==
  /\ call[c].at = "hit"
  /\ At(c, GivenUp)
  /\ UNCHANGED <<gateClock, revoked, disabled, nonce, judged, sessions, counter>>

---------------------------------------------------------------------------
(* The sign-in: only a browser's client id may ask for it (requireClient). *)

Challenge(c) ==
  /\ call[c].at = "admitted" /\ call[c].caller = "client" /\ nonce.state = "none"
  /\ nonce' = [state |-> "unused", expires |-> gateClock + NonceLife, lock |-> {}]
  /\ At(c, "done")
  /\ UNCHANGED <<gateClock, revoked, disabled, judged, sessions, counter>>

\* The mutated form: SELECT without FOR UPDATE.
RowFreeUnlocked == nonce.state # "none"

\* SELECT ... FOR UPDATE waits for the row, and reads it as it is then.
RowFree == nonce.lock = {}

LockNonce(c) ==
  /\ call[c].at = "admitted" /\ call[c].caller = "client" /\ nonce.state # "none" /\ RowFree
  /\ nonce' = [nonce EXCEPT !.lock = {c}]
  /\ call' = [call EXCEPT ![c].at = "exchange",
                          ![c].read = IF nonce.expires <= gateClock THEN "expired" ELSE nonce.state]
  /\ UNCHANGED <<gateClock, revoked, disabled, judged, sessions, counter>>

\* The nonce is spent first; a signature that does not match leaves it spent, and commits.
Exchange(c) ==
  /\ call[c].at = "exchange"
  /\ IF call[c].read # "unused"
     THEN /\ nonce' = [nonce EXCEPT !.lock = @ \ {c}] /\ At(c, "refused") /\ UNCHANGED <<judged, sessions>>
     ELSE /\ nonce' = [nonce EXCEPT !.lock = @ \ {c}, !.state = "used"]
          /\ judged' = judged \cup {c}
          /\ sessions' = IF call[c].valid
                         THEN sessions \cup {[by |-> c, expires |-> gateClock + SessionLife]} ELSE sessions
          /\ At(c, IF call[c].valid THEN "done" ELSE "refused")
  /\ UNCHANGED <<gateClock, revoked, disabled, counter>>

\* The connection is lost inside the transaction: it rolls back and the row is free.
LoseExchange(c) ==
  /\ call[c].at = "exchange"
  /\ nonce' = [nonce EXCEPT !.lock = @ \ {c}] /\ At(c, "refused")
  /\ UNCHANGED <<gateClock, revoked, disabled, judged, sessions, counter>>

GateNext ==
  \/ GateTick \/ RevokeApiKey \/ DisableApp
  \/ \E c \in Calls :
       \/ \E caller \in Callers, valid \in BOOLEAN : (valid => caller = "client") /\ SendCall(c, caller, valid)
       \/ Authenticate(c) \/ HitReaches(c) \/ GiveUpOnRedis(c)
       \/ Challenge(c) \/ LockNonce(c) \/ Exchange(c) \/ LoseExchange(c)

GateSpec == GateInit /\ [][GateNext]_gateVars

---------------------------------------------------------------------------
(* Properties *)

GateTypeOK ==
  /\ gateClock \in 0..MaxGateTime /\ nonce.lock \subseteq Calls /\ judged \subseteq Calls
  /\ \A b \in Callers, w \in Windows : counter[b][w].hits \in 0..Cardinality(Calls)

\* "A nonce is spent on the first attempt, valid or not, so a signature can never be tried twice": however
\* many exchanges of it overlap, one signature is looked at, and a session comes from that one.
SignatureJudgedOnce ==
  /\ Cardinality(judged) <= 1 /\ Cardinality(sessions) <= 1
  /\ \A s \in sessions : s.by \in judged /\ call[s.by].valid

LetIn(b, w) == {c \in Calls : /\ call[c].caller = b /\ call[c].window = w /\ call[c].inWindow
                              /\ \/ call[c].at \in {"admitted", "exchange", "done"}
                                 \/ c \in judged}

\* No caller is let in more often in a window than its limit, also while Redis fails or answers late. A hit
\* that reaches Redis after its window is over is not counted against it: its key may have expired.
WithinLimit == \A b \in Callers, w \in Windows : Cardinality(LetIn(b, w)) <= Limit
=============================================================================
