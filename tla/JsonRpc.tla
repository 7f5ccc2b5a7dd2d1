------------------------------ MODULE JsonRpc ------------------------------
(***************************************************************************)
(* JSON-RPC over HTTP: ordered endpoints, bounded retries with backoff,    *)
(* the single-attempt request that submissions use, and what the three     *)
(* chain adapters conclude from the answer.                                *)
(*                                                                         *)
(* One call at a time: the transport has no state that calls share.  A     *)
(* visit of an endpoint ends with what the HTTP client reports; a node may *)
(* have acted on a request whose answer never arrived.                     *)
(***************************************************************************)
EXTENDS Integers, Sequences, FiniteSets

CONSTANTS
    Endpoints,     \* how many endpoints are configured
    MaxAttempts, Initial, MaxBackoff,   \* Retry
    ShiftCap,      \* largest exponent of the backoff: 31 in the code
    DurationMax    \* largest representable duration

VARIABLES
    call,      \* the call: its chain, operation, place and position
    visits,    \* the endpoints visited, with what each visit reported
    waits,     \* the pauses between attempts
    pools,     \* endpoints whose node took the transaction
    told       \* what the chain adapter returned

vars == <<call, visits, waits, pools, told>>

-----------------------------------------------------------------------------
(* The transport.                                                          *)

\* What the HTTP client reports: a result, a JSON-RPC error object (an
\* overloaded node, a transaction it already knows, any other), or a failure
\* of the exchange.
Failures == {"busy", "known", "refused"}
Broken == {"timeout", "lost", "status 429", "status 500", "too large", "malformed"}
Event == {"result", "other result"} \cup Failures \cup Broken

\* Error::from_rpc.
Kind(event) ==
    CASE event = "timeout"    -> "Timeout"
      [] event = "lost"       -> "Unavailable"
      [] event = "status 429" -> "HttpStatus(429)"
      [] event = "status 500" -> "HttpStatus(500)"
      [] event = "too large"  -> "ResponseTooLarge"
      [] OTHER                -> "InvalidResponse"

IsRetryable(event) ==
    event \in Broken /\ Kind(event) \in {"Timeout", "Unavailable", "HttpStatus(429)"}

Least(a, b) == IF a <= b THEN a ELSE b

\* checked_mul: past the largest duration the maximum is taken.
Backoff(attempt) ==
    LET product == Initial * 2 ^ Least(attempt - 1, ShiftCap)
    IN  IF product > DurationMax THEN MaxBackoff ELSE Least(product, MaxBackoff)

Operations == {"read", "batch", "send"}
Chains == {"bitcoin", "ethereum", "solana"}

\* Solana has one endpoint and reads through the single attempt as well;
\* only the Ethereum adapter batches.
Single(c) == c.op = "send" \/ c.chain = "solana"

Init ==
    /\ call \in {c \in [chain : Chains, op : Operations, at : {"check"}, valid : BOOLEAN,
                        attempt : {1}, endpoint : {1}, confirming : {FALSE},
                        had : {{}, {1}}] :    \* it may have been sent before
                   c.op = "batch" => c.chain = "ethereum"}
    /\ visits = <<>> /\ waits = <<>>
    /\ pools = call.had
    /\ told = "nothing"

\* Params::new and Batch::new refuse parameters that are neither an array
\* nor an object, and an empty batch, before anything is dispatched.
Check ==
    /\ call.at = "check"
    /\ \/ ~call.valid /\ call' = [call EXCEPT !.at = "done"] /\ told' = "invalid request"
       \/ call.valid /\ call' = [call EXCEPT !.at = "visit"] /\ UNCHANGED told
    /\ UNCHANGED <<visits, waits, pools>>

\* The node: a submission is taken or not; a result means that it was, and
\* only a refusal means that it was not.
Acts(event) ==
    /\ IF call.op = "send" /\ ~call.confirming
       THEN \E taken \in BOOLEAN :
              /\ event = "result" => taken
              /\ event \in Failures => ~taken
              /\ pools' = IF taken THEN pools \cup {call.endpoint} ELSE pools
       ELSE UNCHANGED pools
    /\ event = "known" => call.op = "send" /\ ~call.confirming
    /\ event = "result" /\ call.confirming => call.endpoint \in pools

\* One endpoint answers.
Visit(event) ==
    /\ call.at = "visit"
    /\ Acts(event)
    /\ visits' = Append(visits, [endpoint |-> call.endpoint, event |-> event])
    /\ call' = [call EXCEPT !.at = "answered"]
    /\ UNCHANGED <<waits, told>>

Last == visits[Len(visits)]

\* Variant of GoOn: one endpoint too far.
GoOnPastTheLast ==
    IF call.endpoint <= Endpoints
    THEN [call EXCEPT !.at = "visit", !.endpoint = @ + 1]
    ELSE [call EXCEPT !.at = "visit", !.endpoint = 1, !.attempt = @ + 1]

\* The next endpoint, or the first one of the next attempt after a pause.
GoOn ==
    IF call.endpoint < Endpoints
    THEN [call EXCEPT !.at = "visit", !.endpoint = @ + 1]
    ELSE [call EXCEPT !.at = "visit", !.endpoint = 1, !.attempt = @ + 1]

\* No endpoint and no attempt is left; a confirming lookup is a read.
Exhausted ==
    \/ Single(call) /\ ~call.confirming
    \/ call.endpoint = Endpoints /\ call.attempt = MaxAttempts

\* request_attempt and execute_request (and their batch twins): a retryable
\* error moves on.
Retry ==
    /\ call.at = "answered" /\ IsRetryable(Last.event) /\ ~Exhausted
    /\ call' = GoOn
    /\ waits' = IF call.endpoint = Endpoints THEN Append(waits, Backoff(call.attempt)) ELSE waits
    /\ UNCHANGED <<visits, pools, told>>

-----------------------------------------------------------------------------
(* The adapters.                                                           *)

\* Variant of Broadcast: Bitcoin takes every failure for a rejection.
BroadcastRejected(chain, event) ==
    CASE event = "result" -> "accepted"
      [] chain = "bitcoin" /\ event # "other result" -> "rejected"
      [] chain = "ethereum" /\ event = "known" -> "confirm"
      [] OTHER -> "ambiguous"

\* The end of a submission.  Bitcoin takes an error object for a definite
\* rejection; Ethereum and Solana take none for definite.  A returned
\* identifier that is not the local one leaves the outcome open.
Broadcast(chain, event) ==
    CASE event = "result" -> "accepted"
      [] chain = "bitcoin" /\ event \in Failures -> "rejected"
      [] chain = "ethereum" /\ event = "known" -> "confirm"
      [] OTHER -> "ambiguous"

\* eth_getTransactionByHash after "already known": only an exposed hash
\* proves the acceptance.
Confirmed(event) == IF event = "result" THEN "accepted" ELSE "ambiguous"

\* CallFailure::remote, CallError::into_source, Error::from_transport, and
\* the parsers: Bitcoin tries a reply that misses a field again, and no reply
\* of another type.
Read(chain, event) ==
    CASE event = "result" -> {"value"}
      [] event = "other result" -> IF chain = "bitcoin" THEN {"retryable", "terminal"} ELSE {"terminal"}
      [] event = "busy" \/ IsRetryable(event) -> {"retryable"}
      [] OTHER -> {"terminal"}

\* The call is over: the adapter concludes.
Conclude ==
    /\ call.at = "answered"
    /\ ~IsRetryable(Last.event) \/ Exhausted
    /\ \E outcome \in IF call.op # "send" THEN Read(call.chain, Last.event)
                      ELSE IF call.confirming THEN {Confirmed(Last.event)}
                      ELSE {Broadcast(call.chain, Last.event)} :
           IF outcome = "confirm"
           THEN /\ call' = [call EXCEPT !.at = "visit", !.confirming = TRUE,
                                        !.attempt = 1, !.endpoint = 1]
                /\ UNCHANGED told
           ELSE /\ call' = [call EXCEPT !.at = "done"]
                /\ told' = outcome
    /\ UNCHANGED <<visits, waits, pools>>

Done == call.at = "done" /\ UNCHANGED vars

Next == Check \/ (\E event \in Event : Visit(event)) \/ Retry \/ Conclude \/ Done

Spec == Init /\ [][Next]_vars

-----------------------------------------------------------------------------

TypeOK ==
    /\ call.chain \in Chains /\ call.op \in Operations
    /\ call.attempt \in 1..MaxAttempts /\ call.endpoint \in 1..Endpoints
    /\ \A i \in DOMAIN visits : visits[i] \in [endpoint : 1..Endpoints, event : Event]
    /\ \A i \in DOMAIN waits : waits[i] \in Nat
    /\ told \in {"nothing", "invalid request", "accepted", "rejected", "ambiguous",
                 "value", "retryable", "terminal"}

\* The visits that carried the call itself, without a confirming lookup.
Submissions == {i \in DOMAIN visits : \A j \in 1..(i - 1) : visits[j].event # "known"}

\* A submission is visibly dispatched once, to the first endpoint, whatever
\* retries and endpoints are configured; a confirming lookup is a read.
SentOnce ==
    call.op = "send" => Cardinality(Submissions) <= 1
                          /\ (visits # <<>> => visits[1].endpoint = 1)

\* A read gives up with a retryable transport error only after every
\* endpoint was asked in every attempt.
AllTried ==
    told = "retryable" /\ Last.event \in Broken /\ ~Single(call) =>
        Len(visits) = Endpoints * MaxAttempts

\* Pauses never get shorter and stay within the configured maximum, also
\* past the overflow of the multiplication.
BackoffMonotone ==
    /\ \A i \in 1..(Len(waits) - 1) : waits[i] <= waits[i + 1]
    /\ \A i \in DOMAIN waits : waits[i] <= MaxBackoff

\* What a submission is told is true of the nodes: an accepted transaction
\* is in a pool, a rejected one was not put there by this submission.
ToldTheTruth ==
    /\ told = "accepted" => pools # {}
    /\ told = "rejected" => pools = call.had
=============================================================================
