----------------------------- MODULE ApiClient ------------------------------
(***************************************************************************)
(* The HTTP client (src/frontend/src/core/api/): one record per call, from *)
(* request() to the answer its caller gets.  While the backend is being    *)
(* redeployed the proxy answers 502..504, or nothing answers, before or    *)
(* after the backend handled the request; the retry interceptor repeats    *)
(* safe methods with a growing pause, MAX_RETRIES times.                   *)
(***************************************************************************)
EXTENDS Naturals

CONSTANTS Calls, MAX_RETRIES

VARIABLE call

NoCall == [pc |-> "idle"]
Statuses == {"ok", "401", "403", "gateway"}

\* A call as its caller makes it: live until the caller no longer wants the
\* answer (the `cancelled` flag of an effect), body what is asked.
NewCall(method, token, body) ==
  [pc |-> "sent", method |-> method, token |-> token, body |-> body, live |-> TRUE,
   retryCount |-> 0, served |-> 0, status |-> "none", answer |-> "none"]

Idle(c) == call[c].pc = "idle"

\* Mutant: every method is retried.
allRetry(method) == TRUE

\* The header by which a caller may ask for a repeated post (X-Retry-On-502) is
\* left out: no caller of the client sends it.
SAFE_METHODS == {"get", "head", "options", "put", "delete"}
methodAllowsRetry(method) == method \in SAFE_METHODS

isRetryable(status) == status = "gateway"

counts(k) == [k EXCEPT !.pc = "backoff", !.retryCount = @ + 1]

\* Mutant: one retry too many.
RejectedLate(k) == k.status # "ok" /\ ~(isRetryable(k.status) /\ methodAllowsRetry(k.method)
                                         /\ k.retryCount <= MAX_RETRIES)

\* What is left to the other interceptors and to the caller.
Rejected(k) == k.status # "ok" /\ ~(isRetryable(k.status) /\ methodAllowsRetry(k.method)
                                     /\ k.retryCount < MAX_RETRIES)

\* The backend handles a request and its answer arrives (handled), or it never
\* does, or the answer is lost.  How often is counted for what is not safe.
answers(k, handled, status, answer) ==
  [k EXCEPT !.pc = "back", !.status = status, !.answer = answer,
            !.served = IF handled /\ k.method \notin SAFE_METHODS THEN @ + 1 ELSE @]

Reply(c, handled, status, answer) ==
  /\ call[c].pc = "sent"
  /\ call' = [call EXCEPT ![c] = answers(@, handled, status, answer)]

\* The retry interceptor sees the error first.
Retry(c) ==
  /\ call[c].pc = "back" /\ call[c].status # "ok" /\ ~Rejected(call[c])
  /\ call' = [call EXCEPT ![c] = counts(@)]

\* request() once more, with the token of now when there is one.
repeats(k, token, none) ==
  [k EXCEPT !.pc = "sent", !.status = "none", !.answer = "none",
            !.token = IF token = none THEN @ ELSE token]

Resend(c, token, none) ==
  /\ call[c].pc = "backoff"
  /\ call' = [call EXCEPT ![c] = repeats(@, token, none)]
=============================================================================
