---------------------------- MODULE RequestRetry ----------------------------
(***************************************************************************)
(* Scoped::send_with_retry of redmine-client (client.rs, retry.rs): one    *)
(* logical request, its attempts, its backoff sleeps and its deadline.     *)
(* Redmine (external) may do the work and lose the answer; the client      *)
(* cannot tell that from a request that never arrived.  Every attempt has  *)
(* the reqwest timeout, which is the client's total timeout.               *)
(***************************************************************************)
EXTENDS Naturals

CONSTANTS
    max_retries, max_backoff,  \* RetryPolicy
    base,                      \* its first backoff
    total_timeout,             \* RedmineClientBuilder::timeout
    RetryAfters,               \* delays a 429 names
    None

ASSUME RetryAssumption ==
    /\ {max_retries, max_backoff, base} \subseteq Nat
    /\ total_timeout \in Nat \ {0}
    /\ RetryAfters \subseteq Nat

VARIABLES
    now,
    method, credential,  \* of the logical request
    pc,                  \* "send", "wait", "sleep", "ok", "failed"
    attempt,             \* retries made so far
    sent_at,             \* start of the current attempt
    wake_at,             \* end of the current sleep
    deadline,
    performed            \* Redmine: how often the request took effect

vars == <<now, method, credential, pc, attempt, sent_at, wake_at, deadline, performed>>

Methods == {"GET", "HEAD", "POST", "PUT", "DELETE"}
Credentials == {"Bearer", "ApiKey", "Basic"}

\* Error, as far as the retry decision tells its cases apart.
Errors == [kind: {"RateLimited"}, retry_after: RetryAfters \cup {None}]
          \cup [kind: {"500", "5xx", "Timeout", "Connect", "Final"}, retry_after: {None}]

TypeOK ==
    /\ {now, attempt, sent_at, wake_at, deadline, performed} \subseteq Nat
    /\ method \in Methods /\ credential \in Credentials
    /\ pc \in {"send", "wait", "sleep", "ok", "failed"}

------------------------------------------------------------------------------

\* Mutant: every method is retried.
AnyMethodIsRetryable(m) == TRUE

MethodIsRetryable(m) == m \in {"GET", "HEAD"}

\* Error::is_retryable; a 401, 403, 404, other 4xx, a redirect not followed or a
\* body over the limit is "Final".
IsRetryable(err) == err.kind \in {"RateLimited", "500", "5xx", "Timeout", "Connect"}

\* Redmine answers an inactive OAuth user with a deterministic 500.
Bearer500(err) == credential = "Bearer" /\ err.kind = "500"

AttemptsLeft == attempt < max_retries

CanRetry(err) ==
    /\ MethodIsRetryable(method) /\ IsRetryable(err) /\ ~Bearer500(err)
    /\ AttemptsLeft /\ now < deadline

AtMost(d, cap) == IF d > cap THEN cap ELSE d

\* Full-jitter exponential backoff, or the clamped Retry-After.
Backoffs(err) ==
    IF err.retry_after # None THEN {AtMost(err.retry_after, max_backoff)}
    ELSE 0..AtMost(base * 2^attempt, max_backoff)

\* Mutant: the sleep is not cut to the time left.
SleepUncut(d) == d

\* .min(remaining)
Sleep(d) == AtMost(d, deadline - now)

------------------------------------------------------------------------------

\* req.send(): the attempt leaves.
Send ==
    /\ pc = "send"
    /\ sent_at' = now
    /\ pc' = "wait"
    /\ UNCHANGED <<now, method, credential, attempt, wake_at, deadline, performed>>

\* Attempts that have left so far.
Sent == IF pc = "send" THEN attempt ELSE attempt + 1

\* Redmine (external) does the work of an attempt, if need be after the client
\* gave up on it; the answer may be lost.
Perform ==
    /\ performed < Sent
    /\ performed' = performed + 1
    /\ UNCHANGED <<now, method, credential, pc, attempt, sent_at, wake_at, deadline>>

\* A success status.
Success ==
    /\ pc = "wait" /\ performed > 0
    /\ pc' = "ok"
    /\ UNCHANGED <<now, method, credential, attempt, sent_at, wake_at, deadline, performed>>

\* The attempt failed with err, and the loop sleeps or gives up.
Failure ==
    /\ pc = "wait"
    /\ \E err \in Errors :
         \/ /\ CanRetry(err)
            /\ \E d \in Backoffs(err) : wake_at' = now + Sleep(d)
            /\ pc' = "sleep"
         \/ /\ ~CanRetry(err)
            /\ pc' = "failed"
            /\ UNCHANGED wake_at
    /\ UNCHANGED <<now, method, credential, attempt, sent_at, deadline, performed>>

\* Mutant: the attempt is not counted.
WakeUncounted ==
    /\ pc = "sleep" /\ now >= wake_at
    /\ pc' = "send"
    /\ UNCHANGED <<now, method, credential, attempt, sent_at, wake_at, deadline, performed>>

\* The sleep is over: the next attempt.
Wake ==
    /\ pc = "sleep" /\ now >= wake_at
    /\ attempt' = attempt + 1
    /\ pc' = "send"
    /\ UNCHANGED <<now, method, credential, sent_at, wake_at, deadline, performed>>

\* Time passes while the call waits; an attempt ends by the reqwest timeout and
\* a sleep by its timer.
Tick ==
    /\ \/ pc = "wait" /\ now < sent_at + total_timeout
       \/ pc = "sleep" /\ now < wake_at
    /\ now' = now + 1
    /\ UNCHANGED <<method, credential, pc, attempt, sent_at, wake_at, deadline, performed>>

Init ==
    /\ now = 0
    /\ method \in Methods /\ credential \in Credentials
    /\ pc = "send" /\ attempt = 0
    /\ sent_at = 0 /\ wake_at = 0
    /\ deadline = total_timeout
    /\ performed = 0

Next == Send \/ Perform \/ Success \/ Failure \/ Wake \/ Tick

Spec == Init /\ [][Next]_vars

\* The runtime polls the future; timers fire.
FairSpec == Spec /\ WF_vars(Send \/ Success \/ Failure \/ Wake \/ Tick)

------------------------------------------------------------------------------
(* Properties *)

\* A request with side effects takes effect at most once, also when its answer is
\* lost or comes too late (send_with_retry never sends a write again).
WritesAtMostOnce == method \in {"POST", "PUT", "DELETE"} => performed <= 1

\* The caller waits at most twice the configured timeout: sleeps never pass the
\* deadline, so the last attempt starts by then (send_with_retry).
AnswersWithinTwiceTheTimeout == now <= 2 * total_timeout

\* Every request ends, whatever Redmine answers or fails to answer.
Answers == <>(pc \in {"ok", "failed"})
=============================================================================
