------------------------------- MODULE Health -------------------------------
(***************************************************************************)
(* health.rs: the readiness checks of GET /readyz and the probe they       *)
(* share.  With a cache (ttl > 0) one async lock is held from the look at  *)
(* the cache to the end of the probe, and tokio hands it on in the order   *)
(* of arrival; without one every check probes by itself.  A check whose    *)
(* client leaves or whose request times out is dropped wherever it waits,  *)
(* and its lock with it.  Ages count ticks of TICK seconds.                *)
(***************************************************************************)
EXTENDS Integers, Sequences, SequencesExt

CONSTANTS Checks,            \* requests to /readyz
          PROBE_TIMEOUT,     \* seconds a probe may take
          REQUEST_TIMEOUT,   \* HttpConfig::request_timeout, the layer around the route
          TICK

ASSUME HealthAssumption ==
    /\ {PROBE_TIMEOUT, REQUEST_TIMEOUT, TICK} \subseteq Nat \ {0}
    /\ PROBE_TIMEOUT < REQUEST_TIMEOUT
    /\ PROBE_TIMEOUT % TICK = 0

VARIABLES
    check,   \* per request: where it is, its age, its probe's, its answer,
             \* and whether a check ahead of it was dropped
    queue,   \* the checks that wait for the lock
    cache    \* the last probe's result and age

healthVars == <<check, queue, cache>>

IdleCheck ==
    [at |-> "idle", age |-> 0, probe |-> 0, answer |-> "none", overtaken |-> FALSE]
EmptyCache == [result |-> "none", age |-> 0]

HealthInit == check = [c \in Checks |-> IdleCheck] /\ queue = <<>> /\ cache = EmptyCache

Waiting(c) == check[c].at \in {"queued", "probing"}
LockFree == \A c \in Checks : check[c].at # "probing"

CacheValid(ttl) == cache.result # "none" /\ cache.age * TICK < ttl

Answered(c, result) ==
    [check EXCEPT ![c] = [IdleCheck EXCEPT !.at = "done", !.answer = result,
                                           !.overtaken = check[c].overtaken]]

\* probe_cached, with the lock: the cached result, or a probe.
WithLock(c, ttl) ==
    IF CacheValid(ttl)
    THEN check' = Answered(c, cache.result)
    ELSE check' = [check EXCEPT ![c].at = "probing"]

readyz(c, ttl) ==
    /\ ~Waiting(c)
    /\ UNCHANGED cache
    /\ \/ /\ ttl = 0
          /\ check' = [check EXCEPT ![c] = [IdleCheck EXCEPT !.at = "probing"]]
          /\ UNCHANGED queue
       \/ /\ ttl > 0
          /\ check' = [check EXCEPT ![c] = [IdleCheck EXCEPT !.at = "queued"]]
          /\ queue' = Append(queue, c)

\* Mutant: the lock goes to the last comer.
LockGrantedLast(c, ttl) ==
    /\ queue # <<>>
    /\ c = Last(queue)
    /\ LockFree
    /\ WithLock(c, ttl)
    /\ queue' = Front(queue)
    /\ UNCHANGED cache

LockGranted(c, ttl) ==
    /\ queue # <<>>
    /\ c = Head(queue)
    /\ LockFree
    /\ WithLock(c, ttl)
    /\ queue' = Tail(queue)
    /\ UNCHANGED cache

\* What a probe can find; without a credential of its own the server asks nobody.
ProbeResults(target) == IF target = "nobody" THEN {"not_probed"} ELSE {"up", "down"}

\* Mutant: the result is not kept.
run_probe_forgotten(c, ttl, target) ==
    /\ check[c].at = "probing"
    /\ \E result \in ProbeResults(target) : check' = Answered(c, result)
    /\ UNCHANGED <<queue, cache>>

\* run_probe: an answer, an error or the timeout, which both read "down".
run_probe(c, ttl, target) ==
    /\ check[c].at = "probing"
    /\ \E result \in ProbeResults(target) :
         /\ check' = Answered(c, result)
         /\ cache' = IF ttl = 0 THEN cache ELSE [result |-> result, age |-> 0]
    /\ UNCHANGED queue

\* Those who wait behind a check that is dropped while it probes.
Overtaken(c) ==
    [d \in Checks |-> [check[d] EXCEPT !.overtaken =
                          @ \/ (check[c].at = "probing" /\ check[d].at = "queued")]]
Unqueued(c) ==
    IF check[c].at = "queued" THEN RemoveAt(queue, CHOOSE i \in DOMAIN queue : queue[i] = c)
    ELSE queue

\* The timeout layer answers 504 and drops the handler.
RequestTimesOut(c) ==
    /\ Waiting(c)
    /\ check[c].age * TICK >= REQUEST_TIMEOUT
    /\ check' = [Overtaken(c) EXCEPT ![c] = [IdleCheck EXCEPT !.at = "done", !.answer = "504",
                                                              !.overtaken = check[c].overtaken]]
    /\ queue' = Unqueued(c)
    /\ UNCHANGED cache

ClientGone(c) ==
    /\ Waiting(c)
    /\ check' = [Overtaken(c) EXCEPT ![c] = IdleCheck]
    /\ queue' = Unqueued(c)
    /\ UNCHANGED cache

\* A deadline that is due, or work that takes no time.
HealthDue(ttl, target) ==
    \/ \E c \in Checks :
         \/ Waiting(c) /\ check[c].age * TICK >= REQUEST_TIMEOUT
         \/ /\ check[c].at = "probing"
            /\ check[c].probe * TICK >= PROBE_TIMEOUT \/ target = "nobody"
    \/ queue # <<>> /\ LockFree

HealthTick(ttl) ==
    /\ check' = [c \in Checks |->
                   IF ~Waiting(c) THEN check[c]
                   ELSE [check[c] EXCEPT !.age = @ + 1,
                           !.probe = IF check[c].at = "probing" THEN @ + 1 ELSE @]]
    /\ cache' = IF CacheValid(ttl) THEN [cache EXCEPT !.age = @ + 1] ELSE cache
    /\ UNCHANGED queue

HealthTypeOK ==
    /\ check \in [Checks -> [at : {"idle", "queued", "probing", "done", "cut"}, age : Nat,
                             probe : Nat, overtaken : BOOLEAN,
                             answer : {"none", "up", "down", "not_probed", "504"}]]
    /\ queue \in Seq(Checks)
    /\ cache \in [result : {"none", "up", "down", "not_probed"}, age : Nat]
    /\ ToSet(queue) = {c \in Checks : check[c].at = "queued"}

(***************************************************************************)
(* Properties.                                                             *)
(***************************************************************************)
\* A check is turned away with 504 only if the check that probed ahead of it was
\* dropped: the lock is held across a probe, but the one behind finds its result.
TimeoutsExplained == \A c \in Checks : check[c].answer = "504" => check[c].overtaken
=============================================================================
