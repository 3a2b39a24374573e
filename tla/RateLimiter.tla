----------------------------- MODULE RateLimiter -----------------------------
(***************************************************************************)
(* One shard of the keyed token-bucket limiter (ratelimit.rs) and the      *)
(* middleware that calls it (transport/http.rs).  The middleware reads     *)
(* Instant::now() BEFORE check takes the shard's Mutex, so a request is    *)
(* two steps and a request that read the clock earlier may take the lock   *)
(* later.  A key always hashes to the same shard, so shards do not         *)
(* interact.                                                               *)
(*                                                                         *)
(* The code counts tokens in f64.  Here a second is SECOND ticks and a     *)
(* token is SECOND parts, so a tick refills rps parts: refills smaller     *)
(* than a token are kept, and float rounding is not modelled.              *)
(***************************************************************************)
EXTENDS Naturals, FiniteSets

CONSTANTS
    Requests,            \* concurrent requests
    Keys,                \* rate-limit keys of one shard
    None,
    SECOND,              \* ticks per second, and parts per token
    rps, burst,          \* as the configuration validates them
    per_shard_max_keys,
    MaxTime              \* the clock stops here (model bound)

ASSUME LimiterAssumption ==
    /\ {SECOND, rps, burst, per_shard_max_keys} \subseteq Nat \ {0}
    /\ burst >= rps
    /\ MaxTime \in Nat

VARIABLES
    now,
    buckets,    \* one shard's map
    req,        \* the key and clock reading of a request on its way to the lock
    admitted,   \* history: requests allowed per key ...
    since,      \* ... since this moment (None: never seen, or evicted)
    clock,      \* history: the latest reading the key's account was brought up to ...
    back,       \* ... and the time by which older readings have set it back since
    hint        \* history: when a denied caller was told to come back, or None

vars == <<now, buckets, req, admitted, since, clock, back, hint>>

Capacity == burst * SECOND
Bucket == [tokens: 0..Capacity, updated_at: Nat, limited: BOOLEAN]

\* A missing bucket is not a bucket, a missing time not a time.
ASSUME NoneAssumption == None \notin Bucket /\ None \notin Nat

TypeOK ==
    /\ now \in Nat
    /\ buckets \in [Keys -> Bucket \cup {None}]
    /\ req \in [Requests -> [key: Keys, at: Nat] \cup {None}]
    /\ admitted \in [Keys -> Nat]
    /\ since \in [Keys -> Nat \cup {None}]
    /\ clock \in [Keys -> Nat]
    /\ back \in [Keys -> Nat]
    /\ hint \in [Keys -> Nat \cup {None}]

------------------------------------------------------------------------------
(* Bucket *)

NewBucket(at) == [tokens |-> Capacity, updated_at |-> at, limited |-> FALSE]

\* Mutant: the distance of the two readings, whichever came first.
ElapsedEitherWay(b, at) == IF at >= b.updated_at THEN at - b.updated_at ELSE b.updated_at - at

\* checked_duration_since(..).unwrap_or(ZERO)
Elapsed(b, at) == IF at >= b.updated_at THEN at - b.updated_at ELSE 0

Refilled(b, at) ==
    IF b.tokens + Elapsed(b, at) * rps > Capacity THEN Capacity
    ELSE b.tokens + Elapsed(b, at) * rps

Allows(b, at) == Refilled(b, at) >= SECOND

\* The bucket after take(now).
Taken(b, at) ==
    [tokens |-> IF Allows(b, at) THEN Refilled(b, at) - SECOND ELSE Refilled(b, at),
     updated_at |-> at,
     limited |-> ~Allows(b, at)]

\* Mutant: the wait in whole seconds, rounded down.
RetryAfterFloor(b, at) == (SECOND - Refilled(b, at)) \div (rps * SECOND)

\* retry_after_secs: the deficit over the rate, at least 1 and rounded up, which is
\* one second for every validated rps.
RetryAfter(b, at) ==
    LET perSecond == rps * SECOND
        wait == (SECOND - Refilled(b, at) + perSecond - 1) \div perSecond
    IN  IF wait < 1 THEN 1 ELSE wait

\* Refilled up to `at` the bucket could not be told from a new one.
IsPristine(b, at) == ~b.limited /\ b.tokens + Elapsed(b, at) * rps >= Capacity

------------------------------------------------------------------------------
(* Limiter::check *)

Used(map) == {k \in Keys : map[k] # None}

\* The sets of keys a new key may push out, under the shard's lock: none while
\* there is room, else the pristine ones, else one least recently touched.
MadeRoom(at) ==
    LET pristine == {k \in Used(buckets) : IsPristine(buckets[k], at)}
        oldest == {k \in Used(buckets) : \A j \in Used(buckets) :
                     buckets[k].updated_at <= buckets[j].updated_at}
    IN  IF Cardinality(Used(buckets)) < per_shard_max_keys THEN {{}}
        ELSE IF pristine # {} THEN {pristine}
        ELSE IF oldest = {} THEN {{}} ELSE {{k} : k \in oldest}

\* rate_limit_standard / rate_limit_strict: the key, then Instant::now().
ReadClock(q) ==
    /\ req[q] = None
    /\ \E k \in Keys : req' = [req EXCEPT ![q] = [key |-> k, at |-> now]]
    /\ UNCHANGED <<now, buckets, admitted, since, clock, back, hint>>

\* How far a check at reading `at` sets the key's clock back: take stores the
\* reading as updated_at even when the bucket's is newer.
SetBack(k, at) == IF since[k] # None /\ at < clock[k] THEN clock[k] - at ELSE 0

\* The decision for key k with bucket b, and the histories.
Decide(k, b, at) ==
    /\ admitted' = [admitted EXCEPT ![k] = IF Allows(b, at) THEN @ + 1 ELSE @]
    /\ clock' = [clock EXCEPT ![k] = at]
    /\ back' = [back EXCEPT ![k] = @ + SetBack(k, at)]
    /\ hint' = [hint EXCEPT ![k] = IF Allows(b, at) THEN None ELSE at + RetryAfter(b, at) * SECOND]

\* check of a key that has a bucket.
CheckKnown(q) ==
    /\ req[q] # None
    /\ LET k == req[q].key
           at == req[q].at
       IN  /\ buckets[k] # None
           /\ buckets' = [buckets EXCEPT ![k] = Taken(buckets[k], at)]
           /\ Decide(k, buckets[k], at)
    /\ req' = [req EXCEPT ![q] = None]
    /\ UNCHANGED <<now, since>>

\* check of a new key: room is made first.  An eviction of a bucket that was
\* not pristine starts that key's account afresh; a pristine sweep brings it up to
\* the reading by which it judged.
CheckNew(q) ==
    /\ req[q] # None
    /\ LET k == req[q].key
           at == req[q].at
       IN  /\ buckets[k] = None
           /\ \E out \in MadeRoom(at) :
                LET lost == {j \in out : ~IsPristine(buckets[j], at)}
                IN  /\ buckets' = [j \in Keys |->
                          IF j = k THEN Taken(NewBucket(at), at)
                          ELSE IF j \in out THEN None ELSE buckets[j]]
                    /\ admitted' = [j \in Keys |-> IF j = k THEN admitted[k] + 1
                                                   ELSE IF j \in lost THEN 0 ELSE admitted[j]]
                    /\ since' = [j \in Keys |-> IF j = k /\ since[k] = None THEN at
                                                ELSE IF j \in lost THEN None ELSE since[j]]
                    /\ clock' = [j \in Keys |-> IF j = k THEN at
                                                ELSE IF j \in out /\ at > clock[j] THEN at ELSE clock[j]]
                    /\ back' = [j \in Keys |-> IF j = k THEN back[k] + SetBack(k, at)
                                               ELSE IF j \in lost THEN 0 ELSE back[j]]
                    /\ hint' = [j \in Keys |-> IF j = k \/ j \in lost THEN None ELSE hint[j]]
    /\ req' = [req EXCEPT ![q] = None]
    /\ UNCHANGED now

Tick ==
    /\ now < MaxTime
    /\ now' = now + 1
    /\ UNCHANGED <<buckets, req, admitted, since, clock, back, hint>>

Init ==
    /\ now = 0
    /\ buckets = [k \in Keys |-> None]
    /\ req = [q \in Requests |-> None]
    /\ admitted = [k \in Keys |-> 0]
    /\ since = [k \in Keys |-> None]
    /\ clock = [k \in Keys |-> 0]
    /\ back = [k \in Keys |-> 0]
    /\ hint = [k \in Keys |-> None]

Next == (\E q \in Requests : ReadClock(q) \/ CheckKnown(q) \/ CheckNew(q)) \/ Tick

Spec == Init /\ [][Next]_vars

------------------------------------------------------------------------------
(* Properties *)

\* No key is ever allowed more than its burst, the refill of the time that has
\* passed, and the refill of the time by which requests that read the clock before
\* another one but took the lock after it have set its bucket back: across denials,
\* refills, concurrent requests and pristine sweeps (Bucket::take, is_pristine).
\* A reading older than the bucket's refills nothing itself; the time it set the
\* bucket back is refilled once more by the next reading, and no more than once.
NoExtraTokens ==
    \A k \in Keys : since[k] # None =>
        admitted[k] * SECOND <= Capacity + (now - since[k] + back[k]) * rps

\* Retry-After is long enough: a caller that was denied and comes back no earlier
\* than it was told, nobody having used its key meanwhile, is allowed (take).
RetryAfterIsEnough ==
    [][\A q \in Requests :
          /\ req[q] # None /\ req'[q] = None
          /\ hint[req[q].key] # None /\ req[q].at >= hint[req[q].key]
          => admitted'[req[q].key] = admitted[req[q].key] + 1]_vars

=============================================================================
