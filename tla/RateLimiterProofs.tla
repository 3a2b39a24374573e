-------------------------- MODULE RateLimiterProofs --------------------------
(***************************************************************************)
(* Theorems about RateLimiter, for any number of keys and concurrent       *)
(* requests, any rate and burst the configuration accepts and any shard    *)
(* capacity.                                                               *)
(***************************************************************************)
EXTENDS RateLimiter, Integers, TLAPS

\* A denied caller's bucket is at least one second older than the moment it was
\* told to come back at.
HintOK(k) ==
    hint[k] # None /\ buckets[k] # None => buckets[k].updated_at + SECOND <= hint[k]

LimiterInv == TypeOK /\ \A k \in Keys : HintOK(k)

------------------------------------------------------------------------------
(* Arithmetic *)

\* Products of the naturals the limiter multiplies: parts, ticks, rates.
LEMMA ProductNat == \A a, b \in Nat : a * b \in Nat
BY SMT

\* Multiplying by a rate is monotonic ...
LEMMA ProductMonotonic == ASSUME NEW a \in Nat, NEW b \in Nat, NEW c \in Nat, a <= b
                          PROVE  a * c <= b * c
BY SMT

\* ... and time spans can be added before or after.
LEMMA ProductSplits == ASSUME NEW a \in Int, NEW b \in Int, NEW c \in Int
                       PROVE  (a + b) * c = a * c + b * c
BY SMT

\* A burst is at least one whole token, and a second refills at least one.
LEMMA TokenFits ==
    /\ SECOND \in Nat /\ rps \in Nat /\ burst \in Nat
    /\ Capacity \in Nat /\ SECOND <= Capacity /\ SECOND <= SECOND * rps
<1>1. /\ SECOND \in Nat /\ rps \in Nat /\ burst \in Nat
      /\ SECOND >= 1 /\ burst >= 1 /\ rps >= 1
  BY LimiterAssumption
<1>2. 1 * SECOND <= burst * SECOND /\ 1 * SECOND <= rps * SECOND
  BY <1>1, ProductMonotonic
<1>3. burst * SECOND \in Nat /\ rps * SECOND = SECOND * rps
  BY <1>1, ProductNat
<1> QED
  BY <1>1, <1>2, <1>3 DEF Capacity

------------------------------------------------------------------------------
(* Bucket *)

\* Bucket::refill never leaves more than the capacity, nor less than there was.
LEMMA RefillBounds ==
    ASSUME NEW b \in Bucket, NEW at \in Nat
    PROVE  /\ Elapsed(b, at) \in Nat /\ Elapsed(b, at) * rps \in Nat
           /\ Refilled(b, at) \in 0..Capacity
           /\ Refilled(b, at) <= b.tokens + Elapsed(b, at) * rps
<1>1. b.tokens \in 0..Capacity /\ b.updated_at \in Nat /\ Capacity \in Nat /\ rps \in Nat
  BY TokenFits DEF Bucket
<1>2. Elapsed(b, at) \in Nat
  BY <1>1 DEF Elapsed
<1>3. Elapsed(b, at) * rps \in Nat
  BY <1>1, <1>2, ProductNat
<1> HIDE DEF Elapsed
<1> QED
  BY <1>1, <1>2, <1>3 DEF Refilled

\* Bucket::take leaves a bucket whose tokens are what is left of the refill.
LEMMA TakenType ==
    ASSUME NEW b \in Bucket, NEW at \in Nat
    PROVE  /\ Taken(b, at) \in Bucket
           /\ Taken(b, at).updated_at = at
           /\ Taken(b, at).tokens = IF Allows(b, at) THEN Refilled(b, at) - SECOND ELSE Refilled(b, at)
<1>1. Refilled(b, at) \in 0..Capacity /\ SECOND \in Nat /\ Capacity \in Nat
  BY RefillBounds, TokenFits
<1>2. (IF Allows(b, at) THEN Refilled(b, at) - SECOND ELSE Refilled(b, at)) \in 0..Capacity
  BY <1>1 DEF Allows
<1> QED
  BY <1>2 DEF Taken, Bucket

\* A key's first bucket is full, so its first request is allowed.
LEMMA NewBucketType ==
    ASSUME NEW at \in Nat
    PROVE  /\ NewBucket(at) \in Bucket
           /\ Allows(NewBucket(at), at)
           /\ Refilled(NewBucket(at), at) = Capacity
<1>1. NewBucket(at) \in Bucket
  BY TokenFits DEF NewBucket, Bucket
<1>2. Elapsed(NewBucket(at), at) = 0 /\ NewBucket(at).tokens = Capacity
  BY DEF Elapsed, NewBucket
<1>3. 0 * rps = 0
  BY TokenFits
<1>4. Refilled(NewBucket(at), at) = Capacity
  BY <1>2, <1>3, TokenFits DEF Refilled
<1> QED
  BY <1>1, <1>4, TokenFits DEF Allows

\* retry_after_secs is at least a second.
LEMMA RetryAfterType ==
    ASSUME NEW b \in Bucket, NEW at \in Nat
    PROVE  /\ RetryAfter(b, at) \in Nat \ {0}
           /\ RetryAfter(b, at) * SECOND \in Nat
           /\ SECOND <= RetryAfter(b, at) * SECOND
<1> DEFINE perSecond == rps * SECOND
           wait == (SECOND - Refilled(b, at) + perSecond - 1) \div perSecond
<1>1. Refilled(b, at) \in Nat /\ SECOND \in Nat \ {0} /\ rps \in Nat \ {0}
  BY RefillBounds, TokenFits, LimiterAssumption
<1>2. perSecond \in Nat /\ perSecond > 0
  BY <1>1, TokenFits, ProductNat
<1>3. SECOND - Refilled(b, at) + perSecond - 1 \in Int
  BY <1>1, <1>2
<1>4. wait \in Int
  <2> HIDE DEF perSecond
  <2> QED
    BY <1>2, <1>3
<1>5. RetryAfter(b, at) = IF wait < 1 THEN 1 ELSE wait
  BY DEF RetryAfter
<1>6. RetryAfter(b, at) \in Nat \ {0}
  <2> HIDE DEF wait
  <2> QED
    BY <1>4, <1>5
<1>7. 1 * SECOND <= RetryAfter(b, at) * SECOND
  BY <1>1, <1>6, ProductMonotonic
<1> QED
  BY <1>1, <1>6, <1>7, ProductNat

\* A bucket that has been left alone for a second allows a request.
LEMMA SecondIsEnough ==
    ASSUME NEW b \in Bucket, NEW at \in Nat, b.updated_at + SECOND <= at
    PROVE  Allows(b, at)
<1>1. b.tokens \in Nat /\ b.updated_at \in Nat
  BY TokenFits DEF Bucket
<1>2. Elapsed(b, at) = at - b.updated_at /\ SECOND <= Elapsed(b, at) /\ Elapsed(b, at) \in Nat
  BY <1>1, TokenFits DEF Elapsed
<1>3. SECOND * rps <= Elapsed(b, at) * rps
  BY <1>2, TokenFits, ProductMonotonic
<1>4. SECOND <= b.tokens + Elapsed(b, at) * rps
  BY <1>1, <1>2, <1>3, TokenFits, ProductNat
<1> QED
  BY <1>4, TokenFits DEF Refilled, Allows

------------------------------------------------------------------------------
(* Retry-After *)

\* Making room in a shard pushes out keys that have a bucket (Limiter::check).
LEMMA RoomIsUsed == ASSUME NEW at, NEW out \in MadeRoom(at) PROVE out \subseteq Used(buckets)
BY DEF MadeRoom

\* A check sets a key's clock back by some time, or not at all.
LEMMA SetBackType ==
    ASSUME TypeOK, NEW k \in Keys, NEW at \in Nat PROVE SetBack(k, at) \in Nat
BY DEF TypeOK, SetBack

\* A request of a known key that is denied is told to come back a second later or
\* more, and every other key's bucket and hint stay.
LEMMA KnownStep ==
    ASSUME LimiterInv, NEW q \in Requests, CheckKnown(q)
    PROVE  LimiterInv'
<1> DEFINE k == req[q].key
           at == req[q].at
           b == buckets[k]
<1>1. k \in Keys /\ at \in Nat /\ b \in Bucket
  BY DEF LimiterInv, TypeOK, CheckKnown
<1>2. Taken(b, at) \in Bucket /\ Taken(b, at).updated_at = at
  BY <1>1, TakenType
<1>3. at + RetryAfter(b, at) * SECOND \in Nat /\ at + SECOND <= at + RetryAfter(b, at) * SECOND
  BY <1>1, RetryAfterType, TokenFits
<1>4. /\ buckets' = [buckets EXCEPT ![k] = Taken(b, at)]
      /\ hint' = [hint EXCEPT ![k] = IF Allows(b, at) THEN None ELSE at + RetryAfter(b, at) * SECOND]
      /\ admitted' = [admitted EXCEPT ![k] = IF Allows(b, at) THEN @ + 1 ELSE @]
      /\ clock' = [clock EXCEPT ![k] = at]
      /\ back' = [back EXCEPT ![k] = @ + SetBack(k, at)]
      /\ req' = [req EXCEPT ![q] = None] /\ UNCHANGED <<now, since>>
  BY DEF CheckKnown, Decide
<1>5. TypeOK'
  <2>1. buckets' \in [Keys -> Bucket \cup {None}]
    BY <1>2, <1>4 DEF LimiterInv, TypeOK
  <2>2. hint' \in [Keys -> Nat \cup {None}]
    BY <1>3, <1>4 DEF LimiterInv, TypeOK
  <2>3. req' \in [Requests -> [key: Keys, at: Nat] \cup {None}]
    BY <1>4 DEF LimiterInv, TypeOK
  <2>4. admitted' \in [Keys -> Nat]
    <3>1. admitted \in [Keys -> Nat]
      BY DEF LimiterInv, TypeOK
    <3>2. admitted' = [admitted EXCEPT ![k] = admitted[k] + 1] \/ admitted' = admitted
      BY <1>1, <1>4, <3>1
    <3> QED
      BY <1>1, <3>1, <3>2
  <2>5. clock' \in [Keys -> Nat] /\ back' \in [Keys -> Nat]
    BY <1>1, <1>4, SetBackType DEF LimiterInv, TypeOK
  <2> QED
    BY <1>4, <2>1, <2>2, <2>3, <2>4, <2>5 DEF LimiterInv, TypeOK
<1>6. ASSUME NEW j \in Keys PROVE HintOK(j)'
  <2>1. CASE j = k
    <3>1. buckets'[k].updated_at = at
      BY <1>1, <1>2, <1>4 DEF LimiterInv, TypeOK
    <3>2. hint'[k] = IF Allows(b, at) THEN None ELSE at + RetryAfter(b, at) * SECOND
      BY <1>1, <1>4 DEF LimiterInv, TypeOK
    <3> QED
      BY <1>3, <2>1, <3>1, <3>2 DEF HintOK
  <2>2. CASE j # k
    BY <1>4, <2>2 DEF LimiterInv, TypeOK, HintOK
  <2> QED
    BY <2>1, <2>2
<1> QED
  BY <1>5, <1>6 DEF LimiterInv

\* A new key starts with a full bucket and no hint; the keys pushed out for it lose
\* their bucket.
LEMMA NewStep ==
    ASSUME LimiterInv, NEW q \in Requests, CheckNew(q)
    PROVE  LimiterInv'
<1> DEFINE k == req[q].key
           at == req[q].at
<1>1. k \in Keys /\ at \in Nat
  BY DEF LimiterInv, TypeOK, CheckNew
<1>2. Taken(NewBucket(at), at) \in Bucket
  BY <1>1, NewBucketType, TakenType
<1>3. PICK out \in MadeRoom(at) :
        LET lost == {j \in out : ~IsPristine(buckets[j], at)} IN
        /\ buckets' = [j \in Keys |-> IF j = k THEN Taken(NewBucket(at), at)
                                      ELSE IF j \in out THEN None ELSE buckets[j]]
        /\ admitted' = [j \in Keys |-> IF j = k THEN admitted[k] + 1
                                       ELSE IF j \in lost THEN 0 ELSE admitted[j]]
        /\ since' = [j \in Keys |-> IF j = k /\ since[k] = None THEN at
                                    ELSE IF j \in lost THEN None ELSE since[j]]
        /\ clock' = [j \in Keys |-> IF j = k THEN at
                                    ELSE IF j \in out /\ at > clock[j] THEN at ELSE clock[j]]
        /\ back' = [j \in Keys |-> IF j = k THEN back[k] + SetBack(k, at)
                                   ELSE IF j \in lost THEN 0 ELSE back[j]]
        /\ hint' = [j \in Keys |-> IF j = k \/ j \in lost THEN None ELSE hint[j]]
  BY DEF CheckNew
<1> DEFINE lost == {j \in out : ~IsPristine(buckets[j], at)}
<1>4. req' = [req EXCEPT ![q] = None] /\ now' = now
  BY DEF CheckNew
<1> HIDE DEF lost
<1>5. buckets' = [j \in Keys |-> IF j = k THEN Taken(NewBucket(at), at)
                                 ELSE IF j \in out THEN None ELSE buckets[j]]
  BY <1>3
<1>6. /\ admitted' = [j \in Keys |-> IF j = k THEN admitted[k] + 1
                                     ELSE IF j \in lost THEN 0 ELSE admitted[j]]
      /\ since' = [j \in Keys |-> IF j = k /\ since[k] = None THEN at
                                  ELSE IF j \in lost THEN None ELSE since[j]]
      /\ clock' = [j \in Keys |-> IF j = k THEN at
                                  ELSE IF j \in out /\ at > clock[j] THEN at ELSE clock[j]]
      /\ back' = [j \in Keys |-> IF j = k THEN back[k] + SetBack(k, at)
                                 ELSE IF j \in lost THEN 0 ELSE back[j]]
      /\ hint' = [j \in Keys |-> IF j = k \/ j \in lost THEN None ELSE hint[j]]
  BY <1>3 DEF lost
<1>7. TypeOK'
  <2>1. clock' \in [Keys -> Nat] /\ back' \in [Keys -> Nat]
    BY <1>1, <1>6, SetBackType DEF LimiterInv, TypeOK
  <2> QED
    BY <1>1, <1>2, <1>4, <1>5, <1>6, <2>1 DEF LimiterInv, TypeOK
<1>8. \A j \in Keys : HintOK(j)'
  BY <1>5, <1>6 DEF LimiterInv, TypeOK, HintOK
<1> QED
  BY <1>7, <1>8 DEF LimiterInv

\* LimiterInv holds of every reachable state.
LEMMA LimiterStep == LimiterInv /\ [Next]_vars => LimiterInv'
<1> SUFFICES ASSUME LimiterInv, [Next]_vars PROVE LimiterInv'
  OBVIOUS
<1>1. ASSUME NEW q \in Requests, ReadClock(q) PROVE LimiterInv'
  BY <1>1 DEF ReadClock, LimiterInv, TypeOK, HintOK
<1>2. CASE Tick
  BY <1>2 DEF Tick, LimiterInv, TypeOK, HintOK
<1>3. CASE UNCHANGED vars
  BY <1>3 DEF vars, LimiterInv, TypeOK, HintOK
<1> QED
  BY <1>1, <1>2, <1>3, KnownStep, NewStep DEF Next

\* Types and hints, for every reachable state.
THEOREM LimiterInvariant == Spec => []LimiterInv
<1>1. Init => LimiterInv
  BY DEF Init, LimiterInv, TypeOK, HintOK
<1> QED
  BY <1>1, LimiterStep, PTL DEF Spec

\* Whoever waits as long as a denial told it to is allowed, for every rate, burst
\* and number of concurrent requests: retry_after_secs is never less than a
\* second, and a second refills a whole token (take, retry_after_secs).
THEOREM WaitingIsEnough == Spec => RetryAfterIsEnough
<1>1. ASSUME LimiterInv, Next, NEW q \in Requests, req[q] # None, req'[q] = None,
             hint[req[q].key] # None, req[q].at >= hint[req[q].key]
      PROVE  admitted'[req[q].key] = admitted[req[q].key] + 1
  <2> DEFINE k == req[q].key
             at == req[q].at
  <2>1. k \in Keys /\ at \in Nat /\ hint[k] \in Nat
    BY <1>1 DEF LimiterInv, TypeOK
  <2>2. CheckKnown(q) \/ CheckNew(q)
    BY <1>1 DEF Next, ReadClock, CheckKnown, CheckNew, Tick, LimiterInv, TypeOK
  <2>3. CASE CheckKnown(q)
    <3>1. buckets[k] \in Bucket /\ buckets[k] # None
      BY <1>1, <2>1, <2>3 DEF CheckKnown, LimiterInv, TypeOK
    <3>2. buckets[k].updated_at \in Nat /\ SECOND \in Nat
      BY <3>1, TokenFits DEF Bucket
    <3>3. buckets[k].updated_at + SECOND <= hint[k]
      BY <1>1, <2>1, <3>1 DEF LimiterInv, HintOK
    <3>4. buckets[k].updated_at + SECOND <= at
      BY <1>1, <2>1, <3>2, <3>3
    <3>5. Allows(buckets[k], at)
      BY <2>1, <3>1, <3>4, SecondIsEnough
    <3> QED
      BY <1>1, <2>1, <2>3, <3>5 DEF CheckKnown, Decide, LimiterInv, TypeOK
  <2>4. CASE CheckNew(q)
    BY <1>1, <2>1, <2>4 DEF CheckNew
  <2> QED
    BY <2>2, <2>3, <2>4
<1>2. LimiterInv /\ [Next]_vars =>
        [\A q \in Requests :
            /\ req[q] # None /\ req'[q] = None
            /\ hint[req[q].key] # None /\ req[q].at >= hint[req[q].key]
            => admitted'[req[q].key] = admitted[req[q].key] + 1]_vars
  BY <1>1
<1> QED
  BY <1>2, LimiterInvariant, PTL DEF Spec, RetryAfterIsEnough

------------------------------------------------------------------------------
(* Tokens *)

\* The time whose refill a key has been given: from its first request to its clock,
\* and once more every time by which the clock was set back.
Earned(k) == clock[k] - since[k] + back[k]

\* What a key has spent and has left is what it was given: the burst and the refill
\* of the time it earned.  A key whose bucket was swept as pristine has earned a
\* whole burst back, and a key without an account has spent nothing.
Balanced(k) ==
    /\ since[k] = None => admitted[k] = 0 /\ back[k] = 0 /\ buckets[k] = None
    /\ since[k] # None =>
         /\ clock[k] <= now /\ Earned(k) >= 0
         /\ buckets[k] # None =>
              /\ buckets[k].updated_at = clock[k]
              /\ admitted[k] * SECOND + buckets[k].tokens <= Capacity + Earned(k) * rps
         /\ buckets[k] = None => admitted[k] * SECOND <= Earned(k) * rps

\* Every account is balanced, and no reading of the clock is ahead of it.
AccountsOK ==
    /\ \A k \in Keys : Balanced(k)
    /\ \A q \in Requests : req[q] # None => req[q].at <= now

\* take: what a request spends comes out of the bucket, and what the bucket gains
\* is the refill since its clock, or nothing when the reading is older.
LEMMA TakeBalances ==
    ASSUME NEW b \in Bucket, NEW at \in Nat, NEW e \in Nat, NEW n \in Nat,
           n * SECOND + b.tokens <= Capacity + e * rps
    PROVE  (IF Allows(b, at) THEN n + 1 ELSE n) * SECOND + Taken(b, at).tokens
             <= Capacity + (e + Elapsed(b, at)) * rps
<1> DEFINE new == Elapsed(b, at)
<1>1. /\ b.tokens \in Nat /\ SECOND \in Nat /\ rps \in Nat /\ Capacity \in Nat /\ new \in Nat
  BY TokenFits, RefillBounds DEF Bucket
<1>2. Refilled(b, at) <= b.tokens + new * rps /\ Refilled(b, at) \in Nat
  BY <1>1, RefillBounds
<1> HIDE DEF new
<1>3. (e + new) * rps = e * rps + new * rps
  BY <1>1, ProductSplits
<1>4. (n + 1) * SECOND = n * SECOND + SECOND
  BY <1>1, ProductSplits
<1>5. n * SECOND \in Nat /\ e * rps \in Nat /\ new * rps \in Nat
  BY <1>1, ProductNat
<1>6. n * SECOND + Refilled(b, at) <= Capacity + (e + new) * rps
  BY <1>1, <1>2, <1>3, <1>5
<1>7. CASE Allows(b, at)
  <2>1. Taken(b, at).tokens = Refilled(b, at) - SECOND
    BY <1>7, TakenType
  <2> QED
    BY <1>1, <1>2, <1>3, <1>4, <1>5, <1>6, <1>7, <2>1 DEF new
<1>8. CASE ~Allows(b, at)
  BY <1>6, <1>8, TakenType DEF new
<1> QED
  BY <1>7, <1>8

\* A pristine bucket is owed nothing: refilled, the key could spend a whole burst,
\* so a sweep that forgets the bucket forgets no debt (is_pristine).
LEMMA PristineOwesNothing ==
    ASSUME NEW b \in Bucket, NEW at \in Nat, NEW e \in Nat, NEW n \in Nat, IsPristine(b, at),
           n * SECOND + b.tokens <= Capacity + e * rps
    PROVE  n * SECOND <= (e + Elapsed(b, at)) * rps
<1> DEFINE new == Elapsed(b, at)
<1>1. /\ b.tokens \in Nat /\ SECOND \in Nat /\ rps \in Nat /\ Capacity \in Nat /\ new \in Nat
  BY TokenFits, RefillBounds DEF Bucket
<1>2. b.tokens + new * rps >= Capacity
  BY DEF IsPristine
<1> HIDE DEF new
<1>3. (e + new) * rps = e * rps + new * rps
  BY <1>1, ProductSplits
<1>4. n * SECOND \in Nat /\ e * rps \in Nat /\ new * rps \in Nat
  BY <1>1, ProductNat
<1>5. n * SECOND <= (e + new) * rps
  BY <1>1, <1>2, <1>3, <1>4
<1> QED
  BY <1>5 DEF new

\* check of a known key keeps every account, however old its reading is.
LEMMA AccountsKnownStep ==
    ASSUME LimiterInv, AccountsOK, NEW q \in Requests, CheckKnown(q)
    PROVE  AccountsOK'
<1> DEFINE k == req[q].key
           at == req[q].at
           b == buckets[k]
           earned == clock'[k] - since'[k] + back'[k]
<1>1. k \in Keys /\ at \in Nat /\ b \in Bucket /\ b # None /\ req[q] # None
  BY DEF LimiterInv, TypeOK, CheckKnown
<1>2. /\ buckets' = [buckets EXCEPT ![k] = Taken(b, at)]
      /\ admitted' = [admitted EXCEPT ![k] = IF Allows(b, at) THEN @ + 1 ELSE @]
      /\ clock' = [clock EXCEPT ![k] = at]
      /\ back' = [back EXCEPT ![k] = @ + SetBack(k, at)]
      /\ req' = [req EXCEPT ![q] = None] /\ now' = now /\ since' = since
  BY DEF CheckKnown, Decide
<1>3. /\ since[k] # None /\ since[k] \in Nat /\ admitted[k] \in Nat
      /\ clock[k] \in Nat /\ back[k] \in Nat /\ Earned(k) \in Nat /\ b.updated_at = clock[k]
      /\ admitted[k] * SECOND + b.tokens <= Capacity + Earned(k) * rps
      /\ at <= now
  <2>1. Balanced(k) /\ at <= now
    BY <1>1 DEF AccountsOK
  <2> QED
    BY <1>1, <2>1 DEF Balanced, Earned, LimiterInv, TypeOK
<1>4. /\ buckets'[k] = Taken(b, at) /\ buckets'[k].updated_at = at
      /\ admitted'[k] = IF Allows(b, at) THEN admitted[k] + 1 ELSE admitted[k]
      /\ clock'[k] = at /\ back'[k] = back[k] + SetBack(k, at) /\ since'[k] = since[k]
  BY <1>1, <1>2, TakenType DEF LimiterInv, TypeOK
<1>5. earned = Earned(k) + Elapsed(b, at) /\ Elapsed(b, at) \in Nat
  BY <1>1, <1>3, <1>4 DEF Earned, SetBack, Elapsed
<1>6. ASSUME NEW j \in Keys PROVE Balanced(j)'
  <2>1. CASE j = k
    <3>1. admitted'[k] * SECOND + buckets'[k].tokens <= Capacity + earned * rps
      <4>1. admitted'[k] * SECOND + buckets'[k].tokens <= Capacity + (Earned(k) + Elapsed(b, at)) * rps
        <5> HIDE DEF k, at
        <5> QED BY <1>1, <1>3, <1>4, TakeBalances
      <4> QED BY <1>5, <4>1
    <3>2. earned >= 0
      BY <1>3, <1>5
    <3>3. buckets'[k] # None /\ since'[k] # None
      BY <1>1, <1>3, <1>4, TakenType, NoneAssumption
    <3> QED
      BY <1>2, <1>3, <1>4, <2>1, <3>1, <3>2, <3>3 DEF Balanced, Earned
  <2>2. CASE j # k
    <3>1. /\ buckets'[j] = buckets[j] /\ admitted'[j] = admitted[j] /\ since'[j] = since[j]
          /\ clock'[j] = clock[j] /\ back'[j] = back[j] /\ now' = now
      BY <1>2, <2>2 DEF LimiterInv, TypeOK
    <3> QED
      BY <3>1 DEF AccountsOK, Balanced, Earned
  <2> QED
    BY <2>1, <2>2
<1>7. \A p \in Requests : req'[p] # None => req'[p].at <= now'
  BY <1>1, <1>2 DEF AccountsOK, LimiterInv, TypeOK
<1> QED
  BY <1>6, <1>7 DEF AccountsOK

\* check of a new key keeps every account: the keys it pushes out are owed nothing,
\* or their accounts start afresh.
LEMMA AccountsNewStep ==
    ASSUME LimiterInv, AccountsOK, NEW q \in Requests, CheckNew(q)
    PROVE  AccountsOK'
<1> DEFINE k == req[q].key
           at == req[q].at
           full == Taken(NewBucket(at), at)
           earned == clock'[k] - since'[k] + back'[k]
<1>1. /\ k \in Keys /\ at \in Nat /\ req[q] # None /\ buckets[k] = None
      /\ SECOND \in Nat /\ rps \in Nat /\ at <= now /\ now \in Nat
  BY TokenFits DEF LimiterInv, TypeOK, CheckNew, AccountsOK
<1>2. full \in Bucket /\ full.updated_at = at /\ full.tokens = Capacity - SECOND
  <2>1. NewBucket(at) \in Bucket /\ Allows(NewBucket(at), at) /\ Refilled(NewBucket(at), at) = Capacity
    BY <1>1, NewBucketType
  <2> QED
    BY <1>1, <2>1, TakenType
<1>3. PICK out \in MadeRoom(at) :
        LET lost == {j \in out : ~IsPristine(buckets[j], at)} IN
        /\ buckets' = [j \in Keys |-> IF j = k THEN full ELSE IF j \in out THEN None ELSE buckets[j]]
        /\ admitted' = [j \in Keys |-> IF j = k THEN admitted[k] + 1
                                       ELSE IF j \in lost THEN 0 ELSE admitted[j]]
        /\ since' = [j \in Keys |-> IF j = k /\ since[k] = None THEN at
                                    ELSE IF j \in lost THEN None ELSE since[j]]
        /\ clock' = [j \in Keys |-> IF j = k THEN at
                                    ELSE IF j \in out /\ at > clock[j] THEN at ELSE clock[j]]
        /\ back' = [j \in Keys |-> IF j = k THEN back[k] + SetBack(k, at)
                                   ELSE IF j \in lost THEN 0 ELSE back[j]]
  BY DEF CheckNew
<1>4. req' = [req EXCEPT ![q] = None] /\ now' = now
  BY DEF CheckNew
<1>5. out \subseteq {j \in Keys : buckets[j] # None}
  BY <1>3, RoomIsUsed DEF Used
<1> HIDE DEF full
<1>6. ASSUME NEW j \in Keys PROVE Balanced(j)'
  <2>0. Balanced(j) /\ admitted[j] \in Nat /\ clock[j] \in Nat /\ back[j] \in Nat /\ since[j] \in Nat \cup {None}
    BY DEF AccountsOK, LimiterInv, TypeOK
  <2>1. CASE j = k
    <3>1. /\ buckets'[k] = full /\ admitted'[k] = admitted[k] + 1 /\ clock'[k] = at
          /\ since'[k] = (IF since[k] = None THEN at ELSE since[k])
          /\ back'[k] = back[k] + SetBack(k, at)
      BY <1>1, <1>3, <1>5
    <3>2. earned \in Nat /\ admitted[k] * SECOND <= earned * rps
      <4>1. CASE since[k] = None
        <5>1. admitted[k] = 0 /\ back[k] = 0 /\ SetBack(k, at) = 0
          BY <2>0, <2>1, <4>1 DEF Balanced, SetBack
        <5>2. earned = 0
          BY <1>1, <3>1, <4>1, <5>1 DEF Earned
        <5>3. 0 * SECOND = 0 /\ 0 * rps = 0
          BY <1>1
        <5> QED
          BY <5>1, <5>2, <5>3
      <4>2. CASE since[k] # None
        <5>1. Earned(k) \in Nat /\ admitted[k] * SECOND <= Earned(k) * rps
          BY <1>1, <2>0, <2>1, <4>2 DEF Balanced, Earned
        <5>2. earned \in Nat /\ Earned(k) <= earned
          BY <1>1, <2>0, <2>1, <3>1, <4>2, <5>1 DEF Earned, SetBack
        <5>3. Earned(k) * rps <= earned * rps
          BY <1>1, <5>1, <5>2, ProductMonotonic
        <5>4. admitted[k] * SECOND \in Nat /\ Earned(k) * rps \in Nat /\ earned * rps \in Nat
          BY <1>1, <2>0, <2>1, <5>1, <5>2, ProductNat
        <5> QED
          BY <5>1, <5>2, <5>3, <5>4
      <4> QED
        BY <4>1, <4>2
    <3>3. (admitted[k] + 1) * SECOND = admitted[k] * SECOND + SECOND
      BY <1>1, <2>0, <2>1, ProductSplits
    <3>4. admitted[k] * SECOND \in Nat /\ earned * rps \in Nat
      BY <1>1, <2>0, <2>1, <3>2, ProductNat
    <3>5. admitted'[k] * SECOND + buckets'[k].tokens <= Capacity + earned * rps
      <4>1. admitted'[k] * SECOND = admitted[k] * SECOND + SECOND /\ buckets'[k].tokens = Capacity - SECOND
        BY <1>2, <3>1, <3>3
      <4>2. admitted[k] * SECOND <= earned * rps
        BY <3>2
      <4> QED
        BY <1>1, <3>4, <4>1, <4>2, TokenFits
    <3>6. buckets'[k] # None /\ since'[k] # None /\ buckets'[k].updated_at = at
      BY <1>1, <1>2, <2>0, <2>1, <3>1, NoneAssumption
    <3>7. earned >= 0 /\ clock'[k] <= now'
      BY <1>1, <1>4, <3>1, <3>2
    <3> QED
      BY <2>1, <3>1, <3>5, <3>6, <3>7 DEF Balanced, Earned
  <2>2. CASE j # k /\ j \in out /\ ~IsPristine(buckets[j], at)
    <3>1. buckets'[j] = None /\ admitted'[j] = 0 /\ since'[j] = None /\ back'[j] = 0
      BY <1>3, <2>2
    <3> QED
      BY <3>1 DEF Balanced
  <2>3. CASE j # k /\ j \in out /\ IsPristine(buckets[j], at)
    <3>1. /\ buckets'[j] = None /\ admitted'[j] = admitted[j] /\ since'[j] = since[j]
          /\ back'[j] = back[j] /\ clock'[j] = (IF at > clock[j] THEN at ELSE clock[j])
      BY <1>3, <2>3
    <3>2. buckets[j] # None /\ buckets[j] \in Bucket /\ since[j] # None /\ since[j] \in Nat
      BY <1>5, <2>0, <2>3 DEF Balanced, LimiterInv, TypeOK
    <3>3. /\ clock[j] <= now /\ Earned(j) \in Nat /\ buckets[j].updated_at = clock[j]
          /\ admitted[j] * SECOND + buckets[j].tokens <= Capacity + Earned(j) * rps
      BY <2>0, <3>2 DEF Balanced, Earned
    <3>4. Earned(j)' = Earned(j) + Elapsed(buckets[j], at) /\ Elapsed(buckets[j], at) \in Nat
      BY <1>1, <2>0, <3>1, <3>2, <3>3 DEF Earned, Elapsed
    <3>5. admitted[j] * SECOND <= (Earned(j) + Elapsed(buckets[j], at)) * rps
      BY <1>1, <2>0, <2>3, <3>2, <3>3, PristineOwesNothing
    <3>6. admitted'[j] * SECOND <= Earned(j)' * rps /\ Earned(j)' >= 0
      BY <3>1, <3>3, <3>4, <3>5
    <3>7. clock'[j] <= now'
      BY <1>1, <1>4, <3>1, <3>3
    <3> QED
      BY <3>1, <3>2, <3>6, <3>7 DEF Balanced
  <2>4. CASE j # k /\ j \notin out
    <3>1. /\ buckets'[j] = buckets[j] /\ admitted'[j] = admitted[j] /\ since'[j] = since[j]
          /\ clock'[j] = clock[j] /\ back'[j] = back[j]
      BY <1>3, <2>4
    <3> QED
      BY <1>4, <2>0, <3>1 DEF Balanced, Earned
  <2> QED
    BY <2>1, <2>2, <2>3, <2>4
<1>7. \A p \in Requests : req'[p] # None => req'[p].at <= now'
  BY <1>1, <1>4 DEF AccountsOK, LimiterInv, TypeOK
<1> QED
  BY <1>6, <1>7 DEF AccountsOK

\* Every step keeps every account.
LEMMA AccountsStep == LimiterInv /\ AccountsOK /\ [Next]_vars => AccountsOK'
<1> SUFFICES ASSUME LimiterInv, AccountsOK, [Next]_vars PROVE AccountsOK'
  OBVIOUS
<1>1. CASE UNCHANGED vars
  BY <1>1 DEF vars, AccountsOK, Balanced, Earned
<1>2. ASSUME NEW q \in Requests, ReadClock(q) PROVE AccountsOK'
  <2>1. /\ UNCHANGED <<now, buckets, admitted, since, clock, back>> /\ now \in Nat
        /\ \A p \in Requests : req'[p] = req[p] \/ (req'[p] # None => req'[p].at = now)
    BY <1>2 DEF ReadClock, LimiterInv, TypeOK
  <2> QED
    BY <2>1 DEF AccountsOK, Balanced, Earned
<1>3. CASE Tick
  <2>1. /\ UNCHANGED <<req, buckets, admitted, since, clock, back>>
        /\ now \in Nat /\ now' = now + 1
    BY <1>3 DEF Tick, LimiterInv, TypeOK
  <2>2. ASSUME NEW k \in Keys PROVE Balanced(k)'
    <3>1. Balanced(k) /\ clock[k] \in Nat
      BY DEF AccountsOK, LimiterInv, TypeOK
    <3>2. clock[k] <= now => clock[k] <= now'
      BY <2>1, <3>1
    <3> QED
      BY <2>1, <3>1, <3>2 DEF Balanced, Earned
  <2>3. ASSUME NEW q \in Requests, req'[q] # None PROVE req'[q].at <= now'
    <3>1. req'[q] = req[q] /\ req[q].at \in Nat /\ req[q].at <= now
      BY <2>1, <2>3 DEF AccountsOK, LimiterInv, TypeOK
    <3> QED
      BY <2>1, <3>1
  <2> QED
    BY <2>2, <2>3 DEF AccountsOK
<1> QED
  BY <1>1, <1>2, <1>3, AccountsKnownStep, AccountsNewStep DEF Next

\* No key is allowed more than its burst, its refill and the refill of the time by
\* which older readings set its bucket back, over any number of concurrent
\* requests, denials, evictions and sweeps (Bucket::take, Limiter::check).
THEOREM TokensAreBounded == Spec => []NoExtraTokens
<1>1. Init => AccountsOK
  BY DEF Init, AccountsOK, Balanced
<1>2. LimiterInv /\ AccountsOK => NoExtraTokens
  <2> SUFFICES ASSUME LimiterInv, AccountsOK, NEW k \in Keys, since[k] # None
               PROVE  admitted[k] * SECOND <= Capacity + (now - since[k] + back[k]) * rps
    BY DEF NoExtraTokens
  <2> DEFINE e == Earned(k)
             t == now - since[k] + back[k]
  <2>1. /\ Balanced(k) /\ since[k] \in Nat /\ admitted[k] \in Nat /\ now \in Nat
        /\ clock[k] \in Nat /\ back[k] \in Nat
        /\ SECOND \in Nat /\ rps \in Nat /\ Capacity \in Nat
    BY TokenFits DEF AccountsOK, LimiterInv, TypeOK
  <2>2. e \in Nat /\ t \in Nat /\ e <= t
    BY <2>1 DEF Balanced, Earned
  <2>3. admitted[k] * SECOND <= Capacity + e * rps
    <3>1. admitted[k] * SECOND \in Nat /\ e * rps \in Nat
      BY <2>1, <2>2, ProductNat
    <3>2. CASE buckets[k] = None
      <4>1. admitted[k] * SECOND <= e * rps
        BY <2>1, <3>2 DEF Balanced
      <4> HIDE DEF e
      <4> QED BY <2>1, <3>1, <4>1
    <3>3. CASE buckets[k] # None
      <4>1. admitted[k] * SECOND + buckets[k].tokens <= Capacity + e * rps
        BY <2>1, <3>3 DEF Balanced
      <4>2. buckets[k].tokens \in Nat
        BY <2>1, <3>3 DEF LimiterInv, TypeOK, Bucket
      <4> HIDE DEF e
      <4> QED BY <2>1, <3>1, <4>1, <4>2
    <3> QED BY <3>2, <3>3
  <2> HIDE DEF e, t
  <2>4. e * rps <= t * rps /\ admitted[k] * SECOND \in Nat /\ e * rps \in Nat /\ t * rps \in Nat
    BY <2>1, <2>2, ProductMonotonic, ProductNat
  <2>5. admitted[k] * SECOND <= Capacity + t * rps
    BY <2>1, <2>3, <2>4
  <2> QED
    BY <2>5 DEF t
<1> QED
  BY <1>1, <1>2, AccountsStep, LimiterInvariant, PTL DEF Spec
=============================================================================
