---------------------------- MODULE TokenVerifier ----------------------------
(***************************************************************************)
(* The introspection cache every bearer request goes through, in oauth     *)
(* and in oauth-proxy mode (auth/oauth.rs), and the one handler that purges *)
(* it, POST /revoke of oauth mode (transport/http.rs).  The cache is a map *)
(* behind a Mutex that is never held across the introspection call, so a   *)
(* verification is a lookup, a call that reads Doorkeeper at some moment   *)
(* and answers later, a judgement of the answer, and an insertion; other   *)
(* verifications and revocations run between any two of them.              *)
(*                                                                         *)
(* Two clocks, as in the code: `now` is Instant (cache deadlines), `wall`  *)
(* is the unix time `exp` is compared with.  They advance independently.   *)
(***************************************************************************)
EXTENDS Naturals, FiniteSets

CONSTANTS
    Requests,            \* concurrent handler slots
    Tokens,              \* bearer tokens (a digest stands for its token)
    None,
    TTL,                 \* token_cache_ttl; 0 disables the cache
    NEGATIVE_CACHE_TTL,
    CLOCK_SKEW_SECS,
    CACHE_CAPACITY,
    TIMEOUT,             \* total timeout of the introspection client
    Exps,                \* the `exp` values Doorkeeper reports; None: no exp
    MaxTime              \* both clocks stop here (model bound)

ASSUME VerifierAssumption ==
    /\ {TTL, NEGATIVE_CACHE_TTL, CLOCK_SKEW_SECS, CACHE_CAPACITY, TIMEOUT, MaxTime} \subseteq Nat
    /\ Exps \subseteq Nat \cup {None}
    /\ None \notin Nat

VARIABLES
    now, wall,
    exp,         \* Doorkeeper (external): expiry of each token
    revokedAt,   \* Doorkeeper (external): Instant of its revocation, or None
    cache,       \* TokenVerifier.cache
    pc, req      \* where each request is, and its locals

vars == <<now, wall, exp, revokedAt, cache, pc, req>>

CacheEntry == [value: {"Valid", "Invalid"}, expires_at: Nat]
Locals == [tok: Tokens \cup {None}, active: BOOLEAN, started: Nat]
NoLocals == [tok |-> None, active |-> FALSE, started |-> 0]

PCs == {"idle",
        "introspect", "answer", "put_valid", "put_invalid",  \* verify
        "run",                                               \* next.run(req)
        "revoke", "purge"}                                   \* POST /revoke

TypeOK ==
    /\ now \in Nat /\ wall \in Nat
    /\ exp \in [Tokens -> Exps]
    /\ revokedAt \in [Tokens -> Nat \cup {None}]
    /\ cache \in [Tokens -> CacheEntry \cup {None}]
    /\ pc \in [Requests -> PCs]
    /\ req \in [Requests -> Locals]

------------------------------------------------------------------------------

\* `exp` within the clock skew of the wall clock counts as expired.
IsExpired(t) == exp[t] # None /\ exp[t] <= wall + CLOCK_SKEW_SECS

Goto(q, label) == pc' = [pc EXCEPT ![q] = label]
Reply(q) == pc' = [pc EXCEPT ![q] = "idle"] /\ req' = [req EXCEPT ![q] = NoLocals]
Start(q, t, label) ==
    /\ req' = [req EXCEPT ![q] = [NoLocals EXCEPT !.tok = t, !.started = now]]
    /\ Goto(q, label)

\* The entry cache_get looks at, if its deadline has not passed.
Unexpired(t) == cache[t] # None /\ cache[t].expires_at > now

\* Mutant: no second look at `exp` on a hit.
HitWithoutExp(t) == TTL > 0 /\ Unexpired(t)

\* Mutant: an entry past its deadline is still served.
HitPastDeadline(t) == TTL > 0 /\ cache[t] # None /\ (cache[t].value = "Valid" => ~IsExpired(t))

\* cache_get answers from the cache; `exp` is checked again on every hit.
Hit(t) == TTL > 0 /\ Unexpired(t) /\ (cache[t].value = "Valid" => ~IsExpired(t))

\* verify, up to the answer of the cache or the introspection call.
Verify(q) ==
    /\ pc[q] = "idle"
    /\ \E t \in Tokens :
         \/ /\ Hit(t) /\ cache[t].value = "Valid"
            /\ Start(q, t, "run")
            /\ UNCHANGED cache
         \/ /\ Hit(t) /\ cache[t].value = "Invalid"      \* 401 invalid_token
            /\ UNCHANGED <<cache, pc, req>>
         \/ /\ ~Hit(t)
            /\ cache' = IF TTL > 0 THEN [cache EXCEPT ![t] = None] ELSE cache
            /\ Start(q, t, "introspect")
    /\ UNCHANGED <<now, wall, exp, revokedAt>>

\* Doorkeeper (external) decides its answer, which then travels back.
DoorkeeperAnswers(q) ==
    /\ pc[q] = "introspect"
    /\ LET t == req[q].tok
       IN  req' = [req EXCEPT ![q].active =
                     revokedAt[t] = None /\ (exp[t] # None => exp[t] > wall)]
    /\ Goto(q, "answer")
    /\ UNCHANGED <<now, wall, exp, revokedAt, cache>>

\* Mutant: an outage is remembered as a rejection.
OutageCached(q) ==
    /\ pc[q] \in {"introspect", "answer"}
    /\ cache' = [cache EXCEPT ![req[q].tok] =
                   [value |-> "Invalid", expires_at |-> now + NEGATIVE_CACHE_TTL]]
    /\ Reply(q)
    /\ UNCHANGED <<now, wall, exp, revokedAt>>

\* Unavailable or Misconfigured (503), or the request was dropped: not cached.
IntrospectFails(q) ==
    /\ pc[q] \in {"introspect", "answer"}
    /\ Reply(q)
    /\ UNCHANGED <<now, wall, exp, revokedAt, cache>>

\* context_from judges the answer; with no cache it is also the verdict.
ContextFrom(q) ==
    /\ pc[q] = "answer"
    /\ IF req[q].active /\ ~IsExpired(req[q].tok)
       THEN Goto(q, IF TTL > 0 THEN "put_valid" ELSE "run") /\ UNCHANGED req
       ELSE IF TTL > 0 THEN Goto(q, "put_invalid") /\ UNCHANGED req ELSE Reply(q)
    /\ UNCHANGED <<now, wall, exp, revokedAt, cache>>

\* Lifetime of a positive entry: capped by what is left until `exp`; 0: skip.
PositiveTtl(t) ==
    LET left == IF IsExpired(t) THEN 0 ELSE exp[t] - wall - CLOCK_SKEW_SECS
    IN  IF exp[t] = None \/ left > TTL THEN TTL ELSE left

\* A live entry is never evicted: a full cache skips a new digest.
HasRoom(map, t) == map[t] # None \/ Cardinality({u \in Tokens : map[u] # None}) < CACHE_CAPACITY

\* cache_put's effect for token t and an entry lifetime ttl, in one lock.
Put(t, value, ttl) ==
    LET kept == [u \in Tokens |-> IF Unexpired(u) THEN cache[u] ELSE None]
    IN  cache' = IF ttl = 0 THEN cache
                 ELSE IF HasRoom(kept, t)
                      THEN [kept EXCEPT ![t] = [value |-> value, expires_at |-> now + ttl]]
                      ELSE kept

\* cache_put, then the verdict.
CachePut(q) ==
    /\ \/ /\ pc[q] = "put_valid"
          /\ Put(req[q].tok, "Valid", PositiveTtl(req[q].tok))
          /\ Goto(q, "run") /\ UNCHANGED req
       \/ /\ pc[q] = "put_invalid"
          /\ Put(req[q].tok, "Invalid", NEGATIVE_CACHE_TTL)
          /\ Reply(q)
    /\ UNCHANGED <<now, wall, exp, revokedAt>>

\* The MCP handler runs with the verified context, and answers.
RunHandler(q) ==
    /\ pc[q] = "run"
    /\ Reply(q)
    /\ UNCHANGED <<now, wall, exp, revokedAt, cache>>

------------------------------------------------------------------------------
(* POST /revoke, and revocations the server never hears of *)

RevokeRequest(q) ==
    /\ pc[q] = "idle"
    /\ \E t \in Tokens : Start(q, t, "revoke")
    /\ UNCHANGED <<now, wall, exp, revokedAt, cache>>

Revoked(t) == [revokedAt EXCEPT ![t] = IF @ = None THEN now ELSE @]

\* revoke_token answered Ok.
RevokedUpstream(q) ==
    /\ pc[q] = "revoke"
    /\ revokedAt' = Revoked(req[q].tok)
    /\ Goto(q, "purge")
    /\ UNCHANGED <<now, wall, exp, cache, req>>

\* It failed, or its answer was lost, or the client left: nothing is purged.
RevokeFails(q) ==
    /\ pc[q] = "revoke"
    /\ revokedAt' \in {revokedAt, Revoked(req[q].tok)}
    /\ Reply(q)
    /\ UNCHANGED <<now, wall, exp, cache>>

\* purge, then 200.
Purge(q) ==
    /\ pc[q] = "purge"
    /\ cache' = [cache EXCEPT ![req[q].tok] = None]
    /\ Reply(q)
    /\ UNCHANGED <<now, wall, exp, revokedAt>>

\* Doorkeeper (external): an administrator or the user revokes elsewhere.
RevokedElsewhere ==
    /\ \E t \in Tokens : revokedAt[t] = None /\ revokedAt' = Revoked(t)
    /\ UNCHANGED <<now, wall, exp, cache, pc, req>>

------------------------------------------------------------------------------

\* The introspection client gives up TIMEOUT after it started.
Verifying(q) == pc[q] \in {"introspect", "answer", "put_valid", "put_invalid"}

TickInstant ==
    /\ now < MaxTime
    /\ \A q \in Requests : Verifying(q) => now < req[q].started + TIMEOUT
    /\ now' = now + 1
    /\ UNCHANGED <<wall, exp, revokedAt, cache, pc, req>>

TickWall ==
    /\ wall < MaxTime
    /\ wall' = wall + 1
    /\ UNCHANGED <<now, exp, revokedAt, cache, pc, req>>

Init ==
    /\ now = 0 /\ wall = 0
    /\ exp \in [Tokens -> Exps]
    /\ revokedAt = [t \in Tokens |-> None]
    /\ cache = [t \in Tokens |-> None]
    /\ pc = [q \in Requests |-> "idle"]
    /\ req = [q \in Requests |-> NoLocals]

Next ==
    \/ \E q \in Requests :
         \/ Verify(q) \/ DoorkeeperAnswers(q) \/ IntrospectFails(q) \/ ContextFrom(q)
         \/ CachePut(q) \/ RunHandler(q)
         \/ RevokeRequest(q) \/ RevokedUpstream(q) \/ RevokeFails(q) \/ Purge(q)
    \/ RevokedElsewhere
    \/ TickInstant
    \/ TickWall

Spec == Init /\ [][Next]_vars

------------------------------------------------------------------------------
(* Properties *)

\* The step at which request q's token is accepted: a hit, or the judgement.
Accepts(q) == pc[q] \in {"idle", "answer"} /\ pc'[q] \in {"run", "put_valid"}

\* A token is never accepted once its `exp` is within the clock skew, also from
\* an entry cached before, and also when the wall clock runs ahead of the
\* monotonic one (cache_get, context_from).
NeverAcceptedPastExp ==
    [][\A q \in Requests : Accepts(q) => ~IsExpired(req'[q].tok)]_vars

\* However a verification races the revocation, a revoked token is accepted for
\* at most the cache lifetime plus one introspection round trip (verify).
StalenessBounded ==
    [][\A q \in Requests :
          Accepts(q) /\ revokedAt[req'[q].tok] # None =>
          now <= revokedAt[req'[q].tok] + TIMEOUT + TTL]_vars

\* A cached rejection is about a token that really is unusable: an outage or a
\* misconfiguration is never remembered against the caller (cache_put).
NegativeMeansUnusable ==
    \A t \in Tokens : cache[t] # None /\ cache[t].value = "Invalid" =>
        revokedAt[t] # None \/ IsExpired(t)

=============================================================================
