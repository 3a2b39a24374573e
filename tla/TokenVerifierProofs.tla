------------------------- MODULE TokenVerifierProofs -------------------------
(***************************************************************************)
(* Theorems about TokenVerifier, for any number of concurrent requests and *)
(* tokens, any cache capacity and any lifetimes.                           *)
(*                                                                         *)
(* The inductive invariant has a part per request and a part per token.    *)
(* SlotOK says what a verification under way knows: when it started, and   *)
(* what the answer it carries still implies after others have moved        *)
(* between its steps.  EntryOK says what a cached verdict implies.         *)
(***************************************************************************)
EXTENDS TokenVerifier, TLAPS

\* What a rejection of t means: it was revoked, or its `exp` is reached.
Unusable(t) == revokedAt[t] # None \/ IsExpired(t)

\* An accepting answer is no older than the revocation it may have missed.
AskedBeforeRevocation(q) ==
    revokedAt[req[q].tok] # None => req[q].started <= revokedAt[req[q].tok]

\* A request and what it carries from one step to the next.
SlotOK(q) ==
    /\ pc[q] # "idle" => req[q].tok \in Tokens
    /\ req[q].started <= now
    /\ Verifying(q) => now <= req[q].started + TIMEOUT
    /\ pc[q] = "put_valid" => req[q].active
    /\ pc[q] \in {"answer", "put_valid"} /\ req[q].active => AskedBeforeRevocation(q)
    /\ pc[q] = "answer" /\ ~req[q].active => Unusable(req[q].tok)
    /\ pc[q] = "put_invalid" => Unusable(req[q].tok)

\* A token, its revocation and its cache entry.
EntryOK(t) ==
    /\ revokedAt[t] # None => revokedAt[t] <= now
    /\ cache[t] # None /\ cache[t].value = "Valid" =>
         /\ cache[t].expires_at <= now + TTL
         /\ revokedAt[t] # None => cache[t].expires_at <= revokedAt[t] + TIMEOUT + TTL
    /\ cache[t] # None /\ cache[t].value = "Invalid" => Unusable(t)

Slots == \A q \in Requests : SlotOK(q)
Entries == \A t \in Tokens : EntryOK(t)

VerifierInv == TypeOK /\ Slots /\ Entries

------------------------------------------------------------------------------
(* Helpers *)

\* The lifetime cache_put gives a positive entry is at most the cache's TTL.
LEMMA PositiveTtlType ==
    ASSUME TypeOK, NEW t \in Tokens
    PROVE  PositiveTtl(t) \in 0..TTL
<1>1. exp[t] \in Nat \cup {None} /\ wall \in Nat
  BY VerifierAssumption DEF TypeOK
<1>2. CASE exp[t] = None
  BY <1>2, VerifierAssumption DEF PositiveTtl
<1>3. CASE exp[t] # None /\ IsExpired(t)
  BY <1>3, VerifierAssumption DEF PositiveTtl
<1>4. CASE exp[t] # None /\ ~IsExpired(t)
  BY <1>1, <1>4, VerifierAssumption DEF PositiveTtl, IsExpired
<1> QED
  BY <1>2, <1>3, <1>4

\* cache_put keeps every other entry or drops it, and leaves at t the entry it was
\* asked to store, the entry that was there, or nothing.
LEMMA PutEffect ==
    ASSUME TypeOK, NEW t \in Tokens, NEW value \in {"Valid", "Invalid"}, NEW ttl \in Nat,
           Put(t, value, ttl)
    PROVE  /\ cache' \in [Tokens -> CacheEntry \cup {None}]
           /\ \A u \in Tokens :
                \/ cache'[u] = cache[u]
                \/ cache'[u] = None
                \/ u = t /\ cache'[u] = [value |-> value, expires_at |-> now + ttl]
<1> DEFINE kept == [u \in Tokens |-> IF Unexpired(u) THEN cache[u] ELSE None]
           entry == [value |-> value, expires_at |-> now + ttl]
<1>1. kept \in [Tokens -> CacheEntry \cup {None}] /\ entry \in CacheEntry
  BY DEF TypeOK, CacheEntry
<1>2. cache' \in {cache, kept, [kept EXCEPT ![t] = entry]}
  BY DEF Put
<1> QED
  BY <1>1, <1>2 DEF TypeOK

\* A slot that starts over is typed.
LEMMA StartTypes ==
    ASSUME TypeOK, NEW t \in Tokens
    PROVE  [NoLocals EXCEPT !.tok = t, !.started = now] \in Locals
BY DEF TypeOK, NoLocals, Locals

\* So is a slot that has answered (Reply).
LEMMA NoLocalsType == NoLocals \in Locals
BY DEF NoLocals, Locals

------------------------------------------------------------------------------
(* Type correctness *)

\* Every handler step and every external step keeps the types; cache_put's entry is
\* typed because the request that stores it has a token (SlotOK).
LEMMA TypeStep == VerifierInv /\ [Next]_vars => TypeOK'
<1> SUFFICES ASSUME VerifierInv, [Next]_vars PROVE TypeOK'
  OBVIOUS
<1> USE VerifierAssumption, NoLocalsType DEF VerifierInv
<1>1. ASSUME NEW q \in Requests, Verify(q) PROVE TypeOK'
  BY <1>1, StartTypes DEF Verify, TypeOK, Start, Goto, PCs
<1>2. ASSUME NEW q \in Requests, DoorkeeperAnswers(q) PROVE TypeOK'
  BY <1>2 DEF DoorkeeperAnswers, TypeOK, Goto, PCs, Locals
<1>3. ASSUME NEW q \in Requests, IntrospectFails(q) PROVE TypeOK'
  BY <1>3 DEF IntrospectFails, TypeOK, Reply, PCs
<1>4. ASSUME NEW q \in Requests, ContextFrom(q) PROVE TypeOK'
  BY <1>4 DEF ContextFrom, TypeOK, Reply, Goto, PCs
<1>5. ASSUME NEW q \in Requests, CachePut(q) PROVE TypeOK'
  <2>1. req[q].tok \in Tokens
    BY <1>5 DEF CachePut, Slots, SlotOK
  <2>2. cache' \in [Tokens -> CacheEntry \cup {None}]
    <3>1. CASE Put(req[q].tok, "Valid", PositiveTtl(req[q].tok))
      <4>1. PositiveTtl(req[q].tok) \in Nat
        BY <2>1, PositiveTtlType
      <4> QED
        BY <2>1, <3>1, <4>1, PutEffect
    <3>2. CASE Put(req[q].tok, "Invalid", NEGATIVE_CACHE_TTL)
      BY <2>1, <3>2, PutEffect
    <3> QED
      BY <1>5, <3>1, <3>2 DEF CachePut
  <2> QED
    BY <1>5, <2>2 DEF CachePut, TypeOK, Reply, Goto, PCs
<1>6. ASSUME NEW q \in Requests, RunHandler(q) PROVE TypeOK'
  BY <1>6 DEF RunHandler, TypeOK, Reply, PCs
<1>7. ASSUME NEW q \in Requests, RevokeRequest(q) PROVE TypeOK'
  BY <1>7, StartTypes DEF RevokeRequest, TypeOK, Start, Goto, PCs
<1>8. ASSUME NEW q \in Requests, RevokedUpstream(q) PROVE TypeOK'
  BY <1>8 DEF RevokedUpstream, Revoked, TypeOK, Goto, PCs
<1>9. ASSUME NEW q \in Requests, RevokeFails(q) PROVE TypeOK'
  BY <1>9 DEF RevokeFails, Revoked, TypeOK, Reply, PCs
<1>10. ASSUME NEW q \in Requests, Purge(q) PROVE TypeOK'
  BY <1>10 DEF Purge, TypeOK, Reply, PCs
<1>11. CASE RevokedElsewhere
  BY <1>11 DEF RevokedElsewhere, Revoked, TypeOK
<1>12. CASE TickInstant
  BY <1>12 DEF TickInstant, TypeOK
<1>13. CASE TickWall
  BY <1>13 DEF TickWall, TypeOK
<1>14. CASE UNCHANGED vars
  BY <1>14 DEF vars, TypeOK
<1> QED
  BY <1>1, <1>2, <1>3, <1>4, <1>5, <1>6, <1>7, <1>8, <1>9, <1>10, <1>11, <1>12, <1>13, <1>14
  DEF Next

------------------------------------------------------------------------------
(* What others may do between two steps of a verification *)

\* Time moves forward, `exp` is fixed, and a token is revoked once, now.
Forward ==
    /\ wall' \in Nat /\ wall <= wall' /\ now' \in Nat /\ now <= now'
    /\ exp' = exp
    /\ \A t \in Tokens :
         revokedAt'[t] = revokedAt[t] \/ (revokedAt[t] = None /\ revokedAt'[t] = now)

\* No handler and no external step turns a clock back or undoes a revocation.
LEMMA StepsForward == VerifierInv /\ [Next]_vars => Forward
<1> SUFFICES ASSUME VerifierInv, [Next]_vars PROVE Forward
  OBVIOUS
<1> USE VerifierAssumption DEF VerifierInv, TypeOK, Forward
<1>1. CASE UNCHANGED <<now, wall, exp, revokedAt>>
  BY <1>1
<1>2. ASSUME NEW q \in Requests, RevokedUpstream(q) \/ RevokeFails(q) PROVE Forward
  <2>1. revokedAt' \in {revokedAt, Revoked(req[q].tok)} /\ UNCHANGED <<now, wall, exp>>
    BY <1>2 DEF RevokedUpstream, RevokeFails
  <2> QED
    BY <2>1 DEF Revoked
<1>3. CASE RevokedElsewhere
  BY <1>3 DEF RevokedElsewhere, Revoked
<1>4. CASE TickInstant
  BY <1>4 DEF TickInstant
<1>5. CASE TickWall
  BY <1>5 DEF TickWall
<1> QED
  BY <1>1, <1>2, <1>3, <1>4, <1>5
  DEF Next, vars, Verify, DoorkeeperAnswers, IntrospectFails, ContextFrom, CachePut, RunHandler,
      RevokeRequest, Purge

\* A rejected token stays rejected: neither reason for it goes away.
LEMMA UnusableStays ==
    ASSUME VerifierInv, Forward, NEW t \in Tokens, Unusable(t)
    PROVE  Unusable(t)'
<1>1. exp[t] \in Nat \cup {None} /\ wall \in Nat
  BY VerifierAssumption DEF VerifierInv, TypeOK
<1>2. CASE revokedAt[t] # None
  BY <1>2 DEF Forward, Unusable
<1>3. CASE IsExpired(t)
  BY <1>1, <1>3, VerifierAssumption DEF IsExpired, Forward, Unusable
<1> QED
  BY <1>2, <1>3 DEF Unusable

\* A slot that does not move keeps what it knows while others move; a clock tick
\* waits for the slots whose timeout is up.
LEMMA SlotKept ==
    ASSUME VerifierInv, Forward, NEW r \in Requests, pc'[r] = pc[r], req'[r] = req[r],
           Verifying(r) => now' <= req[r].started + TIMEOUT
    PROVE  SlotOK(r)'
<1> DEFINE t == req[r].tok
<1>1. SlotOK(r) /\ req[r].started \in Nat /\ now \in Nat
  BY DEF VerifierInv, Slots, TypeOK, Locals
<1>2. pc[r] # "idle" => t \in Tokens
  BY <1>1 DEF SlotOK
<1>3. pc[r] # "idle" /\ Unusable(t) => Unusable(t)'
  BY <1>2, UnusableStays
<1>4. pc[r] # "idle" /\ AskedBeforeRevocation(r) => AskedBeforeRevocation(r)'
  BY <1>1, <1>2 DEF AskedBeforeRevocation, Forward, SlotOK
<1>5. req'[r].started <= now'
  BY <1>1 DEF SlotOK, Forward
<1> QED
  BY <1>1, <1>2, <1>3, <1>4, <1>5 DEF SlotOK, Verifying, Unusable, IsExpired

\* A slot that has answered or has not asked yet knows nothing.
LEMMA SlotFresh ==
    ASSUME TypeOK', NEW r \in Requests, req'[r].started <= now',
           pc'[r] \in {"idle", "introspect", "run", "revoke", "purge"},
           pc'[r] # "idle" => req'[r].tok \in Tokens,
           pc'[r] = "introspect" => req'[r].started = now'
    PROVE  SlotOK(r)'
BY VerifierAssumption DEF SlotOK, Verifying, TypeOK, Locals

\* What the acting slot q of a step must be shown; the others are SlotKept.
LEMMA SlotsFromOne ==
    ASSUME VerifierInv, Forward, NEW q \in Requests, now' = now,
           \A r \in Requests : r # q => pc'[r] = pc[r] /\ req'[r] = req[r],
           SlotOK(q)'
    PROVE  Slots'
<1> SUFFICES ASSUME NEW r \in Requests, r # q PROVE SlotOK(r)'
  BY DEF Slots
<1>1. Verifying(r) => now' <= req[r].started + TIMEOUT
  BY DEF VerifierInv, Slots, SlotOK
<1> QED
  BY <1>1, SlotKept

\* Every step keeps what the verifications under way know: the acting request by
\* what it has just learnt, the others because nothing they rely on is undone.
LEMMA SlotsStep == VerifierInv /\ [Next]_vars => Slots'
<1> SUFFICES ASSUME VerifierInv, [Next]_vars PROVE Slots'
  OBVIOUS
<1>0. TypeOK /\ TypeOK' /\ Forward /\ Slots
  BY TypeStep, StepsForward DEF VerifierInv
<1> USE VerifierAssumption
\* A step of one request.
<1>1. ASSUME NEW q \in Requests, Verify(q) \/ RevokeRequest(q) PROVE Slots'
  <2>1. UNCHANGED now /\ \A r \in Requests : r # q => pc'[r] = pc[r] /\ req'[r] = req[r]
    BY <1>0, <1>1 DEF Verify, RevokeRequest, Start, Goto, TypeOK
  <2>2. CASE UNCHANGED <<pc, req>>
    <3>1. Verifying(q) => now' <= req[q].started + TIMEOUT
      BY <1>0, <2>1 DEF Slots, SlotOK
    <3> QED
      BY <1>0, <2>1, <2>2, <3>1, SlotKept, SlotsFromOne
  <2>3. CASE \E t \in Tokens, l \in {"run", "introspect", "revoke"} : Start(q, t, l)
    <3>1. PICK t \in Tokens, l \in {"run", "introspect", "revoke"} : Start(q, t, l)
      BY <2>3
    <3>2. pc'[q] = l /\ req'[q].tok = t /\ req'[q].started = now
      BY <1>0, <3>1 DEF Start, Goto, TypeOK, NoLocals
    <3>3. SlotOK(q)'
      BY <1>0, <2>1, <3>2, SlotFresh DEF TypeOK
    <3> QED
      BY <1>0, <2>1, <3>3, SlotsFromOne
  <2> QED
    BY <1>1, <2>2, <2>3 DEF Verify, RevokeRequest
<1>2. ASSUME NEW q \in Requests,
             Reply(q), UNCHANGED now
      PROVE  Slots'
  <2>1. \A r \in Requests : r # q => pc'[r] = pc[r] /\ req'[r] = req[r]
    BY <1>0, <1>2 DEF Reply, TypeOK
  <2>2. pc'[q] = "idle" /\ req'[q].started = 0
    BY <1>0, <1>2 DEF Reply, TypeOK, NoLocals
  <2>3. SlotOK(q)'
    BY <1>0, <2>2, SlotFresh DEF TypeOK
  <2> QED
    BY <1>0, <1>2, <2>1, <2>3, SlotsFromOne
<1>3. ASSUME NEW q \in Requests, DoorkeeperAnswers(q) PROVE Slots'
  <2> DEFINE t == req[q].tok
  <2>1. UNCHANGED <<now, wall, exp, revokedAt>> /\ \A r \in Requests : r # q => pc'[r] = pc[r] /\ req'[r] = req[r]
    BY <1>0, <1>3 DEF DoorkeeperAnswers, Goto, TypeOK
  <2>2. /\ pc[q] = "introspect" /\ pc'[q] = "answer"
        /\ req'[q].tok = t /\ req'[q].started = req[q].started
        /\ req'[q].active <=> (revokedAt[t] = None /\ (exp[t] # None => exp[t] > wall))
    BY <1>0, <1>3 DEF DoorkeeperAnswers, Goto, TypeOK, Locals
  <2>3. SlotOK(q) /\ t \in Tokens
    BY <1>0, <2>2 DEF Slots, SlotOK
  <2>4. exp[t] \in Nat \cup {None} /\ wall \in Nat
    BY <1>0, <2>3 DEF TypeOK
  <2>5. ~req'[q].active => Unusable(t)
    BY <2>2, <2>4 DEF Unusable, IsExpired
  <2>6. Unusable(t) => Unusable(req[q].tok)'
    BY <2>1, <2>2 DEF Unusable, IsExpired
  <2>7. req'[q].active => AskedBeforeRevocation(q)'
    BY <2>1, <2>2 DEF AskedBeforeRevocation
  <2>8. SlotOK(q)'
    BY <2>1, <2>2, <2>3, <2>5, <2>6, <2>7 DEF SlotOK, Verifying
  <2> QED
    BY <1>0, <2>1, <2>8, SlotsFromOne
<1>4. ASSUME NEW q \in Requests, ContextFrom(q) PROVE Slots'
  <2> DEFINE t == req[q].tok
  <2>1. CASE Reply(q)
    BY <1>2, <1>4, <2>1 DEF ContextFrom
  <2>2. CASE UNCHANGED req /\ \E l \in {"put_valid", "run"} : req[q].active /\ Goto(q, l)
    <3>1. PICK l \in {"put_valid", "run"} : req[q].active /\ Goto(q, l)
      BY <2>2
    <3>2. /\ UNCHANGED <<now, wall, exp, revokedAt, req>> /\ pc'[q] = l /\ pc[q] = "answer"
          /\ \A r \in Requests : r # q => pc'[r] = pc[r] /\ req'[r] = req[r]
      BY <1>0, <1>4, <2>2, <3>1 DEF ContextFrom, Goto, TypeOK
    <3>3. SlotOK(q)'
      BY <1>0, <3>1, <3>2 DEF Slots, SlotOK, Verifying, AskedBeforeRevocation
    <3> QED
      BY <1>0, <3>2, <3>3, SlotsFromOne
  <2>3. CASE ~(req[q].active /\ ~IsExpired(t)) /\ Goto(q, "put_invalid") /\ UNCHANGED req
    <3>2. /\ UNCHANGED <<now, wall, exp, revokedAt, req>> /\ pc'[q] = "put_invalid" /\ pc[q] = "answer"
          /\ \A r \in Requests : r # q => pc'[r] = pc[r] /\ req'[r] = req[r]
      BY <1>0, <1>4, <2>3 DEF ContextFrom, Goto, TypeOK
    <3>3. Unusable(t)
      BY <1>0, <2>3, <3>2 DEF Slots, SlotOK, Unusable
    <3>4. Unusable(req[q].tok)'
      BY <3>2, <3>3 DEF Unusable, IsExpired
    <3>5. SlotOK(q)'
      BY <1>0, <3>2, <3>4 DEF Slots, SlotOK, Verifying
    <3> QED
      BY <1>0, <3>2, <3>5, SlotsFromOne
  <2> QED
    BY <1>4, <2>1, <2>2, <2>3 DEF ContextFrom
<1>5. ASSUME NEW q \in Requests, CachePut(q) PROVE Slots'
  <2>1. CASE Reply(q)
    BY <1>2, <1>5, <2>1 DEF CachePut
  <2>2. CASE pc[q] = "put_valid" /\ Goto(q, "run") /\ UNCHANGED req
    <3>1. /\ UNCHANGED <<now, req>> /\ pc'[q] = "run"
          /\ \A r \in Requests : r # q => pc'[r] = pc[r] /\ req'[r] = req[r]
      BY <1>0, <1>5, <2>2 DEF CachePut, Goto, TypeOK
    <3>2. SlotOK(q)'
      BY <1>0, <2>2, <3>1, SlotFresh DEF Slots, SlotOK
    <3> QED
      BY <1>0, <3>1, <3>2, SlotsFromOne
  <2> QED
    BY <1>5, <2>1, <2>2 DEF CachePut
<1>6. ASSUME NEW q \in Requests, RevokedUpstream(q) PROVE Slots'
  <2>1. /\ UNCHANGED <<now, req>> /\ pc[q] = "revoke" /\ pc'[q] = "purge"
        /\ \A r \in Requests : r # q => pc'[r] = pc[r] /\ req'[r] = req[r]
    BY <1>0, <1>6 DEF RevokedUpstream, Goto, TypeOK
  <2>2. SlotOK(q)'
    BY <1>0, <2>1, SlotFresh DEF Slots, SlotOK
  <2> QED
    BY <1>0, <2>1, <2>2, SlotsFromOne
\* A step of none of them.
<1>7. CASE /\ UNCHANGED <<pc, req>>
           /\ now' = now \/ TickInstant
  <2> SUFFICES ASSUME NEW r \in Requests PROVE SlotOK(r)'
    BY DEF Slots
  <2>1. req[r].started \in Nat /\ now \in Nat
    BY <1>0 DEF TypeOK, Locals
  <2>2. Verifying(r) => now' <= req[r].started + TIMEOUT
    BY <1>0, <1>7, <2>1 DEF TickInstant, Slots, SlotOK
  <2> QED
    BY <1>0, <1>7, <2>2, SlotKept
<1> QED
  BY <1>1, <1>2, <1>3, <1>4, <1>5, <1>6, <1>7
  DEF Next, vars, IntrospectFails, RunHandler, RevokeFails, Purge, RevokedElsewhere, TickInstant, TickWall

------------------------------------------------------------------------------
(* Cache entries *)

\* An entry that stays or goes keeps its meaning while the clocks move and tokens
\* are revoked: a token revoked now leaves its entry at most TTL to live.
LEMMA EntryKept ==
    ASSUME VerifierInv, Forward, NEW t \in Tokens, cache'[t] = cache[t] \/ cache'[t] = None
    PROVE  EntryOK(t)'
<1>1. /\ EntryOK(t) /\ now \in Nat /\ revokedAt[t] \in Nat \cup {None}
      /\ cache[t] # None => cache[t].expires_at \in Nat
  BY DEF VerifierInv, Entries, TypeOK, CacheEntry
<1>2. revokedAt'[t] # None => revokedAt'[t] <= now'
  BY <1>1, VerifierAssumption DEF EntryOK, Forward
<1>3. CASE cache'[t] = None
  BY <1>2, <1>3 DEF EntryOK
<1>4. CASE cache'[t] = cache[t]
  <2>1. ASSUME cache[t] # None, cache[t].value = "Valid"
        PROVE  /\ cache[t].expires_at <= now' + TTL
               /\ revokedAt'[t] # None => cache[t].expires_at <= revokedAt'[t] + TIMEOUT + TTL
    BY <1>1, <2>1, VerifierAssumption DEF EntryOK, Forward
  <2>2. cache[t] # None /\ cache[t].value = "Invalid" => Unusable(t)'
    BY <1>1, UnusableStays DEF EntryOK
  <2> QED
    BY <1>2, <1>4, <2>1, <2>2 DEF EntryOK
<1> QED
  BY <1>3, <1>4

\* Every step keeps what the cached verdicts imply.
LEMMA EntriesStep == VerifierInv /\ [Next]_vars => Entries'
<1> SUFFICES ASSUME VerifierInv, [Next]_vars, NEW t \in Tokens PROVE EntryOK(t)'
  BY DEF Entries
<1>0. TypeOK /\ Forward /\ Slots /\ Entries
  BY StepsForward DEF VerifierInv
<1>1. ASSUME cache'[t] # cache[t], cache'[t] # None
      PROVE  \E q \in Requests : CachePut(q)
  BY <1>0, <1>1
  DEF Next, vars, Verify, DoorkeeperAnswers, IntrospectFails, ContextFrom, RunHandler, RevokeRequest,
      RevokedUpstream, RevokeFails, Purge, RevokedElsewhere, TickInstant, TickWall, TypeOK
<1>2. ASSUME NEW q \in Requests, CachePut(q), cache'[t] # cache[t], cache'[t] # None
      PROVE  EntryOK(t)'
  <2>1. SlotOK(q) /\ UNCHANGED <<now, wall, exp, revokedAt>>
    BY <1>0, <1>2 DEF Slots, CachePut
  <2>2. /\ now \in Nat /\ req[q].started \in Nat /\ revokedAt[t] \in Nat \cup {None}
        /\ EntryOK(t)
    BY <1>0 DEF TypeOK, Locals, Entries
  <2>3. CASE pc[q] = "put_valid"
    <3> DEFINE ttl == PositiveTtl(req[q].tok)
    <3>1. req[q].tok \in Tokens /\ Put(req[q].tok, "Valid", ttl)
      BY <1>2, <2>1, <2>3 DEF CachePut, SlotOK
    <3>2. ttl \in 0..TTL
      BY <1>0, <3>1, PositiveTtlType
    <3>3. t = req[q].tok /\ cache'[t] = [value |-> "Valid", expires_at |-> now + ttl]
      <4>1. ttl \in Nat
        BY <3>2, VerifierAssumption
      <4> HIDE DEF ttl
      <4> QED
        BY <1>0, <1>2, <3>1, <4>1, PutEffect
    <3>4. now <= req[q].started + TIMEOUT /\ AskedBeforeRevocation(q)
      BY <2>1, <2>3 DEF SlotOK, Verifying
    <3> HIDE DEF ttl
    <3>5. revokedAt[t] # None => now + ttl <= revokedAt[t] + TIMEOUT + TTL
      BY <2>2, <3>2, <3>3, <3>4, VerifierAssumption DEF AskedBeforeRevocation
    <3>6. now + ttl <= now + TTL
      BY <2>2, <3>2, VerifierAssumption
    <3> QED
      BY <2>1, <2>2, <3>3, <3>5, <3>6 DEF EntryOK
  <2>4. CASE pc[q] = "put_invalid"
    <3>1. /\ req[q].tok \in Tokens /\ Put(req[q].tok, "Invalid", NEGATIVE_CACHE_TTL)
          /\ Unusable(req[q].tok)
      BY <1>2, <2>1, <2>4 DEF CachePut, SlotOK
    <3>2. t = req[q].tok /\ cache'[t] = [value |-> "Invalid", expires_at |-> now + NEGATIVE_CACHE_TTL]
      BY <1>0, <1>2, <3>1, PutEffect, VerifierAssumption
    <3>3. Unusable(t)'
      BY <1>0, <3>1, <3>2, UnusableStays DEF VerifierInv
    <3> QED
      BY <2>1, <2>2, <3>2, <3>3 DEF EntryOK
  <2> QED
    BY <1>2, <2>3, <2>4 DEF CachePut
<1> QED
  BY <1>0, <1>1, <1>2, EntryKept

\* The three parts together are inductive.
THEOREM VerifierInvariant == Spec => []VerifierInv
<1>1. Init => VerifierInv
  BY VerifierAssumption, NoLocalsType
  DEF Init, VerifierInv, TypeOK, PCs, Slots, SlotOK, Verifying, NoLocals, Entries, EntryOK
<1>2. VerifierInv /\ [Next]_vars => VerifierInv'
  BY TypeStep, SlotsStep, EntriesStep DEF VerifierInv
<1> QED
  BY <1>1, <1>2, PTL DEF Spec

------------------------------------------------------------------------------
(* Properties *)

\* A cached rejection is about a token that is revoked or expired, whichever
\* verifications, outages and purges raced to write it (cache_put).
THEOREM RejectionsAreTrue == Spec => []NegativeMeansUnusable
<1>1. VerifierInv => NegativeMeansUnusable
  BY DEF VerifierInv, Entries, EntryOK, Unusable, NegativeMeansUnusable
<1> QED
  BY <1>1, VerifierInvariant, PTL

\* A token is accepted in one of two places: on a cache hit that looked at `exp`
\* again (cache_get), or by the judgement of an active answer (context_from).
LEMMA AcceptedWhere ==
    ASSUME VerifierInv, Next, NEW q \in Requests, Accepts(q)
    PROVE  \/ /\ Hit(req'[q].tok) /\ req'[q].tok \in Tokens
              /\ cache[req'[q].tok].value = "Valid"
           \/ /\ req'[q].tok = req[q].tok /\ req[q].tok \in Tokens
              /\ pc[q] = "answer" /\ req[q].active
              /\ ~IsExpired(req[q].tok)
<1>0. TypeOK /\ Slots /\ pc[q] \in {"idle", "answer"} /\ pc'[q] \in {"run", "put_valid"}
  BY DEF VerifierInv, Accepts
<1>1. Verify(q) \/ ContextFrom(q)
  BY <1>0, ZenonT(60)
  DEF Next, Verify, DoorkeeperAnswers, IntrospectFails, ContextFrom, CachePut, RunHandler, RevokeRequest,
      RevokedUpstream, RevokeFails, Purge, RevokedElsewhere, TickInstant, TickWall, TypeOK, Start,
      Goto, Reply
<1>2. CASE Verify(q)
  <2>1. PICK t \in Tokens :
          \/ Hit(t) /\ cache[t].value = "Valid" /\ Start(q, t, "run")
          \/ UNCHANGED <<pc, req>>
          \/ Start(q, t, "introspect")
    BY <1>2 DEF Verify
  <2>2. Hit(t) /\ cache[t].value = "Valid" /\ Start(q, t, "run")
    BY <1>0, <1>2, <2>1 DEF Verify, Start, Goto, TypeOK
  <2>3. req'[q].tok = t
    BY <1>0, <2>2 DEF Start, TypeOK, NoLocals
  <2> QED
    BY <2>2, <2>3
<1>3. CASE ContextFrom(q)
  BY <1>0, <1>3 DEF ContextFrom, Slots, SlotOK, Goto, Reply, TypeOK
<1> QED
  BY <1>1, <1>2, <1>3

\* A token is never accepted once its `exp` is within the clock skew, for any
\* drift between the wall clock and the monotonic clock the cache deadlines use.
THEOREM ExpIsRespected == Spec => NeverAcceptedPastExp
<1>1. VerifierInv /\ [Next]_vars =>
        [\A q \in Requests : Accepts(q) => ~IsExpired(req'[q].tok)]_vars
  BY AcceptedWhere DEF Hit
<1> QED
  BY <1>1, VerifierInvariant, PTL DEF Spec, NeverAcceptedPastExp

\* A revoked token is accepted for at most the cache lifetime and one introspection
\* round trip after its revocation, however verifications, revocations and purges
\* interleave (verify, purge).
THEOREM RevocationTakesEffect == Spec => StalenessBounded
<1>1. ASSUME VerifierInv, Next, NEW q \in Requests, Accepts(q), revokedAt[req'[q].tok] # None
      PROVE  now <= revokedAt[req'[q].tok] + TIMEOUT + TTL
  <2> DEFINE t == req'[q].tok
  <2>1. t \in Tokens
    BY <1>1, AcceptedWhere
  <2>2. now \in Nat /\ revokedAt[t] \in Nat
    BY <1>1, <2>1 DEF VerifierInv, TypeOK
  <2>3. CASE Hit(t) /\ cache[t].value = "Valid"
    <3>1. cache[t] # None /\ now < cache[t].expires_at
      BY <1>1, <2>1, <2>2, <2>3 DEF Hit, Unexpired, VerifierInv, TypeOK, CacheEntry
    <3>2. cache[t].expires_at \in Nat
      BY <1>1, <2>1, <3>1 DEF VerifierInv, TypeOK, CacheEntry
    <3>3. cache[t].expires_at <= revokedAt[t] + TIMEOUT + TTL
      BY <1>1, <2>1, <2>3, <3>1 DEF VerifierInv, Entries, EntryOK
    <3> QED
      BY <2>2, <3>1, <3>2, <3>3, VerifierAssumption
  <2>4. CASE t = req[q].tok /\ pc[q] = "answer" /\ req[q].active
    <3>1. /\ req[q].started \in Nat /\ req[q].started <= revokedAt[t]
          /\ now <= req[q].started + TIMEOUT
      BY <1>1, <2>4
         DEF VerifierInv, TypeOK, Locals, Slots, SlotOK, Verifying, AskedBeforeRevocation
    <3> QED
      BY <2>2, <3>1, VerifierAssumption
  <2> QED
    BY <1>1, <2>3, <2>4, AcceptedWhere
<1>2. VerifierInv /\ [Next]_vars =>
        [\A q \in Requests :
            Accepts(q) /\ revokedAt[req'[q].tok] # None =>
            now <= revokedAt[req'[q].tok] + TIMEOUT + TTL]_vars
  BY <1>1
<1> QED
  BY <1>2, VerifierInvariant, PTL DEF Spec, StalenessBounded
=============================================================================
