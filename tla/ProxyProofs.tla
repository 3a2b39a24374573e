---------------------------- MODULE ProxyProofs ----------------------------
(***************************************************************************)
(* Theorems about ProxySession and AuthCode, for any number of requests,   *)
(* clients, codes, sessions and tokens and any capacities and lifetimes.   *)
(*                                                                         *)
(* TypeOK is not inductive: the type of a handler's local depends on how   *)
(* far the handler has got.  LocalsOK states that dependency, and          *)
(* TypeInv == TypeOK /\ LocalsOK is the inductive invariant on which every *)
(* other argument rests.  BoundInv adds that ids and tokens in use were    *)
(* minted, so that a fresh one never collides; LateInv how far a request   *)
(* gets whose session was gone when it arrived; ScopesInv that a token set *)
(* on its way to the store has the granted scopes or a dead session.       *)
(*                                                                         *)
(* RefreshLedger is implemented step by step.  ChainInv says what happens  *)
(* between the locks of a redemption: one request at a time works on a     *)
(* session, and two refresh tokens of one session are the old and the new  *)
(* one of a rotation whose new token nobody has seen yet.                  *)
(*                                                                         *)
(* CodeYieldsOneSession speaks of stored sessions and redeemable codes,    *)
(* but a token set is in neither while a handler carries it from one to    *)
(* the other.  RowInv therefore follows every row Doorkeeper has issued    *)
(* through all three kinds of place: it is in one of them at most, and a   *)
(* row not yet issued is in none.                                          *)
(*                                                                         *)
(* A replay is caught by the record of its code.  ReplayInv says that the  *)
(* record is there, and lasts, from the answer on for CODE_TTL: it is      *)
(* written before the answer, and with room for every code only time       *)
(* removes it.                                                             *)
(***************************************************************************)
EXTENDS AuthCode, FiniteSetTheorems, TLAPS

\* What a handler at label l knows of its locals r: its token set, its session,
\* the refresh token it redeems, the client it serves.
LocalOK(l, r) ==
    /\ l \in {"sweep", "purge", "purge_rt", "insert", "mint_at", "mint_rt", "scopes",
             "await_refresh", "replace", "discard_revoke", "take_at", "take_rt", "await_revoke"}
       => r.set \in TokenSet
    /\ l \in {"purge_rt", "mint_at", "mint_rt", "mark", "remember", "take", "take_at",
             "take_rt", "session?"} \cup GuardPCs
       => r.sid \in SessionIds
    /\ l \in {"retired?", "remember"} \cup GuardPCs => r.tok \in RefreshTokens
    /\ l \in {"sweep", "purge", "purge_rt", "insert"} => r.kind = "grant" /\ r.client \in Clients
    /\ l \in GuardPCs => r.kind = "refresh" /\ r.client \in Clients
    /\ l \in {"mint_at", "mint_rt"} =>
         /\ r.client \in Clients
         /\ r.kind = "grant" \/ (r.kind = "refresh" /\ r.tok \in RefreshTokens)

LocalsOK == \A q \in Requests : LocalOK(pc[q], req[q])

TypeInv == TypeOK /\ LocalsOK

\* The two halves of TypeInv a step is shown to preserve: slots and stores.
SlotTypes == pc \in [Requests -> PCs] /\ req \in [Requests -> Locals] /\ LocalsOK

StoreTypes ==
    /\ now \in Nat
    /\ rows \in [Rows -> RowStates]
    /\ upstream \in [SessionIds -> SessionEntry \cup {None}]
    /\ tokens \in [AccessTokens -> TokenEntry \cup {None}]
    /\ current \in [RefreshTokens -> RefreshOwner \cup {None}]
    /\ retired \in [RefreshTokens -> RetiredEntry \cup {None}]
    /\ minted \subseteq SessionIds \cup AccessTokens \cup RefreshTokens
    /\ sent \subseteq AccessTokens \cup RefreshTokens
    /\ rotated \subseteq RefreshTokens
    /\ bg \subseteq Rows

\* TypeInv is exactly its two halves.
LEMMA TypeInvHalves == TypeInv <=> SlotTypes /\ StoreTypes
BY DEF TypeInv, TypeOK, SlotTypes, StoreTypes

------------------------------------------------------------------------------
(* Helpers *)

\* A minted id is one of the ids asked for and was never minted before.
LEMMA FreshIsNew == ASSUME NEW ids PROVE \A x \in Fresh(ids) : x \in ids /\ x \notin minted
BY DEF Fresh

\* FreshRow is a row Doorkeeper has not issued.
LEMMA FreshRowIsNew == \A r \in FreshRow : r \in Rows /\ rows[r] = "unissued"
BY DEF FreshRow

\* Sweeping and unbinding a store only remove entries.
LEMMA SweepType ==
    ASSUME NEW S, NEW T, NEW map \in [S -> T \cup {None}]
    PROVE  Sweep(map) \in [S -> T \cup {None}]
BY DEF Sweep

\* The same for remove_by_upstream.
LEMMA UnbindType ==
    ASSUME NEW S, NEW T, NEW map \in [S -> T \cup {None}], NEW u
    PROVE  Unbind(map, u) \in [S -> T \cup {None}]
BY DEF Unbind

\* A slot that moves to a label with the locals that label needs, and leaves the
\* other slots alone, keeps the slots well typed.
LEMMA SlotStep ==
    ASSUME SlotTypes, NEW q \in Requests, NEW l \in PCs, NEW r \in Locals, LocalOK(l, r),
           pc' = [pc EXCEPT ![q] = l], req' = [req EXCEPT ![q] = r]
    PROVE  SlotTypes'
<1>1. pc' \in [Requests -> PCs] /\ req' \in [Requests -> Locals]
  BY DEF SlotTypes
<1>2. ASSUME NEW p \in Requests PROVE LocalOK(pc'[p], req'[p])
  <2>1. CASE p = q
    <3>1. pc'[p] = l /\ req'[p] = r
      BY <2>1 DEF SlotTypes
    <3> QED BY <3>1
  <2>2. CASE p # q
    <3>1. pc'[p] = pc[p] /\ req'[p] = req[p]
      BY <2>2 DEF SlotTypes
    <3> QED BY <3>1 DEF SlotTypes, LocalsOK
  <2> QED BY <2>1, <2>2
<1> QED BY <1>1, <1>2 DEF SlotTypes, LocalsOK

\* The same for a step that changes no local.
LEMMA SlotMove ==
    ASSUME SlotTypes, NEW q \in Requests, NEW l \in PCs, LocalOK(l, req[q]),
           pc' = [pc EXCEPT ![q] = l], req' = req
    PROVE  SlotTypes'
<1>1. req[q] \in Locals /\ req' = [req EXCEPT ![q] = req[q]]
  BY DEF SlotTypes
<1> QED BY <1>1, SlotStep

\* An answered slot is well typed.
LEMMA SlotReply == ASSUME SlotTypes, NEW q \in Requests, Reply(q) PROVE SlotTypes'
<1>1. NoLocals \in Locals
  BY DEF NoLocals, Locals, Afters
<1>2. "idle" \in PCs /\ LocalOK("idle", NoLocals)
  BY DEF PCs, LocalOK, GuardPCs
<1> QED BY <1>1, <1>2, SlotStep DEF Reply

------------------------------------------------------------------------------
(* Every action preserves TypeInv *)

\* The initial state is well typed.
LEMMA InitTypes == Init => TypeInv
<1>1. NoLocals \in Locals /\ "idle" \in PCs /\ LocalOK("idle", NoLocals)
  BY DEF NoLocals, Locals, Afters, PCs, LocalOK, GuardPCs
<1> QED BY <1>1 DEF Init, TypeInv, TypeOK, LocalsOK, RowStates

\* What TypeInv says of one slot.
LEMMA SlotFacts ==
    ASSUME SlotTypes, NEW q \in Requests
    PROVE  /\ LocalOK(pc[q], req[q])
           /\ req[q] \in Locals
           /\ req[q].ttl \in Nat
           /\ req[q].todo \subseteq SessionIds
           /\ req[q].swept \subseteq Rows
BY DEF SlotTypes, LocalsOK, Locals

\* The code grant, from the redeemed code to the stored session.
LEMMA RedeemedCodeTypes ==
    ASSUME SlotTypes, StoreTypes, NEW q \in Requests, RedeemedCode(q)
    PROVE  SlotTypes' /\ StoreTypes'
<1>1. PICK r \in FreshRow, c \in Clients, wants \in BOOLEAN :
        /\ rows' = [rows EXCEPT ![r] = "live"]
        /\ req' = [req EXCEPT ![q] = [NoLocals EXCEPT
                     !.kind = "grant", !.client = c,
                     !.set = [row |-> r, refresh |-> wants, scopes |-> "granted",
                              access_exp |-> now + EXPIRES_IN]]]
  BY DEF RedeemedCode
<1> DEFINE set == [row |-> r, refresh |-> wants, scopes |-> "granted",
                   access_exp |-> now + EXPIRES_IN]
           loc == [NoLocals EXCEPT !.kind = "grant", !.client = c, !.set = set]
<1>2. set \in TokenSet
  BY FreshRowIsNew, BoundsAssumption DEF StoreTypes, TokenSet, Scopes
<1>3. loc \in Locals /\ loc.set = set /\ loc.kind = "grant" /\ loc.client = c
  BY <1>2 DEF NoLocals, Locals, Afters, RequestKinds
<1>4. LocalOK("sweep", loc) /\ "sweep" \in PCs
  BY <1>2, <1>3 DEF LocalOK, GuardPCs, PCs
<1>5. SlotTypes'
  <2> HIDE DEF loc
  <2>1. req' = [req EXCEPT ![q] = loc] /\ pc' = [pc EXCEPT ![q] = "sweep"]
    BY <1>1 DEF RedeemedCode, Goto, loc
  <2> QED BY <1>3, <1>4, <2>1, SlotStep
<1>6. StoreTypes'
  BY <1>1, FreshRowIsNew DEF RedeemedCode, StoreTypes, stores, RowStates
<1> QED BY <1>5, <1>6

\* sweep_expired collects well-typed rows and keeps the store well typed.
LEMMA SweepExpiredTypes ==
    ASSUME SlotTypes, StoreTypes, NEW q \in Requests, SweepExpired(q)
    PROVE  SlotTypes' /\ StoreTypes'
<1> DEFINE dead == {u \in SessionIds : upstream[u] # None /\ ~Live(upstream[u])}
           swept == {upstream[u].set.row : u \in {v \in dead : upstream[v].set.refresh}}
           loc == [req[q] EXCEPT !.todo = dead, !.swept = swept]
<1>1. swept \in SUBSET Rows
  BY DEF StoreTypes, SessionEntry, TokenSet
<1>2. loc \in Locals /\ loc.set = req[q].set /\ loc.kind = req[q].kind /\ loc.client = req[q].client
  BY <1>1, SlotFacts DEF Locals
<1>3. LocalOK("purge", loc) /\ "purge" \in PCs
  BY <1>2, SlotFacts DEF LocalOK, GuardPCs, PCs, SweepExpired
<1>4. SlotTypes'
  <2>1. req' = [req EXCEPT ![q] = loc] /\ pc' = [pc EXCEPT ![q] = "purge"]
    BY DEF SweepExpired, Goto, SlotTypes
  <2> HIDE DEF loc
  <2> QED BY <1>2, <1>3, <2>1, SlotStep
<1>5. StoreTypes'
  BY SweepType DEF SweepExpired, StoreTypes
<1> QED BY <1>4, <1>5

\* The purge of what the sweep removed, up to the background task.
LEMMA PurgeTypes ==
    ASSUME SlotTypes, StoreTypes, NEW q \in Requests,
           PurgeSweptTokens(q) \/ PurgeSweptRefresh(q) \/ SpawnRevocations(q)
    PROVE  SlotTypes' /\ StoreTypes'
<1>1. CASE PurgeSweptTokens(q)
  <2>1. PICK u \in req[q].todo : tokens' = Unbind(tokens, u) /\ req' = [req EXCEPT ![q].sid = u]
    BY <1>1 DEF PurgeSweptTokens
  <2> DEFINE loc == [req[q] EXCEPT !.sid = u]
  <2>2. /\ loc \in Locals /\ loc.sid \in SessionIds
        /\ loc.set = req[q].set /\ loc.kind = req[q].kind /\ loc.client = req[q].client
    BY <2>1, SlotFacts DEF Locals
  <2>3. LocalOK("purge_rt", loc) /\ "purge_rt" \in PCs
    BY <1>1, <2>2, SlotFacts DEF LocalOK, GuardPCs, PCs, PurgeSweptTokens
  <2>4. req' = [req EXCEPT ![q] = loc] /\ pc' = [pc EXCEPT ![q] = "purge_rt"]
    BY <1>1, <2>1 DEF PurgeSweptTokens, Goto, SlotTypes
  <2>5. SlotTypes'
    <3> HIDE DEF loc
    <3> QED BY <2>2, <2>3, <2>4, SlotStep
  <2>6. StoreTypes'
    BY <1>1, <2>1, UnbindType DEF PurgeSweptTokens, StoreTypes
  <2> QED BY <2>5, <2>6
<1>2. CASE PurgeSweptRefresh(q)
  <2> DEFINE loc == [req[q] EXCEPT !.todo = req[q].todo \ {req[q].sid}, !.sid = None]
  <2>1. loc \in Locals /\ loc.set = req[q].set /\ loc.kind = req[q].kind /\ loc.client = req[q].client
    BY SlotFacts DEF Locals
  <2>2. LocalOK("purge", loc) /\ "purge" \in PCs
    BY <1>2, <2>1, SlotFacts DEF LocalOK, GuardPCs, PCs, PurgeSweptRefresh
  <2>3. req' = [req EXCEPT ![q] = loc] /\ pc' = [pc EXCEPT ![q] = "purge"]
    BY <1>2 DEF PurgeSweptRefresh, Goto, SlotTypes
  <2>4. SlotTypes'
    <3> HIDE DEF loc
    <3> QED BY <2>1, <2>2, <2>3, SlotStep
  <2>5. StoreTypes'
    BY <1>2, UnbindType DEF PurgeSweptRefresh, StoreTypes
  <2> QED BY <2>4, <2>5
<1>3. CASE SpawnRevocations(q)
  <2> DEFINE loc == [req[q] EXCEPT !.swept = {}]
  <2>1. loc \in Locals /\ loc.set = req[q].set /\ loc.kind = req[q].kind /\ loc.client = req[q].client
    BY SlotFacts DEF Locals
  <2>2. LocalOK("insert", loc) /\ "insert" \in PCs
    BY <1>3, <2>1, SlotFacts DEF LocalOK, GuardPCs, PCs, SpawnRevocations
  <2>3. req' = [req EXCEPT ![q] = loc] /\ pc' = [pc EXCEPT ![q] = "insert"]
    BY <1>3 DEF SpawnRevocations, Goto, SlotTypes
  <2>4. SlotTypes'
    <3> HIDE DEF loc
    <3> QED BY <2>1, <2>2, <2>3, SlotStep
  <2>5. StoreTypes'
    BY <1>3, SlotFacts DEF SpawnRevocations, StoreTypes, stores
  <2> QED BY <2>4, <2>5
<1> QED BY <1>1, <1>2, <1>3

\* A session's deadline and a token's lifetime are times.
LEMMA DeadlineType ==
    ASSUME StoreTypes, NEW set \in TokenSet
    PROVE  Deadline(set) \in Nat /\ Remaining(set.access_exp) \in Nat
BY BoundsAssumption DEF StoreTypes, TokenSet, Deadline, Remaining

\* UpstreamStore::insert stores a well-typed session, or nothing.
LEMMA InsertTypes ==
    ASSUME SlotTypes, StoreTypes, NEW q \in Requests, InsertSession(q) \/ InsertSessionFails(q)
    PROVE  SlotTypes' /\ StoreTypes'
<1>1. CASE InsertSession(q)
  <2> DEFINE ttl == Remaining(req[q].set.access_exp)
             entry == [set |-> req[q].set, exp |-> Deadline(req[q].set)]
  <2>1. PICK u \in Fresh(SessionIds) :
          /\ upstream' = [Sweep(upstream) EXCEPT ![u] = entry]
          /\ minted' = minted \cup {u}
          /\ req' = [req EXCEPT ![q].sid = u, ![q].ttl = ttl]
    BY <1>1 DEF InsertSession
  <2>2. u \in SessionIds
    BY FreshIsNew
  <2>3. req[q].set \in TokenSet /\ req[q].kind = "grant" /\ req[q].client \in Clients
    BY <1>1, SlotFacts DEF LocalOK, InsertSession
  <2>4. entry \in SessionEntry /\ ttl \in Nat
    BY <2>3, DeadlineType DEF SessionEntry
  <2> HIDE DEF ttl, entry
  <2> DEFINE loc == [req[q] EXCEPT !.sid = u, !.ttl = ttl]
  <2>5. /\ loc \in Locals /\ loc.sid = u
        /\ loc.set = req[q].set /\ loc.kind = req[q].kind /\ loc.client = req[q].client
    BY <2>2, <2>4, SlotFacts DEF Locals
  <2>6. LocalOK("mint_at", loc) /\ "mint_at" \in PCs
    BY <2>2, <2>3, <2>5 DEF LocalOK, GuardPCs, PCs
  <2>7. req' = [req EXCEPT ![q] = loc] /\ pc' = [pc EXCEPT ![q] = "mint_at"]
    BY <1>1, <2>1 DEF InsertSession, Goto, SlotTypes
  <2>8. SlotTypes'
    <3> HIDE DEF loc
    <3> QED BY <2>5, <2>6, <2>7, SlotStep
  <2>9. upstream' \in [SessionIds -> SessionEntry \cup {None}]
    BY <2>1, <2>2, <2>4, SweepType DEF StoreTypes
  <2>10. StoreTypes'
    BY <1>1, <2>1, <2>2, <2>9 DEF InsertSession, StoreTypes
  <2> QED BY <2>8, <2>10
<1>2. CASE InsertSessionFails(q)
  <2>1. SlotTypes'
    BY <1>2, SlotReply DEF InsertSessionFails
  <2>2. upstream' \in [SessionIds -> SessionEntry \cup {None}]
    <3>1. upstream' \in {upstream, Sweep(upstream)}
      BY <1>2 DEF InsertSessionFails
    <3>2. Sweep(upstream) \in [SessionIds -> SessionEntry \cup {None}]
      BY SweepType DEF StoreTypes
    <3> QED BY <3>1, <3>2 DEF StoreTypes
  <2>3. StoreTypes'
    BY <1>2, <2>2 DEF InsertSessionFails, StoreTypes
  <2> QED BY <2>1, <2>3
<1> QED BY <1>1, <1>2

\* mint_token_pair, both outcomes of both mints.
LEMMA MintTypes ==
    ASSUME SlotTypes, StoreTypes, NEW q \in Requests, MintStep(q)
    PROVE  SlotTypes' /\ StoreTypes'
<1>0. pc[q] \in {"mint_at", "mint_rt"} =>
        /\ req[q].set \in TokenSet /\ req[q].sid \in SessionIds /\ req[q].client \in Clients
        /\ req[q].kind = "grant" \/ (req[q].kind = "refresh" /\ req[q].tok \in RefreshTokens)
  BY SlotFacts DEF LocalOK
<1>1. CASE MintAccess(q)
  <2> DEFINE entry == [sid |-> req[q].sid, client |-> req[q].client, exp |-> now + req[q].ttl]
             next == IF req[q].set.refresh THEN "mint_rt" ELSE AfterMint(q)
  <2>1. PICK t \in Fresh(AccessTokens) :
          /\ tokens' = [Sweep(tokens) EXCEPT ![t] = entry]
          /\ minted' = minted \cup {t}
          /\ req' = [req EXCEPT ![q].at = t]
    BY <1>1 DEF MintAccess
  <2>2. t \in AccessTokens
    BY FreshIsNew
  <2>3. entry \in TokenEntry
    BY <1>0, <1>1, SlotFacts DEF MintAccess, StoreTypes, TokenEntry
  <2> DEFINE loc == [req[q] EXCEPT !.at = t]
  <2>4. /\ loc \in Locals /\ loc.set = req[q].set /\ loc.sid = req[q].sid
        /\ loc.kind = req[q].kind /\ loc.client = req[q].client /\ loc.tok = req[q].tok
    BY <2>2, SlotFacts DEF Locals
  <2>5. LocalOK(next, loc) /\ next \in PCs
    BY <1>0, <1>1, <2>4 DEF LocalOK, GuardPCs, PCs, AfterMint, MintAccess
  <2>6. req' = [req EXCEPT ![q] = loc] /\ pc' = [pc EXCEPT ![q] = next]
    BY <1>1, <2>1 DEF MintAccess, Goto, SlotTypes
  <2>7. SlotTypes'
    <3> HIDE DEF loc, next
    <3> QED BY <2>4, <2>5, <2>6, SlotStep
  <2>8. tokens' \in [AccessTokens -> TokenEntry \cup {None}]
    <3> HIDE DEF entry
    <3> QED BY <2>1, <2>2, <2>3, SweepType DEF StoreTypes
  <2>9. StoreTypes'
    BY <1>1, <2>1, <2>2, <2>8 DEF MintAccess, StoreTypes
  <2> QED BY <2>7, <2>9
<1>2. CASE MintRefresh(q)
  <2> DEFINE entry == [sid |-> req[q].sid, client |-> req[q].client, state |-> "Active",
                       exp |-> now + REFRESH_TTL]
             next == AfterMint(q)
  <2>1. PICK k \in Fresh(RefreshTokens) :
          /\ current' = [Sweep(current) EXCEPT ![k] = entry]
          /\ minted' = minted \cup {k}
          /\ req' = [req EXCEPT ![q].rt = k]
    BY <1>2 DEF MintRefresh
  <2>2. k \in RefreshTokens
    BY FreshIsNew
  <2>3. entry \in RefreshOwner
    BY <1>0, <1>2, BoundsAssumption DEF MintRefresh, StoreTypes, RefreshOwner
  <2> DEFINE loc == [req[q] EXCEPT !.rt = k]
  <2>4. /\ loc \in Locals /\ loc.set = req[q].set /\ loc.sid = req[q].sid
        /\ loc.kind = req[q].kind /\ loc.client = req[q].client /\ loc.tok = req[q].tok
    BY <2>2, SlotFacts DEF Locals
  <2>5. LocalOK(next, loc) /\ next \in PCs
    BY <1>0, <1>2, <2>4 DEF LocalOK, GuardPCs, PCs, AfterMint, MintRefresh
  <2>6. req' = [req EXCEPT ![q] = loc] /\ pc' = [pc EXCEPT ![q] = next]
    BY <1>2, <2>1 DEF MintRefresh, Goto, SlotTypes
  <2>7. SlotTypes'
    <3> HIDE DEF loc, next
    <3> QED BY <2>4, <2>5, <2>6, SlotStep
  <2>8. current' \in [RefreshTokens -> RefreshOwner \cup {None}]
    <3> HIDE DEF entry
    <3> QED BY <2>1, <2>2, <2>3, SweepType DEF StoreTypes
  <2>9. StoreTypes'
    BY <1>2, <2>1, <2>2, <2>8 DEF MintRefresh, StoreTypes
  <2> QED BY <2>7, <2>9
<1>3. CASE MintFails(q)
  <2> DEFINE next == IF req[q].kind = "grant" THEN "take" ELSE "guard"
  <2>1. LocalOK(next, req[q]) /\ next \in PCs
    BY <1>0, <1>3 DEF MintFails, LocalOK, GuardPCs, PCs
  <2>2. SlotTypes'
    <3>1. pc' = [pc EXCEPT ![q] = next] /\ req' = req
      BY <1>3 DEF MintFails, Goto
    <3> HIDE DEF next
    <3> QED BY <2>1, <3>1, SlotMove
  <2>3. StoreTypes'
    <3>1. tokens' \in {tokens, Sweep(tokens)} /\ current' \in {current, Sweep(current)}
      BY <1>3 DEF MintFails
    <3>2. tokens' \in [AccessTokens -> TokenEntry \cup {None}]
      <4>1. tokens \in [AccessTokens -> TokenEntry \cup {None}]
        BY DEF StoreTypes
      <4>2. Sweep(tokens) \in [AccessTokens -> TokenEntry \cup {None}]
        BY <4>1, SweepType
      <4> QED BY <3>1, <4>1, <4>2
    <3>3. current' \in [RefreshTokens -> RefreshOwner \cup {None}]
      <4>1. current \in [RefreshTokens -> RefreshOwner \cup {None}]
        BY DEF StoreTypes
      <4>2. Sweep(current) \in [RefreshTokens -> RefreshOwner \cup {None}]
        BY <4>1, SweepType
      <4> QED BY <3>1, <4>1, <4>2
    <3> QED BY <1>3, <3>2, <3>3 DEF MintFails, StoreTypes
  <2> QED BY <2>2, <2>3
<1> QED BY <1>1, <1>2, <1>3 DEF MintStep

\* The pair is sent: what leaves is a proxy token.
LEMMA SendPairTypes ==
    ASSUME SlotTypes, StoreTypes, NEW q \in Requests, SendPair(q)
    PROVE  SlotTypes' /\ sent' \subseteq AccessTokens \cup RefreshTokens
<1>1. req[q].at \in AccessTokens \cup {None} /\ req[q].rt \in RefreshTokens \cup {None}
  BY SlotFacts DEF Locals
<1> QED BY <1>1, SlotReply DEF SendPair, StoreTypes

\* The answer of a code grant sends two minted tokens and frees its slot.
LEMMA GrantDoneTypes ==
    ASSUME SlotTypes, StoreTypes, NEW q \in Requests, GrantDone(q)
    PROVE  SlotTypes' /\ StoreTypes'
BY SendPairTypes DEF GrantDone, StoreTypes, stores

\* The refresh grant up to its upstream call.
LEMMA RedeemTypes ==
    ASSUME SlotTypes, StoreTypes, NEW q \in Requests, RedeemRefresh(q)
    PROVE  SlotTypes' /\ StoreTypes'
<1>1. PICK k \in sent \cap RefreshTokens, c \in Clients :
        LET owner == current[k]
            base  == [NoLocals EXCEPT !.kind = "refresh", !.tok = k, !.late = SessionGone(owner)]
        IN  \/ /\ ~Live(owner)
               /\ current' = [current EXCEPT ![k] = None]
               /\ req' = [req EXCEPT ![q] = base]
               /\ Goto(q, "retired?")
            \/ /\ Live(owner)
               /\ owner.state = "InFlight"
               /\ req' = [req EXCEPT ![q] = [base EXCEPT !.sid = owner.sid, !.after = "revoke"]]
               /\ Goto(q, "take")
               /\ UNCHANGED current
            \/ /\ Live(owner)
               /\ owner.state = "Active"
               /\ current' = MarkInFlight(k)
               /\ req' = [req EXCEPT ![q] = [base EXCEPT !.sid = owner.sid, !.client = owner.client]]
               /\ Goto(q, IF c = owner.client THEN "secret" ELSE "guard")
  BY DEF RedeemRefresh
<1> DEFINE owner == current[k]
           base  == [NoLocals EXCEPT !.kind = "refresh", !.tok = k, !.late = SessionGone(owner)]
           next  == IF c = owner.client THEN "secret" ELSE "guard"
<1>2. k \in RefreshTokens /\ (Live(owner) => owner \in RefreshOwner)
  BY DEF StoreTypes, Live
<1>3. SessionGone(owner) \in BOOLEAN
  BY DEF SessionGone
<1>4. base \in Locals /\ base.kind = "refresh" /\ base.tok = k
  BY <1>2, <1>3 DEF NoLocals, Locals, Afters, RequestKinds
<1>5. current' \in [RefreshTokens -> RefreshOwner \cup {None}]
  <2>1. CASE current' = [current EXCEPT ![k] = None]
    BY <1>2, <2>1 DEF StoreTypes
  <2>2. CASE Live(owner) /\ current' = MarkInFlight(k)
    <3>1. [owner EXCEPT !.state = "InFlight"] \in RefreshOwner
      BY <1>2, <2>2 DEF RefreshOwner
    <3>2. current' = [current EXCEPT ![k] = [owner EXCEPT !.state = "InFlight"]]
      BY <1>2, <2>2 DEF MarkInFlight, StoreTypes
    <3> HIDE DEF owner
    <3> QED BY <1>2, <3>1, <3>2 DEF StoreTypes
  <2>3. CASE current' = current
    BY <2>3 DEF StoreTypes
  <2> QED BY <1>1, <2>1, <2>2, <2>3
<1>6. StoreTypes'
  BY <1>5 DEF RedeemRefresh, StoreTypes
<1>7. SlotTypes'
  <2>1. CASE req' = [req EXCEPT ![q] = base] /\ Goto(q, "retired?")
    <3>1. LocalOK("retired?", base) /\ "retired?" \in PCs
      BY <1>2, <1>4 DEF LocalOK, GuardPCs, PCs
    <3> HIDE DEF base
    <3> QED BY <1>4, <2>1, <3>1, SlotStep DEF Goto
  <2> DEFINE used == [base EXCEPT !.sid = owner.sid, !.after = "revoke"]
             held == [base EXCEPT !.sid = owner.sid, !.client = owner.client]
  <2>2. CASE Live(owner) /\ req' = [req EXCEPT ![q] = used] /\ Goto(q, "take")
    <3>1. used \in Locals /\ used.sid \in SessionIds
      BY <1>2, <1>4, <2>2 DEF Locals, Afters, RefreshOwner
    <3>2. LocalOK("take", used) /\ "take" \in PCs
      BY <3>1 DEF LocalOK, GuardPCs, PCs
    <3> HIDE DEF used
    <3> QED BY <2>2, <3>1, <3>2, SlotStep DEF Goto
  <2>3. CASE Live(owner) /\ req' = [req EXCEPT ![q] = held] /\ Goto(q, next)
    <3>1. /\ held \in Locals /\ held.sid \in SessionIds /\ held.client \in Clients
          /\ held.kind = "refresh" /\ held.tok = k
      BY <1>2, <1>4, <2>3 DEF Locals, RefreshOwner
    <3>2. LocalOK(next, held) /\ next \in PCs
      BY <1>2, <3>1 DEF LocalOK, GuardPCs, PCs
    <3> HIDE DEF held, next
    <3> QED BY <2>3, <3>1, <3>2, SlotStep DEF Goto
  <2> QED BY <1>1, <2>1, <2>2, <2>3
<1> QED BY <1>6, <1>7

\* The two reads of a session before the upstream refresh give well-typed locals.
LEMMA ReadTypes ==
    ASSUME SlotTypes, StoreTypes, NEW q \in Requests,
           LookupRetired(q) \/ ReadSecret(q) \/ ReadScopes(q)
    PROVE  SlotTypes' /\ StoreTypes'
<1>1. CASE LookupRetired(q)
  <2> DEFINE entry == retired[req[q].tok]
             loc == [req[q] EXCEPT !.sid = entry.sid, !.after = "revoke"]
  <2>0. StoreTypes'
    BY <1>1 DEF LookupRetired, StoreTypes, stores
  <2> SUFFICES SlotTypes'
    BY <2>0
  <2>1. CASE Live(entry) /\ req' = [req EXCEPT ![q].sid = entry.sid, ![q].after = "revoke"]
                         /\ Goto(q, "take")
    <3>1. req[q].tok \in RefreshTokens
      BY <1>1, SlotFacts DEF LocalOK, LookupRetired
    <3>2. entry.sid \in SessionIds
      BY <2>1, <3>1 DEF StoreTypes, RetiredEntry, Live
    <3>3. loc \in Locals /\ loc.sid \in SessionIds
      BY <3>2, SlotFacts, ZenonT(60) DEF Locals, Afters
    <3>4. LocalOK("take", loc) /\ "take" \in PCs
      BY <3>3 DEF LocalOK, GuardPCs, PCs
    <3>5. req' = [req EXCEPT ![q] = loc] /\ pc' = [pc EXCEPT ![q] = "take"]
      BY <2>1 DEF Goto, SlotTypes
    <3> HIDE DEF loc
    <3> QED BY <3>3, <3>4, <3>5, SlotStep
  <2> QED BY <1>1, <2>1, SlotReply DEF LookupRetired
<1>2. CASE ReadSecret(q)
  <2>0. /\ req[q].sid \in SessionIds /\ req[q].tok \in RefreshTokens
        /\ req[q].kind = "refresh" /\ req[q].client \in Clients
    BY <1>2, SlotFacts DEF LocalOK, GuardPCs, ReadSecret
  <2> DEFINE entry == upstream[req[q].sid]
             loc == [req[q] EXCEPT !.set = entry.set]
  <2>3. StoreTypes'
    BY <1>2 DEF ReadSecret, StoreTypes, stores
  <2> SUFFICES SlotTypes'
    BY <2>3
  <2>1. CASE Live(entry) /\ req' = [req EXCEPT ![q].set = entry.set] /\ Goto(q, "scopes")
    <3>1. entry.set \in TokenSet
      BY <2>0, <2>1 DEF StoreTypes, SessionEntry, Live
    <3>2. /\ loc \in Locals /\ loc.set \in TokenSet /\ loc.sid = req[q].sid
          /\ loc.kind = req[q].kind /\ loc.client = req[q].client /\ loc.tok = req[q].tok
      BY <3>1, SlotFacts DEF Locals
    <3>3. LocalOK("scopes", loc) /\ "scopes" \in PCs
      BY <2>0, <3>2 DEF LocalOK, GuardPCs, PCs
    <3>4. req' = [req EXCEPT ![q] = loc] /\ pc' = [pc EXCEPT ![q] = "scopes"]
      BY <2>1 DEF Goto, SlotTypes
    <3> HIDE DEF loc
    <3> QED BY <3>2, <3>3, <3>4, SlotStep
  <2>2. CASE Goto(q, "discard") /\ req' = req
    <3>1. LocalOK("discard", req[q]) /\ "discard" \in PCs
      BY <2>0 DEF LocalOK, GuardPCs, PCs
    <3> QED BY <2>2, <3>1, SlotMove DEF Goto
  <2> QED BY <1>2, <2>1, <2>2 DEF ReadSecret
<1>3. CASE ReadScopes(q)
  <2> DEFINE entry == upstream[req[q].sid]
             scopes == IF Live(entry) THEN entry.set.scopes ELSE "empty"
             set == [req[q].set EXCEPT !.scopes = scopes]
             loc == [req[q] EXCEPT !.set = set]
  <2>0. /\ req[q].sid \in SessionIds /\ req[q].tok \in RefreshTokens /\ req[q].set \in TokenSet
        /\ req[q].kind = "refresh" /\ req[q].client \in Clients
    BY <1>3, SlotFacts DEF LocalOK, GuardPCs, ReadScopes
  <2>1. scopes \in Scopes
    BY <2>0 DEF StoreTypes, SessionEntry, TokenSet, Scopes, Live
  <2>2. set \in TokenSet
    BY <2>0, <2>1 DEF TokenSet
  <2>3. req' = [req EXCEPT ![q] = loc] /\ pc' = [pc EXCEPT ![q] = "await_refresh"]
    BY <1>3 DEF ReadScopes, Goto, SlotTypes
  <2> HIDE DEF set
  <2>4. /\ loc \in Locals /\ loc.set \in TokenSet /\ loc.sid = req[q].sid
        /\ loc.kind = req[q].kind /\ loc.client = req[q].client /\ loc.tok = req[q].tok
    BY <2>2, SlotFacts DEF Locals
  <2>5. LocalOK("await_refresh", loc) /\ "await_refresh" \in PCs
    BY <2>0, <2>4 DEF LocalOK, GuardPCs, PCs
  <2>6. SlotTypes'
    <3> HIDE DEF loc
    <3> QED BY <2>3, <2>4, <2>5, SlotStep
  <2>7. StoreTypes'
    BY <1>3 DEF ReadScopes, StoreTypes, stores
  <2> QED BY <2>6, <2>7
<1> QED BY <1>1, <1>2, <1>3

\* The upstream refresh call: answered, failed or not waited for.
LEMMA UnansweredType ==
    ASSUME StoreTypes, NEW q \in Requests, req[q].set \in TokenSet, UpstreamUnanswered(q)
    PROVE  rows' \in [Rows -> RowStates]
BY FreshRowIsNew DEF UpstreamUnanswered, Rotate, StoreTypes, RowStates, TokenSet

\* However the upstream refresh ends, slots and rows stay well typed.
LEMMA AwaitTypes ==
    ASSUME SlotTypes, StoreTypes, NEW q \in Requests,
           UpstreamRefreshed(q) \/ UpstreamRefreshFails(q) \/ RefreshCancelled(q)
    PROVE  SlotTypes' /\ StoreTypes'
<1>0. /\ pc[q] = "await_refresh"
      /\ req[q].sid \in SessionIds /\ req[q].tok \in RefreshTokens /\ req[q].set \in TokenSet
      /\ req[q].kind = "refresh" /\ req[q].client \in Clients
  BY SlotFacts DEF LocalOK, GuardPCs, UpstreamRefreshed, UpstreamRefreshFails, RefreshCancelled
<1>1. CASE UpstreamRefreshed(q)
  <2>1. PICK r \in FreshRow, wants \in BOOLEAN, scopes \in {"granted", req[q].set.scopes} :
          /\ Rotate(req[q].set.row, r)
          /\ req' = [req EXCEPT
               ![q].set = [row |-> r, refresh |-> wants, scopes |-> scopes,
                           access_exp |-> now + EXPIRES_IN],
               ![q].ttl = EXPIRES_IN]
    BY <1>1 DEF UpstreamRefreshed
  <2> DEFINE set == [row |-> r, refresh |-> wants, scopes |-> scopes,
                     access_exp |-> now + EXPIRES_IN]
             loc == [req[q] EXCEPT !.set = set, !.ttl = EXPIRES_IN]
  <2>2. r \in Rows
    BY FreshRowIsNew
  <2>3. set \in TokenSet
    BY <1>0, <2>1, <2>2, BoundsAssumption DEF StoreTypes, TokenSet, Scopes
  <2>4. req' = [req EXCEPT ![q] = loc] /\ pc' = [pc EXCEPT ![q] = "replace"]
    BY <1>1, <2>1 DEF UpstreamRefreshed, Goto, SlotTypes
  <2> HIDE DEF set
  <2>5. /\ loc \in Locals /\ loc.set \in TokenSet /\ loc.sid = req[q].sid
        /\ loc.kind = req[q].kind /\ loc.client = req[q].client /\ loc.tok = req[q].tok
    BY <2>3, SlotFacts, BoundsAssumption DEF Locals
  <2>6. LocalOK("replace", loc) /\ "replace" \in PCs
    BY <1>0, <2>5 DEF LocalOK, GuardPCs, PCs
  <2>7. SlotTypes'
    <3> HIDE DEF loc
    <3> QED BY <2>4, <2>5, <2>6, SlotStep
  <2>8. rows' \in [Rows -> RowStates]
    BY <1>0, <2>1, <2>2 DEF Rotate, StoreTypes, RowStates, TokenSet
  <2>9. StoreTypes'
    BY <1>1, <2>8 DEF UpstreamRefreshed, StoreTypes, stores
  <2> QED BY <2>7, <2>9
<1>2. CASE UpstreamRefreshFails(q)
  <2> DEFINE loc == [req[q] EXCEPT !.after = "purge"]
  <2>1. /\ loc \in Locals /\ loc.sid = req[q].sid /\ loc.kind = req[q].kind
        /\ loc.client = req[q].client /\ loc.tok = req[q].tok
    BY SlotFacts DEF Locals, Afters
  <2>2. LocalOK("discard_kill", loc) /\ "discard_kill" \in PCs
    BY <1>0, <2>1 DEF LocalOK, GuardPCs, PCs
  <2>3. req' = [req EXCEPT ![q] = loc] /\ pc' = [pc EXCEPT ![q] = "discard_kill"]
    BY <1>2 DEF UpstreamRefreshFails, Goto, SlotTypes
  <2>4. SlotTypes'
    <3> HIDE DEF loc
    <3> QED BY <2>1, <2>2, <2>3, SlotStep
  <2>5. rows' \in [Rows -> RowStates]
    BY <1>0, <1>2, UnansweredType DEF UpstreamRefreshFails
  <2>6. StoreTypes'
    BY <1>2, <2>5 DEF UpstreamRefreshFails, StoreTypes, stores
  <2> QED BY <2>4, <2>6
<1>3. CASE RefreshCancelled(q)
  <2>1. LocalOK("guard", req[q]) /\ "guard" \in PCs
    BY <1>0 DEF LocalOK, GuardPCs, PCs
  <2>2. SlotTypes'
    BY <1>3, <2>1, SlotMove DEF RefreshCancelled, Goto
  <2>3. rows' \in [Rows -> RowStates]
    BY <1>0, <1>3, UnansweredType DEF RefreshCancelled
  <2>4. StoreTypes'
    BY <1>3, <2>3 DEF RefreshCancelled, StoreTypes, stores
  <2> QED BY <2>2, <2>4
<1> QED BY <1>1, <1>2, <1>3

\* The ways a refresh ends.
LEMMA EndRefreshTypes ==
    ASSUME SlotTypes, StoreTypes, NEW q \in Requests,
           DropGuard(q) \/ Discard(q) \/ Replace(q) \/ RetireCurrent(q) \/ RememberRetired(q)
    PROVE  SlotTypes' /\ StoreTypes'
<1>0. /\ pc[q] \in {"replace", "retire", "remember", "guard", "discard", "discard_kill", "discard_revoke"}
      /\ req[q].tok \in RefreshTokens /\ req[q].sid \in SessionIds
  BY SlotFacts
     DEF LocalOK, GuardPCs, DropGuard, Discard, Replace, RetireCurrent, RememberRetired
<1>1. CASE DropGuard(q)
  <2> DEFINE k == req[q].tok
  <2>1. CASE InFlight(k)
    <3>1. [current[k] EXCEPT !.state = "Active"] \in RefreshOwner
      BY <1>0, <2>1 DEF InFlight, StoreTypes, RefreshOwner
    <3>2. current' = [current EXCEPT ![k] = [current[k] EXCEPT !.state = "Active"]]
      BY <1>0, <1>1, <2>1 DEF DropGuard, StoreTypes
    <3>3. current' \in [RefreshTokens -> RefreshOwner \cup {None}]
      BY <1>0, <3>1, <3>2 DEF StoreTypes
    <3> QED BY <1>1, <3>3, SlotReply DEF DropGuard, StoreTypes
  <2>2. CASE ~InFlight(k)
    BY <1>1, <2>2, SlotReply DEF DropGuard, StoreTypes
  <2> QED BY <2>1, <2>2
<1>2. CASE Discard(q)
  <2>1. StoreTypes'
    <3>1. current' \in [RefreshTokens -> RefreshOwner \cup {None}]
      BY <1>0, <1>2 DEF Discard, StoreTypes
    <3> QED BY <1>2, <3>1 DEF Discard, StoreTypes
  <2> SUFFICES SlotTypes'
    BY <2>1
  <2>2. CASE Reply(q)
    BY <2>2, SlotReply
  <2>3. CASE pc[q] = "discard_kill" /\ Goto(q, "take") /\ req' = req
    <3>1. LocalOK("take", req[q]) /\ "take" \in PCs
      BY <1>0 DEF LocalOK, GuardPCs, PCs
    <3> QED BY <2>3, <3>1, SlotMove DEF Goto
  <2>4. CASE pc[q] = "discard_revoke" /\ Goto(q, "await_revoke") /\ req' = req
    <3>1. req[q].set \in TokenSet
      BY <2>4, SlotFacts DEF LocalOK
    <3>2. LocalOK("await_revoke", req[q]) /\ "await_revoke" \in PCs
      BY <3>1 DEF LocalOK, GuardPCs, PCs
    <3> QED BY <2>4, <3>2, SlotMove DEF Goto
  <2> QED BY <1>2, <2>2, <2>3, <2>4 DEF Discard
<1>3. CASE Replace(q)
  <2>0. /\ req[q].set \in TokenSet /\ req[q].kind = "refresh" /\ req[q].client \in Clients
    BY <1>3, SlotFacts DEF LocalOK, GuardPCs, Replace
  <2>1. SlotTypes'
    <3>1. LocalOK("mint_at", req[q]) /\ "mint_at" \in PCs
      BY <1>0, <2>0 DEF LocalOK, GuardPCs, PCs
    <3>2. LocalOK("discard_revoke", req[q]) /\ "discard_revoke" \in PCs
      BY <1>0, <2>0 DEF LocalOK, GuardPCs, PCs
    <3>3. req' = req /\ (Goto(q, "mint_at") \/ Goto(q, "discard_revoke"))
      BY <1>3 DEF Replace
    <3> QED BY <3>1, <3>2, <3>3, SlotMove DEF Goto
  <2>2. upstream' \in [SessionIds -> SessionEntry \cup {None}]
    <3> DEFINE entry == [set |-> req[q].set, exp |-> Deadline(req[q].set)]
    <3>1. entry \in SessionEntry
      BY <2>0, DeadlineType DEF SessionEntry
    <3>2. upstream' \in {upstream, [upstream EXCEPT ![req[q].sid] = entry]}
      BY <1>3 DEF Replace
    <3> HIDE DEF entry
    <3> QED BY <1>0, <3>1, <3>2 DEF StoreTypes
  <2>3. StoreTypes'
    BY <1>3, <2>2 DEF Replace, StoreTypes
  <2> QED BY <2>1, <2>3
<1>4. CASE RetireCurrent(q)
  <2>1. LocalOK("remember", req[q]) /\ "remember" \in PCs
    BY <1>0 DEF LocalOK, GuardPCs, PCs
  <2>2. SlotTypes'
    BY <1>4, <2>1, SlotMove DEF RetireCurrent, Goto
  <2>3. current' \in [RefreshTokens -> RefreshOwner \cup {None}]
    BY <1>0, <1>4 DEF RetireCurrent, StoreTypes
  <2>4. StoreTypes'
    BY <1>0, <1>4, <2>3 DEF RetireCurrent, StoreTypes
  <2> QED BY <2>2, <2>4
<1>5. CASE RememberRetired(q)
  <2> DEFINE entry == [sid |-> req[q].sid, exp |-> now + RETIRED_REFRESH_TTL]
  <2>1. entry \in RetiredEntry
    BY <1>0, BoundsAssumption DEF StoreTypes, RetiredEntry
  <2>2. retired' \in {Sweep(retired), [Sweep(retired) EXCEPT ![req[q].tok] = entry]}
    BY <1>5 DEF RememberRetired
  <2> HIDE DEF entry
  <2>3. Sweep(retired) \in [RefreshTokens -> RetiredEntry \cup {None}]
    BY SweepType DEF StoreTypes
  <2>4. retired' \in [RefreshTokens -> RetiredEntry \cup {None}]
    BY <1>0, <2>1, <2>2, <2>3
  <2>5. SlotTypes' /\ sent' \subseteq AccessTokens \cup RefreshTokens
    BY <1>5, SendPairTypes DEF RememberRetired
  <2> QED BY <1>5, <2>4, <2>5 DEF RememberRetired, StoreTypes
<1> QED BY <1>1, <1>2, <1>3, <1>4, <1>5

\* take_session and the revocation that follows it.
LEMMA TakeTypes ==
    ASSUME SlotTypes, StoreTypes, NEW q \in Requests, TakeStep(q) \/ RevokeCancelled(q)
    PROVE  SlotTypes' /\ StoreTypes'
<1>1. CASE TakeSession(q)
  <2>0. req[q].sid \in SessionIds
    BY <1>1, SlotFacts DEF LocalOK, TakeSession
  <2>1. StoreTypes'
    <3>1. upstream' \in [SessionIds -> SessionEntry \cup {None}]
      BY <1>1, <2>0 DEF TakeSession, StoreTypes
    <3> QED BY <1>1, <3>1 DEF TakeSession, StoreTypes
  <2> SUFFICES SlotTypes'
    BY <2>1
  <2> DEFINE loc == [req[q] EXCEPT !.set = upstream[req[q].sid].set]
  <2>2. CASE upstream[req[q].sid] # None /\ Goto(q, "take_at")
             /\ req' = [req EXCEPT ![q].set = upstream[req[q].sid].set]
    <3>1. upstream[req[q].sid].set \in TokenSet
      BY <2>0, <2>2 DEF StoreTypes, SessionEntry
    <3>2. loc \in Locals /\ loc.sid = req[q].sid /\ loc.set \in TokenSet
      BY <3>1, SlotFacts DEF Locals
    <3>3. LocalOK("take_at", loc) /\ "take_at" \in PCs
      BY <2>0, <3>2 DEF LocalOK, GuardPCs, PCs
    <3>4. req' = [req EXCEPT ![q] = loc] /\ pc' = [pc EXCEPT ![q] = "take_at"]
      BY <2>2 DEF Goto, SlotTypes
    <3> HIDE DEF loc
    <3> QED BY <3>2, <3>3, <3>4, SlotStep
  <2> QED BY <1>1, <2>2, SlotReply DEF TakeSession
<1>2. CASE TakeTokens(q)
  <2>1. LocalOK("take_rt", req[q]) /\ "take_rt" \in PCs
    BY <1>2, SlotFacts DEF TakeTokens, LocalOK, GuardPCs, PCs
  <2>2. SlotTypes'
    BY <1>2, <2>1, SlotMove DEF TakeTokens, Goto
  <2>3. StoreTypes'
    BY <1>2, UnbindType DEF TakeTokens, StoreTypes
  <2> QED BY <2>2, <2>3
<1>3. CASE TakeRefresh(q)
  <2>1. StoreTypes'
    BY <1>3, UnbindType DEF TakeRefresh, StoreTypes
  <2> SUFFICES SlotTypes'
    BY <2>1
  <2>2. CASE Goto(q, "await_revoke") /\ req' = req
    <3>1. LocalOK("await_revoke", req[q]) /\ "await_revoke" \in PCs
      BY <1>3, SlotFacts DEF TakeRefresh, LocalOK, GuardPCs, PCs
    <3> QED BY <2>2, <3>1, SlotMove DEF Goto
  <2> QED BY <1>3, <2>2, SlotReply DEF TakeRefresh
<1>4. CASE RevokeUpstream(q) \/ RevokeCancelled(q)
  <2>1. req[q].set.row \in Rows
    BY <1>4, SlotFacts DEF RevokeUpstream, RevokeCancelled, LocalOK, TokenSet
  <2>2. rows' \in [Rows -> RowStates]
    BY <1>4, <2>1 DEF RevokeUpstream, RevokeCancelled, Revoked, Asked, StoreTypes, RowStates
  <2>3. SlotTypes'
    BY <1>4, SlotReply DEF RevokeUpstream, RevokeCancelled
  <2> QED BY <1>4, <2>2, <2>3 DEF RevokeUpstream, RevokeCancelled, StoreTypes, stores
<1> QED BY <1>1, <1>2, <1>3, <1>4 DEF TakeStep

\* POST /revoke
LEMMA RevokeTypes ==
    ASSUME SlotTypes, StoreTypes, NEW q \in Requests, RevokeAccess(q) \/ RevokeRefresh(q)
    PROVE  SlotTypes' /\ StoreTypes'
<1>1. ASSUME NEW x \in AccessTokens \cup RefreshTokens, NEW u \in SessionIds,
             req' = [req EXCEPT ![q] = [NoLocals EXCEPT !.kind = "revoke", !.tok = x,
                                          !.sid = u, !.after = "revoke"]],
             Goto(q, "take")
      PROVE  SlotTypes'
  <2> DEFINE loc == [NoLocals EXCEPT !.kind = "revoke", !.tok = x, !.sid = u, !.after = "revoke"]
  <2>1. loc \in Locals /\ loc.sid = u
    BY DEF NoLocals, Locals, Afters, RequestKinds
  <2>2. LocalOK("take", loc) /\ "take" \in PCs
    BY <2>1 DEF LocalOK, GuardPCs, PCs
  <2>3. req' = [req EXCEPT ![q] = loc] /\ pc' = [pc EXCEPT ![q] = "take"]
    BY <1>1 DEF Goto
  <2> HIDE DEF loc
  <2> QED BY <2>1, <2>2, <2>3, SlotStep
<1>2. CASE RevokeAccess(q)
  <2>1. PICK t \in sent \cap AccessTokens :
          /\ tokens[t] # None
          /\ tokens' = [tokens EXCEPT ![t] = None]
          /\ req' = [req EXCEPT ![q] = [NoLocals EXCEPT !.kind = "revoke", !.tok = t,
                                          !.sid = tokens[t].sid, !.after = "revoke"]]
    BY <1>2 DEF RevokeAccess
  <2>2. t \in AccessTokens /\ tokens[t].sid \in SessionIds
    BY <2>1 DEF StoreTypes, TokenEntry
  <2>3. SlotTypes'
    BY <1>1, <1>2, <2>1, <2>2 DEF RevokeAccess
  <2>4. tokens' \in [AccessTokens -> TokenEntry \cup {None}]
    BY <2>1 DEF StoreTypes
  <2> QED BY <1>2, <2>3, <2>4 DEF RevokeAccess, StoreTypes
<1>3. CASE RevokeRefresh(q)
  <2>1. PICK k \in sent \cap RefreshTokens :
          /\ current[k] # None
          /\ current' = [current EXCEPT ![k] = None]
          /\ req' = [req EXCEPT ![q] = [NoLocals EXCEPT !.kind = "revoke", !.tok = k,
                                          !.sid = current[k].sid, !.after = "revoke"]]
    BY <1>3 DEF RevokeRefresh
  <2>2. k \in RefreshTokens /\ current[k].sid \in SessionIds
    BY <2>1 DEF StoreTypes, RefreshOwner
  <2>3. SlotTypes'
    BY <1>1, <1>3, <2>1, <2>2 DEF RevokeRefresh
  <2>4. current' \in [RefreshTokens -> RefreshOwner \cup {None}]
    BY <2>1 DEF StoreTypes
  <2> QED BY <1>3, <2>3, <2>4 DEF RevokeRefresh, StoreTypes
<1> QED BY <1>2, <1>3

\* An MCP request through require_proxy_bearer.
LEMMA CallTypes ==
    ASSUME SlotTypes, StoreTypes, NEW q \in Requests, ResolveAccess(q) \/ CallStep(q)
    PROVE  SlotTypes' /\ StoreTypes'
<1>1. CASE ResolveAccess(q)
  <2>1. PICK t \in sent \cap AccessTokens :
         \/ /\ Live(tokens[t])
            /\ req' = [req EXCEPT ![q] = [NoLocals EXCEPT !.kind = "call", !.tok = t,
                         !.sid = tokens[t].sid, !.late = SessionGone(tokens[t])]]
            /\ Goto(q, "session?")
            /\ UNCHANGED tokens
         \/ /\ tokens[t] # None /\ ~Live(tokens[t])
            /\ tokens' = [tokens EXCEPT ![t] = None]
            /\ UNCHANGED <<pc, req>>
    BY <1>1 DEF ResolveAccess
  <2>2. StoreTypes'
    <3>1. tokens' \in [AccessTokens -> TokenEntry \cup {None}]
      BY <2>1 DEF StoreTypes
    <3> QED BY <1>1, <3>1 DEF ResolveAccess, StoreTypes
  <2> SUFFICES SlotTypes'
    BY <2>2
  <2> DEFINE loc == [NoLocals EXCEPT !.kind = "call", !.tok = t, !.sid = tokens[t].sid,
                                     !.late = SessionGone(tokens[t])]
  <2>3. CASE Live(tokens[t]) /\ req' = [req EXCEPT ![q] = loc] /\ Goto(q, "session?")
    <3>1. tokens[t].sid \in SessionIds /\ SessionGone(tokens[t]) \in BOOLEAN
      BY <2>3 DEF StoreTypes, TokenEntry, Live, SessionGone
    <3>2. loc \in Locals /\ loc.sid \in SessionIds
      BY <3>1 DEF NoLocals, Locals, Afters, RequestKinds
    <3>3. LocalOK("session?", loc) /\ "session?" \in PCs
      BY <3>2 DEF LocalOK, GuardPCs, PCs
    <3> HIDE DEF loc
    <3> QED BY <2>3, <3>2, <3>3, SlotStep DEF Goto
  <2>4. CASE UNCHANGED <<pc, req>>
    BY <2>4 DEF SlotTypes, LocalsOK
  <2> QED BY <2>1, <2>3, <2>4
<1>2. CASE CallStep(q)
  <2>1. StoreTypes'
    BY <1>2 DEF CallStep, ReadAccess, VerifyUpstream, RunHandler, StoreTypes, stores
  <2> SUFFICES SlotTypes'
    BY <2>1
  <2> DEFINE loc == [req[q] EXCEPT !.set = upstream[req[q].sid].set]
  <2>2. CASE /\ pc[q] = "session?" /\ Live(upstream[req[q].sid]) /\ Goto(q, "verify")
             /\ req' = [req EXCEPT ![q].set = upstream[req[q].sid].set]
    <3>1. upstream[req[q].sid].set \in TokenSet
      BY <2>2, SlotFacts DEF LocalOK, StoreTypes, SessionEntry, Live
    <3>2. loc \in Locals
      BY <3>1, SlotFacts DEF Locals
    <3>3. LocalOK("verify", loc) /\ "verify" \in PCs
      BY DEF LocalOK, GuardPCs, PCs
    <3>4. req' = [req EXCEPT ![q] = loc] /\ pc' = [pc EXCEPT ![q] = "verify"]
      BY <2>2 DEF Goto, SlotTypes
    <3> HIDE DEF loc
    <3> QED BY <3>2, <3>3, <3>4, SlotStep
  <2>3. CASE Goto(q, "handler") /\ req' = req
    <3>1. LocalOK("handler", req[q]) /\ "handler" \in PCs
      BY DEF LocalOK, GuardPCs, PCs
    <3> QED BY <2>3, <3>1, SlotMove DEF Goto
  <2> QED BY <1>2, <2>2, <2>3, SlotReply DEF CallStep, ReadAccess, VerifyUpstream, RunHandler
<1> QED BY <1>1, <1>2

\* The steps that belong to no request.
LEMMA EnvTypes ==
    ASSUME SlotTypes, StoreTypes, RevokeInBackground \/ Tick
    PROVE  SlotTypes' /\ StoreTypes'
<1>1. CASE RevokeInBackground
  <2>1. rows' \in [Rows -> RowStates] /\ bg' \subseteq Rows
    BY <1>1 DEF RevokeInBackground, Revoked, Asked, StoreTypes, RowStates
  <2> QED BY <1>1, <2>1 DEF RevokeInBackground, SlotTypes, LocalsOK, StoreTypes, stores
<1>2. CASE Tick
  BY <1>2 DEF Tick, SlotTypes, LocalsOK, StoreTypes, stores
<1> QED BY <1>1, <1>2

\* Type correctness and its strengthening are preserved by every step.
LEMMA NextTypes == TypeInv /\ [Next]_vars => TypeInv'
<1> SUFFICES ASSUME SlotTypes, StoreTypes, [Next]_vars PROVE SlotTypes' /\ StoreTypes'
  <2>1. TypeInv' <=> SlotTypes' /\ StoreTypes'
    BY TypeInvHalves, PTL
  <2> QED BY <2>1, TypeInvHalves
<1>1. CASE UNCHANGED vars
  BY <1>1 DEF vars, stores, SlotTypes, LocalsOK, StoreTypes
<1>2. ASSUME NEW q \in Requests, RedeemedCode(q) \/ GrantDone(q) \/ HandlerStep(q) \/ ClientStep(q)
      PROVE  SlotTypes' /\ StoreTypes'
  <2>1. CASE RedeemedCode(q) BY <2>1, RedeemedCodeTypes
  <2>2. CASE GrantDone(q) BY <2>2, GrantDoneTypes
  <2>3. CASE GrantStep(q)
    BY <2>3, SweepExpiredTypes, PurgeTypes, InsertTypes DEF GrantStep
  <2>4. CASE MintStep(q) BY <2>4, MintTypes
  <2>5. CASE RefreshStep(q)
    BY <2>5, ReadTypes, AwaitTypes, EndRefreshTypes DEF RefreshStep
  <2>6. CASE TakeStep(q) BY <2>6, TakeTypes
  <2>7. CASE CallStep(q) BY <2>7, CallTypes
  <2>8. CASE ClientStep(q)
    BY <2>8, RedeemTypes, RevokeTypes, CallTypes, AwaitTypes, TakeTypes DEF ClientStep
  <2> QED BY <1>2, <2>1, <2>2, <2>3, <2>4, <2>5, <2>6, <2>7, <2>8 DEF HandlerStep
<1> QED BY <1>1, <1>2, EnvTypes DEF Next

\* Every reachable state has the strengthened type.
THEOREM TypeInvariant == Spec => []TypeInv
BY InitTypes, NextTypes, PTL DEF Spec

\* The stores and every handler's locals are well formed in every reachable state,
\* for any numbers of requests, clients and tokens.
THEOREM TypeCorrect == Spec => []TypeOK
<1>1. TypeInv => TypeOK
  BY DEF TypeInv
<1> QED BY <1>1, TypeInvariant, PTL

------------------------------------------------------------------------------
(* A removed session stays removed *)

\* A step of one request.
RequestStep(q) == RedeemedCode(q) \/ GrantDone(q) \/ HandlerStep(q) \/ ClientStep(q)

\* What any step does to the stored sessions: nothing, or a sweep with at most one
\* new id, or a renewal of a live session, or a removal.
LEMMA UpstreamEffect ==
    ASSUME TypeInv, NEW q \in Requests, RequestStep(q)
    PROVE  \/ upstream' = upstream
           \/ upstream' = Sweep(upstream)
           \/ pc[q] = "insert" /\ \E u \in SessionIds \ minted, e \in SessionEntry :
                upstream' = [Sweep(upstream) EXCEPT ![u] = e]
           \/ pc[q] = "replace" /\ Live(upstream[req[q].sid]) /\ \E e \in SessionEntry :
                upstream' = [upstream EXCEPT ![req[q].sid] = e]
           \/ pc[q] = "take" /\ upstream' = [upstream EXCEPT ![req[q].sid] = None]
<1>0. SlotTypes /\ StoreTypes
  BY TypeInvHalves
<1>1. CASE InsertSession(q)
  <2>1. PICK u \in Fresh(SessionIds) :
          upstream' = [Sweep(upstream) EXCEPT ![u] = [set |-> req[q].set, exp |-> Deadline(req[q].set)]]
    BY <1>1 DEF InsertSession
  <2>2. u \in SessionIds \ minted
    BY FreshIsNew
  <2>3. pc[q] = "insert" /\ [set |-> req[q].set, exp |-> Deadline(req[q].set)] \in SessionEntry
    BY <1>0, <1>1, SlotFacts, DeadlineType DEF InsertSession, LocalOK, SessionEntry
  <2> QED BY <2>1, <2>2, <2>3
<1>2. CASE Replace(q)
  <2>1. [set |-> req[q].set, exp |-> Deadline(req[q].set)] \in SessionEntry
    BY <1>0, <1>2, SlotFacts, DeadlineType DEF Replace, LocalOK, SessionEntry
  <2> QED BY <1>2, <2>1 DEF Replace
<1>3. CASE SweepExpired(q) \/ InsertSessionFails(q)
  BY <1>3 DEF SweepExpired, InsertSessionFails
<1>4. CASE TakeSession(q)
  BY <1>4 DEF TakeSession
<1>5. CASE RedeemedCode(q) \/ GrantDone(q) \/ MintStep(q) \/ CallStep(q) \/ ClientStep(q)
  BY <1>5 DEF RedeemedCode, GrantDone, MintStep, MintAccess, MintRefresh, MintFails,
              CallStep, ReadAccess, VerifyUpstream, RunHandler, ClientStep, RedeemRefresh,
              RevokeAccess, RevokeRefresh, ResolveAccess, RefreshCancelled, RevokeCancelled, stores
<1>6. CASE PurgeSweptTokens(q) \/ PurgeSweptRefresh(q) \/ SpawnRevocations(q)
           \/ TakeTokens(q) \/ TakeRefresh(q) \/ RevokeUpstream(q)
  BY <1>6 DEF PurgeSweptTokens, PurgeSweptRefresh, SpawnRevocations, TakeTokens, TakeRefresh,
              RevokeUpstream, stores
<1>7. CASE LookupRetired(q) \/ ReadSecret(q) \/ ReadScopes(q) \/ UpstreamRefreshed(q)
           \/ UpstreamRefreshFails(q) \/ DropGuard(q) \/ Discard(q) \/ RetireCurrent(q)
           \/ RememberRetired(q)
  BY <1>7 DEF LookupRetired, ReadSecret, ReadScopes, UpstreamRefreshed, UpstreamRefreshFails,
              DropGuard, Discard, RetireCurrent, RememberRetired, stores
<1> QED BY <1>1, <1>2, <1>3, <1>4, <1>5, <1>6, <1>7
        DEF RequestStep, HandlerStep, GrantStep, RefreshStep, TakeStep

\* No step brings a removed session back.
LEMMA RemovedStaysRemoved ==
    ASSUME TypeInv, [Next]_vars, NEW u \in SessionIds, u \in minted, upstream[u] = None
    PROVE  upstream'[u] = None
<1>0. upstream \in [SessionIds -> SessionEntry \cup {None}]
  BY DEF TypeInv, TypeOK
<1>1. Sweep(upstream)[u] = None
  BY <1>0 DEF Sweep, Live
<1>2. ASSUME NEW q \in Requests, RequestStep(q) PROVE upstream'[u] = None
  <2>1. ASSUME NEW v \in SessionIds \ minted, NEW e \in SessionEntry,
               upstream' = [Sweep(upstream) EXCEPT ![v] = e]
        PROVE  upstream'[u] = None
    BY <1>0, <1>1, <2>1, SweepType
  <2>2. ASSUME Live(upstream[req[q].sid]), NEW e \in SessionEntry,
               upstream' = [upstream EXCEPT ![req[q].sid] = e]
        PROVE  upstream'[u] = None
    <3>1. req[q].sid # u
      BY <2>2 DEF Live
    <3> QED BY <1>0, <2>2, <3>1
  <2>3. ASSUME upstream' = [upstream EXCEPT ![req[q].sid] = None]
        PROVE  upstream'[u] = None
    BY <1>0, <2>3
  <2> QED BY <1>1, <1>2, <2>1, <2>2, <2>3, UpstreamEffect
<1>3. CASE RevokeInBackground \/ Tick \/ UNCHANGED vars
  BY <1>3 DEF RevokeInBackground, Tick, vars, stores
<1> QED BY <1>2, <1>3 DEF Next, RequestStep

\* Whatever refreshes, grants and sweeps are in flight, a session that a revocation,
\* a reuse containment or a sweep removed never comes back (UpstreamStore::replace).
THEOREM NoResurrectionEver == Spec => NoResurrection
<1>1. TypeInv /\ [Next]_vars =>
        [\A u \in SessionIds : u \in minted /\ upstream[u] = None => upstream'[u] = None]_vars
  BY RemovedStaysRemoved
<1> QED BY <1>1, TypeInvariant, PTL DEF Spec, NoResurrection

------------------------------------------------------------------------------
(* Who holds what: sessions are minted before they are used *)

\* A request's step leaves the other requests alone.
LEMMA OtherSlots ==
    ASSUME TypeInv, NEW q \in Requests, RequestStep(q), NEW p \in Requests, p # q
    PROVE  pc'[p] = pc[p] /\ req'[p] = req[p]
<1>0. pc \in [Requests -> PCs] /\ req \in [Requests -> Locals]
  BY DEF TypeInv, TypeOK
<1>1. CASE RedeemedCode(q) \/ GrantDone(q) \/ GrantStep(q) \/ MintStep(q)
  BY <1>0, <1>1 DEF RedeemedCode, GrantDone, GrantStep, SweepExpired, PurgeSweptTokens,
       PurgeSweptRefresh, SpawnRevocations, InsertSession, InsertSessionFails, MintStep,
       MintAccess, MintRefresh, MintFails, SendPair, Reply, Goto
<1>2. CASE RefreshStep(q)
  BY <1>0, <1>2 DEF RefreshStep, LookupRetired, ReadSecret, ReadScopes, UpstreamRefreshed,
       UpstreamRefreshFails, DropGuard, Discard, Replace, RetireCurrent, RememberRetired,
       SendPair, Reply, Goto
<1>3. CASE TakeStep(q) \/ CallStep(q) \/ RevokeCancelled(q) \/ RefreshCancelled(q)
  BY <1>0, <1>3 DEF TakeStep, TakeSession, TakeTokens, TakeRefresh, RevokeUpstream, CallStep,
       ReadAccess, VerifyUpstream, RunHandler, RevokeCancelled, RefreshCancelled, Reply, Goto
<1>4. CASE RedeemRefresh(q) \/ RevokeAccess(q) \/ RevokeRefresh(q) \/ ResolveAccess(q)
  BY <1>0, <1>4 DEF RedeemRefresh, RevokeAccess, RevokeRefresh, ResolveAccess, Goto
<1> QED BY <1>1, <1>2, <1>3, <1>4 DEF RequestStep, HandlerStep, ClientStep

\* Where a handler works on a session that was minted.
HoldsSession(q) == pc[q] \in {"mint_at", "mint_rt"} \cup GuardPCs

\* Every session and refresh token in use was minted: a fresh one is new to all.
BoundInv ==
    /\ \A t \in AccessTokens : tokens[t] # None => tokens[t].sid \in minted
    /\ \A k \in RefreshTokens : current[k] # None => k \in minted /\ current[k].sid \in minted
    /\ \A q \in Requests : HoldsSession(q) => req[q].sid \in minted
    /\ \A q \in Requests : HoldsGuard(q) => req[q].tok \in minted

\* minted only grows.
LEMMA MintedGrows == ASSUME [Next]_vars PROVE minted \subseteq minted'
<1>1. ASSUME NEW q \in Requests, RequestStep(q) PROVE minted \subseteq minted'
  <2>1. CASE GrantStep(q) \/ MintStep(q)
    BY <2>1 DEF GrantStep, SweepExpired, PurgeSweptTokens, PurgeSweptRefresh, SpawnRevocations,
         InsertSession, InsertSessionFails, MintStep, MintAccess, MintRefresh, MintFails
  <2>2. CASE RefreshStep(q)
    BY <2>2 DEF RefreshStep, LookupRetired, ReadSecret, ReadScopes, UpstreamRefreshed,
         UpstreamRefreshFails, DropGuard, Discard, Replace, RetireCurrent, RememberRetired
  <2>3. CASE TakeStep(q) \/ CallStep(q) \/ ClientStep(q) \/ RedeemedCode(q) \/ GrantDone(q)
    BY <2>3 DEF TakeStep, TakeSession, TakeTokens, TakeRefresh, RevokeUpstream, CallStep,
         ReadAccess, VerifyUpstream, RunHandler, ClientStep, RedeemRefresh, RevokeAccess,
         RevokeRefresh, ResolveAccess, RevokeCancelled, RefreshCancelled, RedeemedCode, GrantDone
  <2> QED BY <1>1, <2>1, <2>2, <2>3 DEF RequestStep, HandlerStep
<1> QED BY <1>1 DEF Next, RequestStep, RevokeInBackground, Tick, vars

------------------------------------------------------------------------------
(* The in-flight lock on a refresh token has one holder *)

\* What a step can do to the lock: a redemption acquires it, ...
Acquires(q, k) ==
    /\ pc[q] = "idle" /\ k \in sent \cap RefreshTokens
    /\ Live(current[k]) /\ current[k].state = "Active" /\ current' = MarkInFlight(k)
    /\ pc'[q] \in {"secret", "guard"}
    /\ req'[q].kind = "refresh" /\ req'[q].tok = k /\ req'[q].sid = current[k].sid
    /\ req'[q].late = SessionGone(current[k])
    /\ UNCHANGED <<upstream, tokens, minted, sent>>

\* ... the other steps remove entries or mint a new one, ...
CurrentShrinks == \A k \in RefreshTokens : current'[k] \in {current[k], None}

MintsRefresh(q) ==
    /\ pc[q] = "mint_rt"
    /\ \E k \in RefreshTokens \ minted :
         /\ minted' = minted \cup {k}
         /\ req'[q].rt = k
         /\ current'[k].sid = req[q].sid /\ current'[k].state = "Active"
         /\ \A j \in RefreshTokens \ {k} : current'[j] \in {current[j], None}

\* ... and the holder gives it up.
Frees(k) ==
    \/ current' = [current EXCEPT ![k] = None]
    \/ ~InFlight(k) /\ current' = current
    \/ InFlight(k) /\ current' = [current EXCEPT ![k].state = "Active"]

LockEffect(q) ==
    \/ \E k \in RefreshTokens : Acquires(q, k)
    \/ /\ HoldsGuard(q) /\ HoldsGuard(q)'
       /\ req'[q].tok = req[q].tok /\ req'[q].sid = req[q].sid
       /\ CurrentShrinks \/ MintsRefresh(q)
    \/ /\ HoldsGuard(q) /\ ~HoldsGuard(q)'
       /\ Frees(req[q].tok) /\ minted' = minted
    \/ /\ ~HoldsGuard(q) /\ ~HoldsGuard(q)'
       /\ CurrentShrinks \/ MintsRefresh(q)

\* Every step of a request is one of these.
LEMMA LockStep == ASSUME TypeInv, NEW q \in Requests, RequestStep(q) PROVE LockEffect(q)
<1>0. /\ SlotTypes /\ StoreTypes
      /\ pc \in [Requests -> PCs] /\ req \in [Requests -> Locals]
      /\ current \in [RefreshTokens -> RefreshOwner \cup {None}]
  BY TypeInvHalves DEF SlotTypes, StoreTypes
<1>r. ASSUME Reply(q) PROVE ~HoldsGuard(q)'
  BY <1>0, <1>r DEF Reply, HoldsGuard, GuardPCs
<1>m. ASSUME NEW l, pc' = [pc EXCEPT ![q] = l] PROVE pc'[q] = l
  BY <1>0, <1>m
<1>1. CASE RedeemedCode(q) \/ SweepExpired(q) \/ PurgeSweptTokens(q) \/ SpawnRevocations(q)
  <2>1. pc'[q] \in {"sweep", "purge", "purge_rt", "insert"}
    BY <1>1, <1>m DEF RedeemedCode, SweepExpired, PurgeSweptTokens, SpawnRevocations, Goto
  <2>2. pc[q] \in {"idle", "sweep", "purge", "purge_rt", "insert"}
    BY <1>1 DEF RedeemedCode, SweepExpired, PurgeSweptTokens, SpawnRevocations, Arrive
  <2>3. current' = current
    BY <1>1 DEF RedeemedCode, SweepExpired, PurgeSweptTokens, SpawnRevocations, stores
  <2> QED BY <2>1, <2>2, <2>3 DEF LockEffect, HoldsGuard, GuardPCs, CurrentShrinks
<1>2. CASE PurgeSweptRefresh(q)
  <2>1. pc'[q] = "purge" /\ pc[q] = "purge_rt" /\ current' = Unbind(current, req[q].sid)
    BY <1>2, <1>m DEF PurgeSweptRefresh, Goto
  <2>2. CurrentShrinks
    BY <1>0, <2>1 DEF CurrentShrinks, Unbind
  <2> QED BY <2>1, <2>2 DEF LockEffect, HoldsGuard, GuardPCs
<1>3. CASE InsertSession(q)
  <2>1. pc[q] = "insert" /\ pc'[q] = "mint_at" /\ current' = current
    BY <1>3, <1>m DEF InsertSession, Goto
  <2>2. req[q].kind = "grant" /\ req'[q].kind = req[q].kind
    BY <1>0, <1>3, <2>1, SlotFacts DEF InsertSession, LocalOK, Locals
  <2> QED BY <2>1, <2>2 DEF LockEffect, HoldsGuard, GuardPCs, CurrentShrinks
<1>4. CASE InsertSessionFails(q) \/ GrantDone(q) \/ RevokeUpstream(q) \/ RevokeCancelled(q)
           \/ RunHandler(q) \/ RememberRetired(q)
  <2>1. pc[q] \in {"insert", "mark", "await_revoke", "handler", "remember"} /\ current' = current
        /\ Reply(q)
    BY <1>4 DEF InsertSessionFails, GrantDone, RevokeUpstream, RevokeCancelled, RunHandler,
                RememberRetired, SendPair, stores
  <2> QED BY <2>1, <1>r DEF LockEffect, HoldsGuard, GuardPCs, CurrentShrinks
<1>5. CASE MintAccess(q)
  <2>1. /\ pc[q] = "mint_at" /\ current' = current
        /\ pc'[q] = IF req[q].set.refresh THEN "mint_rt" ELSE AfterMint(q)
    BY <1>5, <1>m DEF MintAccess, Goto
  <2>2. req'[q].kind = req[q].kind /\ req'[q].tok = req[q].tok /\ req'[q].sid = req[q].sid
    BY <1>0, <1>5 DEF MintAccess, Locals
  <2>3. req[q].kind \in {"grant", "refresh"}
    BY <1>0, <2>1, SlotFacts DEF LocalOK
  <2> QED BY <2>1, <2>2, <2>3 DEF LockEffect, HoldsGuard, GuardPCs, CurrentShrinks, AfterMint
<1>6. CASE MintRefresh(q)
  <2>1. /\ pc[q] = "mint_rt" /\ pc'[q] = AfterMint(q)
    BY <1>6, <1>m DEF MintRefresh, Goto
  <2>2. req'[q].kind = req[q].kind /\ req'[q].tok = req[q].tok /\ req'[q].sid = req[q].sid
    BY <1>0, <1>6 DEF MintRefresh, Locals
  <2>3. req[q].kind \in {"grant", "refresh"} /\ req[q].sid \in SessionIds /\ req[q].client \in Clients
    BY <1>0, <2>1, SlotFacts DEF LocalOK
  <2>4. MintsRefresh(q)
    <3> DEFINE entry == [sid |-> req[q].sid, client |-> req[q].client, state |-> "Active",
                         exp |-> now + REFRESH_TTL]
    <3>1. PICK k \in Fresh(RefreshTokens) :
            /\ current' = [Sweep(current) EXCEPT ![k] = entry]
            /\ minted' = minted \cup {k}
            /\ req' = [req EXCEPT ![q].rt = k]
      BY <1>6 DEF MintRefresh
    <3>2. k \in RefreshTokens \ minted
      BY FreshIsNew
    <3>3. current'[k] = entry /\ req'[q].rt = k
      <4> HIDE DEF entry
      <4>1. Sweep(current) \in [RefreshTokens -> RefreshOwner \cup {None}]
        BY <1>0, SweepType
      <4>2. current'[k] = entry
        BY <3>1, <3>2, <4>1
      <4>3. req'[q].rt = k
        BY <1>0, <3>1 DEF Locals
      <4> QED BY <4>2, <4>3
    <3>4. \A j \in RefreshTokens \ {k} : current'[j] \in {current[j], None}
      BY <1>0, <3>1, <3>2 DEF Sweep
    <3> QED BY <2>1, <3>1, <3>2, <3>3, <3>4 DEF MintsRefresh
  <2> QED BY <2>1, <2>2, <2>3, <2>4 DEF LockEffect, HoldsGuard, GuardPCs, AfterMint
<1>7. CASE MintFails(q)
  <2>1. /\ pc[q] \in {"mint_at", "mint_rt"} /\ req' = req
        /\ pc'[q] = IF req[q].kind = "grant" THEN "take" ELSE "guard"
        /\ current' \in {current, Sweep(current)}
    BY <1>7, <1>m DEF MintFails, Goto
  <2>2. req[q].kind \in {"grant", "refresh"}
    BY <1>0, <2>1, SlotFacts DEF LocalOK
  <2>3. CurrentShrinks
    BY <1>0, <2>1 DEF CurrentShrinks, Sweep
  <2> QED BY <2>1, <2>2, <2>3 DEF LockEffect, HoldsGuard, GuardPCs
<1>8. CASE LookupRetired(q) \/ CallStep(q)
  <2>1. pc[q] \in {"retired?", "session?", "verify", "handler"} /\ current' = current
    BY <1>8 DEF LookupRetired, CallStep, ReadAccess, VerifyUpstream, RunHandler, stores
  <2>2. Reply(q) \/ pc'[q] \in {"take", "verify", "handler"}
    BY <1>8, <1>m DEF LookupRetired, CallStep, ReadAccess, VerifyUpstream, RunHandler, Goto
  <2> QED BY <2>1, <2>2, <1>r DEF LockEffect, HoldsGuard, GuardPCs, CurrentShrinks
<1>9. CASE ReadSecret(q) \/ ReadScopes(q) \/ UpstreamRefreshed(q) \/ UpstreamRefreshFails(q)
           \/ RefreshCancelled(q)
  <2>1. pc[q] \in {"secret", "scopes", "await_refresh"} /\ current' = current
    BY <1>9
       DEF ReadSecret, ReadScopes, UpstreamRefreshed, UpstreamRefreshFails, RefreshCancelled,
                stores
  <2>2. pc'[q] \in {"scopes", "discard", "await_refresh", "replace", "discard_kill", "guard"}
    BY <1>9, <1>m DEF ReadSecret, ReadScopes, UpstreamRefreshed, UpstreamRefreshFails,
                      RefreshCancelled, Goto
  <2>3. req'[q].tok = req[q].tok /\ req'[q].sid = req[q].sid
    BY <1>0, <1>9, ZenonT(60) DEF ReadSecret, ReadScopes, UpstreamRefreshed, UpstreamRefreshFails,
                      RefreshCancelled, Locals
  <2> QED BY <2>1, <2>2, <2>3 DEF LockEffect, HoldsGuard, GuardPCs, CurrentShrinks
<1>10. CASE DropGuard(q)
  BY <1>10, <1>r DEF DropGuard, LockEffect, HoldsGuard, GuardPCs, Frees
<1>11. CASE Discard(q)
  <2>1. Reply(q) \/ pc'[q] \in {"take", "await_revoke"}
    BY <1>11, <1>m DEF Discard, Goto
  <2> QED BY <1>11, <2>1, <1>r DEF Discard, LockEffect, HoldsGuard, GuardPCs, Frees
<1>12. CASE Replace(q)
  <2>1. pc[q] = "replace" /\ pc'[q] \in {"mint_at", "discard_revoke"} /\ req' = req
        /\ current' = current
    BY <1>12, <1>m DEF Replace, Goto
  <2>2. req[q].kind = "refresh"
    BY <1>0, <2>1, SlotFacts DEF LocalOK, GuardPCs
  <2> QED BY <2>1, <2>2 DEF LockEffect, HoldsGuard, GuardPCs, CurrentShrinks
<1>13. CASE RetireCurrent(q)
  BY <1>13, <1>m DEF RetireCurrent, LockEffect, HoldsGuard, GuardPCs, Frees, Goto
<1>14. CASE TakeSession(q) \/ TakeTokens(q) \/ TakeRefresh(q)
  <2>1. /\ pc[q] \in {"take", "take_at", "take_rt"}
        /\ current' \in {current, Unbind(current, req[q].sid)}
    BY <1>14 DEF TakeSession, TakeTokens, TakeRefresh
  <2>2. Reply(q) \/ pc'[q] \in {"take_at", "take_rt", "await_revoke"}
    BY <1>14, <1>m DEF TakeSession, TakeTokens, TakeRefresh, Goto
  <2>3. CurrentShrinks
    BY <1>0, <2>1 DEF CurrentShrinks, Unbind
  <2> QED BY <2>1, <2>2, <2>3, <1>r DEF LockEffect, HoldsGuard, GuardPCs
<1>15. CASE RevokeAccess(q) \/ RevokeRefresh(q) \/ ResolveAccess(q)
  <2>1. pc[q] = "idle" /\ (pc'[q] \in {"take", "session?"} \/ UNCHANGED <<pc, req>>)
    BY <1>15, <1>m DEF RevokeAccess, RevokeRefresh, ResolveAccess, Arrive, Goto
  <2>2. CurrentShrinks
    BY <1>0, <1>15 DEF CurrentShrinks, RevokeAccess, RevokeRefresh, ResolveAccess
  <2> QED BY <2>1, <2>2 DEF LockEffect, HoldsGuard, GuardPCs
<1>16. CASE RedeemRefresh(q)
  <2>0. pc[q] = "idle" /\ UNCHANGED <<upstream, tokens, minted, sent>>
    BY <1>16 DEF RedeemRefresh, Arrive
  <2>1. PICK k \in sent \cap RefreshTokens, c \in Clients :
          \/ /\ current' = [current EXCEPT ![k] = None]
             /\ Goto(q, "retired?")
          \/ Goto(q, "take") /\ UNCHANGED current
          \/ /\ Live(current[k])
             /\ current[k].state = "Active"
             /\ current' = MarkInFlight(k)
             /\ req' = [req EXCEPT ![q] = [[NoLocals EXCEPT !.kind = "refresh", !.tok = k,
                                  !.late = SessionGone(current[k])]
                          EXCEPT !.sid = current[k].sid, !.client = current[k].client]]
             /\ Goto(q, IF c = current[k].client THEN "secret" ELSE "guard")
    BY <1>16 DEF RedeemRefresh
  <2>2. CASE pc'[q] \in {"retired?", "take"} /\ current' \in {current, [current EXCEPT ![k] = None]}
    <3>1. CurrentShrinks
      BY <1>0, <2>2 DEF CurrentShrinks
    <3> QED BY <2>0, <2>2, <3>1 DEF LockEffect, HoldsGuard, GuardPCs
  <2>3. CASE /\ Live(current[k])
             /\ current[k].state = "Active"
             /\ current' = MarkInFlight(k)
             /\ req' = [req EXCEPT ![q] = [[NoLocals EXCEPT !.kind = "refresh", !.tok = k,
                                  !.late = SessionGone(current[k])]
                          EXCEPT !.sid = current[k].sid, !.client = current[k].client]]
             /\ Goto(q, IF c = current[k].client THEN "secret" ELSE "guard")
    <3>1. pc'[q] \in {"secret", "guard"}
      BY <2>3, <1>m DEF Goto
    <3>2. /\ req'[q].kind = "refresh" /\ req'[q].tok = k /\ req'[q].sid = current[k].sid
          /\ req'[q].late = SessionGone(current[k])
      BY <1>0, <2>3 DEF NoLocals
    <3>3. Acquires(q, k)
      BY <2>0, <2>3, <3>1, <3>2 DEF Acquires
    <3> QED BY <3>3 DEF LockEffect
  <2> QED BY <1>m, <2>1, <2>2, <2>3 DEF Goto
<1> QED BY <1>1, <1>2, <1>3, <1>4, <1>5, <1>6, <1>7, <1>8, <1>9, <1>10, <1>11, <1>12, <1>13,
           <1>14, <1>15, <1>16
        DEF RequestStep, HandlerStep, ClientStep, GrantStep, MintStep, RefreshStep, TakeStep, CallStep

\* What a step does to the access tokens, and to the session a handler works on.
LEMMA BindStep ==
    ASSUME TypeInv, NEW q \in Requests, RequestStep(q)
    PROVE  /\ \A t \in AccessTokens :
                \/ tokens'[t] \in {tokens[t], None}
                \/ pc[q] = "mint_at" /\ tokens'[t].sid = req[q].sid
           /\ \/ ~HoldsSession(q)'
              \/ HoldsSession(q) /\ req'[q].sid = req[q].sid
              \/ pc[q] = "insert" /\ req'[q].sid \in minted' \ minted
              \/ \E k \in RefreshTokens : Acquires(q, k)
<1>0. /\ SlotTypes /\ StoreTypes
      /\ pc \in [Requests -> PCs] /\ req \in [Requests -> Locals]
      /\ tokens \in [AccessTokens -> TokenEntry \cup {None}]
  BY TypeInvHalves DEF SlotTypes, StoreTypes
<1>m. ASSUME NEW l, pc' = [pc EXCEPT ![q] = l] PROVE pc'[q] = l
  BY <1>0, <1>m
<1>1. ASSUME NEW t \in AccessTokens
      PROVE  \/ tokens'[t] \in {tokens[t], None}
             \/ pc[q] = "mint_at" /\ tokens'[t].sid = req[q].sid
  <2>1. CASE MintAccess(q)
    <3> DEFINE entry == [sid |-> req[q].sid, client |-> req[q].client, exp |-> now + req[q].ttl]
    <3>1. PICK x \in Fresh(AccessTokens) : tokens' = [Sweep(tokens) EXCEPT ![x] = entry]
      BY <2>1 DEF MintAccess
    <3>2. entry.sid = req[q].sid /\ pc[q] = "mint_at"
      BY <2>1 DEF MintAccess
    <3> HIDE DEF entry
    <3>3. tokens'[t] \in {entry, tokens[t], None}
      BY <1>0, <3>1 DEF Sweep
    <3> QED BY <3>2, <3>3
  <2>2. CASE MintFails(q)
    BY <1>0, <2>2 DEF MintFails, Sweep
  <2>3. CASE PurgeSweptTokens(q) \/ TakeTokens(q)
    BY <1>0, <2>3 DEF PurgeSweptTokens, TakeTokens, Unbind
  <2>4. CASE RevokeAccess(q) \/ ResolveAccess(q)
    BY <1>0, <2>4 DEF RevokeAccess, ResolveAccess
  <2>5. CASE \/ RedeemedCode(q) \/ GrantDone(q) \/ SweepExpired(q) \/ PurgeSweptRefresh(q)
             \/ SpawnRevocations(q) \/ InsertSession(q) \/ InsertSessionFails(q) \/ MintRefresh(q)
    BY <2>5 DEF RedeemedCode, GrantDone, SweepExpired, PurgeSweptRefresh, SpawnRevocations,
                InsertSession, InsertSessionFails, MintRefresh, stores
  <2>6. CASE RefreshStep(q)
    BY <2>6 DEF RefreshStep, LookupRetired, ReadSecret, ReadScopes, UpstreamRefreshed,
                UpstreamRefreshFails, DropGuard, Discard, Replace, RetireCurrent, RememberRetired,
                stores
  <2>7. CASE TakeSession(q) \/ TakeRefresh(q) \/ RevokeUpstream(q) \/ CallStep(q)
             \/ RedeemRefresh(q) \/ RevokeRefresh(q) \/ RefreshCancelled(q) \/ RevokeCancelled(q)
    BY <2>7 DEF TakeSession, TakeRefresh, RevokeUpstream, CallStep, ReadAccess, VerifyUpstream,
                RunHandler, RedeemRefresh, RevokeRefresh, RefreshCancelled, RevokeCancelled, stores
  <2> QED BY <2>1, <2>2, <2>3, <2>4, <2>5, <2>6, <2>7
          DEF RequestStep, HandlerStep, ClientStep, GrantStep, MintStep, TakeStep
<1>2. \/ ~HoldsSession(q)'
      \/ HoldsSession(q) /\ req'[q].sid = req[q].sid
      \/ pc[q] = "insert" /\ req'[q].sid \in minted' \ minted
      \/ \E k \in RefreshTokens : Acquires(q, k)
  <2>1. CASE \E k \in RefreshTokens : Acquires(q, k)
    BY <2>1
  <2>2. CASE HoldsGuard(q) /\ HoldsGuard(q)' /\ req'[q].sid = req[q].sid
    BY <2>2 DEF HoldsSession, HoldsGuard
  <2>3. CASE ~HoldsGuard(q)' /\ pc'[q] \notin {"mint_at", "mint_rt"}
    BY <2>3 DEF HoldsSession, HoldsGuard
  <2>4. CASE ~HoldsGuard(q)' /\ pc'[q] \in {"mint_at", "mint_rt"}
    <3>1. req'[q].kind # "refresh"
      BY <2>4 DEF HoldsGuard
    <3>2. MintAccess(q) \/ InsertSession(q) \/ Replace(q) \/ (UNCHANGED <<pc, req>>)
      <4>1. CASE GrantStep(q) \/ RedeemedCode(q) \/ GrantDone(q) \/ MintStep(q)
        BY <2>4, <4>1, <1>0 DEF GrantStep, SweepExpired, PurgeSweptTokens, PurgeSweptRefresh,
             SpawnRevocations, InsertSessionFails, RedeemedCode, GrantDone, MintStep, MintRefresh,
             MintFails, AfterMint, SendPair, Reply, Goto
      <4>2. CASE RefreshStep(q)
        BY <2>4, <4>2, <1>0 DEF RefreshStep, LookupRetired, ReadSecret, ReadScopes,
             UpstreamRefreshed, UpstreamRefreshFails, DropGuard, Discard, RetireCurrent,
             RememberRetired, SendPair, Reply, Goto
      <4>3. CASE TakeStep(q) \/ CallStep(q) \/ ClientStep(q)
        BY <2>4, <4>3, <1>0 DEF TakeStep, TakeSession, TakeTokens, TakeRefresh, RevokeUpstream,
             CallStep, ReadAccess, VerifyUpstream, RunHandler, ClientStep, RedeemRefresh,
             RevokeAccess, RevokeRefresh, ResolveAccess, RefreshCancelled, RevokeCancelled, Reply, Goto
      <4> QED BY <4>1, <4>2, <4>3 DEF RequestStep, HandlerStep
    <3>3. CASE MintAccess(q)
      BY <1>0, <3>3 DEF MintAccess, HoldsSession, Locals
    <3>4. CASE InsertSession(q)
      <4>1. PICK u \in Fresh(SessionIds) : minted' = minted \cup {u}
              /\ req' = [req EXCEPT ![q].sid = u, ![q].ttl = Remaining(req[q].set.access_exp)]
        BY <3>4 DEF InsertSession
      <4>2. req'[q].sid = u /\ u \notin minted
        BY <1>0, <4>1, FreshIsNew DEF Locals
      <4> QED BY <3>4, <4>1, <4>2 DEF InsertSession
    <3>5. CASE Replace(q)
      BY <3>5 DEF Replace, HoldsSession, GuardPCs
    <3>6. CASE UNCHANGED <<pc, req>>
      BY <2>4, <3>6 DEF HoldsSession
    <3> QED BY <3>2, <3>3, <3>4, <3>5, <3>6
  <2> QED BY <2>1, <2>2, <2>3, <2>4, LockStep DEF LockEffect
<1> QED BY <1>1, <1>2

\* Nobody is bound to an unminted session or token.
LEMMA BoundInit == Init => BoundInv
BY DEF Init, BoundInv, HoldsSession, HoldsGuard, GuardPCs

\* Every step keeps it so: a step binds to its own minted session or to an entry's.
LEMMA BoundNext == TypeInv /\ BoundInv /\ [Next]_vars => BoundInv'
<1> SUFFICES ASSUME TypeInv, BoundInv, [Next]_vars PROVE BoundInv'
  OBVIOUS
<1>0. minted \subseteq minted'
  BY MintedGrows
<1>t. current \in [RefreshTokens -> RefreshOwner \cup {None}]
  BY DEF TypeInv, TypeOK
<1>1. ASSUME NEW q \in Requests, RequestStep(q) PROVE BoundInv'
  <2>a. ASSUME NEW p \in Requests, p # q PROVE pc'[p] = pc[p] /\ req'[p] = req[p]
    BY <1>1, <2>a, OtherSlots
  <2>1. ASSUME NEW t \in AccessTokens, tokens'[t] # None PROVE tokens'[t].sid \in minted'
    <3>1. CASE tokens'[t] = tokens[t]
      BY <1>0, <2>1, <3>1 DEF BoundInv
    <3>2. CASE pc[q] = "mint_at" /\ tokens'[t].sid = req[q].sid
      BY <1>0, <3>2 DEF BoundInv, HoldsSession
    <3> QED BY <1>1, <2>1, <3>1, <3>2, BindStep
  <2>2. ASSUME NEW k \in RefreshTokens, current'[k] # None
        PROVE  k \in minted' /\ current'[k].sid \in minted'
    <3>1. CASE current'[k] = current[k]
      BY <1>0, <2>2, <3>1 DEF BoundInv
    <3>2. CASE MintsRefresh(q)
      BY <1>0, <2>2, <3>2 DEF MintsRefresh, BoundInv, HoldsSession
    <3>3. CASE current[k] # None /\ current'[k].sid = current[k].sid
      BY <1>0, <3>3 DEF BoundInv
    <3>4. ASSUME NEW j \in RefreshTokens, Acquires(q, j)
          PROVE  current'[k] = current[k] \/ (current[k] # None /\ current'[k].sid = current[k].sid)
      BY <1>t, <3>4 DEF Acquires, MarkInFlight, Live, RefreshOwner
    <3>5. ASSUME Frees(req[q].tok)
          PROVE  current'[k] \in {current[k], None} \/ (current[k] # None /\ current'[k].sid = current[k].sid)
      BY <1>t, <3>5 DEF Frees, InFlight, RefreshOwner
    <3> QED BY <1>1, <2>2, <3>1, <3>2, <3>3, <3>4, <3>5, LockStep DEF LockEffect, CurrentShrinks
  <2>3. ASSUME NEW p \in Requests, HoldsSession(p)' PROVE req'[p].sid \in minted'
    <3>1. CASE p # q
      BY <1>0, <2>3, <2>a, <3>1 DEF BoundInv, HoldsSession
    <3>2. CASE p = q
      <4>1. ASSUME NEW k \in RefreshTokens, Acquires(q, k) PROVE req'[q].sid \in minted'
        BY <1>0, <4>1 DEF Acquires, Live, BoundInv
      <4>2. CASE HoldsSession(q) /\ req'[q].sid = req[q].sid
        BY <1>0, <3>2, <4>2 DEF BoundInv
      <4> QED BY <1>1, <2>3, <3>2, <4>1, <4>2, BindStep
    <3> QED BY <3>1, <3>2
  <2>4. ASSUME NEW p \in Requests, HoldsGuard(p)' PROVE req'[p].tok \in minted'
    <3>1. CASE p # q
      BY <1>0, <2>4, <2>a, <3>1 DEF BoundInv, HoldsGuard
    <3>2. CASE p = q
      <4>1. ASSUME NEW k \in RefreshTokens, Acquires(q, k) PROVE req'[q].tok \in minted'
        BY <1>0, <4>1 DEF Acquires, Live, BoundInv
      <4>2. CASE HoldsGuard(q) /\ req'[q].tok = req[q].tok
        BY <1>0, <3>2, <4>2 DEF BoundInv
      <4> QED BY <1>1, <2>4, <3>2, <4>1, <4>2, LockStep DEF LockEffect
    <3> QED BY <3>1, <3>2
  <2> QED BY <2>1, <2>2, <2>3, <2>4 DEF BoundInv
<1>2. CASE RevokeInBackground \/ Tick \/ UNCHANGED vars
  BY <1>2 DEF RevokeInBackground, Tick, vars, stores, BoundInv, HoldsSession, HoldsGuard
<1> QED BY <1>1, <1>2 DEF Next, RequestStep

------------------------------------------------------------------------------

\* At the start no token is locked and no request holds a lock.
LEMMA HolderInit == Init => InFlightHasOneHolder
BY DEF Init, InFlightHasOneHolder, InFlight, HoldsGuard, GuardPCs

\* Every step keeps the redemption lock exclusive: acquiring it needs a token nobody
\* holds, a minted token is nobody's, and releasing it leaves the token unlocked.
LEMMA HolderNext ==
    TypeInv /\ BoundInv /\ InFlightHasOneHolder /\ [Next]_vars => InFlightHasOneHolder'
<1> SUFFICES ASSUME TypeInv, BoundInv, InFlightHasOneHolder, [Next]_vars
             PROVE  InFlightHasOneHolder'
  OBVIOUS
<1> DEFINE G  == {p \in Requests : HoldsGuard(p)}
           Gn == {p \in Requests : HoldsGuard(p)'}
<1>t. current \in [RefreshTokens -> RefreshOwner \cup {None}]
  BY DEF TypeInv, TypeOK
<1>tok. ASSUME NEW p \in G PROVE req[p].tok \in RefreshTokens /\ req[p].tok \in minted
  BY <1>tok, TypeInvHalves, SlotFacts DEF HoldsGuard, LocalOK, BoundInv
<1>g. /\ \A j \in RefreshTokens : current[j] # None /\ current[j].state = "InFlight" =>
           \E p \in G : req[p].tok = j
      /\ \A p \in G : current[req[p].tok] # None => current[req[p].tok].state = "InFlight"
      /\ \A p, r \in G : req[p].tok = req[r].tok => p = r
  BY DEF InFlightHasOneHolder, InFlight
<1>n. ASSUME /\ \A j \in RefreshTokens : current'[j] # None /\ current'[j].state = "InFlight" =>
                  \E p \in Gn : req'[p].tok = j
             /\ \A p \in Gn : current'[req'[p].tok] # None => current'[req'[p].tok].state = "InFlight"
             /\ \A p, r \in Gn : req'[p].tok = req'[r].tok => p = r
      PROVE  InFlightHasOneHolder'
  BY <1>n DEF InFlightHasOneHolder, InFlight, HoldsGuard
<1>1. ASSUME NEW q \in Requests, RequestStep(q) PROVE InFlightHasOneHolder'
  <2>a. ASSUME NEW p \in Requests, p # q PROVE (p \in Gn <=> p \in G) /\ req'[p] = req[p]
    BY <1>1, <2>a, OtherSlots DEF HoldsGuard
  <2>1. ASSUME NEW k \in RefreshTokens, Acquires(q, k) PROVE InFlightHasOneHolder'
    <3>1. /\ current[k] # None /\ current[k].state = "Active" /\ q \notin G
          /\ q \in Gn /\ req'[q].tok = k
      BY <2>1 DEF Acquires, Live, HoldsGuard, GuardPCs
    <3>2. /\ \A j \in RefreshTokens \ {k} : current'[j] = current[j]
          /\ current'[k].state = "InFlight"
      BY <1>t, <2>1, <3>1 DEF Acquires, MarkInFlight, RefreshOwner
    <3>3. Gn = G \cup {q} /\ \A p \in G : req'[p] = req[p]
      BY <2>a, <3>1
    <3>4. \A p \in G : req[p].tok \in RefreshTokens \ {k}
      BY <1>tok, <1>g, <3>1
    <3> HIDE DEF G, Gn
    <3>5. \A j \in RefreshTokens : current'[j] # None /\ current'[j].state = "InFlight" =>
            \E p \in Gn : req'[p].tok = j
      BY <1>g, <3>1, <3>2, <3>3
    <3>6. \A p \in Gn : current'[req'[p].tok] # None => current'[req'[p].tok].state = "InFlight"
      BY <1>g, <3>1, <3>2, <3>3, <3>4
    <3>7. \A p, r \in Gn : req'[p].tok = req'[r].tok => p = r
      BY <1>g, <3>1, <3>3, <3>4
    <3> QED BY <1>n, <3>5, <3>6, <3>7
  <2>2. ASSUME HoldsGuard(q)' <=> HoldsGuard(q), HoldsGuard(q) => req'[q].tok = req[q].tok,
               CurrentShrinks \/ MintsRefresh(q)
        PROVE  InFlightHasOneHolder'
    <3>1. Gn = G /\ \A p \in G : req'[p].tok = req[p].tok
      BY <2>a, <2>2
    <3>2. PICK new \in SUBSET RefreshTokens :
            /\ new \cap minted = {}
            /\ \A j \in new : current'[j].state = "Active"
            /\ \A j \in RefreshTokens \ new : current'[j] \in {current[j], None}
      <4>1. CASE CurrentShrinks
        <5> WITNESS {} \in SUBSET RefreshTokens
        <5> QED BY <4>1 DEF CurrentShrinks
      <4>2. CASE MintsRefresh(q)
        <5>1. PICK k \in RefreshTokens \ minted :
                /\ current'[k].state = "Active"
                /\ \A j \in RefreshTokens \ {k} : current'[j] \in {current[j], None}
          BY <4>2 DEF MintsRefresh
        <5> WITNESS {k} \in SUBSET RefreshTokens
        <5> QED BY <5>1
      <4> QED BY <2>2, <4>1, <4>2
    <3>3. \A p \in G : req[p].tok \in RefreshTokens \ new
      BY <1>tok, <3>2
    <3> HIDE DEF G, Gn
    <3>4. \A j \in RefreshTokens : current'[j] # None /\ current'[j].state = "InFlight" =>
            \E p \in Gn : req'[p].tok = j
      BY <1>g, <3>1, <3>2
    <3>5. \A p \in Gn : current'[req'[p].tok] # None => current'[req'[p].tok].state = "InFlight"
      BY <1>g, <3>1, <3>2, <3>3
    <3>6. \A p, r \in Gn : req'[p].tok = req'[r].tok => p = r
      BY <1>g, <3>1
    <3> QED BY <1>n, <3>4, <3>5, <3>6
  <2>3. ASSUME HoldsGuard(q), ~HoldsGuard(q)', Frees(req[q].tok)
        PROVE  InFlightHasOneHolder'
    <3>1. q \in G /\ Gn = G \ {q} /\ \A p \in Gn : req'[p] = req[p]
      BY <2>a, <2>3
    <3>2. /\ req[q].tok \in RefreshTokens
          /\ \A p \in Gn : req[p].tok \in RefreshTokens \ {req[q].tok}
      BY <1>tok, <1>g, <3>1
    <3>3. /\ \A j \in RefreshTokens \ {req[q].tok} : current'[j] = current[j]
          /\ current'[req[q].tok] # None => current'[req[q].tok].state # "InFlight"
      BY <1>t, <2>3, <3>2 DEF Frees, InFlight, RefreshOwner
    <3> HIDE DEF G, Gn
    <3>4. \A j \in RefreshTokens : current'[j] # None /\ current'[j].state = "InFlight" =>
            \E p \in Gn : req'[p].tok = j
      BY <1>g, <3>1, <3>3
    <3>5. \A p \in Gn : current'[req'[p].tok] # None => current'[req'[p].tok].state = "InFlight"
      BY <1>g, <3>1, <3>2, <3>3
    <3>6. \A p, r \in Gn : req'[p].tok = req'[r].tok => p = r
      BY <1>g, <3>1
    <3> QED BY <1>n, <3>4, <3>5, <3>6
  <2> QED BY <1>1, <2>1, <2>2, <2>3, LockStep DEF LockEffect
<1>2. CASE RevokeInBackground \/ Tick \/ UNCHANGED vars
  BY <1>2 DEF RevokeInBackground, Tick, vars, stores, InFlightHasOneHolder, InFlight, HoldsGuard
<1> QED BY <1>1, <1>2 DEF Next, RequestStep

\* In every reachable state a refresh token locked out as InFlight is locked by exactly
\* one request, and a token a request is redeeming is offered to nobody else
\* (RefreshStore::redeem, InFlightGuard::drop).
THEOREM OneHolder == Spec => []InFlightHasOneHolder
<1>1. Init => BoundInv /\ InFlightHasOneHolder
  BY BoundInit, HolderInit
<1>2. TypeInv /\ BoundInv /\ InFlightHasOneHolder /\ [Next]_vars => (BoundInv /\ InFlightHasOneHolder)'
  BY BoundNext, HolderNext
<1> QED BY <1>1, <1>2, TypeInvariant, PTL DEF Spec
------------------------------------------------------------------------------
(* Requests that come too late *)

\* The labels a late request can be at, and what it finds there.
LateInv ==
    \A q \in Requests : req[q].late =>
        /\ pc[q] \in {"retired?", "secret", "guard", "discard", "take", "take_at", "take_rt",
                     "await_revoke", "session?"}
        /\ pc[q] \in {"secret", "session?"} =>
             req[q].sid \in SessionIds \cap minted /\ upstream[req[q].sid] = None

\* What one slot's step does to a late request.
LEMMA LateStep ==
    ASSUME TypeInv, BoundInv, LateInv, NEW q \in Requests, RequestStep(q), req'[q].late
    PROVE  /\ pc'[q] \in {"retired?", "secret", "guard", "discard", "take", "take_at", "take_rt",
                         "await_revoke", "session?"}
           /\ pc'[q] \in {"secret", "session?"} =>
                /\ req'[q].sid \in SessionIds \cap minted
                /\ upstream[req'[q].sid] = None
<1>0. /\ SlotTypes /\ StoreTypes
      /\ pc \in [Requests -> PCs] /\ req \in [Requests -> Locals]
  BY TypeInvHalves DEF SlotTypes, StoreTypes
<1>r. ~Reply(q)
  BY <1>0 DEF Reply, NoLocals
<1>1. CASE RedeemRefresh(q)
  <2>1. PICK k \in sent \cap RefreshTokens, c \in Clients :
          LET owner == current[k]
              base  == [NoLocals EXCEPT !.kind = "refresh", !.tok = k,
                                        !.late = SessionGone(owner)]
          IN  \/ /\ ~Live(owner)
                 /\ req' = [req EXCEPT ![q] = base]
                 /\ Goto(q, "retired?")
              \/ /\ Live(owner)
                 /\ req' = [req EXCEPT ![q] = [base EXCEPT !.sid = owner.sid, !.after = "revoke"]]
                 /\ Goto(q, "take")
              \/ /\ Live(owner)
                 /\ req' = [req EXCEPT ![q] = [base EXCEPT !.sid = owner.sid, !.client = owner.client]]
                 /\ Goto(q, IF c = owner.client THEN "secret" ELSE "guard")
    BY <1>1 DEF RedeemRefresh
  <2>2. CASE pc'[q] \in {"retired?", "take", "guard"}
    BY <2>2
  <2>3. CASE pc'[q] \notin {"retired?", "take", "guard"}
    <3> DEFINE base == [NoLocals EXCEPT !.kind = "refresh", !.tok = k, !.late = SessionGone(current[k])]
               l == [base EXCEPT !.sid = current[k].sid, !.client = current[k].client]
    <3>1. pc'[q] = "secret" /\ Live(current[k]) /\ req'[q] = l
      BY <1>0, <2>1, <2>3 DEF Goto
    <3>2. l.sid = current[k].sid /\ l.late = SessionGone(current[k])
      BY DEF NoLocals
    <3> HIDE DEF l
    <3>3. req'[q].sid = current[k].sid /\ SessionGone(current[k])
      BY <3>1, <3>2
    <3>4. current[k] # None /\ current[k].sid \in SessionIds \cap minted
      BY <1>0, <3>1 DEF Live, BoundInv, StoreTypes, RefreshOwner
    <3> QED BY <3>1, <3>3, <3>4 DEF SessionGone
  <2> QED BY <2>2, <2>3
<1>2. CASE ResolveAccess(q)
  <2>1. CASE UNCHANGED <<pc, req>>
    BY <2>1 DEF LateInv
  <2>2. CASE ~UNCHANGED <<pc, req>>
    <3>1. PICK t \in sent \cap AccessTokens :
            /\ Live(tokens[t]) /\ Goto(q, "session?")
            /\ req' = [req EXCEPT ![q] = [NoLocals EXCEPT !.kind = "call", !.tok = t,
                         !.sid = tokens[t].sid, !.late = SessionGone(tokens[t])]]
      BY <1>2, <2>2 DEF ResolveAccess
    <3> DEFINE l == [NoLocals EXCEPT !.kind = "call", !.tok = t,
                         !.sid = tokens[t].sid, !.late = SessionGone(tokens[t])]
    <3>2. l.sid = tokens[t].sid /\ l.late = SessionGone(tokens[t])
      BY DEF NoLocals
    <3> HIDE DEF l
    <3>3. pc'[q] = "session?" /\ req'[q].sid = tokens[t].sid /\ SessionGone(tokens[t])
      BY <1>0, <3>1, <3>2 DEF Goto, l
    <3>4. tokens[t].sid \in SessionIds \cap minted
      BY <1>0, <3>1 DEF Live, BoundInv, StoreTypes, TokenEntry
    <3> QED BY <3>3, <3>4 DEF SessionGone
  <2> QED BY <2>1, <2>2
<1>3. CASE RedeemedCode(q) \/ RevokeAccess(q) \/ RevokeRefresh(q)
  <2>1. ~req'[q].late
    BY <1>0, <1>3 DEF RedeemedCode, RevokeAccess, RevokeRefresh, NoLocals
  <2> QED BY <2>1
<1>4. CASE GrantDone(q) \/ GrantStep(q) \/ MintStep(q)
  <2>1. req[q].late
    <3>1. CASE GrantDone(q) \/ InsertSessionFails(q)
      BY <3>1, <1>r DEF GrantDone, SendPair, InsertSessionFails
    <3>2. CASE SweepExpired(q) \/ PurgeSweptRefresh(q)
      BY <1>0, <3>2 DEF SweepExpired, PurgeSweptRefresh, Locals
    <3>3. CASE PurgeSweptTokens(q) \/ SpawnRevocations(q)
      BY <1>0, <3>3 DEF PurgeSweptTokens, SpawnRevocations, Locals
    <3>4. CASE InsertSession(q)
      BY <1>0, <3>4 DEF InsertSession, Locals
    <3>5. CASE MintStep(q)
      BY <1>0, <3>5 DEF MintStep, MintAccess, MintRefresh, MintFails, Locals
    <3> QED BY <1>4, <3>1, <3>2, <3>3, <3>4, <3>5 DEF GrantStep
  <2>2. pc[q] \in {"sweep", "purge", "purge_rt", "insert", "mint_at", "mint_rt", "mark"}
    BY <1>4 DEF GrantDone, GrantStep, SweepExpired, PurgeSweptTokens,
         PurgeSweptRefresh, SpawnRevocations, InsertSession, InsertSessionFails, MintStep,
         MintAccess, MintRefresh, MintFails
  <2> QED BY <2>1, <2>2 DEF LateInv
<1>5. CASE UpstreamRefreshed(q) \/ UpstreamRefreshFails(q) \/ RefreshCancelled(q) \/ ReadScopes(q)
           \/ Replace(q) \/ RetireCurrent(q) \/ RememberRetired(q)
  <2>1. req[q].late
    <3>1. CASE UpstreamRefreshed(q)
      <4>1. PICK set : req' = [req EXCEPT ![q].set = set, ![q].ttl = EXPIRES_IN]
        BY <3>1 DEF UpstreamRefreshed
      <4> QED BY <1>0, <4>1 DEF Locals
    <3>2. CASE ReadScopes(q)
      <4>1. PICK scopes : req' = [req EXCEPT ![q].set.scopes = scopes]
        BY <3>2 DEF ReadScopes
      <4> QED BY <1>0, <4>1 DEF Locals
    <3>3. CASE UpstreamRefreshFails(q)
      BY <1>0, <3>3 DEF UpstreamRefreshFails, Locals
    <3>4. CASE RefreshCancelled(q) \/ Replace(q) \/ RetireCurrent(q) \/ RememberRetired(q)
      BY <3>4, <1>r DEF RefreshCancelled, Replace, RetireCurrent, RememberRetired, SendPair
    <3> QED BY <1>5, <3>1, <3>2, <3>3, <3>4
  <2>2. pc[q] \in {"await_refresh", "scopes", "replace", "retire", "remember"}
    BY <1>5 DEF UpstreamRefreshed, UpstreamRefreshFails, RefreshCancelled, ReadScopes,
         Replace, RetireCurrent, RememberRetired
  <2> QED BY <2>1, <2>2 DEF LateInv
<1>6. CASE ReadSecret(q)
  <2>1. CASE Live(upstream[req[q].sid])
    <3>1. req'[q].late = req[q].late /\ pc[q] = "secret"
      BY <1>0, <1>6 DEF ReadSecret, Locals
    <3> QED BY <2>1, <3>1 DEF LateInv, Live
  <2>2. CASE ~Live(upstream[req[q].sid])
    BY <1>0, <1>6, <2>2 DEF ReadSecret, Goto
  <2> QED BY <2>1, <2>2
<1>7. CASE ReadAccess(q)
  <2>1. req'[q].late = req[q].late /\ pc[q] = "session?" /\ Live(upstream[req[q].sid])
    BY <1>0, <1>7, <1>r DEF ReadAccess, Locals
  <2> QED BY <2>1 DEF LateInv, Live
<1>8. CASE LookupRetired(q)
  BY <1>0, <1>8, <1>r DEF LookupRetired, Goto
<1>9. CASE Discard(q)
  <2>1. req' = req /\ pc[q] \in {"discard_kill", "discard_revoke"}
    BY <1>9, <1>r DEF Discard
  <2> QED BY <2>1 DEF LateInv
<1>10. CASE VerifyUpstream(q) \/ RunHandler(q) \/ DropGuard(q)
  <2>1. req' = req /\ pc[q] = "verify"
    BY <1>10, <1>r DEF VerifyUpstream, RunHandler, DropGuard
  <2> QED BY <2>1 DEF LateInv
<1>11. CASE TakeStep(q) \/ RevokeCancelled(q)
  BY <1>0, <1>11, <1>r DEF TakeStep, TakeSession, TakeTokens, TakeRefresh, RevokeUpstream,
       RevokeCancelled, Goto
<1> QED BY <1>1, <1>2, <1>3, <1>4, <1>5, <1>6, <1>7, <1>8, <1>9, <1>10, <1>11
        DEF RequestStep, HandlerStep, ClientStep, RefreshStep, CallStep

\* A late request stays late and finds nothing.
LEMMA LateNext == TypeInv /\ BoundInv /\ LateInv /\ [Next]_vars => LateInv'
<1> SUFFICES ASSUME TypeInv, BoundInv, LateInv, [Next]_vars PROVE LateInv'
  OBVIOUS
<1>1. minted \subseteq minted'
  BY MintedGrows
<1>2. ASSUME NEW u \in SessionIds \cap minted, upstream[u] = None PROVE upstream'[u] = None
  BY <1>2, RemovedStaysRemoved
<1>3. ASSUME NEW q \in Requests, RequestStep(q) PROVE LateInv'
  <2>1. ASSUME NEW p \in Requests, p # q PROVE pc'[p] = pc[p] /\ req'[p] = req[p]
    BY <1>3, <2>1, OtherSlots
  <2> SUFFICES ASSUME NEW p \in Requests, req'[p].late
               PROVE  /\ pc'[p] \in {"retired?", "secret", "guard", "discard", "take", "take_at",
                                    "take_rt", "await_revoke", "session?"}
                      /\ pc'[p] \in {"secret", "session?"} =>
                           req'[p].sid \in SessionIds \cap minted' /\ upstream'[req'[p].sid] = None
    BY DEF LateInv
  <2>2. CASE p = q
    BY <1>1, <1>2, <1>3, <2>2, LateStep
  <2>3. CASE p # q
    BY <1>1, <1>2, <2>1, <2>3 DEF LateInv
  <2> QED BY <2>2, <2>3
<1>4. CASE RevokeInBackground \/ Tick \/ UNCHANGED vars
  BY <1>4 DEF RevokeInBackground, Tick, vars, stores, LateInv
<1> QED BY <1>3, <1>4 DEF Next, RequestStep

\* A request whose session was gone when it arrived never reaches Redmine as the
\* user and never refreshes (require_proxy_bearer, refresh_token_grant).
THEOREM LateIsDenied == Spec => []LateRequestDenied
<1>1. Init => BoundInv /\ LateInv
  BY BoundInit DEF Init, LateInv, NoLocals
<1>2. TypeInv /\ BoundInv /\ LateInv /\ [Next]_vars => (BoundInv /\ LateInv)'
  BY BoundNext, LateNext
<1>3. LateInv => LateRequestDenied
  BY DEF LateInv, LateRequestDenied
<1> QED BY <1>1, <1>2, <1>3, TypeInvariant, PTL DEF Spec

------------------------------------------------------------------------------
(* Scopes *)

\* Sets on their way to the store carry the granted scopes; a refresh that read the
\* default instead found its session dead, and will find it dead again.
ScopesInv ==
    /\ ScopesSurviveRefresh
    /\ \A q \in Requests :
         /\ pc[q] \in {"sweep", "purge", "purge_rt", "insert"} => req[q].set.scopes = "granted"
         /\ pc[q] \in {"await_refresh", "replace"} /\ req[q].set.scopes # "granted" =>
              req[q].sid \in SessionIds \cap minted /\ ~Live(upstream[req[q].sid])

\* Time does not go back.
LEMMA ClockGrows == ASSUME TypeInv, [Next]_vars PROVE now' \in Nat /\ now <= now'
<1>0. now \in Nat
  BY DEF TypeInv, TypeOK
<1>1. ASSUME NEW q \in Requests, RequestStep(q) PROVE now' = now
  <2>1. CASE GrantStep(q) \/ MintStep(q)
    BY <2>1 DEF GrantStep, SweepExpired, PurgeSweptTokens, PurgeSweptRefresh, SpawnRevocations,
         InsertSession, InsertSessionFails, MintStep, MintAccess, MintRefresh, MintFails
  <2>2. CASE RefreshStep(q)
    BY <2>2 DEF RefreshStep, LookupRetired, ReadSecret, ReadScopes, UpstreamRefreshed,
         UpstreamRefreshFails, DropGuard, Discard, Replace, RetireCurrent, RememberRetired
  <2>3. CASE TakeStep(q) \/ CallStep(q) \/ ClientStep(q) \/ RedeemedCode(q) \/ GrantDone(q)
    BY <2>3 DEF TakeStep, TakeSession, TakeTokens, TakeRefresh, RevokeUpstream, CallStep,
         ReadAccess, VerifyUpstream, RunHandler, ClientStep, RedeemRefresh, RevokeAccess,
         RevokeRefresh, ResolveAccess, RevokeCancelled, RefreshCancelled, RedeemedCode, GrantDone
  <2> QED BY <1>1, <2>1, <2>2, <2>3 DEF RequestStep, HandlerStep
<1> QED BY <1>0, <1>1 DEF Next, RequestStep, RevokeInBackground, Tick, vars

\* A session past its deadline is not renewed, and its id is not used again.
LEMMA DeadStaysDead ==
    ASSUME TypeInv, [Next]_vars, NEW u \in SessionIds, u \in minted, ~Live(upstream[u])
    PROVE  ~Live(upstream[u])'
<1>0. upstream \in [SessionIds -> SessionEntry \cup {None}] /\ now \in Nat
  BY DEF TypeInv, TypeOK
<1>1. now <= now' /\ now' \in Nat
  BY ClockGrows
<1>2. ASSUME upstream'[u] \in {upstream[u], None} PROVE ~Live(upstream[u])'
  BY <1>0, <1>1, <1>2 DEF Live, SessionEntry
<1>3. Sweep(upstream)[u] = None
  BY <1>0 DEF Sweep
<1>4. ASSUME NEW q \in Requests, RequestStep(q) PROVE upstream'[u] \in {upstream[u], None}
  <2>1. ASSUME NEW v \in SessionIds \ minted, NEW e \in SessionEntry,
               upstream' = [Sweep(upstream) EXCEPT ![v] = e]
        PROVE  upstream'[u] = None
    BY <1>0, <1>3, <2>1, SweepType
  <2>2. ASSUME Live(upstream[req[q].sid]), NEW e \in SessionEntry,
               upstream' = [upstream EXCEPT ![req[q].sid] = e]
        PROVE  upstream'[u] = upstream[u]
    <3>1. req[q].sid # u
      BY <2>2
    <3> QED BY <1>0, <2>2, <3>1
  <2>3. ASSUME upstream' = [upstream EXCEPT ![req[q].sid] = None]
        PROVE  upstream'[u] \in {upstream[u], None}
    BY <1>0, <2>3
  <2> QED BY <1>3, <1>4, <2>1, <2>2, <2>3, UpstreamEffect
<1>5. CASE RevokeInBackground \/ Tick \/ UNCHANGED vars
  BY <1>2, <1>5 DEF RevokeInBackground, Tick, vars, stores
<1> QED BY <1>2, <1>4, <1>5 DEF Next, RequestStep

\* The steps that bring a request to a label at which ScopesInv speaks of its set.
LEMMA ScopeLabels ==
    ASSUME TypeInv, NEW q \in Requests, RequestStep(q),
           pc'[q] \in {"sweep", "purge", "purge_rt", "insert", "await_refresh", "replace"}
    PROVE  \/ RedeemedCode(q) \/ SweepExpired(q) \/ PurgeSweptTokens(q) \/ PurgeSweptRefresh(q)
           \/ SpawnRevocations(q) \/ ReadScopes(q) \/ UpstreamRefreshed(q) \/ UNCHANGED <<pc, req>>
<1>0. pc \in [Requests -> PCs]
  BY DEF TypeInv, TypeOK
<1>1. CASE GrantStep(q) \/ GrantDone(q) \/ MintStep(q)
  BY <1>0, <1>1
     DEF GrantStep, InsertSession, InsertSessionFails, GrantDone, MintStep, MintAccess,
       MintRefresh, MintFails, AfterMint, SendPair, Reply, Goto
<1>2. CASE RefreshStep(q)
  BY <1>0, <1>2 DEF RefreshStep, LookupRetired, ReadSecret, UpstreamRefreshFails, DropGuard,
       Discard, Replace, RetireCurrent, RememberRetired, SendPair, Reply, Goto
<1>3. CASE TakeStep(q) \/ CallStep(q) \/ ClientStep(q)
  BY <1>0, <1>3 DEF TakeStep, TakeSession, TakeTokens, TakeRefresh, RevokeUpstream, CallStep,
       ReadAccess, VerifyUpstream, RunHandler, ClientStep, RedeemRefresh, RevokeAccess,
       RevokeRefresh, ResolveAccess, RefreshCancelled, RevokeCancelled, Reply, Goto
<1> QED BY <1>1, <1>2, <1>3 DEF RequestStep, HandlerStep

\* What a step leaves in its own slot.
LEMMA ScopeSlot ==
    ASSUME TypeInv, BoundInv, ScopesInv, NEW q \in Requests, RequestStep(q)
    PROVE  /\ pc'[q] \in {"sweep", "purge", "purge_rt", "insert"} => req'[q].set.scopes = "granted"
           /\ pc'[q] \in {"await_refresh", "replace"} /\ req'[q].set.scopes # "granted" =>
                req'[q].sid \in SessionIds \cap minted /\ ~Live(upstream[req'[q].sid])
<1>0. /\ SlotTypes /\ StoreTypes
      /\ pc \in [Requests -> PCs] /\ req \in [Requests -> Locals]
  BY TypeInvHalves DEF SlotTypes, StoreTypes
<1>1. CASE RedeemedCode(q)
  <2>1. PICK r \in FreshRow, c \in Clients, wants \in BOOLEAN :
          req' = [req EXCEPT ![q] = [NoLocals EXCEPT
                    !.kind = "grant", !.client = c,
                    !.set = [row |-> r, refresh |-> wants, scopes |-> "granted",
                             access_exp |-> now + EXPIRES_IN]]]
    BY <1>1 DEF RedeemedCode
  <2>2. req'[q].set.scopes = "granted"
    BY <1>0, <2>1 DEF NoLocals
  <2>3. pc'[q] = "sweep"
    BY <1>0, <1>1 DEF RedeemedCode, Goto
  <2> QED BY <2>2, <2>3
<1>2. CASE SweepExpired(q) \/ PurgeSweptTokens(q) \/ PurgeSweptRefresh(q) \/ SpawnRevocations(q)
  <2>1. req'[q].set = req[q].set
    <3>1. CASE SweepExpired(q)
      BY <1>0, <3>1 DEF SweepExpired, Locals
    <3>2. CASE PurgeSweptTokens(q)
      BY <1>0, <3>2 DEF PurgeSweptTokens, Locals
    <3>3. CASE PurgeSweptRefresh(q)
      BY <1>0, <3>3 DEF PurgeSweptRefresh, Locals
    <3>4. CASE SpawnRevocations(q)
      BY <1>0, <3>4 DEF SpawnRevocations, Locals
    <3> QED BY <1>2, <3>1, <3>2, <3>3, <3>4
  <2>2. pc[q] \in {"sweep", "purge", "purge_rt"} /\ pc'[q] \in {"purge", "purge_rt", "insert"}
    BY <1>0, <1>2 DEF SweepExpired, PurgeSweptTokens, PurgeSweptRefresh, SpawnRevocations, Goto
  <2> QED BY <2>1, <2>2 DEF ScopesInv
<1>3. CASE ReadScopes(q)
  <2> DEFINE u == req[q].sid
             scopes == IF Live(upstream[u]) THEN upstream[u].set.scopes ELSE "empty"
  <2>1. pc[q] = "scopes" /\ u \in SessionIds \cap minted /\ req[q].set \in TokenSet
    BY <1>0, <1>3, SlotFacts DEF ReadScopes, LocalOK, GuardPCs, BoundInv, HoldsSession
  <2>2. req'[q].sid = u /\ req'[q].set.scopes = scopes
    BY <1>0, <1>3, <2>1 DEF ReadScopes, Locals, TokenSet
  <2>3. Live(upstream[u]) => scopes = "granted"
    BY <2>1 DEF ScopesInv, ScopesSurviveRefresh, Live
  <2>4. pc'[q] = "await_refresh"
    BY <1>0, <1>3 DEF ReadScopes, Goto
  <2> HIDE DEF scopes
  <2> QED BY <2>1, <2>2, <2>3, <2>4
<1>4. CASE UpstreamRefreshed(q)
  <2>1. PICK r \in FreshRow, wants \in BOOLEAN, scopes \in {"granted", req[q].set.scopes} :
          req' = [req EXCEPT
              ![q].set = [row |-> r, refresh |-> wants, scopes |-> scopes,
                          access_exp |-> now + EXPIRES_IN],
              ![q].ttl = EXPIRES_IN]
    BY <1>4 DEF UpstreamRefreshed
  <2>2. req'[q].sid = req[q].sid /\ req'[q].set.scopes = scopes
    BY <1>0, <2>1 DEF Locals
  <2>3. pc[q] = "await_refresh" /\ pc'[q] = "replace"
    BY <1>0, <1>4 DEF UpstreamRefreshed, Goto
  <2> QED BY <2>1, <2>2, <2>3 DEF ScopesInv
<1>5. CASE UNCHANGED <<pc, req>>
  BY <1>5 DEF ScopesInv
<1> QED BY <1>1, <1>2, <1>3, <1>4, <1>5, ScopeLabels

\* Only sets with the granted scopes are stored.
LEMMA ScopesNext == TypeInv /\ BoundInv /\ ScopesInv /\ [Next]_vars => ScopesInv'
<1> SUFFICES ASSUME TypeInv, BoundInv, ScopesInv, [Next]_vars PROVE ScopesInv'
  OBVIOUS
<1>0. /\ SlotTypes /\ StoreTypes
      /\ upstream \in [SessionIds -> SessionEntry \cup {None}]
  BY TypeInvHalves DEF SlotTypes, StoreTypes
<1>1. minted \subseteq minted'
  BY MintedGrows
<1>2. ASSUME NEW u \in SessionIds \cap minted, ~Live(upstream[u]) PROVE ~Live(upstream[u])'
  BY <1>2, DeadStaysDead
<1>3. ASSUME NEW q \in Requests, RequestStep(q) PROVE ScopesInv'
  <2>1. ASSUME NEW p \in Requests, p # q PROVE pc'[p] = pc[p] /\ req'[p] = req[p]
    BY <1>3, <2>1, OtherSlots
  <2>2. ASSUME NEW p \in Requests
        PROVE  /\ pc'[p] \in {"sweep", "purge", "purge_rt", "insert"} =>
                    req'[p].set.scopes = "granted"
               /\ pc'[p] \in {"await_refresh", "replace"} /\ req'[p].set.scopes # "granted" =>
                    req'[p].sid \in SessionIds \cap minted' /\ ~(upstream'[req'[p].sid] # None
                       /\ upstream'[req'[p].sid].exp > now')
    <3>1. CASE p = q
      BY <1>1, <1>2, <1>3, <3>1, ScopeSlot DEF Live
    <3>2. CASE p # q
      BY <1>1, <1>2, <2>1, <3>2 DEF ScopesInv, Live
    <3> QED BY <3>1, <3>2
  <2>3. ASSUME NEW u \in SessionIds, upstream'[u] # None PROVE upstream'[u].set.scopes = "granted"
    <3>1. CASE upstream'[u] = upstream[u]
      BY <2>3, <3>1 DEF ScopesInv, ScopesSurviveRefresh
    <3>2. CASE upstream'[u] # upstream[u]
      <4> DEFINE e == [set |-> req[q].set, exp |-> Deadline(req[q].set)]
      <4>1. CASE InsertSession(q)
        <5>1. PICK v \in Fresh(SessionIds) : upstream' = [Sweep(upstream) EXCEPT ![v] = e]
          BY <4>1 DEF InsertSession
        <5>2. upstream'[u] = e
          BY <1>0, <2>3, <3>2, <5>1 DEF Sweep
        <5> QED BY <4>1, <5>2 DEF InsertSession, ScopesInv
      <4>2. CASE Replace(q)
        <5>1. Live(upstream[req[q].sid]) /\ upstream' = [upstream EXCEPT ![req[q].sid] = e]
          BY <3>2, <4>2 DEF Replace
        <5>2. upstream'[u] = e
          BY <1>0, <3>2, <5>1
        <5> QED BY <4>2, <5>1, <5>2 DEF Replace, ScopesInv
      <4>3. CASE ~InsertSession(q) /\ ~Replace(q)
        <5>1. \/ upstream' = upstream \/ upstream' = Sweep(upstream)
              \/ upstream' = [upstream EXCEPT ![req[q].sid] = None]
          <6>1. CASE GrantStep(q) \/ RedeemedCode(q) \/ GrantDone(q) \/ MintStep(q) \/ CallStep(q)
            BY <4>3, <6>1 DEF GrantStep, SweepExpired, InsertSessionFails, PurgeSweptTokens,
                 PurgeSweptRefresh, SpawnRevocations, RedeemedCode, GrantDone, MintStep, MintAccess,
                 MintRefresh, MintFails, CallStep, ReadAccess, VerifyUpstream, RunHandler, stores
          <6>2. CASE RefreshStep(q)
            BY <4>3, <6>2
               DEF RefreshStep, LookupRetired, ReadSecret, ReadScopes, UpstreamRefreshed,
                 UpstreamRefreshFails, DropGuard, Discard, RetireCurrent, RememberRetired, stores
          <6>3. CASE TakeStep(q) \/ ClientStep(q)
            BY <6>3
               DEF TakeStep, TakeSession, TakeTokens, TakeRefresh, RevokeUpstream, ClientStep,
                 RedeemRefresh, RevokeAccess, RevokeRefresh, ResolveAccess, RefreshCancelled,
                 RevokeCancelled, stores
          <6> QED BY <1>3, <6>1, <6>2, <6>3 DEF RequestStep, HandlerStep
        <5> QED BY <1>0, <2>3, <3>2, <5>1 DEF Sweep
      <4> QED BY <4>1, <4>2, <4>3
    <3> QED BY <3>1, <3>2
  <2> QED BY <2>2, <2>3 DEF ScopesInv, ScopesSurviveRefresh, Live
<1>4. CASE RevokeInBackground \/ UNCHANGED vars
  BY <1>4 DEF RevokeInBackground, vars, stores, ScopesInv, ScopesSurviveRefresh, Live
<1>5. CASE Tick
  <2>1. UNCHANGED <<upstream, minted, pc, req>>
    BY <1>5 DEF Tick, stores
  <2>2. ScopesSurviveRefresh'
    BY <2>1 DEF ScopesInv, ScopesSurviveRefresh
  <2>3. ASSUME NEW u \in SessionIds \cap minted, ~Live(upstream[u])
        PROVE  ~(upstream[u] # None /\ upstream[u].exp > now')
    BY <1>2, <2>1, <2>3 DEF Live
  <2> QED BY <2>1, <2>2, <2>3 DEF ScopesInv, Live
<1> QED BY <1>3, <1>4, <1>5 DEF Next, RequestStep

\* The default scopes that a refresh uses when its session vanished between two
\* reads are never stored (granted_scopes(..).unwrap_or_default(), replace).
THEOREM ScopesAreKept == Spec => []ScopesSurviveRefresh
<1>1. Init => BoundInv /\ ScopesInv
  BY BoundInit DEF Init, ScopesInv, ScopesSurviveRefresh
<1>2. TypeInv /\ BoundInv /\ ScopesInv /\ [Next]_vars => (BoundInv /\ ScopesInv)'
  BY BoundNext, ScopesNext
<1>3. ScopesInv => ScopesSurviveRefresh
  BY DEF ScopesInv
<1> QED BY <1>1, <1>2, <1>3, TypeInvariant, PTL DEF Spec

------------------------------------------------------------------------------
(* The ledger of refresh tokens *)

\* The refresh tokens of a session.
TokensOf(s) == {k \in RefreshTokens : current[k] # None /\ current[k].sid = s}

\* A request that rotates: it holds the old token of its session and has minted
\* the new one, which no response has carried yet.
Rotates(p, old, new) == pc[p] = "retire" /\ req[p].tok = old /\ req[p].rt = new

\* A minted refresh token is known to one request alone until it is sent.
UnsentInv ==
    /\ sent \cap RefreshTokens \subseteq minted
    /\ \A p \in Requests : req[p].rt # None => req[p].rt \in minted \ sent
    /\ \A p, q \in Requests : req[p].rt # None /\ req[p].rt = req[q].rt => p = q

\* One request at a time works on a session; the session's tokens are then the one
\* it redeems and, when it rotates, the new one.
WorkerInv ==
    /\ \A p, q \in Requests : HoldsSession(p) /\ HoldsSession(q) /\ req[p].sid = req[q].sid => p = q
    /\ \A p \in Requests : HoldsGuard(p) /\ current[req[p].tok] # None =>
         current[req[p].tok].sid = req[p].sid
    /\ \A p \in Requests : HoldsSession(p) => \A k \in TokensOf(req[p].sid) :
         \/ HoldsGuard(p) /\ k = req[p].tok
         \/ pc[p] = "retire" /\ k = req[p].rt

\* Two tokens of one session are the two ends of a rotation.
PairInv ==
    \A j, k \in RefreshTokens :
        j # k /\ current[j] # None /\ current[k] # None /\ current[j].sid = current[k].sid =>
            \E p \in Requests : Rotates(p, j, k) \/ Rotates(p, k, j)

ChainInv == UnsentInv /\ WorkerInv /\ PairInv

\* What a step does to the pair a slot has minted and to what was sent.
SentEffect(q) ==
    \/ sent' = sent /\ (req'[q].rt \in {req[q].rt, None} \/ MintRefresh(q))
    \/ sent' = sent \cup ({req[q].at, req[q].rt} \ {None}) /\ req'[q].rt = None

\* Every step of a request does one of these.
LEMMA SentStep == ASSUME TypeInv, NEW q \in Requests, RequestStep(q) PROVE SentEffect(q)
<1>0. pc \in [Requests -> PCs] /\ req \in [Requests -> Locals]
  BY DEF TypeInv, TypeOK
<1>r. ASSUME Reply(q) PROVE req'[q].rt = None
  BY <1>0, <1>r DEF Reply, NoLocals
<1>1. CASE GrantDone(q) \/ RememberRetired(q)
  BY <1>1, <1>r DEF GrantDone, RememberRetired, SendPair, SentEffect
<1>2. CASE MintRefresh(q)
  BY <1>2 DEF MintRefresh, SentEffect
<1>3. CASE RedeemedCode(q) \/ RedeemRefresh(q) \/ RevokeAccess(q) \/ RevokeRefresh(q) \/ ResolveAccess(q)
  <2>1. sent' = sent
    BY <1>3 DEF RedeemedCode, RedeemRefresh, RevokeAccess, RevokeRefresh, ResolveAccess
  <2>2. CASE RedeemedCode(q)
    BY <1>0, <2>1, <2>2 DEF RedeemedCode, NoLocals, SentEffect
  <2>3. CASE RedeemRefresh(q)
    BY <1>0, <2>1, <2>3, ZenonT(60) DEF RedeemRefresh, NoLocals, SentEffect
  <2>4. CASE RevokeAccess(q) \/ RevokeRefresh(q)
    BY <1>0, <2>1, <2>4 DEF RevokeAccess, RevokeRefresh, NoLocals, SentEffect
  <2>5. CASE ResolveAccess(q)
    BY <1>0, <2>1, <2>5 DEF ResolveAccess, NoLocals, SentEffect
  <2> QED BY <1>3, <2>2, <2>3, <2>4, <2>5
<1>4. CASE GrantStep(q) \/ MintAccess(q) \/ MintFails(q)
  <2>1. sent' = sent
    BY <1>4 DEF GrantStep, SweepExpired, PurgeSweptTokens, PurgeSweptRefresh, SpawnRevocations,
         InsertSession, InsertSessionFails, MintAccess, MintFails
  <2>2. req'[q].rt \in {req[q].rt, None}
    <3>1. CASE SweepExpired(q) \/ PurgeSweptTokens(q)
      BY <1>0, <3>1 DEF SweepExpired, PurgeSweptTokens, Locals
    <3>2. CASE PurgeSweptRefresh(q) \/ SpawnRevocations(q)
      BY <1>0, <3>2 DEF PurgeSweptRefresh, SpawnRevocations, Locals
    <3>3. CASE InsertSession(q)
      BY <1>0, <3>3 DEF InsertSession, Locals
    <3>4. CASE InsertSessionFails(q)
      BY <1>r, <3>4 DEF InsertSessionFails
    <3>5. CASE MintAccess(q) \/ MintFails(q)
      BY <1>0, <3>5 DEF MintAccess, MintFails, Locals
    <3> QED BY <1>4, <3>1, <3>2, <3>3, <3>4, <3>5 DEF GrantStep
  <2> QED BY <2>1, <2>2 DEF SentEffect
<1>5. CASE RefreshStep(q) /\ ~RememberRetired(q)
  <2>1. sent' = sent
    BY <1>5 DEF RefreshStep, LookupRetired, ReadSecret, ReadScopes, UpstreamRefreshed,
         UpstreamRefreshFails, DropGuard, Discard, Replace, RetireCurrent
  <2>2. req'[q].rt \in {req[q].rt, None}
    <3>1. CASE LookupRetired(q)
      BY <1>0, <1>r, <3>1 DEF LookupRetired, Locals
    <3>2. CASE ReadSecret(q)
      BY <1>0, <3>2 DEF ReadSecret, Locals
    <3>3. CASE ReadScopes(q)
      <4>1. PICK scopes : req' = [req EXCEPT ![q].set.scopes = scopes]
        BY <3>3 DEF ReadScopes
      <4> QED BY <1>0, <4>1 DEF Locals
    <3>4. CASE UpstreamRefreshed(q)
      <4>1. PICK set : req' = [req EXCEPT ![q].set = set, ![q].ttl = EXPIRES_IN]
        BY <3>4 DEF UpstreamRefreshed
      <4> QED BY <1>0, <4>1 DEF Locals
    <3>5. CASE UpstreamRefreshFails(q)
      BY <1>0, <3>5 DEF UpstreamRefreshFails, Locals
    <3>6. CASE DropGuard(q) \/ Discard(q) \/ Replace(q) \/ RetireCurrent(q)
      BY <1>r, <3>6 DEF DropGuard, Discard, Replace, RetireCurrent
    <3> QED BY <1>5, <3>1, <3>2, <3>3, <3>4, <3>5, <3>6 DEF RefreshStep
  <2> QED BY <2>1, <2>2 DEF SentEffect
<1>6. CASE TakeStep(q) \/ CallStep(q) \/ RefreshCancelled(q) \/ RevokeCancelled(q)
  <2>1. sent' = sent
    BY <1>6 DEF TakeStep, TakeSession, TakeTokens, TakeRefresh, RevokeUpstream, CallStep,
         ReadAccess, VerifyUpstream, RunHandler, RevokeCancelled, RefreshCancelled
  <2>2. req'[q].rt \in {req[q].rt, None}
    BY <1>0, <1>6, <1>r
       DEF TakeStep, TakeSession, TakeTokens, TakeRefresh, RevokeUpstream, CallStep,
         ReadAccess, VerifyUpstream, RunHandler, RevokeCancelled, RefreshCancelled, Locals
  <2> QED BY <2>1, <2>2 DEF SentEffect
<1> QED BY <1>1, <1>2, <1>3, <1>4, <1>5, <1>6
        DEF RequestStep, HandlerStep, ClientStep, MintStep

\* Only RefreshStore::mint mints refresh tokens, and only a rotation leaves "retire".
LEMMA MintSteps ==
    ASSUME TypeInv, NEW q \in Requests, RequestStep(q)
    PROVE  /\ minted' \cap RefreshTokens = minted \cap RefreshTokens \/ MintRefresh(q)
           /\ MintsRefresh(q) => MintRefresh(q)
           /\ pc[q] = "retire" => RetireCurrent(q)
<1>1. CASE InsertSession(q) \/ MintAccess(q)
  <2>1. PICK x \in SessionIds \cup AccessTokens : minted' = minted \cup {x}
    BY <1>1, FreshIsNew DEF InsertSession, MintAccess
  <2>2. x \notin RefreshTokens /\ pc[q] \in {"insert", "mint_at"}
    BY <1>1, IdsAssumption DEF InsertSession, MintAccess
  <2> QED BY <2>1, <2>2 DEF MintsRefresh
<1>2. CASE MintRefresh(q)
  BY <1>2 DEF MintRefresh
<1>3. CASE (GrantStep(q) /\ ~InsertSession(q)) \/ MintFails(q)
  <2>1. minted' = minted /\ pc[q] # "retire"
    BY <1>3 DEF GrantStep, SweepExpired, PurgeSweptTokens, PurgeSweptRefresh, SpawnRevocations,
         InsertSessionFails, MintFails
  <2> QED BY <2>1 DEF MintsRefresh
<1>4. CASE RefreshStep(q)
  <2>1. minted' = minted /\ (pc[q] = "retire" => RetireCurrent(q))
    BY <1>4 DEF RefreshStep, LookupRetired, ReadSecret, ReadScopes, UpstreamRefreshed,
         UpstreamRefreshFails, DropGuard, Discard, Replace, RetireCurrent, RememberRetired
  <2> QED BY <2>1 DEF MintsRefresh
<1>5. CASE TakeStep(q) \/ CallStep(q) \/ ClientStep(q) \/ RedeemedCode(q) \/ GrantDone(q)
  <2>1. minted' = minted /\ pc[q] # "retire"
    BY <1>5 DEF TakeStep, TakeSession, TakeTokens, TakeRefresh, RevokeUpstream, CallStep,
         ReadAccess, VerifyUpstream, RunHandler, ClientStep, RedeemRefresh, RevokeAccess,
         RevokeRefresh, ResolveAccess, RevokeCancelled, RefreshCancelled, RedeemedCode, GrantDone, Arrive
  <2> QED BY <2>1 DEF MintsRefresh
<1> QED BY <1>1, <1>2, <1>3, <1>4, <1>5 DEF RequestStep, HandlerStep, MintStep

\* What a mint of a refresh token leaves behind.
LEMMA MintLeaves ==
    ASSUME TypeInv, NEW q \in Requests, MintRefresh(q)
    PROVE  /\ pc[q] = "mint_rt" /\ pc'[q] = AfterMint(q) /\ sent' = sent
           /\ req[q].sid \in SessionIds /\ req'[q].sid = req[q].sid /\ req'[q].tok = req[q].tok
           /\ \E k \in RefreshTokens \ minted :
                /\ minted' = minted \cup {k} /\ req'[q].rt = k
                /\ current'[k] # None /\ current'[k].sid = req[q].sid
                /\ current'[k].state = "Active"
                /\ \A j \in RefreshTokens \ {k} : current'[j] \in {current[j], None}
<1>0. /\ SlotTypes /\ StoreTypes
      /\ pc \in [Requests -> PCs] /\ req \in [Requests -> Locals]
      /\ current \in [RefreshTokens -> RefreshOwner \cup {None}]
  BY TypeInvHalves DEF SlotTypes, StoreTypes
<1> DEFINE entry == [sid |-> req[q].sid, client |-> req[q].client, state |-> "Active",
                     exp |-> now + REFRESH_TTL]
<1>1. PICK k \in Fresh(RefreshTokens) :
        /\ current' = [Sweep(current) EXCEPT ![k] = entry]
        /\ minted' = minted \cup {k} /\ req' = [req EXCEPT ![q].rt = k]
  BY DEF MintRefresh
<1>2. k \in RefreshTokens \ minted
  BY FreshIsNew
<1>3. entry \in RefreshOwner /\ req[q].sid \in SessionIds
  BY <1>0, SlotFacts, BoundsAssumption DEF MintRefresh, LocalOK, RefreshOwner, StoreTypes
<1>4. entry # None /\ entry.sid = req[q].sid /\ entry.state = "Active"
  BY <1>3, NoEntryAssumption
<1> HIDE DEF entry
<1>5. current'[k] = entry /\ \A j \in RefreshTokens \ {k} : current'[j] \in {current[j], None}
  BY <1>0, <1>1, <1>2 DEF Sweep
<1>6. req'[q].rt = k /\ req'[q].sid = req[q].sid /\ req'[q].tok = req[q].tok
  BY <1>0, <1>1 DEF Locals
<1>7. pc[q] = "mint_rt" /\ pc'[q] = AfterMint(q) /\ sent' = sent
  BY <1>0 DEF MintRefresh, Goto
<1> QED BY <1>1, <1>2, <1>3, <1>4, <1>5, <1>6, <1>7

\* A token that a step leaves in the store was there, bound to the same session, or
\* the step minted it for the session it works on.
LEMMA TokenSids ==
    ASSUME TypeInv, NEW q \in Requests, RequestStep(q), NEW k \in RefreshTokens, current'[k] # None
    PROVE  \/ current[k] # None /\ current'[k].sid = current[k].sid
           \/ /\ MintRefresh(q) /\ k \notin minted
              /\ req'[q].rt = k /\ current'[k].sid = req[q].sid
<1>t. current \in [RefreshTokens -> RefreshOwner \cup {None}]
  BY DEF TypeInv, TypeOK
<1>1. ASSUME NEW j \in RefreshTokens, Acquires(q, j)
      PROVE  current[k] # None /\ current'[k].sid = current[k].sid
  BY <1>t, <1>1 DEF Acquires, MarkInFlight, Live, RefreshOwner
<1>2. CASE MintRefresh(q)
  BY <1>2, MintLeaves
<1>3. CASE CurrentShrinks
  BY <1>3 DEF CurrentShrinks
<1>4. ASSUME Frees(req[q].tok) PROVE current[k] # None /\ current'[k].sid = current[k].sid
  BY <1>t, <1>4 DEF Frees, InFlight, RefreshOwner
<1> QED BY <1>1, <1>2, <1>3, <1>4, LockStep, MintSteps DEF LockEffect

\* A guard's holder works on a session.
LEMMA GuardHolds ==
    ASSUME TypeInv, NEW q \in Requests, HoldsGuard(q)
    PROVE  /\ HoldsSession(q) /\ req[q].tok \in RefreshTokens
           /\ (pc[q] = "mint_rt" => req[q].kind = "refresh")
BY TypeInvHalves, SlotFacts DEF HoldsGuard, HoldsSession, LocalOK, GuardPCs

\* A guard is not lost on the way to the mints.
LEMMA GuardKept ==
    ASSUME TypeInv, NEW q \in Requests, RequestStep(q), HoldsGuard(q), HoldsSession(q)'
    PROVE  HoldsGuard(q)' /\ req'[q].tok = req[q].tok /\ req'[q].sid = req[q].sid
<1>0. pc \in [Requests -> PCs] /\ req \in [Requests -> Locals] /\ SlotTypes
  BY TypeInvHalves DEF SlotTypes
<1>1. HoldsGuard(q)'
  <2> SUFFICES ASSUME pc'[q] \in {"mint_at", "mint_rt"} PROVE req'[q].kind = "refresh"
    BY DEF HoldsSession, HoldsGuard
  <2>1. Replace(q) \/ MintAccess(q)
    <3>1. CASE GrantStep(q) \/ RedeemedCode(q) \/ GrantDone(q) \/ MintStep(q)
      BY <3>1, <1>0 DEF GrantStep, SweepExpired, PurgeSweptTokens, PurgeSweptRefresh,
           SpawnRevocations, InsertSession, InsertSessionFails, RedeemedCode, GrantDone, MintStep,
           MintRefresh, MintFails, AfterMint, SendPair, Reply, Goto, HoldsGuard, GuardPCs
    <3>2. CASE RefreshStep(q)
      BY <3>2, <1>0 DEF RefreshStep, LookupRetired, ReadSecret, ReadScopes, UpstreamRefreshed,
           UpstreamRefreshFails, DropGuard, Discard, RetireCurrent, RememberRetired, SendPair, Reply,
           Goto
    <3>3. CASE TakeStep(q) \/ CallStep(q) \/ ClientStep(q)
      BY <3>3, <1>0 DEF TakeStep, TakeSession, TakeTokens, TakeRefresh, RevokeUpstream,
           CallStep, ReadAccess, VerifyUpstream, RunHandler, ClientStep, RedeemRefresh, RevokeAccess,
           RevokeRefresh, ResolveAccess, RefreshCancelled, RevokeCancelled, Reply, Goto, Arrive,
           HoldsGuard, GuardPCs
    <3> QED BY <3>1, <3>2, <3>3 DEF RequestStep, HandlerStep
  <2>2. req'[q].kind = req[q].kind
    BY <1>0, <2>1 DEF Replace, MintAccess, Locals
  <2>3. req[q].kind = "refresh"
    BY <1>0, SlotFacts DEF HoldsGuard, LocalOK
  <2> QED BY <2>2, <2>3
<1>2. ~\E k \in RefreshTokens : Acquires(q, k)
  BY DEF Acquires, HoldsGuard, GuardPCs
<1> QED BY <1>1, <1>2, LockStep DEF LockEffect

\* A token that was sent and is not being redeemed is its session's only one, and
\* nobody works on its session.
LEMMA SentAlone ==
    ASSUME TypeInv, InFlightHasOneHolder, ChainInv,
           NEW k \in sent \cap RefreshTokens, current[k] # None, ~InFlight(k)
    PROVE  /\ \A j \in RefreshTokens : current[j] # None /\ current[j].sid = current[k].sid => j = k
           /\ \A p \in Requests : HoldsSession(p) => req[p].sid # current[k].sid
<1>1. ASSUME NEW p \in Requests PROVE req[p].rt # k /\ ~(HoldsGuard(p) /\ req[p].tok = k)
  <2>1. req[p].rt # k
    BY IdsAssumption DEF ChainInv, UnsentInv
  <2> QED BY <2>1 DEF InFlightHasOneHolder
<1>2. ASSUME NEW p \in Requests, NEW j PROVE ~Rotates(p, j, k) /\ ~Rotates(p, k, j)
  BY <1>1 DEF Rotates, HoldsGuard, GuardPCs
<1>3. ASSUME NEW j \in RefreshTokens, current[j] # None, current[j].sid = current[k].sid PROVE j = k
  BY <1>2, <1>3 DEF ChainInv, PairInv
<1>4. ASSUME NEW p \in Requests, HoldsSession(p), req[p].sid = current[k].sid PROVE FALSE
  <2>1. k \in TokensOf(req[p].sid)
    BY <1>4 DEF TokensOf
  <2> QED BY <1>1, <1>4, <2>1 DEF ChainInv, WorkerInv
<1> QED BY <1>3, <1>4

\* At the start no request works and no token exists.
LEMMA ChainInit == Init => ChainInv
BY
   DEF Init, ChainInv, UnsentInv, WorkerInv, PairInv, TokensOf, HoldsSession, HoldsGuard,
       GuardPCs,
       NoLocals

\* Every step keeps the chain of a session's tokens.
LEMMA ChainNext ==
    TypeInv /\ BoundInv /\ InFlightHasOneHolder /\ ChainInv /\ [Next]_vars => ChainInv'
<1> SUFFICES ASSUME TypeInv, BoundInv, InFlightHasOneHolder, ChainInv, [Next]_vars
             PROVE  ChainInv'
  OBVIOUS
<1>1. minted \subseteq minted'
  BY MintedGrows
<1>t. req \in [Requests -> Locals] /\ current \in [RefreshTokens -> RefreshOwner \cup {None}]
  BY DEF TypeInv, TypeOK
<1>2. ASSUME NEW q \in Requests, RequestStep(q) PROVE ChainInv'
  <2>o. ASSUME NEW p \in Requests, p # q PROVE pc'[p] = pc[p] /\ req'[p] = req[p]
    BY <1>2, <2>o, OtherSlots
  <2>h. ASSUME NEW p \in Requests, p # q
        PROVE  (HoldsSession(p)' <=> HoldsSession(p)) /\ (HoldsGuard(p)' <=> HoldsGuard(p))
    BY <2>o, <2>h DEF HoldsSession, HoldsGuard
  <2>k. ASSUME NEW k \in RefreshTokens, current'[k] # None
        PROVE  \/ current[k] # None /\ current'[k].sid = current[k].sid
               \/ /\ MintRefresh(q) /\ k \notin minted
                  /\ req'[q].rt = k /\ current'[k].sid = req[q].sid
    BY <1>2, <2>k, TokenSids
  <2>m. ASSUME MintRefresh(q)
        PROVE  /\ pc[q] = "mint_rt" /\ pc'[q] = AfterMint(q) /\ sent' = sent
               /\ HoldsSession(q) /\ req'[q].tok = req[q].tok
               /\ req'[q].rt \in RefreshTokens \ minted /\ minted' = minted \cup {req'[q].rt}
    BY <2>m, MintLeaves DEF HoldsSession
  <2>1. UnsentInv'
    <3>1. SentEffect(q)
      BY <1>2, SentStep
    <3>2. /\ req[q].at \in AccessTokens \cup {None}
          /\ \A p \in Requests : req[p].rt \in RefreshTokens \cup {None}
      BY <1>t DEF Locals
    <3>3. /\ \A p \in Requests : req[p].rt # None => req[p].rt \in minted \ sent
          /\ \A p, r \in Requests : req[p].rt # None /\ req[p].rt = req[r].rt => p = r
          /\ sent \cap RefreshTokens \subseteq minted
      BY DEF ChainInv, UnsentInv
    <3>4. sent' \cap RefreshTokens \subseteq minted'
      BY <1>1, <2>m, <3>1, <3>2, <3>3, IdsAssumption DEF SentEffect
    <3>5. ASSUME NEW p \in Requests, req'[p].rt # None PROVE req'[p].rt \in minted' \ sent'
      <4>1. CASE p = q
        BY <1>1, <2>m, <3>1, <3>3, <3>5, <4>1, IdsAssumption DEF SentEffect
      <4>2. CASE p # q
        BY <1>1, <2>m, <2>o, <3>1, <3>2, <3>3, <3>5, <4>2, IdsAssumption DEF SentEffect
      <4> QED BY <4>1, <4>2
    <3>6. ASSUME NEW p \in Requests, NEW r \in Requests, req'[p].rt # None, req'[p].rt = req'[r].rt
          PROVE  p = r
      <4>1. ASSUME NEW x \in Requests, x # q, req'[q].rt # None, req'[x].rt = req'[q].rt PROVE FALSE
        <5>1. req'[x].rt = req[x].rt /\ req[x].rt \in minted
          BY <2>o, <3>3, <4>1
        <5>2. req'[q].rt = req[q].rt \/ req'[q].rt \notin minted
          BY <2>m, <3>1, <4>1 DEF SentEffect
        <5> QED BY <3>3, <4>1, <5>1, <5>2
      <4>2. CASE p # q /\ r # q
        BY <2>o, <3>3, <3>6, <4>2
      <4> QED BY <3>6, <4>1, <4>2
    <3> QED BY <3>4, <3>5, <3>6 DEF UnsentInv
  <2>2. ASSUME NEW p \in Requests, p # q, HoldsSession(p), HoldsSession(q)', req'[q].sid = req[p].sid
        PROVE  FALSE
    <3>1. CASE HoldsSession(q) /\ req'[q].sid = req[q].sid
      BY <2>2, <3>1 DEF ChainInv, WorkerInv
    <3>2. CASE req'[q].sid \in minted' \ minted
      BY <2>2, <3>2 DEF BoundInv
    <3>3. ASSUME NEW k \in RefreshTokens, Acquires(q, k) PROVE FALSE
      <4>1. k \in sent \cap RefreshTokens /\ current[k] # None /\ ~InFlight(k)
            /\ req'[q].sid = current[k].sid
        BY <3>3 DEF Acquires, Live, InFlight
      <4> QED BY <2>2, <4>1, SentAlone
    <3> QED BY <1>2, <2>2, <3>1, <3>2, <3>3, BindStep
  <2>3. ASSUME NEW p \in Requests, NEW r \in Requests, HoldsSession(p)', HoldsSession(r)',
               req'[p].sid = req'[r].sid
        PROVE  p = r
    <3>1. CASE p # q /\ r # q
      BY <2>3, <2>o, <2>h, <3>1 DEF ChainInv, WorkerInv
    <3>2. CASE p = q /\ r # q
      BY <2>2, <2>3, <2>o, <2>h, <3>2
    <3>3. CASE p # q /\ r = q
      BY <2>2, <2>3, <2>o, <2>h, <3>3
    <3> QED BY <3>1, <3>2, <3>3
  <2>4. ASSUME NEW p \in Requests, HoldsGuard(p)', current'[req'[p].tok] # None
        PROVE  current'[req'[p].tok].sid = req'[p].sid
    <3>1. ASSUME HoldsGuard(p), req'[p].tok = req[p].tok, req'[p].sid = req[p].sid
          PROVE  current'[req'[p].tok].sid = req'[p].sid
      <4>1. req[p].tok \in RefreshTokens \cap minted
        BY <3>1, GuardHolds DEF BoundInv
      <4> QED BY <2>4, <2>k, <3>1, <4>1 DEF ChainInv, WorkerInv
    <3>2. CASE p # q
      BY <2>4, <2>o, <2>h, <3>1, <3>2
    <3>3. CASE p = q
      <4>1. ASSUME NEW k \in RefreshTokens, Acquires(q, k)
            PROVE  current'[req'[q].tok].sid = req'[q].sid
        BY <1>t, <4>1 DEF Acquires, MarkInFlight, Live, RefreshOwner
      <4>2. CASE HoldsGuard(q) /\ req'[q].tok = req[q].tok /\ req'[q].sid = req[q].sid
        BY <3>1, <3>3, <4>2
      <4> QED BY <1>2, <2>4, <3>3, <4>1, <4>2, LockStep DEF LockEffect
    <3> QED BY <3>2, <3>3
  <2>5. ASSUME NEW p \in Requests, HoldsSession(p)', NEW k \in RefreshTokens, current'[k] # None,
               current'[k].sid = req'[p].sid
        PROVE  \/ HoldsGuard(p)' /\ k = req'[p].tok
               \/ pc'[p] = "retire" /\ k = req'[p].rt
    <3>1. CASE p # q
      <4>1. CASE current[k] # None /\ current'[k].sid = current[k].sid
        <5>1. k \in TokensOf(req[p].sid)
          BY <2>5, <2>o, <3>1, <4>1 DEF TokensOf
        <5> QED BY <2>5, <2>o, <2>h, <3>1, <5>1 DEF ChainInv, WorkerInv
      <4>2. CASE MintRefresh(q) /\ current'[k].sid = req[q].sid
        <5>1. HoldsSession(p) /\ req[p].sid = req[q].sid /\ HoldsSession(q)
          BY <2>5, <2>m, <2>o, <2>h, <3>1, <4>2
        <5> QED BY <3>1, <5>1 DEF ChainInv, WorkerInv
      <4> QED BY <2>5, <2>k, <4>1, <4>2
    <3>2. CASE p = q
      <4>1. CASE MintRefresh(q) /\ req'[q].rt = k
        <5>1. pc'[q] \in {"mark", "retire"}
          BY <2>m, <4>1 DEF AfterMint
        <5> QED BY <2>5, <3>2, <4>1, <5>1 DEF HoldsSession, GuardPCs
      <4>2. CASE current[k] # None /\ current'[k].sid = current[k].sid
        <5>1. CASE HoldsSession(q) /\ req'[q].sid = req[q].sid
          <6>1. k \in TokensOf(req[q].sid)
            BY <2>5, <3>2, <4>2, <5>1 DEF TokensOf
          <6>2. pc[q] # "retire"
            <7>1. ASSUME pc[q] = "retire" PROVE pc'[q] = "remember"
              BY <1>2, <7>1, MintSteps DEF RetireCurrent, Goto, TypeInv, TypeOK
            <7> QED BY <2>5, <3>2, <7>1 DEF HoldsSession, GuardPCs
          <6>3. HoldsGuard(q) /\ k = req[q].tok
            BY <5>1, <6>1, <6>2 DEF ChainInv, WorkerInv
          <6> QED BY <1>2, <2>5, <3>2, <6>3, GuardKept
        <5>2. CASE req'[q].sid \in minted' \ minted
          BY <2>5, <3>2, <4>2, <5>2 DEF BoundInv
        <5>3. ASSUME NEW j \in RefreshTokens, Acquires(q, j)
              PROVE  HoldsGuard(q)' /\ k = req'[q].tok
          <6>1. j \in sent \cap RefreshTokens /\ current[j] # None /\ ~InFlight(j)
                /\ req'[q].sid = current[j].sid /\ req'[q].tok = j /\ HoldsGuard(q)'
            BY <5>3 DEF Acquires, Live, InFlight, HoldsGuard, GuardPCs
          <6>2. k = j
            BY <2>5, <3>2, <4>2, <6>1, SentAlone
          <6> QED BY <6>1, <6>2
        <5> QED BY <1>2, <2>5, <3>2, <5>1, <5>2, <5>3, BindStep
      <4> QED BY <2>5, <2>k, <4>1, <4>2
    <3> QED BY <3>1, <3>2
  <2>6. WorkerInv'
    BY <2>3, <2>4, <2>5 DEF WorkerInv, TokensOf
  <2>7. ASSUME NEW j \in RefreshTokens, NEW k \in RefreshTokens, j # k,
               current'[j] # None, current'[k] # None, current'[j].sid = current'[k].sid
        PROVE  \E p \in Requests : Rotates(p, j, k)' \/ Rotates(p, k, j)'
    <3>1. CASE current[j] # None /\ current'[j].sid = current[j].sid
               /\ current[k] # None /\ current'[k].sid = current[k].sid
      <4>1. PICK p \in Requests : Rotates(p, j, k) \/ Rotates(p, k, j)
        BY <2>7, <3>1 DEF ChainInv, PairInv
      <4>2. p # q
        <5>1. ASSUME pc[q] = "retire" PROVE current' = [current EXCEPT ![req[q].tok] = None]
          BY <1>2, <5>1, MintSteps DEF RetireCurrent
        <5> QED BY <1>t, <2>7, <4>1, <5>1 DEF Rotates
      <4> QED BY <2>o, <4>1, <4>2 DEF Rotates
    <3>2. ASSUME NEW new \in RefreshTokens, NEW old \in RefreshTokens,
                 MintRefresh(q), req'[q].rt = new, current'[new].sid = req[q].sid,
                 current[old] # None, current'[old].sid = current[old].sid,
                 current'[old].sid = current'[new].sid
          PROVE  Rotates(q, old, new)'
      <4>1. old \in TokensOf(req[q].sid)
        BY <3>2 DEF TokensOf
      <4>2. HoldsGuard(q) /\ old = req[q].tok
        BY <2>m, <3>2, <4>1 DEF ChainInv, WorkerInv
      <4>3. pc'[q] = "retire" /\ req'[q].tok = old
        BY <2>m, <3>2, <4>2, GuardHolds DEF AfterMint
      <4> QED BY <3>2, <4>3 DEF Rotates
    <3> QED BY <2>7, <2>k, <3>1, <3>2
  <2> QED BY <2>1, <2>6, <2>7 DEF ChainInv, PairInv
<1>3. CASE RevokeInBackground \/ Tick \/ UNCHANGED vars
  BY <1>3 DEF RevokeInBackground, Tick, vars, stores, ChainInv, UnsentInv, WorkerInv, PairInv,
       TokensOf, Rotates, HoldsSession, HoldsGuard
<1> QED BY <1>2, <1>3 DEF Next, RequestStep

\* The ledger, read off the stores (as Ledger is instantiated).
Status == [k \in RefreshTokens |->
             IF k \notin minted THEN "unissued"
             ELSE IF current[k] = None THEN "gone"
             ELSE IF InFlight(k) THEN "lent" ELSE "usable"]
Owner == [k \in RefreshTokens |-> IF current[k] = None THEN None ELSE current[k].sid]

\* What the ledger says of one token.
LEMMA StatusOf ==
    ASSUME BoundInv, NEW k \in RefreshTokens
    PROVE  /\ Status[k] = "unissued" <=> k \notin minted
           /\ Status[k] = "usable" <=> current[k] # None /\ ~InFlight(k)
           /\ Status[k] = "lent" <=> InFlight(k)
           /\ current[k] # None => Owner[k] = current[k].sid
BY DEF Status, Owner, BoundInv, InFlight

\* Entries that leave the store are forgotten.
LEMMA LedgerForgets ==
    ASSUME TypeInv, BoundInv, CurrentShrinks, minted' \cap RefreshTokens = minted \cap RefreshTokens
    PROVE  Ledger!LedgerNext
<1>0. PICK K \in SUBSET RefreshTokens :
        K = {k \in RefreshTokens : k \in minted /\ current'[k] = None}
  OBVIOUS
<1>1. Status' = [k \in RefreshTokens |-> IF k \in K THEN "gone" ELSE Status[k]]
  BY <1>0 DEF Status, InFlight, CurrentShrinks
<1>2. Owner' = [k \in RefreshTokens |-> IF k \in K THEN None ELSE Owner[k]]
  BY <1>0 DEF Owner, CurrentShrinks, BoundInv
<1>3. K \subseteq {k \in RefreshTokens : Status[k] # "unissued"}
  BY <1>0 DEF Status
<1>4. Ledger!Forget(K)
  BY <1>1, <1>2, <1>3 DEF Ledger!Forget, Ledger!Issued, Status, Owner
<1> QED BY <1>4 DEF Ledger!LedgerNext

\* A redemption lends its token.
LEMMA LedgerLends ==
    ASSUME TypeInv, BoundInv, InFlightHasOneHolder, ChainInv,
           NEW q \in Requests, NEW k \in RefreshTokens, Acquires(q, k)
    PROVE  Ledger!LedgerNext
<1>0. current \in [RefreshTokens -> RefreshOwner \cup {None}] /\ minted' = minted
  BY DEF TypeInv, TypeOK, Acquires
<1>1. k \in sent \cap RefreshTokens /\ current[k] # None /\ ~InFlight(k)
  BY DEF Acquires, Live, InFlight
<1>2. \A j \in RefreshTokens : Status[j] = "lent" => Owner[j] # Owner[k]
  BY <1>1, SentAlone, StatusOf DEF InFlight
<1>3. /\ \A j \in RefreshTokens \ {k} : current'[j] = current[j]
      /\ current'[k].state = "InFlight" /\ current'[k].sid = current[k].sid
      /\ current'[k] \in RefreshOwner
  BY <1>0, <1>1 DEF Acquires, MarkInFlight, RefreshOwner
<1>4. current'[k] # None
  BY <1>3, NoEntryAssumption
<1>5. Status' = [Status EXCEPT ![k] = "lent"]
  BY <1>0, <1>1, <1>3, <1>4 DEF Status, InFlight, BoundInv
<1>6. Owner' = Owner
  BY <1>1, <1>3, <1>4 DEF Owner
<1>7. Ledger!Lend(k)
  BY <1>1, <1>2, <1>5, <1>6, StatusOf DEF Ledger!Lend, Status, Owner
<1> QED BY <1>7 DEF Ledger!LedgerNext

\* A guard that drops gives its token back.
LEMMA LedgerReturns ==
    ASSUME TypeInv, BoundInv, ChainInv, InFlightHasOneHolder,
           NEW q \in Requests, HoldsGuard(q), pc[q] # "retire", minted' = minted,
           InFlight(req[q].tok), current' = [current EXCEPT ![req[q].tok].state = "Active"]
    PROVE  Ledger!LedgerNext
<1>a. PICK k \in RefreshTokens : k = req[q].tok
  BY GuardHolds
<1>0. current \in [RefreshTokens -> RefreshOwner \cup {None}] /\ HoldsSession(q)
  BY GuardHolds DEF TypeInv, TypeOK
<1>1. current[k] # None /\ current[k].sid = req[q].sid
  BY <1>a DEF InFlight, ChainInv, WorkerInv
<1>2. \A j \in RefreshTokens : Status[j] = "usable" => Owner[j] # Owner[k]
  <2>1. ASSUME NEW j \in RefreshTokens, Status[j] = "usable", Owner[j] = Owner[k] PROVE FALSE
    <3>1. current[j] # None /\ ~InFlight(j) /\ Owner[j] = current[j].sid /\ Owner[k] = current[k].sid
      BY <1>0, <1>1, <2>1, StatusOf
    <3>2. j \in TokensOf(req[q].sid)
      BY <1>1, <2>1, <3>1 DEF TokensOf
    <3>3. j = k
      BY <1>a, <1>0, <3>2 DEF ChainInv, WorkerInv
    <3> QED BY <1>a, <3>1, <3>3
  <2> QED BY <2>1
<1>3. /\ \A j \in RefreshTokens \ {k} : current'[j] = current[j]
      /\ current'[k].state = "Active" /\ current'[k].sid = current[k].sid
      /\ current'[k] \in RefreshOwner
  BY <1>a, <1>0, <1>1 DEF RefreshOwner
<1>4. current'[k] # None
  BY <1>3, NoEntryAssumption
<1>5. Status' = [Status EXCEPT ![k] = "usable"]
  BY <1>0, <1>1, <1>3, <1>4 DEF Status, InFlight, BoundInv
<1>6. Owner' = Owner
  BY <1>1, <1>3, <1>4 DEF Owner
<1>7. Status[k] = "lent"
  BY <1>a, StatusOf
<1>8. Ledger!Return(k)
  <2>1. {j \in RefreshTokens : Status[j] = "usable" /\ Owner[j] = Owner[k]} = {}
    BY <1>2
  <2> QED BY <1>5, <1>6, <1>7, <2>1 DEF Ledger!Return, Ledger!Usable, Status, Owner
<1> QED BY <1>8 DEF Ledger!LedgerNext

\* A mint issues a token to a session that has no usable one.
LEMMA LedgerIssues ==
    ASSUME TypeInv, BoundInv, InFlightHasOneHolder, ChainInv, NEW q \in Requests, MintRefresh(q)
    PROVE  Ledger!LedgerNext
<1>0. PICK s \in SessionIds : s = req[q].sid
  BY MintLeaves
<1>1. PICK k \in RefreshTokens \ minted :
        /\ minted' = minted \cup {k}
        /\ current'[k] # None /\ current'[k].sid = s /\ current'[k].state = "Active"
        /\ \A j \in RefreshTokens \ {k} : current'[j] \in {current[j], None}
  BY <1>0, MintLeaves
<1>2. pc[q] = "mint_rt" /\ HoldsSession(q)
  BY MintLeaves DEF HoldsSession
<1>K. PICK K \in SUBSET RefreshTokens :
        K = {j \in RefreshTokens : j \in minted /\ current'[j] = None}
  OBVIOUS
<1>3. \A j \in RefreshTokens : ~(Status[j] = "usable" /\ Owner[j] = s)
  <2>1. ASSUME NEW j \in RefreshTokens, Status[j] = "usable", Owner[j] = s PROVE FALSE
    <3>1. current[j] # None /\ ~InFlight(j) /\ current[j].sid = s
      BY <2>1, StatusOf
    <3>2. j \in TokensOf(s)
      BY <3>1 DEF TokensOf
    <3>3. HoldsGuard(q) /\ j = req[q].tok
      BY <1>0, <1>2, <3>2 DEF ChainInv, WorkerInv
    <3> QED BY <3>1, <3>3 DEF InFlightHasOneHolder
  <2> QED BY <2>1
<1>4. Status' = [j \in RefreshTokens |->
                   IF j = k THEN "usable" ELSE IF j \in K THEN "gone" ELSE Status[j]]
  BY <1>1, <1>K DEF Status, InFlight
<1>5. Owner' = [j \in RefreshTokens |->
                  IF j = k THEN s ELSE IF j \in K THEN None ELSE Owner[j]]
  BY <1>1, <1>K DEF Owner, BoundInv
<1>6. /\ K \subseteq {j \in RefreshTokens : Status[j] # "unissued"}
      /\ k \notin {j \in RefreshTokens : Status[j] # "unissued"}
      /\ {j \in RefreshTokens : Status[j] = "usable" /\ Owner[j] = s} \subseteq K
  BY <1>1, <1>3, <1>K DEF Status
<1>7. Ledger!Issue(k, s, K)
  BY <1>4, <1>5, <1>6 DEF Ledger!Issue, Ledger!Issued, Ledger!Usable, Status, Owner
<1> QED BY <1>7 DEF Ledger!LedgerNext

\* Every step of the proxy is a step of the ledger or changes none of its tokens.
LEMMA LedgerStep ==
    ASSUME TypeInv, BoundInv, InFlightHasOneHolder, ChainInv, [Next]_vars
    PROVE  Ledger!LedgerNext \/ UNCHANGED <<Status, Owner>>
<1>1. ASSUME NEW q \in Requests, RequestStep(q)
      PROVE  Ledger!LedgerNext \/ UNCHANGED <<Status, Owner>>
  <2>1. CASE MintRefresh(q)
    BY <2>1, LedgerIssues
  <2>2. CASE ~MintRefresh(q)
    <3>1. minted' \cap RefreshTokens = minted \cap RefreshTokens /\ ~MintsRefresh(q)
      BY <1>1, <2>2, MintSteps
    <3>2. CASE CurrentShrinks
      BY <3>1, <3>2, LedgerForgets
    <3>3. ASSUME NEW k \in RefreshTokens, Acquires(q, k) PROVE Ledger!LedgerNext
      BY <3>3, LedgerLends
    <3>4. CASE HoldsGuard(q) /\ Frees(req[q].tok) /\ minted' = minted /\ ~CurrentShrinks
      <4>1. current \in [RefreshTokens -> RefreshOwner \cup {None}] /\ req[q].tok \in RefreshTokens
        BY <3>4, GuardHolds DEF TypeInv, TypeOK
      <4>2. current' # current /\ current' # [current EXCEPT ![req[q].tok] = None]
        BY <3>4, <4>1 DEF CurrentShrinks
      <4>3. pc[q] # "retire"
        BY <1>1, <4>2, MintSteps DEF RetireCurrent
      <4> QED BY <3>4, <4>2, <4>3, LedgerReturns DEF Frees
    <3> QED BY <1>1, <3>1, <3>2, <3>3, <3>4, LockStep DEF LockEffect
  <2> QED BY <2>1, <2>2
<1>2. CASE RevokeInBackground \/ Tick \/ UNCHANGED vars
  BY <1>2 DEF RevokeInBackground, Tick, vars, stores, Status, Owner, InFlight
<1> QED BY <1>1, <1>2 DEF Next, RequestStep

\* The stores and handlers implement RefreshLedger, however redemptions, rotations,
\* failures, dropped futures, expiry and revocation interleave.
THEOREM ProxyRefinesLedger == Spec => RefinesLedger
<1>1. Init => BoundInv /\ InFlightHasOneHolder /\ ChainInv /\ Ledger!LedgerInit
  <2>1. Init => Ledger!LedgerInit
    BY DEF Init, Ledger!LedgerInit
  <2> QED BY <2>1, BoundInit, HolderInit, ChainInit
<1>2. TypeInv /\ BoundInv /\ InFlightHasOneHolder /\ ChainInv /\ [Next]_vars =>
        (BoundInv /\ InFlightHasOneHolder /\ ChainInv)'
  BY BoundNext, HolderNext, ChainNext
<1>3. TypeInv /\ BoundInv /\ InFlightHasOneHolder /\ ChainInv /\ [Next]_vars =>
        [Ledger!LedgerNext]_(Ledger!ledgerVars)
  BY LedgerStep DEF Ledger!ledgerVars, Status, Owner
<1> QED BY <1>1, <1>2, <1>3, TypeInvariant, PTL DEF Spec, RefinesLedger, Ledger!LedgerSpec

-------------------------------------------------------------------------------
(* Authorization codes *)

\* The shape of the state that the arguments below need: maps with their domains, a
\* code wherever a handler is about to use one.
Shape ==
    /\ pc = [q \in Requests |-> pc[q]] /\ req = [q \in Requests |-> req[q]]
    /\ \A q \in Requests : "set" \in DOMAIN req[q]
    /\ rows = [r \in Rows |-> rows[r]]
    /\ upstream = [u \in SessionIds |-> upstream[u]]
    /\ half = [x \in Codes |-> half[x]]
    /\ code = [q \in Requests |-> code[q]]
    /\ \A q \in Requests : pc[q] \in {"consumed?", "unpend", "take_half"} => code[q] \in Codes

Issued == {r \in Rows : rows[r] # "unissued"}

\* Where a handler carries a token set that is in no map.
Carrying == {"mint_code", "sweep", "purge", "purge_rt", "insert", "replace"}

\* The row in each kind of place, if any.
InSession(u) == IF upstream[u] = None THEN {} ELSE {upstream[u].set.row}
InCode(x) == IF half[x] = None THEN {} ELSE {half[x].row}
InSlot(q) == IF pc[q] \in Carrying THEN {req[q].set.row} ELSE {}

\* Every row is in one place at most, and none is anywhere before it is issued.
RowInv ==
    /\ \A u \in SessionIds : InSession(u) \subseteq Issued
    /\ \A x \in Codes : InCode(x) \subseteq Issued
    /\ \A q \in Requests : InSlot(q) \subseteq Issued
    /\ \A u, v \in SessionIds : u # v => InSession(u) \cap InSession(v) = {}
    /\ \A x, y \in Codes : x # y => InCode(x) \cap InCode(y) = {}
    /\ \A p, q \in Requests : p # q => InSlot(p) \cap InSlot(q) = {}
    /\ \A u \in SessionIds, x \in Codes : InSession(u) \cap InCode(x) = {}
    /\ \A u \in SessionIds, q \in Requests : InSession(u) \cap InSlot(q) = {}
    /\ \A x \in Codes, q \in Requests : InCode(x) \cap InSlot(q) = {}

------------------------------------------------------------------------------
(* What a step does to the rows *)

\* One slot at most is touched.
SlotEffect(q) ==
    /\ pc' = [pc EXCEPT ![q] = pc'[q]] /\ req' = [req EXCEPT ![q] = req'[q]]
    /\ "set" \in DOMAIN req'[q]

\* Rows leave their places or stay.
SlotKeeps(q) == pc'[q] \in Carrying => pc[q] \in Carrying /\ req'[q].set = req[q].set
SessionsShrink == \A u \in SessionIds : upstream'[u] \in {upstream[u], None}
CodesShrink == \A x \in Codes : half'[x] \in {half[x], None}

\* The slot's row goes into a session, or into a code.
StoresSession(q) ==
    /\ pc[q] \in Carrying /\ pc'[q] \notin Carrying
    /\ \E u \in SessionIds :
         /\ upstream'[u].set = req[q].set
         /\ \A v \in SessionIds \ {u} : upstream'[v] \in {upstream[v], None}

StoresCode(q) ==
    /\ pc[q] \in Carrying /\ pc'[q] \notin Carrying
    /\ \E x \in Codes : half'[x] = req[q].set /\ \A y \in Codes \ {x} : half'[y] = half[y]

\* A code's row goes into the slot.
TakesCode(q) ==
    /\ pc[q] \notin Carrying
    /\ \E x \in Codes :
         /\ half[x] # None /\ half'[x] = None /\ req'[q].set = half[x]
         /\ \A y \in Codes \ {x} : half'[y] = half[y]

\* The slot gets a row that was just issued.
TakesFresh(q) == req'[q].set.row \in Rows /\ rows[req'[q].set.row] = "unissued"
                 /\ rows'[req'[q].set.row] # "unissued"

RowEffect(q) ==
    /\ \A r \in Rows : rows[r] # "unissued" => rows'[r] # "unissued"
    /\ \/ SlotKeeps(q) /\ SessionsShrink /\ CodesShrink
       \/ StoresSession(q) /\ CodesShrink
       \/ StoresCode(q) /\ SessionsShrink
       \/ TakesCode(q) /\ SessionsShrink
       \/ TakesFresh(q) /\ SessionsShrink /\ CodesShrink

\* Every such step keeps the rows apart.
LEMMA RowsKeptApart ==
    ASSUME Shape, RowInv, NEW q \in Requests, SlotEffect(q), RowEffect(q)
    PROVE  RowInv'
<1>0. /\ Issued \subseteq Issued'
      /\ \A p \in Requests \ {q} : pc'[p] = pc[p] /\ req'[p] = req[p]
  BY DEF Shape, SlotEffect, RowEffect, Issued
<1>1. \A p \in Requests \ {q} : InSlot(p)' = InSlot(p)
  BY <1>0 DEF InSlot
<1>2. SessionsShrink => \A u \in SessionIds : InSession(u)' \subseteq InSession(u)
  BY DEF SessionsShrink, InSession
<1>3. CodesShrink => \A x \in Codes : InCode(x)' \subseteq InCode(x)
  BY DEF CodesShrink, InCode
<1>4. CASE SlotKeeps(q) /\ SessionsShrink /\ CodesShrink
  <2>1. InSlot(q)' \subseteq InSlot(q)
    BY <1>4 DEF SlotKeeps, InSlot
  <2> QED BY <1>0, <1>1, <1>2, <1>3, <1>4, <2>1 DEF RowInv
<1>5. CASE StoresSession(q) /\ CodesShrink
  <2>1. PICK u \in SessionIds :
          /\ upstream'[u].set = req[q].set
          /\ \A v \in SessionIds \ {u} : upstream'[v] \in {upstream[v], None}
    BY <1>5 DEF StoresSession
  <2>2. InSession(u)' \subseteq InSlot(q) /\ InSlot(q)' = {}
    BY <1>5, <2>1 DEF StoresSession, InSession, InSlot
  <2>3. \A v \in SessionIds \ {u} : InSession(v)' \subseteq InSession(v)
    BY <2>1 DEF InSession
  <2> QED BY <1>0, <1>1, <1>3, <1>5, <2>2, <2>3 DEF RowInv
<1>6. CASE StoresCode(q) /\ SessionsShrink
  <2>1. PICK x \in Codes : half'[x] = req[q].set /\ \A y \in Codes \ {x} : half'[y] = half[y]
    BY <1>6 DEF StoresCode
  <2>2. InCode(x)' \subseteq InSlot(q) /\ InSlot(q)' = {}
    BY <1>6, <2>1 DEF StoresCode, InCode, InSlot
  <2>3. \A y \in Codes \ {x} : InCode(y)' \subseteq InCode(y)
    BY <2>1 DEF InCode
  <2> QED BY <1>0, <1>1, <1>2, <1>6, <2>2, <2>3 DEF RowInv
<1>7. CASE TakesCode(q) /\ SessionsShrink
  <2>1. PICK x \in Codes : /\ half[x] # None /\ half'[x] = None /\ req'[q].set = half[x]
                           /\ \A y \in Codes \ {x} : half'[y] = half[y]
    BY <1>7 DEF TakesCode
  <2>2. InSlot(q)' \subseteq InCode(x) /\ InCode(x)' = {}
    BY <2>1 DEF InCode, InSlot
  <2>3. \A y \in Codes \ {x} : InCode(y)' \subseteq InCode(y)
    BY <2>1 DEF InCode
  <2> QED BY <1>0, <1>1, <1>2, <1>7, <2>2, <2>3 DEF RowInv
<1>8. CASE TakesFresh(q) /\ SessionsShrink /\ CodesShrink
  <2>1. InSlot(q)' \subseteq Issued' \ Issued
    BY <1>8 DEF TakesFresh, InSlot, Issued
  <2> QED BY <1>0, <1>1, <1>2, <1>3, <1>8, <2>1 DEF RowInv
<1> QED BY <1>4, <1>5, <1>6, <1>7, <1>8 DEF RowEffect

------------------------------------------------------------------------------
(* Each action's effect *)

\* A row FreshRow offers was not issued before.
LEMMA FreshRowUnissued == \A r \in FreshRow : r \in Rows /\ rows[r] = "unissued"
BY DEF FreshRow

\* A request that starts afresh carries no set.
LEMMA ArrivingSlot ==
    ASSUME Shape, NEW q \in Requests, NEW l, l \notin Carrying, NEW r, "set" \in DOMAIN r,
           pc' = [pc EXCEPT ![q] = l], req' = [req EXCEPT ![q] = r]
    PROVE  SlotEffect(q) /\ SlotKeeps(q) /\ pc'[q] = l
BY DEF Shape, SlotEffect, SlotKeeps

\* The grant's steps from the redeemed code on: the set goes into a new session.
LEMMA GrantRows ==
    ASSUME Shape, NEW q \in Requests, GrantStep(q), UNCHANGED half
    PROVE  SlotEffect(q) /\ RowEffect(q) /\ upstream' = [u \in SessionIds |-> upstream'[u]]
           /\ UNCHANGED rows
<1>0. Sweep(upstream) = [u \in SessionIds |-> Sweep(upstream)[u]]
      /\ \A u \in SessionIds : Sweep(upstream)[u] \in {upstream[u], None}
  BY DEF Shape, Sweep
<1>1. CASE SweepExpired(q)
  <2>1. SlotEffect(q) /\ SlotKeeps(q)
    BY <1>1 DEF Shape, SweepExpired, SlotEffect, SlotKeeps, Carrying, Goto
  <2> QED BY <1>0, <1>1, <2>1
      DEF SweepExpired, RowEffect, SessionsShrink, CodesShrink
<1>2. CASE PurgeSweptTokens(q) \/ PurgeSweptRefresh(q) \/ SpawnRevocations(q)
  <2>1. SlotEffect(q) /\ SlotKeeps(q) /\ UNCHANGED <<upstream, rows>>
    BY <1>2 DEF Shape, PurgeSweptTokens, PurgeSweptRefresh, SpawnRevocations, SlotEffect,
                SlotKeeps, Carrying, Goto, stores
  <2> QED BY <2>1 DEF Shape, RowEffect, SessionsShrink, CodesShrink
<1>3. CASE InsertSession(q)
  <2>1. PICK u \in Fresh(SessionIds) :
          /\ upstream' = [Sweep(upstream) EXCEPT
                            ![u] = [set |-> req[q].set, exp |-> Deadline(req[q].set)]]
          /\ req' = [req EXCEPT ![q].sid = u, ![q].ttl = Remaining(req[q].set.access_exp)]
    BY <1>3 DEF InsertSession
  <2>2. u \in SessionIds /\ pc[q] = "insert" /\ pc' = [pc EXCEPT ![q] = "mint_at"] /\ rows' = rows
    BY <1>3 DEF InsertSession, Fresh, Goto
  <2>3. SlotEffect(q) /\ pc'[q] = "mint_at"
    BY <2>1, <2>2 DEF Shape, SlotEffect
  <2>4. /\ upstream'[u].set = req[q].set
        /\ \A v \in SessionIds \ {u} : upstream'[v] \in {upstream[v], None}
        /\ upstream' = [v \in SessionIds |-> upstream'[v]]
    BY <1>0, <2>1, <2>2
  <2> QED BY <2>2, <2>3, <2>4 DEF RowEffect, StoresSession, CodesShrink, Carrying
<1>4. CASE InsertSessionFails(q)
  <2>1. SlotEffect(q) /\ SlotKeeps(q) /\ rows' = rows
    BY <1>4 DEF Shape, InsertSessionFails, SlotEffect, SlotKeeps, Carrying, Reply, NoLocals
  <2> QED BY <1>0, <1>4, <2>1
      DEF Shape, InsertSessionFails, RowEffect, SessionsShrink, CodesShrink
<1> QED BY <1>1, <1>2, <1>3, <1>4 DEF GrantStep

\* Minting reads and writes neither sessions nor codes.
LEMMA MintRows ==
    ASSUME Shape, NEW q \in Requests, MintStep(q), UNCHANGED half
    PROVE  SlotEffect(q) /\ RowEffect(q) /\ UNCHANGED <<upstream, rows>>
<1>1. SlotEffect(q) /\ SlotKeeps(q) /\ UNCHANGED <<upstream, rows>>
  BY DEF Shape, MintStep, MintAccess, MintRefresh, MintFails, AfterMint, SlotEffect, SlotKeeps,
         Carrying, Goto
<1> QED BY <1>1 DEF RowEffect, SessionsShrink, CodesShrink

\* A refresh replaces a live session's set by the one Doorkeeper just issued.
LEMMA RefreshRows ==
    ASSUME Shape, NEW q \in Requests, RefreshStep(q), UNCHANGED half
    PROVE  SlotEffect(q) /\ RowEffect(q) /\ upstream' = [u \in SessionIds |-> upstream'[u]]
           /\ rows' = [r \in Rows |-> rows'[r]]
<1>1. CASE LookupRetired(q) \/ ReadSecret(q) \/ ReadScopes(q) \/ DropGuard(q) \/ Discard(q)
           \/ RetireCurrent(q) \/ RememberRetired(q)
  <2>1. SlotEffect(q) /\ SlotKeeps(q) /\ UNCHANGED <<upstream, rows>>
    BY <1>1 DEF Shape, LookupRetired, ReadSecret, ReadScopes, DropGuard, Discard, RetireCurrent,
                RememberRetired, SendPair, SlotEffect, SlotKeeps, Carrying, Goto, Reply, NoLocals,
                stores
  <2> QED BY <2>1 DEF Shape, RowEffect, SessionsShrink, CodesShrink
<1>2. CASE UpstreamRefreshed(q)
  <2>1. PICK r \in FreshRow, wants \in BOOLEAN, scopes \in {"granted", req[q].set.scopes} :
          /\ Rotate(req[q].set.row, r)
          /\ req' = [req EXCEPT
               ![q].set = [row |-> r, refresh |-> wants, scopes |-> scopes,
                           access_exp |-> now + EXPIRES_IN],
               ![q].ttl = EXPIRES_IN]
    BY <1>2 DEF UpstreamRefreshed
  <2>2. r \in Rows /\ rows[r] = "unissued"
    BY FreshRowUnissued
  <2>3. pc' = [pc EXCEPT ![q] = "replace"] /\ upstream' = upstream
    BY <1>2 DEF UpstreamRefreshed, Goto, stores
  <2>4. SlotEffect(q) /\ req'[q].set.row = r
    BY <2>1, <2>3 DEF Shape, SlotEffect
  <2>5. /\ rows' = [s \in Rows |-> rows'[s]] /\ rows'[r] = "live"
        /\ \A s \in Rows : rows[s] # "unissued" => rows'[s] # "unissued"
    BY <2>1, <2>2 DEF Shape, Rotate
  <2> QED BY <2>2, <2>3, <2>4, <2>5
      DEF Shape, RowEffect, TakesFresh, SessionsShrink, CodesShrink
<1>3. CASE UpstreamRefreshFails(q)
  <2>1. SlotEffect(q) /\ SlotKeeps(q) /\ upstream' = upstream
    BY <1>3 DEF Shape, UpstreamRefreshFails, SlotEffect, SlotKeeps, Carrying, Goto, stores
  <2>2. /\ rows' = [s \in Rows |-> rows'[s]]
        /\ \A s \in Rows : rows[s] # "unissued" => rows'[s] # "unissued"
    BY <1>3 DEF Shape, UpstreamRefreshFails, UpstreamUnanswered, Rotate
  <2> QED BY <2>1, <2>2 DEF Shape, RowEffect, SessionsShrink, CodesShrink
<1>4. CASE Replace(q)
  <2>1. pc[q] = "replace" /\ req' = req /\ rows' = rows
    BY <1>4 DEF Replace
  <2>2. CASE UNCHANGED upstream /\ Goto(q, "discard_revoke")
    <3>1. SlotEffect(q) /\ SlotKeeps(q)
      BY <2>1, <2>2 DEF Shape, SlotEffect, SlotKeeps, Carrying, Goto
    <3> QED BY <2>1, <2>2, <3>1 DEF Shape, RowEffect, SessionsShrink, CodesShrink
  <2>3. CASE /\ upstream' = [upstream EXCEPT
                   ![req[q].sid] = [set |-> req[q].set, exp |-> Deadline(req[q].set)]]
             /\ Goto(q, "mint_at")
    <3>1. SlotEffect(q) /\ pc'[q] = "mint_at"
      BY <2>1, <2>3 DEF Shape, SlotEffect, Goto
    <3>2. upstream' = [u \in SessionIds |-> upstream'[u]]
      BY <2>3 DEF Shape
    <3>3. CASE req[q].sid \in SessionIds
      <4>1. StoresSession(q)
        BY <2>1, <2>3, <3>1, <3>3 DEF Shape, StoresSession, Carrying
      <4> QED BY <2>1, <3>1, <3>2, <4>1 DEF Shape, RowEffect, CodesShrink
    <3>4. CASE req[q].sid \notin SessionIds
      <4>1. SessionsShrink /\ SlotKeeps(q)
        BY <2>3, <3>1, <3>4 DEF Shape, SessionsShrink, SlotKeeps, Carrying
      <4> QED BY <2>1, <3>1, <3>2, <4>1 DEF Shape, RowEffect, CodesShrink
    <3> QED BY <3>3, <3>4
  <2> QED BY <1>4, <2>2, <2>3 DEF Replace
<1> QED BY <1>1, <1>2, <1>3, <1>4 DEF RefreshStep

\* Taking a session down, calls and arrivals put no row anywhere.
LEMMA OtherRows ==
    ASSUME Shape, NEW q \in Requests, TakeStep(q) \/ CallStep(q) \/ ClientStep(q), UNCHANGED half
    PROVE  SlotEffect(q) /\ RowEffect(q) /\ upstream' = [u \in SessionIds |-> upstream'[u]]
           /\ rows' = [r \in Rows |-> rows'[r]]
<1>1. CASE TakeSession(q)
  <2>1. SlotEffect(q) /\ SlotKeeps(q) /\ rows' = rows
    BY <1>1 DEF Shape, TakeSession, SlotEffect, SlotKeeps, Carrying, Goto, Reply, NoLocals
  <2>2. SessionsShrink /\ upstream' = [u \in SessionIds |-> upstream'[u]]
    BY <1>1 DEF Shape, TakeSession, SessionsShrink
  <2> QED BY <2>1, <2>2 DEF Shape, RowEffect, CodesShrink
<1>2. CASE TakeTokens(q) \/ TakeRefresh(q) \/ CallStep(q)
  <2>1. SlotEffect(q) /\ SlotKeeps(q) /\ UNCHANGED <<upstream, rows>>
    BY <1>2
       DEF Shape, TakeTokens, TakeRefresh, CallStep, ReadAccess, VerifyUpstream, RunHandler,
                SlotEffect, SlotKeeps, Carrying, Goto, Reply, NoLocals, stores
  <2> QED BY <2>1 DEF Shape, RowEffect, SessionsShrink, CodesShrink
<1>3. CASE RevokeUpstream(q) \/ RevokeCancelled(q) \/ RefreshCancelled(q)
  <2>1. SlotEffect(q) /\ SlotKeeps(q) /\ upstream' = upstream
    BY <1>3 DEF Shape, RevokeUpstream, RevokeCancelled, RefreshCancelled, SlotEffect, SlotKeeps,
                Carrying, Goto, Reply, NoLocals, stores
  <2>2. /\ rows' = [s \in Rows |-> rows'[s]]
        /\ \A s \in Rows : rows[s] # "unissued" => rows'[s] # "unissued"
    <3>1. CASE RevokeUpstream(q) \/ RevokeCancelled(q)
      BY <3>1 DEF Shape, RevokeUpstream, RevokeCancelled, Revoked, Asked
    <3>2. CASE RefreshCancelled(q)
      BY <3>2 DEF Shape, RefreshCancelled, UpstreamUnanswered, Rotate
    <3> QED BY <1>3, <3>1, <3>2
  <2> QED BY <2>1, <2>2 DEF Shape, RowEffect, SessionsShrink, CodesShrink
<1>4. CASE RedeemRefresh(q) \/ RevokeAccess(q) \/ RevokeRefresh(q) \/ ResolveAccess(q)
  <2>1. SlotEffect(q) /\ SlotKeeps(q) /\ UNCHANGED <<upstream, rows>>
    <3>1. CASE RedeemRefresh(q)
      <4> DEFINE Base(k) == [NoLocals EXCEPT !.kind = "refresh", !.tok = k,
                                             !.late = SessionGone(current[k])]
      <4>1. PICK k \in RefreshTokens, c \in Clients :
              \/ req' = [req EXCEPT ![q] = Base(k)] /\ Goto(q, "retired?")
              \/ /\ req' = [req EXCEPT ![q] = [Base(k) EXCEPT !.sid = current[k].sid,
                                                              !.after = "revoke"]]
                 /\ Goto(q, "take")
              \/ /\ req' = [req EXCEPT ![q] = [Base(k) EXCEPT !.sid = current[k].sid,
                                                              !.client = current[k].client]]
                 /\ Goto(q, IF c = current[k].client THEN "secret" ELSE "guard")
        BY <3>1 DEF RedeemRefresh
      <4>2. "set" \in DOMAIN Base(k)
        BY DEF NoLocals
      <4> HIDE DEF Base
      <4>3. \A v, w : "set" \in DOMAIN [Base(k) EXCEPT !.sid = v, !.after = w]
                      /\ "set" \in DOMAIN [Base(k) EXCEPT !.sid = v, !.client = w]
        BY <4>2
      <4>4. PICK l, r : /\ pc' = [pc EXCEPT ![q] = l] /\ req' = [req EXCEPT ![q] = r]
                        /\ l \in {"retired?", "take", "secret", "guard"} /\ "set" \in DOMAIN r
        <5>1. CASE req' = [req EXCEPT ![q] = Base(k)] /\ Goto(q, "retired?")
          BY <4>2, <5>1 DEF Goto
        <5>2. CASE /\ req' = [req EXCEPT ![q] = [Base(k) EXCEPT !.sid = current[k].sid,
                                                              !.after = "revoke"]]
                   /\ Goto(q, "take")
          BY <4>3, <5>2 DEF Goto
        <5>3. CASE /\ req' = [req EXCEPT ![q] = [Base(k) EXCEPT !.sid = current[k].sid,
                                                              !.client = current[k].client]]
                   /\ Goto(q, IF c = current[k].client THEN "secret" ELSE "guard")
          BY <4>3, <5>3 DEF Goto
        <5> QED BY <4>1, <5>1, <5>2, <5>3
      <4> QED BY <3>1, <4>4, ArrivingSlot DEF RedeemRefresh, Carrying
    <3>2. CASE RevokeAccess(q) \/ RevokeRefresh(q)
      <4>1. PICK k, sid :
              /\ req' = [req EXCEPT ![q] = [NoLocals EXCEPT !.kind = "revoke", !.tok = k,
                                              !.sid = sid, !.after = "revoke"]]
              /\ Goto(q, "take")
        BY <3>2 DEF RevokeAccess, RevokeRefresh
      <4>2. "set" \in DOMAIN [NoLocals EXCEPT !.kind = "revoke", !.tok = k, !.sid = sid,
                                              !.after = "revoke"]
        BY DEF NoLocals
      <4> QED BY <3>2, <4>1, <4>2, ArrivingSlot DEF RevokeAccess, RevokeRefresh, Goto, Carrying
    <3>3. CASE ResolveAccess(q)
      <4>1. CASE UNCHANGED <<pc, req>>
        BY <3>3, <4>1 DEF Shape, ResolveAccess, SlotEffect, SlotKeeps
      <4>2. ASSUME NEW t \in AccessTokens, Goto(q, "session?"),
                   req' = [req EXCEPT ![q] = [NoLocals EXCEPT !.kind = "call", !.tok = t,
                             !.sid = tokens[t].sid, !.late = SessionGone(tokens[t])]]
            PROVE  SlotEffect(q) /\ SlotKeeps(q)
        <5>1. "set" \in DOMAIN [NoLocals EXCEPT !.kind = "call", !.tok = t,
                             !.sid = tokens[t].sid, !.late = SessionGone(tokens[t])]
          BY DEF NoLocals
        <5> QED BY <4>2, <5>1, ArrivingSlot DEF Goto, Carrying
      <4> QED BY <3>3, <4>1, <4>2 DEF ResolveAccess
    <3> QED BY <1>4, <3>1, <3>2, <3>3
  <2> QED BY <2>1 DEF Shape, RowEffect, SessionsShrink, CodesShrink
<1> QED BY <1>1, <1>2, <1>3, <1>4 DEF TakeStep, ClientStep

\* The session half never enters the code half's labels.
LEMMA CodeLabels ==
    ASSUME Shape, NEW q \in Requests, HandlerStep(q) \/ ClientStep(q)
    PROVE  pc'[q] \notin CodePCs \/ pc'[q] = pc[q]
<1>1. CASE GrantStep(q) \/ MintStep(q) \/ TakeStep(q) \/ CallStep(q)
  BY <1>1
     DEF Shape, GrantStep, SweepExpired, PurgeSweptTokens, PurgeSweptRefresh, SpawnRevocations,
       InsertSession, InsertSessionFails, MintStep, MintAccess, MintRefresh, MintFails, AfterMint,
       TakeStep, TakeSession, TakeTokens, TakeRefresh, RevokeUpstream, CallStep, ReadAccess,
       VerifyUpstream, RunHandler, Reply, Goto, CodePCs
<1>2. CASE RefreshStep(q)
  BY <1>2 DEF Shape, RefreshStep, LookupRetired, ReadSecret, ReadScopes, UpstreamRefreshed,
       UpstreamRefreshFails, DropGuard, Discard, Replace, RetireCurrent, RememberRetired,
       SendPair, Reply, Goto, CodePCs
<1>3. CASE ClientStep(q)
  BY <1>3 DEF Shape, ClientStep, RedeemRefresh, RevokeAccess, RevokeRefresh, ResolveAccess,
       RevokeCancelled, RefreshCancelled, Reply, Goto, CodePCs
<1> QED BY <1>1, <1>2, <1>3 DEF HandlerStep

\* The session half's steps inside AuthCode.
LEMMA SessionStepsRows ==
    ASSUME Shape, RowInv, SessionSteps
    PROVE  Shape' /\ RowInv'
<1>0. UNCHANGED half /\ code' = [q \in Requests |-> IF pc'[q] = "idle" THEN None ELSE code[q]]
  BY DEF SessionSteps, codeStores
<1>1. ASSUME NEW q \in Requests, HandlerStep(q) \/ ClientStep(q) PROVE Shape' /\ RowInv'
  <2>1. SlotEffect(q) /\ RowEffect(q) /\ upstream' = [u \in SessionIds |-> upstream'[u]]
        /\ rows' = [r \in Rows |-> rows'[r]]
    BY <1>0, <1>1, GrantRows, MintRows, RefreshRows, OtherRows DEF HandlerStep, Shape
  <2>2. pc'[q] \notin {"consumed?", "unpend", "take_half"} \/ pc'[q] = pc[q]
    BY <1>1, CodeLabels DEF CodePCs
  <2>3. Shape'
    BY <1>0, <2>1, <2>2 DEF Shape, SlotEffect
  <2> QED BY <2>1, <2>3, RowsKeptApart
<1>2. CASE RevokeInBackground
  <2>1. UNCHANGED <<upstream, pc, req>>
        /\ rows' = [s \in Rows |-> rows'[s]]
        /\ \A s \in Rows : rows[s] # "unissued" => rows'[s] # "unissued"
    BY <1>2 DEF Shape, RevokeInBackground, Revoked, Asked, stores
  <2>2. RowInv'
    BY <1>0, <2>1 DEF RowInv, Issued, InSession, InCode, InSlot
  <2> QED BY <1>0, <2>1, <2>2 DEF Shape
<1>3. CASE Tick
  BY <1>0, <1>3 DEF Tick, stores, Shape, RowInv, Issued, InSession, InCode, InSlot
<1> QED BY <1>1, <1>2, <1>3 DEF SessionSteps

\* GET /auth/callback: the exchanged set goes into a fresh code.
LEMMA CallbackRows ==
    ASSUME Shape, NEW q \in Requests,
           TakeTransaction(q) \/ Exchanged(q) \/ ExchangeFails(q) \/ MintCode(q) \/ MintCodeFails(q)
    PROVE  /\ SlotEffect(q) /\ RowEffect(q) /\ UNCHANGED <<upstream, code>>
           /\ rows' = [r \in Rows |-> rows'[r]] /\ half' = [x \in Codes |-> half'[x]]
           /\ pc'[q] \notin {"consumed?", "unpend", "take_half"}
<1>1. CASE TakeTransaction(q)
  <2>1. \/ UNCHANGED <<pc, req>>
        \/ \E r : /\ pc' = [pc EXCEPT ![q] = "exchange"] /\ req' = [req EXCEPT ![q] = r]
                  /\ "set" \in DOMAIN r
    BY <1>1 DEF TakeTransaction, Goto, NoLocals
  <2>2. pc[q] = "idle" /\ UNCHANGED <<upstream, rows, half, code>>
    BY <1>1 DEF TakeTransaction, stores
  <2>3. SlotEffect(q) /\ SlotKeeps(q) /\ pc'[q] \in {"idle", "exchange"}
    BY <2>1, <2>2 DEF Shape, SlotEffect, SlotKeeps, Carrying
  <2> QED BY <2>2, <2>3 DEF Shape, RowEffect, SessionsShrink, CodesShrink, Carrying
<1>2. CASE Exchanged(q)
  <2>1. PICK r \in FreshRow, wants \in BOOLEAN :
          /\ rows' = [rows EXCEPT ![r] = "live"]
          /\ req' = [req EXCEPT ![q].set = [row |-> r, refresh |-> wants, scopes |-> "granted",
                                            access_exp |-> now + EXPIRES_IN]]
    BY <1>2 DEF Exchanged
  <2>2. r \in Rows /\ rows[r] = "unissued"
    BY FreshRowUnissued
  <2>3. pc' = [pc EXCEPT ![q] = "mint_code"] /\ UNCHANGED <<upstream, half, code>>
    BY <1>2 DEF Exchanged, Goto, stores, codeVars, codeStores
  <2>4. SlotEffect(q) /\ req'[q].set.row = r /\ pc'[q] = "mint_code"
    BY <2>1, <2>3 DEF Shape, SlotEffect
  <2>5. /\ rows' = [s \in Rows |-> rows'[s]] /\ rows'[r] = "live"
        /\ \A s \in Rows : rows[s] # "unissued" => rows'[s] # "unissued"
    BY <2>1, <2>2 DEF Shape
  <2> QED BY <2>2, <2>3, <2>4, <2>5
      DEF Shape, RowEffect, TakesFresh, SessionsShrink, CodesShrink
<1>3. CASE ExchangeFails(q)
  <2>1. SlotEffect(q) /\ SlotKeeps(q) /\ pc'[q] = "idle" /\ UNCHANGED <<upstream, half, code>>
    BY <1>3 DEF Shape, ExchangeFails, SlotEffect, SlotKeeps, Carrying, Reply, NoLocals, stores,
                codeVars, codeStores
  <2>2. /\ rows' = [s \in Rows |-> rows'[s]]
        /\ \A s \in Rows : rows[s] # "unissued" => rows'[s] # "unissued"
    BY <1>3 DEF Shape, ExchangeFails
  <2> QED BY <2>1, <2>2 DEF Shape, RowEffect, SessionsShrink, CodesShrink, Carrying
<1>4. CASE MintCode(q)
  <2>1. PICK x \in Draw(Codes) : half' = [half EXCEPT ![x] = req[q].set]
    BY <1>4 DEF MintCode
  <2>2. x \in Codes
    BY DEF Draw
  <2>3. pc[q] = "mint_code" /\ UNCHANGED <<upstream, rows, code>>
    BY <1>4 DEF MintCode, stores
  <2>4. SlotEffect(q) /\ pc'[q] = "idle"
    BY <1>4 DEF Shape, MintCode, SlotEffect, Reply, NoLocals
  <2>5. /\ half' = [y \in Codes |-> half'[y]] /\ half'[x] = req[q].set
        /\ \A y \in Codes \ {x} : half'[y] = half[y]
    BY <2>1, <2>2 DEF Shape
  <2> QED BY <2>2, <2>3, <2>4, <2>5 DEF Shape, RowEffect, StoresCode, SessionsShrink, Carrying
<1>5. CASE MintCodeFails(q)
  <2>1. SlotEffect(q) /\ SlotKeeps(q) /\ pc'[q] = "idle" /\ UNCHANGED <<upstream, rows, half, code>>
    BY <1>5 DEF Shape, MintCodeFails, SlotEffect, SlotKeeps, Carrying, Reply, NoLocals, stores
  <2> QED BY <2>1 DEF Shape, RowEffect, SessionsShrink, CodesShrink, Carrying
<1> QED BY <1>1, <1>2, <1>3, <1>4, <1>5

\* POST /token: whoever removes the set from `half` carries it on.
LEMMA RedeemRows ==
    ASSUME Shape, NEW q \in Requests,
           RedeemCode(q) \/ LookupConsumed(q) \/ RemovePending(q) \/ TakeHalf(q)
           \/ MarkConsumed(q) \/ DeleteReplayedAccess(q) \/ DeleteReplayedRefresh(q)
    PROVE  /\ SlotEffect(q) /\ RowEffect(q) /\ UNCHANGED <<upstream, rows>>
           /\ half' = [x \in Codes |-> half'[x]] /\ code' = [p \in Requests |-> code'[p]]
           /\ \A p \in Requests \ {q} : code'[p] = code[p]
           /\ pc'[q] \in {"consumed?", "unpend", "take_half"} => code'[q] \in Codes
<1>1. CASE RedeemCode(q)
  <2>1. PICK x \in Codes, c \in Clients, l \in {"consumed?", "unpend"} :
          /\ code' = [code EXCEPT ![q] = x]
          /\ pc' = [pc EXCEPT ![q] = l]
          /\ req' = [req EXCEPT ![q] = [NoLocals EXCEPT !.kind = "grant", !.client = c]]
    BY <1>1 DEF RedeemCode, Goto
  <2>a. "set" \in DOMAIN [NoLocals EXCEPT !.kind = "grant", !.client = c]
    BY DEF NoLocals
  <2>2. UNCHANGED <<upstream, rows, half>>
    BY <1>1 DEF RedeemCode, stores
  <2>3. SlotEffect(q) /\ SlotKeeps(q)
    BY <2>1, <2>a, ArrivingSlot DEF Carrying
  <2> QED BY <2>1, <2>2, <2>3 DEF Shape, RowEffect, SessionsShrink, CodesShrink
<1>2. CASE LookupConsumed(q) \/ MarkConsumed(q)
  <2>1. pc'[q] \in {"replay_at", "idle"} /\ SlotEffect(q) /\ SlotKeeps(q)
    BY <1>2 DEF Shape, LookupConsumed, MarkConsumed, CodeReply, SendPair, Goto, Reply, NoLocals,
                SlotEffect, SlotKeeps, Carrying
  <2>2. UNCHANGED <<upstream, rows, half>> /\ code' = [p \in Requests |-> code'[p]]
        /\ \A p \in Requests \ {q} : code'[p] = code[p]
    BY <1>2 DEF Shape, LookupConsumed, MarkConsumed, CodeReply, stores, codeStores
  <2> QED BY <2>1, <2>2 DEF Shape, RowEffect, SessionsShrink, CodesShrink
<1>3. CASE RemovePending(q) \/ DeleteReplayedAccess(q) \/ DeleteReplayedRefresh(q)
  <2>1. SlotEffect(q) /\ SlotKeeps(q) /\ UNCHANGED <<upstream, rows, half, code>>
    BY <1>3 DEF Shape, RemovePending, DeleteReplayedAccess, DeleteReplayedRefresh, Goto,
                SlotEffect, SlotKeeps, Carrying, stores, codeVars, codeStores
  <2>2. pc'[q] \in {"take", "replay_rt"} \/ (pc'[q] = "take_half" /\ pc[q] = "unpend")
    BY <1>3 DEF Shape, RemovePending, DeleteReplayedAccess, DeleteReplayedRefresh, Goto
  <2> QED BY <2>1, <2>2 DEF Shape, RowEffect, SessionsShrink, CodesShrink
<1>4. CASE TakeHalf(q)
  <2>1. pc[q] = "take_half" /\ UNCHANGED <<upstream, rows>> /\ code[q] \in Codes
    BY <1>4 DEF Shape, TakeHalf, stores
  <2>2. CASE half[code[q]] = None
    <3>1. SlotEffect(q) /\ SlotKeeps(q) /\ UNCHANGED half /\ pc'[q] = "idle"
          /\ code' = [p \in Requests |-> code'[p]] /\ \A p \in Requests \ {q} : code'[p] = code[p]
      BY <1>4, <2>2
         DEF Shape, TakeHalf, CodeReply, Reply, NoLocals, SlotEffect, SlotKeeps, Carrying
    <3> QED BY <2>1, <3>1 DEF Shape, RowEffect, SessionsShrink, CodesShrink
  <2>3. CASE half[code[q]] # None
    <3>1. /\ pc' = [pc EXCEPT ![q] = "sweep"] /\ req' = [req EXCEPT ![q].set = half[code[q]]]
          /\ half' = [half EXCEPT ![code[q]] = None] /\ code' = code
      BY <1>4, <2>3 DEF TakeHalf, Goto
    <3>2. SlotEffect(q) /\ req'[q].set = half[code[q]] /\ pc'[q] = "sweep"
      BY <3>1 DEF Shape, SlotEffect
    <3>3. /\ half' = [y \in Codes |-> half'[y]] /\ half'[code[q]] = None
          /\ \A y \in Codes \ {code[q]} : half'[y] = half[y]
      BY <2>1, <3>1 DEF Shape
    <3>4. TakesCode(q)
      BY <2>1, <2>3, <3>2, <3>3 DEF TakesCode, Carrying
    <3> QED BY <2>1, <3>1, <3>2, <3>3, <3>4 DEF Shape, RowEffect, SessionsShrink
  <2> QED BY <2>2, <2>3
<1> QED BY <1>1, <1>2, <1>3, <1>4

\* Every step of AuthCode keeps the rows apart.
LEMMA RowNext == Shape /\ RowInv /\ [AuthNext]_authVars => Shape' /\ RowInv'
<1> SUFFICES ASSUME Shape, RowInv, [AuthNext]_authVars PROVE Shape' /\ RowInv'
  OBVIOUS
<1>1. ASSUME NEW q \in Requests, CodeSteps(q) PROVE Shape' /\ RowInv'
  <2>1. SlotEffect(q) /\ RowEffect(q)
    BY <1>1, CallbackRows, RedeemRows DEF CodeSteps
  <2>2. CASE TakeTransaction(q) \/ Exchanged(q) \/ ExchangeFails(q) \/ MintCode(q) \/ MintCodeFails(q)
    BY <2>1, <2>2, CallbackRows, RowsKeptApart DEF Shape, SlotEffect
  <2>3. CASE RedeemCode(q) \/ LookupConsumed(q) \/ RemovePending(q) \/ TakeHalf(q)
             \/ MarkConsumed(q) \/ DeleteReplayedAccess(q) \/ DeleteReplayedRefresh(q)
    <3>1. /\ UNCHANGED <<upstream, rows>>
          /\ half' = [x \in Codes |-> half'[x]] /\ code' = [p \in Requests |-> code'[p]]
          /\ \A p \in Requests \ {q} : code'[p] = code[p]
          /\ pc'[q] \in {"consumed?", "unpend", "take_half"} => code'[q] \in Codes
      BY <2>3, RedeemRows
    <3>2. Shape'
      BY <2>1, <3>1 DEF Shape, SlotEffect
    <3> QED BY <2>1, <3>2, RowsKeptApart
  <2> QED BY <1>1, <2>2, <2>3 DEF CodeSteps
<1>2. CASE Authorize
  BY <1>2 DEF Authorize, vars, stores, Shape, RowInv, Issued, InSession, InCode, InSlot
<1>3. CASE UNCHANGED authVars
  BY <1>3
     DEF authVars, codeVars, codeStores, vars, stores, Shape, RowInv, Issued, InSession, InCode,
              InSlot
<1> QED BY <1>1, <1>2, <1>3, SessionStepsRows DEF AuthNext

\* Before the first request no row is issued.
LEMMA RowInit == AuthInit => Shape /\ RowInv
BY DEF AuthInit, Init, NoLocals, Shape, RowInv, Issued, InSession, InCode, InSlot, Carrying

\* However many redemptions of a code pass its checks together, and however they
\* interleave with refreshes, revocations, sweeps and replays, the token set behind it
\* ends behind one session at most (CodeStore::redeem, UpstreamStore::replace).
THEOREM OneSessionPerCode == AuthSpec => []CodeYieldsOneSession
<1>1. RowInv => CodeYieldsOneSession
  BY DEF RowInv, CodeYieldsOneSession, InSession, InCode
<1> QED BY <1>1, RowInit, RowNext, PTL DEF AuthSpec

------------------------------------------------------------------------------
(* A replay after the answer is caught *)

\* What a handler at label l knows of the pair it mints.
PairOK(l, r) ==
    /\ {"kind", "sid", "at", "rt"} \subseteq DOMAIN r
    /\ r.rt \in RefreshTokens \cup {None}
    /\ l \in {"secret", "scopes", "await_refresh", "replace"} => r.kind = "refresh"
    /\ l \in {"mint_at", "mint_rt"} /\ r.kind = "grant" => r.sid \in SessionIds
    /\ l \in {"mint_rt", "mark"} => r.at \in AccessTokens
    /\ l = "mark" => r.sid \in SessionIds

\* A code answered within CODE_TTL has its record, in time for as long.
ReplayInv ==
    /\ now \in Nat /\ answered \in [Codes -> Nat]
    /\ consumed \in [Codes -> ConsumedRecord \cup {None}]
    /\ \A q \in Requests : PairOK(pc[q], req[q])
    /\ \A x \in Codes : answered[x] > now => consumed[x] # None /\ consumed[x].exp >= answered[x]

\* An empty slot knows nothing.
LEMMA NoPair == PairOK("idle", NoLocals) /\ "set" \in DOMAIN NoLocals
BY DEF PairOK, NoLocals

\* A slot's step keeps the others' pairs.
LEMMA PairSlots ==
    ASSUME Shape, ReplayInv, NEW q \in Requests, SlotEffect(q), PairOK(pc'[q], req'[q])
    PROVE  \A p \in Requests : PairOK(pc'[p], req'[p])
<1>1. \A p \in Requests \ {q} : pc'[p] = pc[p] /\ req'[p] = req[p]
  BY DEF Shape, SlotEffect
<1> QED BY <1>1 DEF ReplayInv

\* The session half mints its pairs for the session it stored.
LEMMA SessionPairs ==
    ASSUME Shape, ReplayInv, NEW q \in Requests, HandlerStep(q) \/ ClientStep(q)
    PROVE  PairOK(pc'[q], req'[q]) /\ pc[q] \notin CodePCs
<1>0. PairOK(pc[q], req[q])
  BY DEF ReplayInv
<1>1. CASE SweepExpired(q) \/ PurgeSweptTokens(q) \/ PurgeSweptRefresh(q) \/ SpawnRevocations(q)
  BY <1>0, <1>1 DEF Shape, PairOK, SweepExpired, PurgeSweptTokens, PurgeSweptRefresh,
       SpawnRevocations, Goto, CodePCs
<1>2. CASE InsertSession(q)
  <2>1. PICK u \in Fresh(SessionIds) :
          req' = [req EXCEPT ![q].sid = u, ![q].ttl = Remaining(req[q].set.access_exp)]
    BY <1>2 DEF InsertSession
  <2>2. u \in SessionIds /\ pc[q] = "insert" /\ pc'[q] = "mint_at"
    BY <1>2 DEF Shape, InsertSession, Fresh, Goto
  <2> QED BY <1>0, <2>1, <2>2 DEF Shape, PairOK, CodePCs
<1>3. CASE InsertSessionFails(q) \/ VerifyUpstream(q) \/ RunHandler(q) \/ RevokeUpstream(q)
           \/ RevokeCancelled(q) \/ RememberRetired(q) \/ DropGuard(q)
  BY <1>0, <1>3, NoPair
     DEF Shape, PairOK, InsertSessionFails, VerifyUpstream, RunHandler, RevokeUpstream,
       RevokeCancelled, RememberRetired, DropGuard, SendPair, Reply, Goto, CodePCs
<1>4. CASE MintAccess(q)
  <2>1. PICK t \in Fresh(AccessTokens) : req' = [req EXCEPT ![q].at = t]
    BY <1>4 DEF MintAccess
  <2>2. t \in AccessTokens /\ pc[q] = "mint_at"
        /\ pc'[q] = IF req[q].set.refresh THEN "mint_rt" ELSE AfterMint(q)
    BY <1>4 DEF Shape, MintAccess, Fresh, Goto
  <2> QED BY <1>0, <2>1, <2>2 DEF Shape, PairOK, AfterMint, CodePCs
<1>5. CASE MintRefresh(q)
  <2>1. PICK k \in Fresh(RefreshTokens) : req' = [req EXCEPT ![q].rt = k]
    BY <1>5 DEF MintRefresh
  <2>2. k \in RefreshTokens /\ pc[q] = "mint_rt" /\ pc'[q] = AfterMint(q)
    BY <1>5 DEF Shape, MintRefresh, Fresh, Goto
  <2> QED BY <1>0, <2>1, <2>2 DEF Shape, PairOK, AfterMint, CodePCs
<1>6. CASE MintFails(q) \/ RefreshCancelled(q) \/ Replace(q) \/ RetireCurrent(q) \/ TakeTokens(q)
  BY <1>0, <1>6
     DEF Shape, PairOK, MintFails, RefreshCancelled, Replace, RetireCurrent, TakeTokens,
       Goto, CodePCs
<1>7. CASE LookupRetired(q) \/ Discard(q) \/ TakeSession(q) \/ TakeRefresh(q) \/ ReadAccess(q)
  BY <1>0, <1>7, NoPair
     DEF Shape, PairOK, LookupRetired, Discard, TakeSession, TakeRefresh, ReadAccess,
       Reply, Goto, CodePCs
<1>8. CASE ReadSecret(q) \/ ReadScopes(q) \/ UpstreamRefreshFails(q)
  BY <1>0, <1>8 DEF Shape, PairOK, ReadSecret, ReadScopes, UpstreamRefreshFails, Goto, CodePCs
<1>9. CASE UpstreamRefreshed(q)
  BY <1>0, <1>9 DEF Shape, PairOK, UpstreamRefreshed, Goto, CodePCs
<1>10. CASE RedeemRefresh(q)
  <2> DEFINE Base(k) == [NoLocals EXCEPT !.kind = "refresh", !.tok = k,
                                         !.late = SessionGone(current[k])]
  <2>1. PICK k \in RefreshTokens, c \in Clients :
          \/ req' = [req EXCEPT ![q] = Base(k)] /\ Goto(q, "retired?")
          \/ /\ req' = [req EXCEPT ![q] = [Base(k) EXCEPT !.sid = current[k].sid, !.after = "revoke"]]
             /\ Goto(q, "take")
          \/ /\ req' = [req EXCEPT ![q] = [Base(k) EXCEPT !.sid = current[k].sid,
                                                          !.client = current[k].client]]
             /\ Goto(q, IF c = current[k].client THEN "secret" ELSE "guard")
    BY <1>10 DEF RedeemRefresh
  <2>2. {"kind", "sid", "at", "rt"} \subseteq DOMAIN Base(k) /\ Base(k).kind = "refresh"
        /\ Base(k).rt = None
    BY DEF NoLocals
  <2> HIDE DEF Base
  <2>3. pc'[q] \in {"retired?", "take", "secret", "guard"} /\ pc[q] = "idle"
    BY <1>10 DEF Shape, RedeemRefresh, Arrive, Goto
  <2>4. {"kind", "sid", "at", "rt"} \subseteq DOMAIN req'[q] /\ req'[q].kind = "refresh"
        /\ req'[q].rt = None
    BY <2>1, <2>2 DEF Shape
  <2> QED BY <2>3, <2>4 DEF PairOK, CodePCs
<1>11. CASE RevokeAccess(q) \/ RevokeRefresh(q)
  <2>1. PICK k, sid :
          /\ req' = [req EXCEPT ![q] = [NoLocals EXCEPT !.kind = "revoke", !.tok = k,
                                          !.sid = sid, !.after = "revoke"]]
          /\ Goto(q, "take") /\ pc[q] = "idle"
    BY <1>11 DEF RevokeAccess, RevokeRefresh, Arrive
  <2> QED BY <2>1 DEF Shape, PairOK, NoLocals, Goto, CodePCs
<1>12. CASE ResolveAccess(q)
  <2>1. CASE UNCHANGED <<pc, req>>
    BY <1>0, <1>12, <2>1 DEF ResolveAccess, Arrive, CodePCs
  <2>2. ASSUME NEW t \in AccessTokens, Goto(q, "session?"),
               req' = [req EXCEPT ![q] = [NoLocals EXCEPT !.kind = "call", !.tok = t,
                         !.sid = tokens[t].sid, !.late = SessionGone(tokens[t])]]
        PROVE  PairOK(pc'[q], req'[q])
    BY <2>2 DEF Shape, PairOK, NoLocals, Goto
  <2> QED BY <1>12, <2>1, <2>2 DEF ResolveAccess, Arrive, CodePCs
<1> QED BY <1>1, <1>2, <1>3, <1>4, <1>5, <1>6, <1>7, <1>8, <1>9, <1>10, <1>11, <1>12
        DEF HandlerStep, ClientStep, GrantStep, MintStep, RefreshStep, TakeStep, CallStep

\* A handler's step takes no time.
LEMMA ClockStands ==
    ASSUME NEW q \in Requests, HandlerStep(q) \/ ClientStep(q)
    PROVE  now' = now
<1>1. CASE GrantStep(q) \/ MintStep(q) \/ TakeStep(q) \/ CallStep(q)
  BY <1>1 DEF GrantStep, SweepExpired, PurgeSweptTokens, PurgeSweptRefresh, SpawnRevocations,
       InsertSession, InsertSessionFails, MintStep, MintAccess, MintRefresh, MintFails,
       TakeStep, TakeSession, TakeTokens, TakeRefresh, RevokeUpstream, CallStep, ReadAccess,
       VerifyUpstream, RunHandler
<1>2. CASE RefreshStep(q) \/ ClientStep(q)
  BY <1>2 DEF RefreshStep, LookupRetired, ReadSecret, ReadScopes, UpstreamRefreshed,
       UpstreamRefreshFails, DropGuard, Discard, Replace, RetireCurrent, RememberRetired,
       ClientStep, RedeemRefresh, RevokeAccess, RevokeRefresh, ResolveAccess, RevokeCancelled,
       RefreshCancelled
<1> QED BY <1>1, <1>2 DEF HandlerStep

\* mark_consumed finds room when the store has more than there are codes.
LEMMA RoomForAll ==
    ASSUME IsFiniteSet(Codes), Cardinality(Codes) < MAX_ENTRIES, ReplayInv
    PROVE  HasRoom(Sweep(consumed))
<1>1. DOMAIN Sweep(consumed) = Codes
  BY DEF Sweep, ReplayInv
<1> DEFINE S == {x \in Codes : Sweep(consumed)[x] # None}
<1>2. Cardinality(S) <= Cardinality(Codes) /\ IsFiniteSet(S)
  BY FS_Subset
<1>3. Cardinality(S) \in Nat /\ Cardinality(Codes) \in Nat
  BY <1>2, FS_CardinalityType
<1> QED BY <1>1, <1>2, <1>3, BoundsAssumption DEF HasRoom

\* Records leave `consumed` only when their time is over.
LEMMA MarkedInTime ==
    ASSUME IsFiniteSet(Codes), Cardinality(Codes) < MAX_ENTRIES,
           Shape, ReplayInv, NEW q \in Requests, MarkConsumed(q)
    PROVE  ReplayInv'
<1> DEFINE rec == [at |-> req[q].at, rt |-> req[q].rt, sid |-> req[q].sid, exp |-> now + CODE_TTL]
<1>1. /\ consumed' = [Sweep(consumed) EXCEPT ![code[q]] = rec]
      /\ answered' = [answered EXCEPT ![code[q]] = now + CODE_TTL]
      /\ now' = now /\ pc[q] = "mark"
  BY RoomForAll DEF MarkConsumed
<1>2. now + CODE_TTL \in Nat /\ PairOK("mark", req[q])
  BY <1>1, CodeBoundsAssumption DEF ReplayInv
<1>3. rec \in ConsumedRecord /\ rec # None /\ rec.exp = now + CODE_TTL
  BY <1>2, NoRecordAssumption DEF PairOK, ConsumedRecord
<1> HIDE DEF rec
<1>4. Sweep(consumed) \in [Codes -> ConsumedRecord \cup {None}]
  BY DEF Sweep, ReplayInv
<1>5. \A x \in Codes : answered[x] > now => Sweep(consumed)[x] = consumed[x]
  BY DEF Sweep, Live, ReplayInv, ConsumedRecord
<1>6. answered' \in [Codes -> Nat] /\ consumed' \in [Codes -> ConsumedRecord \cup {None}]
  BY <1>1, <1>2, <1>3, <1>4 DEF ReplayInv
<1>7. ASSUME NEW x \in Codes, answered'[x] > now'
      PROVE  consumed'[x] # None /\ consumed'[x].exp >= answered'[x]
  <2>1. CASE x = code[q]
    BY <1>1, <1>2, <1>3, <1>4, <2>1 DEF ReplayInv
  <2>2. CASE x # code[q]
    BY <1>1, <1>4, <1>5, <1>7, <2>2 DEF ReplayInv
  <2> QED BY <2>1, <2>2
<1>8. PairOK(pc'[q], req'[q])
  BY NoPair DEF Shape, MarkConsumed, SendPair, Reply
<1>9. \A p \in Requests : PairOK(pc'[p], req'[p])
  BY <1>8, PairSlots, RedeemRows
<1> QED BY <1>1, <1>6, <1>7, <1>9 DEF ReplayInv

\* The other steps of the code half leave the records alone.
LEMMA CodePairs ==
    ASSUME Shape, ReplayInv, NEW q \in Requests, CodeSteps(q), ~MarkConsumed(q)
    PROVE  UNCHANGED <<now, consumed, answered>> /\ PairOK(pc'[q], req'[q])
<1>0. PairOK(pc[q], req[q])
  BY DEF ReplayInv
<1>1. CASE TakeTransaction(q)
  <2>1. CASE UNCHANGED <<pc, req>>
    BY <1>0, <1>1, <2>1 DEF TakeTransaction
  <2>2. ASSUME NEW s \in States, Goto(q, "exchange"),
               req' = [req EXCEPT ![q] = [NoLocals EXCEPT !.client = transactions[s].client]]
        PROVE  PairOK(pc'[q], req'[q])
    BY <2>2 DEF Shape, PairOK, NoLocals, Goto
  <2> QED BY <1>1, <2>1, <2>2 DEF TakeTransaction
<1>2. CASE Exchanged(q) \/ RemovePending(q) \/ DeleteReplayedAccess(q) \/ DeleteReplayedRefresh(q)
  BY <1>0, <1>2 DEF Shape, PairOK, Exchanged, RemovePending, DeleteReplayedAccess,
       DeleteReplayedRefresh, Goto, codeVars, codeStores
<1>3. CASE ExchangeFails(q) \/ MintCode(q) \/ MintCodeFails(q) \/ TakeHalf(q)
  BY <1>0, <1>3, NoPair
     DEF Shape, PairOK, ExchangeFails, MintCode, MintCodeFails, TakeHalf, CodeReply,
       Reply, Goto, codeVars, codeStores
<1>4. CASE RedeemCode(q)
  <2>1. PICK c \in Clients, l \in {"consumed?", "unpend"} :
          /\ pc' = [pc EXCEPT ![q] = l]
          /\ req' = [req EXCEPT ![q] = [NoLocals EXCEPT !.kind = "grant", !.client = c]]
    BY <1>4 DEF RedeemCode, Goto
  <2> QED BY <1>4, <2>1 DEF Shape, PairOK, NoLocals, RedeemCode
<1>5. CASE LookupConsumed(q)
  <2>1. code[q] \in Codes /\ UNCHANGED <<now, consumed, answered>>
    BY <1>5 DEF Shape, LookupConsumed, codeStores
  <2>2. CASE Live(consumed[code[q]])
    <3>1. consumed[code[q]] \in ConsumedRecord
      BY <2>1, <2>2 DEF ReplayInv, Live
    <3> QED BY <1>0, <1>5, <2>1, <2>2, <3>1
        DEF Shape, PairOK, LookupConsumed, ConsumedRecord, Goto
  <2>3. CASE ~Live(consumed[code[q]])
    BY <1>5, <2>1, <2>3, NoPair DEF Shape, LookupConsumed, CodeReply, Reply
  <2> QED BY <2>2, <2>3
<1> QED BY <1>1, <1>2, <1>3, <1>4, <1>5 DEF CodeSteps

\* ReplayInv holds throughout.
LEMMA ReplayNext ==
    ASSUME IsFiniteSet(Codes), Cardinality(Codes) < MAX_ENTRIES,
           Shape, ReplayInv, [AuthNext]_authVars
    PROVE  ReplayInv'
<1>1. ASSUME NEW q \in Requests, CodeSteps(q), ~MarkConsumed(q) PROVE ReplayInv'
  <2>1. SlotEffect(q)
    BY <1>1, CallbackRows, RedeemRows DEF CodeSteps
  <2> QED BY <1>1, <2>1, CodePairs, PairSlots DEF ReplayInv
<1>2. CASE SessionSteps
  <2>0. UNCHANGED <<half, consumed, answered>>
    BY <1>2 DEF SessionSteps, codeStores
  <2>1. ASSUME NEW q \in Requests, HandlerStep(q) \/ ClientStep(q) PROVE ReplayInv'
    <3>1. SlotEffect(q)
      BY <2>0, <2>1, GrantRows, MintRows, RefreshRows, OtherRows DEF HandlerStep
    <3>2. \A p \in Requests : PairOK(pc'[p], req'[p])
      BY <2>1, <3>1, SessionPairs, PairSlots
    <3>3. now' = now
      BY <2>1, ClockStands
    <3> QED BY <2>0, <3>2, <3>3 DEF ReplayInv
  <2>2. CASE RevokeInBackground \/ Tick
    <3>1. UNCHANGED <<pc, req>> /\ now' \in Nat /\ now' >= now
      BY <2>2 DEF RevokeInBackground, Tick, ReplayInv
    <3> QED BY <2>0, <3>1 DEF ReplayInv, ConsumedRecord
  <2> QED BY <1>2, <2>1, <2>2 DEF SessionSteps
<1>3. CASE Authorize
  BY <1>3 DEF Authorize, vars, ReplayInv
<1>4. CASE UNCHANGED authVars
  BY <1>4 DEF authVars, codeVars, codeStores, vars, ReplayInv
<1> QED BY <1>1, <1>2, <1>3, <1>4, MarkedInTime DEF AuthNext

\* A redemption's second look at `consumed` answers "unknown code" only where no
\* record in time is there.
LEMMA ReplayStep ==
    ASSUME Shape, ReplayInv, [AuthNext]_authVars,
           NEW q \in Requests, pc[q] = "consumed?", pc'[q] = "idle"
    PROVE  answered[code[q]] <= now
<1>1. ASSUME NEW p \in Requests, CodeSteps(p) PROVE answered[code[q]] <= now
  <2>1. SlotEffect(p)
    BY <1>1, CallbackRows, RedeemRows DEF CodeSteps
  <2>2. p = q
    BY <2>1 DEF Shape, SlotEffect
  <2>3. LookupConsumed(q)
    BY <1>1, <2>2
       DEF CodeSteps, TakeTransaction, Exchanged, ExchangeFails, MintCode, MintCodeFails,
         RedeemCode, Arrive, RemovePending, TakeHalf, MarkConsumed, DeleteReplayedAccess,
         DeleteReplayedRefresh
  <2>4. ~Live(consumed[code[q]]) /\ code[q] \in Codes
    BY <2>3 DEF Shape, LookupConsumed, Goto
  <2> QED BY <2>4 DEF ReplayInv, Live, ConsumedRecord
<1>2. CASE SessionSteps
  <2>0. UNCHANGED half
    BY <1>2 DEF SessionSteps, codeStores
  <2>1. ASSUME NEW p \in Requests, HandlerStep(p) \/ ClientStep(p) PROVE FALSE
    <3>1. SlotEffect(p)
      BY <2>0, <2>1, GrantRows, MintRows, RefreshRows, OtherRows DEF HandlerStep
    <3>2. p = q
      BY <3>1 DEF Shape, SlotEffect
    <3> QED BY <2>1, <3>2, SessionPairs DEF CodePCs
  <2> QED BY <1>2, <2>1 DEF SessionSteps, RevokeInBackground, Tick
<1>3. CASE Authorize \/ UNCHANGED authVars
  BY <1>3 DEF Authorize, authVars, vars
<1> QED BY <1>1, <1>2, <1>3 DEF AuthNext

\* Where the table of used codes has more room than there are codes in circulation, a
\* replay within CODE_TTL of the answer is recognised, whatever else is in flight:
\* mark_consumed comes before the response and only time removes its record.
THEOREM ReplaysAreCaught ==
    ASSUME IsFiniteSet(Codes), Cardinality(Codes) < MAX_ENTRIES
    PROVE  AuthSpec => ReplayAfterAnswerIsCaught
<1>1. AuthInit => ReplayInv
  BY NoPair DEF AuthInit, Init, ReplayInv
<1>2. Shape /\ ReplayInv /\ [AuthNext]_authVars => ReplayInv'
  BY ReplayNext
<1>3. Shape /\ ReplayInv /\ [AuthNext]_authVars =>
        [\A q \in Requests : pc[q] = "consumed?" /\ pc'[q] = "idle" => answered[code[q]] <= now]_authVars
  BY ReplayStep
<1> QED BY <1>1, <1>2, <1>3, RowInit, RowNext, PTL DEF AuthSpec, ReplayAfterAnswerIsCaught
=============================================================================
