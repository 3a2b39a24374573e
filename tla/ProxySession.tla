---------------------------- MODULE ProxySession ----------------------------
(***************************************************************************)
(* The session half of the oauth-proxy authorization server: the upstream  *)
(* session store, the proxy access- and refresh-token stores and every     *)
(* handler that reads or writes them once a code has been redeemed         *)
(* (crates/ruprogress-mcp/src/oauth/proxy/store.rs and endpoints.rs,       *)
(* auth/proxy.rs).  Every store is a map behind its own Mutex, held for    *)
(* one operation and never across an await, so ONE LOCK ACQUISITION IS ONE *)
(* STEP here and any number of handlers interleave between two of them.    *)
(*                                                                         *)
(* A request is a slot q: pc[q] is the next lock or await of its handler,  *)
(* req[q] the handler's locals.  A slot that has answered is "idle" and    *)
(* takes another request, so only the number of CONCURRENT requests is     *)
(* bounded.  Opaque tokens and ids come from a CSPRNG: a mint returns an   *)
(* id never returned before, or fails (SysRng error, store at capacity).   *)
(* Clients only present what a response sent them (sent).                  *)
(*                                                                         *)
(* ClientRegistry::touch and the introspection cache (TokenVerifier) are   *)
(* read by no operation of this module; they have modules of their own.    *)
(***************************************************************************)
EXTENDS Naturals, FiniteSets

CONSTANTS
    Requests,             \* concurrent handler slots
    Clients,              \* registered client_ids
    SessionIds,           \* UpstreamStore ids (upstream_id)
    AccessTokens,         \* rup_at_ proxy access tokens
    RefreshTokens,        \* rup_rt_ proxy refresh tokens
    Rows,                 \* Doorkeeper token rows (an access/refresh pair each)
    Kinds,                \* which requests arrive: subset of RequestKinds
    None,                 \* no entry
    MAX_ENTRIES,          \* hard cap of every store
    REFRESH_TTL,          \* lifetime of a refreshable session and of rup_rt_
    RETIRED_REFRESH_TTL,  \* how long a rotated-away digest is remembered
    EXPIRES_IN,           \* upstream access-token lifetime
    MaxTime               \* the clock stops here (model bound)

RequestKinds == {"grant", "refresh", "revoke", "call"}

ASSUME BoundsAssumption ==
    /\ MAX_ENTRIES \in Nat /\ REFRESH_TTL \in Nat /\ RETIRED_REFRESH_TTL \in Nat
    /\ EXPIRES_IN \in Nat /\ MaxTime \in Nat
    /\ Kinds \subseteq RequestKinds

\* The three kinds of ids have formats of their own (rup_at_, rup_rt_).
ASSUME IdsAssumption ==
    /\ AccessTokens \cap RefreshTokens = {} /\ SessionIds \cap RefreshTokens = {}
    /\ None \notin RefreshTokens

VARIABLES
    now,       \* Instant::now()
    rows,      \* Doorkeeper (external): state of every token row
    upstream,  \* UpstreamStore.inner
    tokens,    \* TokenStore.inner
    current,   \* RefreshStore.current
    retired,   \* RefreshStore.retired
    minted,    \* ids the CSPRNG has returned so far
    sent,      \* proxy tokens some response has carried to a client
    rotated,   \* history: refresh tokens retired by a successful rotation
    bg,        \* rows queued for the background revocation task
    pc,        \* where each request is
    req        \* its locals

stores == <<upstream, tokens, current, retired>>
vars == <<now, rows, stores, minted, sent, rotated, bg, pc, req>>

------------------------------------------------------------------------------
(* Values *)

\* "asked": a revocation was sent upstream but failed there or on the way.
RowStates == {"unissued", "live", "asked", "revoked"}

Scopes == {"granted", "empty"}

\* UpstreamTokenSet; its access and refresh secrets are those of one row.
TokenSet == [row: Rows, refresh: BOOLEAN, scopes: Scopes, access_exp: Nat]

SessionEntry == [set: TokenSet, exp: Nat]
TokenEntry == [sid: SessionIds, client: Clients, exp: Nat]
RefreshOwner == [sid: SessionIds, client: Clients, state: {"Active", "InFlight"}, exp: Nat]
RetiredEntry == [sid: SessionIds, exp: Nat]

\* None is no entry.
ASSUME NoEntryAssumption == None \notin RefreshOwner

\* What the caller of take_session does with the set it gets back.
Afters == {"revoke", "purge", "drop"}

Locals == [kind: RequestKinds \cup {None}, tok: AccessTokens \cup RefreshTokens \cup {None},
           client: Clients \cup {None}, sid: SessionIds \cup {None},
           set: TokenSet \cup {None}, ttl: Nat, at: AccessTokens \cup {None},
           rt: RefreshTokens \cup {None}, after: Afters, todo: SUBSET SessionIds,
           swept: SUBSET Rows, late: BOOLEAN]

NoLocals == [kind |-> None, tok |-> None, client |-> None, sid |-> None, set |-> None,
             ttl |-> 0, at |-> None, rt |-> None, after |-> "drop", todo |-> {},
             swept |-> {}, late |-> FALSE]

PCs == {"idle",
        "sweep", "purge", "purge_rt", "insert", "mark",              \* authorization_code_grant
        "mint_at", "mint_rt",                                        \* mint_token_pair
        "retired?", "secret", "scopes", "await_refresh",  \* refresh_token_grant
        "replace", "retire", "remember", "guard",
        "discard", "discard_kill", "discard_revoke",
        "take", "take_at", "take_rt",                                \* take_session
        "await_revoke",                                              \* revoke_upstream_and_purge
        "session?", "verify", "handler"}                             \* require_proxy_bearer

TypeOK ==
    /\ now \in Nat
    /\ rows \in [Rows -> RowStates]
    /\ upstream \in [SessionIds -> SessionEntry \cup {None}]
    /\ tokens \in [AccessTokens -> TokenEntry \cup {None}]
    /\ current \in [RefreshTokens -> RefreshOwner \cup {None}]
    /\ retired \in [RefreshTokens -> RetiredEntry \cup {None}]
    /\ minted \subseteq SessionIds \cup AccessTokens \cup RefreshTokens
    /\ sent \subseteq AccessTokens \cup RefreshTokens
    /\ rotated \subseteq RefreshTokens
    /\ bg \subseteq Rows
    /\ pc \in [Requests -> PCs]
    /\ req \in [Requests -> Locals]

------------------------------------------------------------------------------
(* Store helpers *)

Live(entry) == entry # None /\ entry.exp > now

\* sweep_and_check_capacity, first half: retain only unexpired entries.
Sweep(map) == [k \in DOMAIN map |-> IF Live(map[k]) THEN map[k] ELSE None]

\* sweep_and_check_capacity, second half (the key is always a fresh one).
HasRoom(map) == Cardinality({k \in DOMAIN map : map[k] # None}) < MAX_ENTRIES

\* mint_opaque_token / the id minting of UpstreamStore::insert: a fresh id.
Fresh(ids) == IF ids \subseteq minted THEN {} ELSE {CHOOSE x \in ids : x \notin minted}

\* Doorkeeper issues a row never issued before.
FreshRow == IF \A r \in Rows : rows[r] # "unissued" THEN {}
            ELSE {CHOOSE r \in Rows : rows[r] = "unissued"}

\* remove_by_upstream: drop every entry bound to session u.
Unbind(map, u) == [k \in DOMAIN map |->
                     IF map[k] # None /\ map[k].sid = u THEN None ELSE map[k]]

\* Mutant: a session without a refresh token gets no deadline at all.
DeadlineUnset(set) == IF set.refresh THEN now + REFRESH_TTL ELSE None

\* UpstreamStore::session_deadline
Deadline(set) == IF set.refresh THEN now + REFRESH_TTL ELSE set.access_exp

\* saturating_duration_since
Remaining(instant) == IF instant > now THEN instant - now ELSE 0

Goto(q, label) == pc' = [pc EXCEPT ![q] = label]

\* The response leaves (or the handler's future is dropped): the slot is free.
Reply(q) == /\ pc' = [pc EXCEPT ![q] = "idle"]
            /\ req' = [req EXCEPT ![q] = NoLocals]

Arrive(q, kind) == pc[q] = "idle" /\ kind \in Kinds

------------------------------------------------------------------------------
(* grant_type=authorization_code, from the redeemed code on *)

\* CodeStore::redeem answered Ok(set): what /auth/callback obtained upstream.
RedeemedCode(q) ==
    /\ Arrive(q, "grant")
    /\ \E r \in FreshRow, c \in Clients, wants \in BOOLEAN :
         /\ rows' = [rows EXCEPT ![r] = "live"]
         /\ req' = [req EXCEPT ![q] = [NoLocals EXCEPT
                      !.kind = "grant", !.client = c,
                      !.set = [row |-> r, refresh |-> wants, scopes |-> "granted",
                               access_exp |-> now + EXPIRES_IN]]]
    /\ Goto(q, "sweep")
    /\ UNCHANGED <<now, stores, minted, sent, rotated, bg>>

\* UpstreamStore::sweep_expired: every session past its deadline, in one lock.
SweepExpired(q) ==
    /\ pc[q] = "sweep"
    /\ LET dead == {u \in SessionIds : upstream[u] # None /\ ~Live(upstream[u])}
       IN  /\ upstream' = Sweep(upstream)
           /\ req' = [req EXCEPT
                ![q].todo = dead,
                ![q].swept = {upstream[u].set.row : u \in {v \in dead : upstream[v].set.refresh}}]
    /\ Goto(q, "purge")
    /\ UNCHANGED <<now, rows, tokens, current, retired, minted, sent, rotated, bg>>

\* ProxyState::sweep_expired_sessions, per swept session: the access tokens,
PurgeSweptTokens(q) ==
    /\ pc[q] = "purge"
    /\ \E u \in req[q].todo :
         /\ tokens' = Unbind(tokens, u)
         /\ req' = [req EXCEPT ![q].sid = u]
    /\ Goto(q, "purge_rt")
    /\ UNCHANGED <<now, rows, upstream, current, retired, minted, sent, rotated, bg>>

\* then the refresh tokens.
PurgeSweptRefresh(q) ==
    /\ pc[q] = "purge_rt"
    /\ current' = Unbind(current, req[q].sid)
    /\ req' = [req EXCEPT ![q].todo = @ \ {req[q].sid}, ![q].sid = None]
    /\ Goto(q, "purge")
    /\ UNCHANGED <<now, rows, upstream, tokens, retired, minted, sent, rotated, bg>>

\* The spawned task revokes the swept refreshable sets off the request path.
SpawnRevocations(q) ==
    /\ pc[q] = "purge"
    /\ req[q].todo = {}
    /\ bg' = bg \cup req[q].swept
    /\ req' = [req EXCEPT ![q].swept = {}]
    /\ Goto(q, "insert")
    /\ UNCHANGED <<now, rows, stores, minted, sent, rotated>>

\* UpstreamStore::insert.  It drops expired sessions itself before the cap.
InsertSession(q) ==
    /\ pc[q] = "insert"
    /\ HasRoom(Sweep(upstream))
    /\ \E u \in Fresh(SessionIds) :
         /\ upstream' = [Sweep(upstream) EXCEPT
                           ![u] = [set |-> req[q].set, exp |-> Deadline(req[q].set)]]
         /\ minted' = minted \cup {u}
         /\ req' = [req EXCEPT ![q].sid = u, ![q].ttl = Remaining(req[q].set.access_exp)]
    /\ Goto(q, "mint_at")
    /\ UNCHANGED <<now, rows, tokens, current, retired, sent, rotated, bg>>

\* insert returned None: 500 server_error; the redeemed set is dropped.
InsertSessionFails(q) ==
    /\ pc[q] = "insert"
    /\ \/ UNCHANGED upstream                                  \* SysRng failed
       \/ ~HasRoom(Sweep(upstream)) /\ upstream' = Sweep(upstream)
    /\ Reply(q)
    /\ UNCHANGED <<now, rows, tokens, current, retired, minted, sent, rotated, bg>>

------------------------------------------------------------------------------
(* mint_token_pair, shared by both grants *)

AfterMint(q) == IF req[q].kind = "grant" THEN "mark" ELSE "retire"

\* TokenStore::mint
MintAccess(q) ==
    /\ pc[q] = "mint_at"
    /\ HasRoom(Sweep(tokens))
    /\ \E t \in Fresh(AccessTokens) :
         /\ tokens' = [Sweep(tokens) EXCEPT
               ![t] = [sid |-> req[q].sid, client |-> req[q].client, exp |-> now + req[q].ttl]]
         /\ minted' = minted \cup {t}
         /\ req' = [req EXCEPT ![q].at = t]
    /\ Goto(q, IF req[q].set.refresh THEN "mint_rt" ELSE AfterMint(q))
    /\ UNCHANGED <<now, rows, upstream, current, retired, sent, rotated, bg>>

\* RefreshStore::mint
MintRefresh(q) ==
    /\ pc[q] = "mint_rt"
    /\ HasRoom(Sweep(current))
    /\ \E k \in Fresh(RefreshTokens) :
         /\ current' = [Sweep(current) EXCEPT
               ![k] = [sid |-> req[q].sid, client |-> req[q].client, state |-> "Active",
                       exp |-> now + REFRESH_TTL]]
         /\ minted' = minted \cup {k}
         /\ req' = [req EXCEPT ![q].rt = k]
    /\ Goto(q, AfterMint(q))
    /\ UNCHANGED <<now, rows, upstream, tokens, retired, sent, rotated, bg>>

\* A mint returned None.  The code grant takes its new session down again;
\* the refresh grant answers 500 and lets its guard restore the token.
MintFails(q) ==
    /\ \/ /\ pc[q] = "mint_at"
          /\ \/ UNCHANGED tokens
             \/ ~HasRoom(Sweep(tokens)) /\ tokens' = Sweep(tokens)
          /\ UNCHANGED current
       \/ /\ pc[q] = "mint_rt"
          /\ \/ UNCHANGED current
             \/ ~HasRoom(Sweep(current)) /\ current' = Sweep(current)
          /\ UNCHANGED tokens
    /\ Goto(q, IF req[q].kind = "grant" THEN "take" ELSE "guard")
    /\ UNCHANGED <<now, rows, upstream, retired, minted, sent, rotated, bg, req>>

\* token_response: the pair reaches the client.
SendPair(q) ==
    /\ sent' = sent \cup ({req[q].at, req[q].rt} \ {None})
    /\ Reply(q)

\* CodeStore::mark_consumed (modelled in AuthCode), then the response.
GrantDone(q) ==
    /\ pc[q] = "mark"
    /\ SendPair(q)
    /\ UNCHANGED <<now, rows, stores, minted, rotated, bg>>

------------------------------------------------------------------------------
(* grant_type=refresh_token *)

\* The session a presented token is bound to is already gone.
SessionGone(entry) == entry # None /\ upstream[entry.sid] = None

InFlight(k) == current[k] # None /\ current[k].state = "InFlight"

\* Active -> InFlight, under the lock that read it
MarkInFlight(k) == [current EXCEPT ![k].state = "InFlight"]

\* RefreshStore::redeem, under the lock of `current`, and the check that the
\* requesting client_id is the one the token is bound to.
RedeemRefresh(q) ==
    /\ Arrive(q, "refresh")
    /\ \E k \in sent \cap RefreshTokens, c \in Clients :
         LET owner == current[k]
             base  == [NoLocals EXCEPT !.kind = "refresh", !.tok = k,
                                       !.late = SessionGone(owner)]
         IN  \/ /\ ~Live(owner)
                /\ current' = [current EXCEPT ![k] = None]
                /\ req' = [req EXCEPT ![q] = base]
                /\ Goto(q, "retired?")
             \/ /\ Live(owner)
                /\ owner.state = "InFlight"
                /\ req' = [req EXCEPT ![q] = [base EXCEPT !.sid = owner.sid, !.after = "revoke"]]
                /\ Goto(q, "take")
                /\ UNCHANGED current
             \/ /\ Live(owner)
                /\ owner.state = "Active"
                /\ current' = MarkInFlight(k)
                /\ req' = [req EXCEPT ![q] = [base EXCEPT !.sid = owner.sid, !.client = owner.client]]
                /\ Goto(q, IF c = owner.client THEN "secret" ELSE "guard")
    /\ UNCHANGED <<now, rows, upstream, tokens, retired, minted, sent, rotated, bg>>

\* RefreshStore::redeem, under the lock of `retired`: reuse, or unknown.
LookupRetired(q) ==
    /\ pc[q] = "retired?"
    /\ LET entry == retired[req[q].tok]
       IN  \/ /\ Live(entry)
              /\ req' = [req EXCEPT ![q].sid = entry.sid, ![q].after = "revoke"]
              /\ Goto(q, "take")
           \/ /\ ~Live(entry)
              /\ Reply(q)
    /\ UNCHANGED <<now, rows, stores, minted, sent, rotated, bg>>

\* UpstreamStore::refresh_token
ReadSecret(q) ==
    /\ pc[q] = "secret"
    /\ LET entry == upstream[req[q].sid]
       IN  \/ /\ Live(entry) /\ entry.set.refresh
              /\ req' = [req EXCEPT ![q].set = entry.set]
              /\ Goto(q, "scopes")
           \/ /\ ~(Live(entry) /\ entry.set.refresh)
              /\ Goto(q, "discard")
              /\ UNCHANGED req
    /\ UNCHANGED <<now, rows, stores, minted, sent, rotated, bg>>

\* UpstreamStore::granted_scopes(..).unwrap_or_default(): a second lock.
ReadScopes(q) ==
    /\ pc[q] = "scopes"
    /\ LET entry == upstream[req[q].sid]
       IN  req' = [req EXCEPT ![q].set.scopes = IF Live(entry) THEN entry.set.scopes ELSE "empty"]
    /\ Goto(q, "await_refresh")
    /\ UNCHANGED <<now, rows, stores, minted, sent, rotated, bg>>

\* Doorkeeper refreshes a row: a new row is live, the old one revoked.
Rotate(old, new) == rows' = [rows EXCEPT ![old] = "revoked", ![new] = "live"]

\* refresh_access_token answered Ok.  A response without `scope` keeps the
\* scopes read before the await.
UpstreamRefreshed(q) ==
    /\ pc[q] = "await_refresh"
    /\ rows[req[q].set.row] # "revoked"
    /\ \E r \in FreshRow, wants \in BOOLEAN, scopes \in {"granted", req[q].set.scopes} :
         /\ Rotate(req[q].set.row, r)
         /\ req' = [req EXCEPT
              ![q].set = [row |-> r, refresh |-> wants, scopes |-> scopes,
                          access_exp |-> now + EXPIRES_IN],
              ![q].ttl = EXPIRES_IN]
    /\ Goto(q, "replace")
    /\ UNCHANGED <<now, stores, minted, sent, rotated, bg>>

\* The call had no effect upstream, or took effect and its answer was lost.
UpstreamUnanswered(q) ==
    \/ UNCHANGED rows
    \/ /\ rows[req[q].set.row] # "revoked"
       /\ \E r \in FreshRow : Rotate(req[q].set.row, r)

\* refresh_access_token answered Err: the session is taken down, unrevoked.
UpstreamRefreshFails(q) ==
    /\ pc[q] = "await_refresh"
    /\ UpstreamUnanswered(q)
    /\ req' = [req EXCEPT ![q].after = "purge"]
    /\ Goto(q, "discard_kill")
    /\ UNCHANGED <<now, stores, minted, sent, rotated, bg>>

\* Mutant: no InFlightGuard, the dropped future leaves the token locked out.
RefreshCancelledUnguarded(q) ==
    /\ pc[q] = "await_refresh"
    /\ UpstreamUnanswered(q)
    /\ Reply(q)
    /\ UNCHANGED <<now, stores, minted, sent, rotated, bg>>

\* The client disconnects: the future is dropped at its await.
RefreshCancelled(q) ==
    /\ pc[q] = "await_refresh"
    /\ UpstreamUnanswered(q)
    /\ Goto(q, "guard")
    /\ UNCHANGED <<now, stores, minted, sent, rotated, bg, req>>

\* InFlightGuard::drop with the entry still there: back to Active.
DropGuard(q) ==
    /\ pc[q] = "guard"
    /\ LET k == req[q].tok
       IN  current' = IF InFlight(k)
                      THEN [current EXCEPT ![k].state = "Active"] ELSE current
    /\ Reply(q)
    /\ UNCHANGED <<now, rows, upstream, tokens, retired, minted, sent, rotated, bg>>

\* RefreshStore::discard on the three paths that end the old token.
Discard(q) ==
    /\ pc[q] \in {"discard", "discard_kill", "discard_revoke"}
    /\ current' = [current EXCEPT ![req[q].tok] = None]
    /\ \/ pc[q] = "discard" /\ Reply(q)
       \/ pc[q] = "discard_kill" /\ Goto(q, "take") /\ UNCHANGED req
       \/ pc[q] = "discard_revoke" /\ Goto(q, "await_revoke") /\ UNCHANGED req
    /\ UNCHANGED <<now, rows, upstream, tokens, retired, minted, sent, rotated, bg>>

\* Mutant: an unconditional insert, resurrecting a removed session.
ReplaceAlways(q) ==
    /\ pc[q] = "replace"
    /\ upstream' = [upstream EXCEPT
          ![req[q].sid] = [set |-> req[q].set, exp |-> Deadline(req[q].set)]]
    /\ Goto(q, "mint_at")
    /\ UNCHANGED <<now, rows, tokens, current, retired, minted, sent, rotated, bg, req>>

\* UpstreamStore::replace, only over a session still present and in time.
Replace(q) ==
    /\ pc[q] = "replace"
    /\ \/ /\ Live(upstream[req[q].sid])
          /\ upstream' = [upstream EXCEPT
                ![req[q].sid] = [set |-> req[q].set, exp |-> Deadline(req[q].set)]]
          /\ Goto(q, "mint_at")
       \/ /\ ~Live(upstream[req[q].sid])
          /\ Goto(q, "discard_revoke")
          /\ UNCHANGED upstream
    /\ UNCHANGED <<now, rows, tokens, current, retired, minted, sent, rotated, bg, req>>

\* Mutant: the old token is not removed, so the guard's drop re-activates it.
RetireForgotten(q) ==
    /\ pc[q] = "retire"
    /\ current' = IF InFlight(req[q].tok)
                  THEN [current EXCEPT ![req[q].tok].state = "Active"] ELSE current
    /\ rotated' = rotated \cup {req[q].tok}
    /\ Goto(q, "remember")
    /\ UNCHANGED <<now, rows, upstream, tokens, retired, minted, sent, bg, req>>

\* RefreshStore::retire, first lock: the old token leaves `current` ...
RetireCurrent(q) ==
    /\ pc[q] = "retire"
    /\ current' = [current EXCEPT ![req[q].tok] = None]
    /\ rotated' = rotated \cup {req[q].tok}
    /\ Goto(q, "remember")
    /\ UNCHANGED <<now, rows, upstream, tokens, retired, minted, sent, bg, req>>

\* ... second lock: its digest is remembered, room permitting; then the pair.
RememberRetired(q) ==
    /\ pc[q] = "remember"
    /\ retired' = IF HasRoom(Sweep(retired))
                  THEN [Sweep(retired) EXCEPT
                         ![req[q].tok] = [sid |-> req[q].sid, exp |-> now + RETIRED_REFRESH_TTL]]
                  ELSE Sweep(retired)
    /\ SendPair(q)
    /\ UNCHANGED <<now, rows, upstream, tokens, current, minted, rotated, bg>>

------------------------------------------------------------------------------
(* ProxyState::take_session and revoke_upstream_and_purge *)

TakeSession(q) ==
    /\ pc[q] = "take"
    /\ \/ /\ upstream[req[q].sid] # None
          /\ req' = [req EXCEPT ![q].set = upstream[req[q].sid].set]
          /\ upstream' = [upstream EXCEPT ![req[q].sid] = None]
          /\ Goto(q, "take_at")
       \/ /\ upstream[req[q].sid] = None
          /\ Reply(q)
          /\ UNCHANGED upstream
    /\ UNCHANGED <<now, rows, tokens, current, retired, minted, sent, rotated, bg>>

TakeTokens(q) ==
    /\ pc[q] = "take_at"
    /\ tokens' = Unbind(tokens, req[q].sid)
    /\ Goto(q, "take_rt")
    /\ UNCHANGED <<now, rows, upstream, current, retired, minted, sent, rotated, bg, req>>

TakeRefresh(q) ==
    /\ pc[q] = "take_rt"
    /\ current' = Unbind(current, req[q].sid)
    /\ \/ req[q].after = "revoke" /\ Goto(q, "await_revoke") /\ UNCHANGED req
       \/ req[q].after # "revoke" /\ Reply(q)
    /\ UNCHANGED <<now, rows, upstream, tokens, retired, minted, sent, rotated, bg>>

Revoked(r) == [rows EXCEPT ![r] = "revoked"]
Asked(r) == [rows EXCEPT ![r] = IF @ = "revoked" THEN @ ELSE "asked"]

\* The revocation call ends, in success or in an error that is only logged.
RevokeUpstream(q) ==
    /\ pc[q] = "await_revoke"
    /\ rows' \in {Revoked(req[q].set.row), Asked(req[q].set.row)}
    /\ Reply(q)
    /\ UNCHANGED <<now, stores, minted, sent, rotated, bg>>

\* The client disconnects during it, whether or not the call went out.
RevokeCancelled(q) ==
    /\ pc[q] = "await_revoke"
    /\ rows' \in {rows, Revoked(req[q].set.row)}
    /\ Reply(q)
    /\ UNCHANGED <<now, stores, minted, sent, rotated, bg>>

\* The background task works off what SpawnRevocations queued.
RevokeInBackground ==
    /\ \E r \in bg : /\ rows' \in {Revoked(r), Asked(r)}
                     /\ bg' = bg \ {r}
    /\ UNCHANGED <<now, stores, minted, sent, rotated, pc, req>>

------------------------------------------------------------------------------
(* POST /revoke: an unknown token is a 200 that changes nothing *)

\* TokenStore::take, expired or not
RevokeAccess(q) ==
    /\ Arrive(q, "revoke")
    /\ \E t \in sent \cap AccessTokens :
         /\ tokens[t] # None
         /\ tokens' = [tokens EXCEPT ![t] = None]
         /\ req' = [req EXCEPT ![q] = [NoLocals EXCEPT !.kind = "revoke", !.tok = t,
                                         !.sid = tokens[t].sid, !.after = "revoke"]]
    /\ Goto(q, "take")
    /\ UNCHANGED <<now, rows, upstream, current, retired, minted, sent, rotated, bg>>

\* RefreshStore::take, Active or InFlight, expired or not
RevokeRefresh(q) ==
    /\ Arrive(q, "revoke")
    /\ \E k \in sent \cap RefreshTokens :
         /\ current[k] # None
         /\ current' = [current EXCEPT ![k] = None]
         /\ req' = [req EXCEPT ![q] = [NoLocals EXCEPT !.kind = "revoke", !.tok = k,
                                         !.sid = current[k].sid, !.after = "revoke"]]
    /\ Goto(q, "take")
    /\ UNCHANGED <<now, rows, upstream, tokens, retired, minted, sent, rotated, bg>>

------------------------------------------------------------------------------
(* An MCP request through require_proxy_bearer *)

\* TokenStore::resolve: an expired entry is removed and the request refused.
ResolveAccess(q) ==
    /\ Arrive(q, "call")
    /\ \E t \in sent \cap AccessTokens :
         \/ /\ Live(tokens[t])
            /\ req' = [req EXCEPT ![q] = [NoLocals EXCEPT !.kind = "call", !.tok = t,
                         !.sid = tokens[t].sid, !.late = SessionGone(tokens[t])]]
            /\ Goto(q, "session?")
            /\ UNCHANGED tokens
         \/ /\ tokens[t] # None /\ ~Live(tokens[t])
            /\ tokens' = [tokens EXCEPT ![t] = None]
            /\ UNCHANGED <<pc, req>>
    /\ UNCHANGED <<now, rows, upstream, current, retired, minted, sent, rotated, bg>>

\* UpstreamStore::access_token
ReadAccess(q) ==
    /\ pc[q] = "session?"
    /\ \/ /\ Live(upstream[req[q].sid])
          /\ req' = [req EXCEPT ![q].set = upstream[req[q].sid].set]
          /\ Goto(q, "verify")
       \/ ~Live(upstream[req[q].sid]) /\ Reply(q)
    /\ UNCHANGED <<now, rows, stores, minted, sent, rotated, bg>>

\* TokenVerifier::verify of the upstream token (see TokenVerifier): accepted,
\* or answered 401/503, or the client is gone.
VerifyUpstream(q) ==
    /\ pc[q] = "verify"
    /\ \/ Goto(q, "handler") /\ UNCHANGED req
       \/ Reply(q)
    /\ UNCHANGED <<now, rows, stores, minted, sent, rotated, bg>>

\* next.run: the MCP handler runs as the user, then answers.
RunHandler(q) ==
    /\ pc[q] = "handler"
    /\ Reply(q)
    /\ UNCHANGED <<now, rows, stores, minted, sent, rotated, bg>>

------------------------------------------------------------------------------

Tick ==
    /\ now < MaxTime
    /\ now' = now + 1
    /\ UNCHANGED <<rows, stores, minted, sent, rotated, bg, pc, req>>

Init ==
    /\ now = 0
    /\ rows = [r \in Rows |-> "unissued"]
    /\ upstream = [u \in SessionIds |-> None]
    /\ tokens = [t \in AccessTokens |-> None]
    /\ current = [k \in RefreshTokens |-> None]
    /\ retired = [k \in RefreshTokens |-> None]
    /\ minted = {} /\ sent = {} /\ rotated = {} /\ bg = {}
    /\ pc = [q \in Requests |-> "idle"]
    /\ req = [q \in Requests |-> NoLocals]

GrantStep(q) ==
    \/ SweepExpired(q) \/ PurgeSweptTokens(q) \/ PurgeSweptRefresh(q) \/ SpawnRevocations(q)
    \/ InsertSession(q) \/ InsertSessionFails(q)

MintStep(q) == MintAccess(q) \/ MintRefresh(q) \/ MintFails(q)

RefreshStep(q) ==
    \/ LookupRetired(q) \/ ReadSecret(q) \/ ReadScopes(q)
    \/ UpstreamRefreshed(q) \/ UpstreamRefreshFails(q)
    \/ DropGuard(q) \/ Discard(q) \/ Replace(q) \/ RetireCurrent(q) \/ RememberRetired(q)

TakeStep(q) == TakeSession(q) \/ TakeTokens(q) \/ TakeRefresh(q) \/ RevokeUpstream(q)

CallStep(q) == ReadAccess(q) \/ VerifyUpstream(q) \/ RunHandler(q)

\* What the runtime keeps doing with an accepted request.
HandlerStep(q) == GrantStep(q) \/ MintStep(q) \/ RefreshStep(q) \/ TakeStep(q) \/ CallStep(q)

\* What only the outside world decides.
ClientStep(q) ==
    \/ RedeemRefresh(q) \/ RevokeAccess(q) \/ RevokeRefresh(q) \/ ResolveAccess(q)
    \/ RefreshCancelled(q) \/ RevokeCancelled(q)

Next ==
    \/ \E q \in Requests : RedeemedCode(q) \/ GrantDone(q) \/ HandlerStep(q) \/ ClientStep(q)
    \/ RevokeInBackground
    \/ Tick

Spec == Init /\ [][Next]_vars

\* The runtime polls every accepted future until it answers; the calls it
\* awaits end by the client's timeout.
FairSpec == Spec /\ \A q \in Requests : WF_vars(HandlerStep(q) \/ GrantDone(q))

------------------------------------------------------------------------------
(* Properties *)

\* pc at which request q owns an InFlightGuard whose entry may still exist.
GuardPCs == {"secret", "scopes", "await_refresh", "replace", "retire", "guard",
             "discard", "discard_kill", "discard_revoke"}

HoldsGuard(q) ==
    pc[q] \in GuardPCs \/ (pc[q] \in {"mint_at", "mint_rt"} /\ req[q].kind = "refresh")

\* Every refresh token locked out as InFlight is locked by exactly one request,
\* which will release it, and a token being redeemed is never offered as Active:
\* no two redemptions of one token proceed, and none is left stuck
\* (RefreshStore::redeem, InFlightGuard::drop).
InFlightHasOneHolder ==
    /\ \A k \in RefreshTokens : InFlight(k) => \E q \in Requests : HoldsGuard(q) /\ req[q].tok = k
    /\ \A q \in Requests : HoldsGuard(q) /\ current[req[q].tok] # None => InFlight(req[q].tok)
    /\ \A p, q \in Requests : HoldsGuard(p) /\ HoldsGuard(q) /\ req[p].tok = req[q].tok => p = q

\* A request whose token's session was already gone when it arrived gets nowhere:
\* it never reaches Redmine as the user and never refreshes, even when it presents
\* a token minted by a refresh that raced the removal (require_proxy_bearer and
\* refresh_token_grant fail closed; replace does not resurrect).
LateRequestDenied ==
    \A q \in Requests : req[q].late =>
        pc[q] \notin {"scopes", "await_refresh", "replace", "mint_at", "mint_rt", "retire",
                     "remember", "verify", "handler"}

\* A refresh keeps the scopes the user granted: the default used when the session
\* vanished between the two reads of it is never stored.
ScopesSurviveRefresh ==
    \A u \in SessionIds : upstream[u] # None => upstream[u].set.scopes = "granted"

\* A session that was removed never comes back, whatever refresh was in flight.
NoResurrection ==
    [][\A u \in SessionIds : u \in minted /\ upstream[u] = None => upstream'[u] = None]_vars

\* A token locked out by a redemption is released: rotated away, discarded, or
\* offered again, whatever upstream answers and whether or not the client waits.
InFlightIsReleased == \A k \in RefreshTokens : InFlight(k) ~> ~InFlight(k)

\* RefreshLedger, read off the stores.
Ledger == INSTANCE RefreshLedger WITH
    NoOwner <- None,
    status <- [k \in RefreshTokens |->
                 IF k \notin minted THEN "unissued"
                 ELSE IF current[k] = None THEN "gone"
                 ELSE IF InFlight(k) THEN "lent" ELSE "usable"],
    owner <- [k \in RefreshTokens |-> IF current[k] = None THEN None ELSE current[k].sid]

\* The stores and handlers implement the ledger of refresh tokens: however the
\* locks of redeem and retire, failed mints, dropped futures, expiry and
\* revocation interleave, each step issues, lends, returns or forgets tokens as
\* RefreshLedger allows, or changes none.
RefinesLedger == Ledger!LedgerSpec

\* docs/oauth-setup.md: "presenting an already-rotated one again is treated as a
\* stolen credential": redeem never answers Invalid for a token rotated away
\* within RETIRED_REFRESH_TTL (the run keeps MaxTime below it).
ReplayIsCaught ==
    [][\A q \in Requests : pc[q] = "retired?" /\ pc'[q] = "idle" => req[q].tok \notin rotated]_vars
=============================================================================
