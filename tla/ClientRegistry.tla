---------------------------- MODULE ClientRegistry ----------------------------
(***************************************************************************)
(* The registry of dynamically registered clients (ClientRegistry of       *)
(* oauth/proxy/store.rs) and the handlers that use it. A registration      *)
(* collects the clients with live tokens from two stores, one lock each,   *)
(* before it takes the registry's lock; /authorize looks a client up and   *)
(* touches it in two locks. Everything else about tokens and codes is in   *)
(* ProxySession and AuthCode; here a client has at most one access token,  *)
(* one refresh token and one authorization under way, each with the time   *)
(* it has left. Ages and remaining times are all the code compares, so     *)
(* there is no absolute clock.                                             *)
(***************************************************************************)
EXTENDS Naturals, FiniteSets

CONSTANTS
    Clients,          \* client ids
    Handlers,         \* request handlers that may run at the same time
    None,
    MAX_CLIENTS,
    CLIENT_IDLE_TTL,
    TRANSACTION_TTL,
    CODE_TTL,
    EXPIRES_IN,       \* lifetime of a proxy access token
    REFRESH_TTL,
    UPSTREAM_TIMEOUT  \* longest wait for Redmine's token endpoint

\* An authorization, from its touch to the touch of its redemption, and a
\* refresh, from its touch to its mint, fit into the idle time of a client.
ASSUME RegistryAssumption ==
    /\ {MAX_CLIENTS, CLIENT_IDLE_TTL, TRANSACTION_TTL, CODE_TTL, EXPIRES_IN, REFRESH_TTL}
         \subseteq Nat \ {0}
    /\ UPSTREAM_TIMEOUT \in Nat
    /\ TRANSACTION_TTL + UPSTREAM_TIMEOUT + CODE_TTL <= CLIENT_IDLE_TTL

VARIABLES
    registry,  \* registered clients, each with the time since last_seen
    access,    \* time left of the client's access token, 0 for none
    refresh,   \* time left of the client's current refresh token, 0 for none
    flow,      \* the client's authorization: its stage and the time left
    session,   \* clients with a session in UpstreamStore
    pc,        \* where each handler is
    client,    \* the client a handler serves
    live,      \* the live set a registration has collected
    waited,    \* how long a handler has waited for Redmine
    lost       \* history: authorizations whose client was forgotten before its touch

vars == <<registry, access, refresh, flow, session, pc, client, live, waited, lost>>
tokens == <<access, refresh>>

Registered == DOMAIN registry

NoFlow == [stage |-> "none", left |-> 0]

\* Places where a handler waits for Redmine; elsewhere it runs without a pause.
Awaiting == {"refreshing"}
Working == {"refresh_live?", "register", "touch", "begin", "grant_touch", "insert", "mint_access",
            "mint_refresh", "refresh_touch"}

TypeOK ==
    /\ Registered \subseteq Clients
    /\ \A c \in Registered : registry[c] \in 0..CLIENT_IDLE_TTL
    /\ access \in [Clients -> 0..EXPIRES_IN]
    /\ refresh \in [Clients -> 0..REFRESH_TTL]
    /\ \A c \in Clients :
         \/ flow[c] = NoFlow
         \/ flow[c].stage = "transaction" /\ flow[c].left \in 1..TRANSACTION_TTL
         \/ flow[c].stage = "exchange" /\ flow[c].left \in 0..UPSTREAM_TIMEOUT
         \/ flow[c].stage = "code" /\ flow[c].left \in 1..CODE_TTL
    /\ session \subseteq Clients
    /\ pc \in [Handlers -> {"idle"} \cup Awaiting \cup Working]
    /\ client \in [Handlers -> Clients \cup {None}]
    /\ live \in [Handlers -> SUBSET Clients]
    /\ waited \in [Handlers -> 0..UPSTREAM_TIMEOUT]
    /\ lost \subseteq Clients

Init ==
    /\ registry = [c \in {} |-> 0]
    /\ access = [c \in Clients |-> 0]
    /\ refresh = [c \in Clients |-> 0]
    /\ flow = [c \in Clients |-> NoFlow]
    /\ session = {}
    /\ pc = [h \in Handlers |-> "idle"]
    /\ client = [h \in Handlers |-> None]
    /\ live = [h \in Handlers |-> {}]
    /\ waited = [h \in Handlers |-> 0]
    /\ lost = {}

Goto(h, l) == pc' = [pc EXCEPT ![h] = l]

\* The handler answers.
Reply(h) ==
    /\ pc' = [pc EXCEPT ![h] = "idle"]
    /\ client' = [client EXCEPT ![h] = None]
    /\ live' = [live EXCEPT ![h] = {}]
    /\ waited' = [waited EXCEPT ![h] = 0]

------------------------------------------------------------------------------
(* POST /register *)

\* TokenStore::live_client_ids, the first half of the live set.
access_live_client_ids == {c \in Clients : access[c] > 0}

\* Mutant: only the access tokens keep a client.
refresh_live_forgotten == {}

\* RefreshStore::live_client_ids, the second half.
refresh_live_client_ids == {c \in Clients : refresh[c] > 0}

\* ProxyState::register_client, first lock. Requests refused before it for
\* their media type, body or metadata change nothing.
RegisterClient(h) ==
    /\ pc[h] = "idle"
    /\ live' = [live EXCEPT ![h] = access_live_client_ids]
    /\ Goto(h, "refresh_live?")
    /\ UNCHANGED <<registry, tokens, flow, session, client, waited, lost>>

\* Second lock.
CollectRefresh(h) ==
    /\ pc[h] = "refresh_live?"
    /\ live' = [live EXCEPT ![h] = @ \cup refresh_live_client_ids]
    /\ Goto(h, "register")
    /\ UNCHANGED <<registry, tokens, flow, session, client, waited, lost>>

Holds(c) == access[c] > 0 \/ refresh[c] > 0

\* A client id that nothing in the process names: 128 random bits do not repeat.
Fresh == {c \in Clients \ Registered :
            ~Holds(c) /\ flow[c] = NoFlow /\ c \notin session \cup lost
            /\ \A h \in Handlers : client[h] # c /\ c \notin live[h]}

AtCapacity(r) == Cardinality(DOMAIN r) >= MAX_CLIENTS

Only(r, cs) == [c \in DOMAIN r \cap cs |-> r[c]]

\* Mutant: the sweep looks at the live set only.
KeptLive(r, alive) == DOMAIN r \cap alive

\* What the sweep keeps: the live and the recently seen.
Kept(r, alive) == {c \in DOMAIN r : c \in alive \/ r[c] < CLIENT_IDLE_TTL}

Swept(r, alive) == IF AtCapacity(r) THEN Only(r, Kept(r, alive)) ELSE r

\* ClientRegistry::register, third lock: sweep if full, then insert or refuse.
register(h) ==
    /\ pc[h] = "register"
    /\ LET r == Swept(registry, live[h]) IN
         \/ /\ AtCapacity(r)
            /\ registry' = r
         \/ /\ ~AtCapacity(r)
            /\ \E c \in Fresh :
                 registry' = [x \in DOMAIN r \cup {c} |-> IF x = c THEN 0 ELSE r[x]]
         \/ /\ ~AtCapacity(r)   \* mint_client_id failed
            /\ registry' = r
    /\ Reply(h)
    /\ UNCHANGED <<tokens, flow, session, lost>>

------------------------------------------------------------------------------
(* GET /authorize, /auth/callback and POST /token *)

\* ClientRegistry::touch: nothing for a client that is not there.
Touched(c) == IF c \in Registered THEN [registry EXCEPT ![c] = 0] ELSE registry

\* authorize_phase_a, first lock: an unknown client is answered 400.
LookUp(h, c) ==
    /\ pc[h] = "idle"
    /\ c \in Registered
    /\ client' = [client EXCEPT ![h] = c]
    /\ Goto(h, "touch")
    /\ UNCHANGED <<registry, tokens, flow, session, live, waited, lost>>

\* Second lock. A redirect_uri that does not fit ends the request here.
Touch(h) ==
    /\ pc[h] = "touch"
    /\ registry' = Touched(client[h])
    /\ \/ Goto(h, "begin") /\ UNCHANGED <<client, live, waited>>
       \/ Reply(h)
    /\ UNCHANGED <<tokens, flow, session, lost>>

\* authorize_phase_b stores the transaction.
Begin(h) ==
    /\ pc[h] = "begin"
    /\ flow' = [flow EXCEPT ![client[h]] = [stage |-> "transaction", left |-> TRANSACTION_TTL]]
    /\ lost' = IF client[h] \in Registered THEN lost ELSE lost \cup {client[h]}
    /\ Reply(h)
    /\ UNCHANGED <<registry, tokens, session>>

\* /auth/callback takes the transaction and asks Redmine for the tokens.
Callback(c) ==
    /\ flow[c].stage = "transaction"
    /\ flow' = [flow EXCEPT ![c] = [stage |-> "exchange", left |-> UPSTREAM_TIMEOUT]]
    /\ UNCHANGED <<registry, tokens, session, pc, client, live, waited, lost>>

\* They came and a code was minted, or the callback failed.
Exchanged(c) ==
    /\ flow[c].stage = "exchange"
    /\ \/ flow' = [flow EXCEPT ![c] = [stage |-> "code", left |-> CODE_TTL]]
       \/ flow' = [flow EXCEPT ![c] = NoFlow]
    /\ UNCHANGED <<registry, tokens, session, pc, client, live, waited, lost>>

\* authorization_code_grant: redeem, touch, mint the access token and, when
\* Redmine gave one, the refresh token.
Redeem(h, c) ==
    /\ pc[h] = "idle"
    /\ flow[c].stage = "code"
    /\ flow' = [flow EXCEPT ![c] = NoFlow]
    /\ client' = [client EXCEPT ![h] = c]
    /\ Goto(h, "grant_touch")
    /\ UNCHANGED <<registry, tokens, session, live, waited, lost>>

GrantTouch(h) ==
    /\ pc[h] = "grant_touch"
    /\ registry' = Touched(client[h])
    /\ Goto(h, "insert")
    /\ UNCHANGED <<tokens, flow, session, client, live, waited, lost>>

GrantInsert(h) ==
    /\ pc[h] = "insert"
    /\ \/ /\ session' = session \cup {client[h]}
          /\ Goto(h, "mint_access")
          /\ UNCHANGED <<client, live, waited>>
       \/ UNCHANGED session /\ Reply(h)   \* the session store is full
    /\ UNCHANGED <<registry, tokens, flow, lost>>

MintAccess(h) ==
    /\ pc[h] = "mint_access"
    /\ \/ /\ access' = [access EXCEPT ![client[h]] = EXPIRES_IN]
          /\ Goto(h, "mint_refresh")
          /\ UNCHANGED <<client, live, waited>>
       \/ UNCHANGED access /\ Reply(h)   \* the token store is full
    /\ UNCHANGED <<registry, refresh, flow, session, lost>>

\* RefreshStore::mint: the lifetime of a new token.
RefreshLifetime(c) == REFRESH_TTL

\* A new refresh token is minted before the one it replaces is retired. When
\* Redmine gave none, one of an earlier grant stays and a redeemed one is retired.
MintRefresh(h) ==
    /\ pc[h] = "mint_refresh"
    /\ \E left \in {RefreshLifetime(client[h]), refresh[client[h]], 0} :
         refresh' = [refresh EXCEPT ![client[h]] = left]
    /\ Reply(h)
    /\ UNCHANGED <<registry, access, flow, session, lost>>

\* refresh_token_grant: redeem, touch, ask Redmine, mint again.
RedeemRefresh(h, c) ==
    /\ pc[h] = "idle"
    /\ refresh[c] > 0
    /\ client' = [client EXCEPT ![h] = c]
    /\ Goto(h, "refresh_touch")
    /\ UNCHANGED <<registry, tokens, flow, session, live, waited, lost>>

\* The session may have ended since the token was redeemed.
RefreshTouch(h) ==
    /\ pc[h] = "refresh_touch"
    /\ registry' = Touched(client[h])
    /\ \/ /\ client[h] \in session
          /\ Goto(h, "refreshing")
          /\ UNCHANGED <<client, live, waited>>
       \/ client[h] \notin session /\ Reply(h)
    /\ UNCHANGED <<tokens, flow, session, lost>>

\* Redmine answered, and UpstreamStore::replace found the session.
Refreshed(h) ==
    /\ pc[h] = "refreshing"
    /\ client[h] \in session
    /\ Goto(h, "mint_access")
    /\ UNCHANGED <<registry, tokens, flow, session, client, live, waited, lost>>

NoTokens(c) ==
    /\ access' = [access EXCEPT ![c] = 0]
    /\ refresh' = [refresh EXCEPT ![c] = 0]
    /\ session' = session \ {c}

\* Redmine refused, or the session ended meanwhile: nothing is minted.
RefreshFails(h) ==
    /\ pc[h] = "refreshing"
    /\ NoTokens(client[h])
    /\ Reply(h)
    /\ UNCHANGED <<registry, flow, lost>>

\* /revoke, a replay or the expiry sweep ends the client's session.
EndSession(c) ==
    /\ c \in session
    /\ NoTokens(c)
    /\ UNCHANGED <<registry, flow, pc, client, live, waited, lost>>

------------------------------------------------------------------------------
Elapsed(left) == IF left = 0 THEN 0 ELSE left - 1

Aged(f) ==
    CASE f.stage = "none" -> NoFlow
      [] f.stage = "exchange" -> [f EXCEPT !.left = @ - 1]
      [] OTHER -> IF f.left = 1 THEN NoFlow ELSE [f EXCEPT !.left = @ - 1]

\* Time passes while nobody is between two locks, and no wait for Redmine
\* outlasts its timeout.
Tick ==
    /\ \A h \in Handlers : pc[h] \notin Working
    /\ \A h \in Handlers : pc[h] \in Awaiting => waited[h] < UPSTREAM_TIMEOUT
    /\ \A c \in Clients : flow[c].stage = "exchange" => flow[c].left > 0
    /\ registry' = [c \in Registered |->
                      IF registry[c] < CLIENT_IDLE_TTL THEN registry[c] + 1 ELSE CLIENT_IDLE_TTL]
    /\ access' = [c \in Clients |-> Elapsed(access[c])]
    /\ refresh' = [c \in Clients |-> Elapsed(refresh[c])]
    /\ flow' = [c \in Clients |-> Aged(flow[c])]
    /\ waited' = [h \in Handlers |-> IF pc[h] \in Awaiting THEN waited[h] + 1 ELSE waited[h]]
    /\ lost' = {c \in lost : access'[c] > 0 \/ refresh'[c] > 0 \/ flow'[c] # NoFlow
                              \/ \E h \in Handlers : client[h] = c}
    /\ UNCHANGED <<session, pc, client, live>>

Next ==
    \/ \E h \in Handlers :
         \/ RegisterClient(h) \/ CollectRefresh(h) \/ register(h)
         \/ Touch(h) \/ Begin(h)
         \/ GrantTouch(h) \/ GrantInsert(h) \/ MintAccess(h) \/ MintRefresh(h)
         \/ RefreshTouch(h) \/ Refreshed(h) \/ RefreshFails(h)
         \/ \E c \in Clients : LookUp(h, c) \/ Redeem(h, c) \/ RedeemRefresh(h, c)
    \/ \E c \in Clients : Callback(c) \/ Exchanged(c) \/ EndSession(c)
    \/ Tick

Spec == Init /\ [][Next]_vars

------------------------------------------------------------------------------
(* Properties *)

\* A client that holds a live token, has an authorization under way or is being
\* issued tokens is known to the registry, so its next /authorize is not refused,
\* although the live set is collected from two stores before the registry's lock.
\* The exception is a client forgotten between lookup and touch in /authorize.
LiveAreKnown ==
    LET served == {client[h] : h \in {g \in Handlers : pc[g] \in {"insert", "mint_access",
                                                                "mint_refresh", "refreshing"}}}
    IN  \A c \in Clients \ lost :
          Holds(c) \/ flow[c] # NoFlow \/ c \in served => c \in Registered

\* A registration takes another client's place only when that client has been
\* idle for CLIENT_IDLE_TTL, and never just because it is asked for while there
\* is room.
EvictsTheIdleOnly ==
    [][\A c \in Registered \ DOMAIN registry' :
          /\ registry[c] = CLIENT_IDLE_TTL
          /\ ~Holds(c)
          /\ Cardinality(Registered) = MAX_CLIENTS]_vars

==============================================================================
