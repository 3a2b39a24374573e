------------------------------ MODULE AuthCode ------------------------------
(***************************************************************************)
(* The authorization-code half of the oauth-proxy server, composed with    *)
(* ProxySession: GET /authorize stores a transaction, GET /auth/callback   *)
(* takes it, exchanges the upstream code and mints a rup_ac_ code, and     *)
(* POST /token redeems that code and goes on through ProxySession's grant  *)
(* steps (oauth/proxy/endpoints.rs, TransactionStore and CodeStore of      *)
(* oauth/proxy/store.rs).  Same granularity: one lock or await per step.   *)
(* The three maps of CodeStore have three locks; only `mint` holds two.    *)
(***************************************************************************)
EXTENDS ProxySession

CONSTANTS
    States,           \* transaction ids (the upstream `state`)
    Codes,            \* rup_ac_ authorization codes
    TRANSACTION_TTL,
    CODE_TTL

ASSUME CodeBoundsAssumption == TRANSACTION_TTL \in Nat /\ CODE_TTL \in Nat

VARIABLES
    transactions,  \* TransactionStore.inner
    pending,       \* CodeStore.pending
    half,          \* CodeStore.upstream: the token set behind a code
    consumed,      \* CodeStore.consumed
    drawn,         \* states and codes the CSPRNG has returned
    code,          \* the code each request presented
    answered       \* history: until when a replay of an answered code must be caught

codeStores == <<transactions, pending, half, consumed>>
codeVars == <<codeStores, drawn, code, answered>>
authVars == <<vars, codeVars>>

CodePCs == {"exchange", "mint_code", "consumed?", "unpend", "take_half", "replay_at", "replay_rt"}

Transaction == [client: Clients, exp: Nat]
PendingCode == [client: Clients, exp: Nat]

\* What a redemption minted, kept to contain a replay.
ConsumedRecord == [at: AccessTokens, rt: RefreshTokens \cup {None}, sid: SessionIds, exp: Nat]

\* None is no record.
ASSUME NoRecordAssumption == None \notin ConsumedRecord

AuthTypeOK ==
    /\ pc \in [Requests -> PCs \cup CodePCs]
    /\ transactions \in [States -> Transaction \cup {None}]
    /\ pending \in [Codes -> PendingCode \cup {None}]
    /\ half \in [Codes -> TokenSet \cup {None}]
    /\ consumed \in [Codes -> ConsumedRecord \cup {None}]
    /\ drawn \subseteq States \cup Codes
    /\ code \in [Requests -> Codes \cup {None}]
    /\ answered \in [Codes -> Nat]

Draw(ids) == IF ids \subseteq drawn THEN {} ELSE {CHOOSE x \in ids : x \notin drawn}

------------------------------------------------------------------------------
(* GET /authorize, after phase A found the client and its redirect_uri *)

\* TransactionStore::create; a full store or SysRng failure answers an error.
Authorize ==
    /\ \/ /\ HasRoom(Sweep(transactions))
          /\ \E s \in Draw(States), c \in Clients :
               /\ transactions' = [Sweep(transactions) EXCEPT
                                     ![s] = [client |-> c, exp |-> now + TRANSACTION_TTL]]
               /\ drawn' = drawn \cup {s}
       \/ /\ ~HasRoom(Sweep(transactions))
          /\ transactions' = Sweep(transactions)
          /\ UNCHANGED drawn
    /\ UNCHANGED <<vars, pending, half, consumed, code, answered>>

------------------------------------------------------------------------------
(* GET /auth/callback *)

\* TransactionStore::take: removed whether or not it is still in time.  The
\* handler goes on with a code, or redirects an upstream error to the client.
TakeTransaction(q) ==
    /\ pc[q] = "idle"
    /\ \E s \in States :
         /\ transactions[s] # None
         /\ transactions' = [transactions EXCEPT ![s] = None]
         /\ \/ /\ Live(transactions[s])
               /\ req' = [req EXCEPT ![q] = [NoLocals EXCEPT !.client = transactions[s].client]]
               /\ Goto(q, "exchange")
            \/ UNCHANGED <<pc, req>>
    /\ UNCHANGED <<now, rows, stores, minted, sent, rotated, bg>>
    /\ UNCHANGED <<pending, half, consumed, drawn, code, answered>>

\* exchange_authorization_code answered Ok.
Exchanged(q) ==
    /\ pc[q] = "exchange"
    /\ \E r \in FreshRow, wants \in BOOLEAN :
         /\ rows' = [rows EXCEPT ![r] = "live"]
         /\ req' = [req EXCEPT ![q].set = [row |-> r, refresh |-> wants, scopes |-> "granted",
                                           access_exp |-> now + EXPIRES_IN]]
    /\ Goto(q, "mint_code")
    /\ UNCHANGED <<now, stores, minted, sent, rotated, bg, codeVars>>

\* It failed, or the browser went away; Redmine may have issued a row anyway.
ExchangeFails(q) ==
    /\ pc[q] = "exchange"
    /\ \/ UNCHANGED rows
       \/ \E r \in FreshRow : rows' = [rows EXCEPT ![r] = "live"]
    /\ Reply(q)
    /\ UNCHANGED <<now, stores, minted, sent, rotated, bg, codeVars>>

\* CodeStore::mint: both halves under the lock of `pending`.
MintCode(q) ==
    /\ pc[q] = "mint_code"
    /\ HasRoom(Sweep(pending))
    /\ \E x \in Draw(Codes) :
         /\ pending' = [Sweep(pending) EXCEPT
                          ![x] = [client |-> req[q].client, exp |-> now + CODE_TTL]]
         /\ half' = [half EXCEPT ![x] = req[q].set]
         /\ drawn' = drawn \cup {x}
    /\ Reply(q)
    /\ UNCHANGED <<now, rows, stores, minted, sent, rotated, bg>>
    /\ UNCHANGED <<transactions, consumed, code, answered>>

\* mint returned None: the exchanged set is dropped.
MintCodeFails(q) ==
    /\ pc[q] = "mint_code"
    /\ \/ UNCHANGED pending
       \/ ~HasRoom(Sweep(pending)) /\ pending' = Sweep(pending)
    /\ Reply(q)
    /\ UNCHANGED <<now, rows, stores, minted, sent, rotated, bg>>
    /\ UNCHANGED <<transactions, half, consumed, drawn, code, answered>>

------------------------------------------------------------------------------
(* grant_type=authorization_code: CodeStore::redeem *)

\* First lock: read `pending`.  The bindings (client_id, redirect_uri, PKCE)
\* are compared without it; a mismatch answers and changes nothing.
RedeemCode(q) ==
    /\ Arrive(q, "grant")
    /\ \E x \in drawn \cap Codes, c \in Clients :
         /\ code' = [code EXCEPT ![q] = x]
         /\ req' = [req EXCEPT ![q] = [NoLocals EXCEPT !.kind = "grant", !.client = c]]
         /\ \/ /\ ~Live(pending[x])
               /\ pending' = [pending EXCEPT ![x] = None]
               /\ Goto(q, "consumed?")
            \/ /\ Live(pending[x])
               /\ c = pending[x].client
               /\ Goto(q, "unpend")
               /\ UNCHANGED pending
    /\ UNCHANGED <<now, rows, stores, minted, sent, rotated, bg>>
    /\ UNCHANGED <<transactions, half, consumed, drawn, answered>>

CodeReply(q) == Reply(q) /\ code' = [code EXCEPT ![q] = None]

\* Second lock of a code that is not pending: a replay, or unknown.
LookupConsumed(q) ==
    /\ pc[q] = "consumed?"
    /\ LET record == consumed[code[q]]
       IN  \/ /\ Live(record)
              /\ req' = [req EXCEPT ![q].at = record.at, ![q].rt = record.rt,
                                    ![q].sid = record.sid, ![q].after = "purge"]
              /\ Goto(q, "replay_at")
              /\ UNCHANGED code
           \/ ~Live(record) /\ CodeReply(q)
    /\ UNCHANGED <<now, rows, stores, minted, sent, rotated, bg>>
    /\ UNCHANGED <<codeStores, drawn, answered>>

\* Second lock of a matching code: it is no longer pending ...
RemovePending(q) ==
    /\ pc[q] = "unpend"
    /\ pending' = [pending EXCEPT ![code[q]] = None]
    /\ Goto(q, "take_half")
    /\ UNCHANGED <<now, rows, stores, minted, sent, rotated, bg, req>>
    /\ UNCHANGED <<transactions, half, consumed, drawn, code, answered>>

\* Mutant: the token set is cloned out of the map instead of removed.
TakeHalfCloned(q) ==
    /\ pc[q] = "take_half"
    /\ half[code[q]] # None
    /\ req' = [req EXCEPT ![q].set = half[code[q]]]
    /\ Goto(q, "sweep")
    /\ UNCHANGED <<now, rows, stores, minted, sent, rotated, bg>>
    /\ UNCHANGED <<codeStores, drawn, code, answered>>

\* ... third lock: whoever removes the token set has redeemed the code.
TakeHalf(q) ==
    /\ pc[q] = "take_half"
    /\ \/ /\ half[code[q]] # None
          /\ req' = [req EXCEPT ![q].set = half[code[q]]]
          /\ half' = [half EXCEPT ![code[q]] = None]
          /\ Goto(q, "sweep")
          /\ UNCHANGED code
       \/ /\ half[code[q]] = None
          /\ CodeReply(q)
          /\ UNCHANGED half
    /\ UNCHANGED <<now, rows, stores, minted, sent, rotated, bg>>
    /\ UNCHANGED <<transactions, pending, consumed, drawn, answered>>

\* Mutant: the response leaves without mark_consumed.
MarkConsumedForgotten(q) ==
    /\ pc[q] = "mark"
    /\ SendPair(q)
    /\ code' = [code EXCEPT ![q] = None]
    /\ answered' = [answered EXCEPT ![code[q]] = now + CODE_TTL]
    /\ UNCHANGED <<now, rows, stores, minted, rotated, bg>>
    /\ UNCHANGED <<codeStores, drawn>>

\* CodeStore::mark_consumed, skipped when full; then the pair is sent.
MarkConsumed(q) ==
    /\ pc[q] = "mark"
    /\ consumed' = IF HasRoom(Sweep(consumed))
                   THEN [Sweep(consumed) EXCEPT
                          ![code[q]] = [at |-> req[q].at, rt |-> req[q].rt, sid |-> req[q].sid,
                                        exp |-> now + CODE_TTL]]
                   ELSE Sweep(consumed)
    /\ SendPair(q)
    /\ code' = [code EXCEPT ![q] = None]
    /\ answered' = [answered EXCEPT ![code[q]] = now + CODE_TTL]
    /\ UNCHANGED <<now, rows, stores, minted, rotated, bg>>
    /\ UNCHANGED <<transactions, pending, half, drawn>>

\* Replay containment: the access token, the refresh token, then take_session.
DeleteReplayedAccess(q) ==
    /\ pc[q] = "replay_at"
    /\ tokens' = [tokens EXCEPT ![req[q].at] = None]
    /\ Goto(q, IF req[q].rt = None THEN "take" ELSE "replay_rt")
    /\ UNCHANGED <<now, rows, upstream, current, retired, minted, sent, rotated, bg, req, codeVars>>

DeleteReplayedRefresh(q) ==
    /\ pc[q] = "replay_rt"
    /\ current' = [current EXCEPT ![req[q].rt] = None]
    /\ Goto(q, "take")
    /\ UNCHANGED <<now, rows, upstream, tokens, retired, minted, sent, rotated, bg, req, codeVars>>

------------------------------------------------------------------------------

\* ProxySession's own steps; a slot that becomes idle forgets its code.
SessionSteps ==
    /\ \/ \E q \in Requests : HandlerStep(q) \/ ClientStep(q)
       \/ RevokeInBackground
       \/ Tick
    /\ code' = [q \in Requests |-> IF pc'[q] = "idle" THEN None ELSE code[q]]
    /\ UNCHANGED <<codeStores, drawn, answered>>

CodeSteps(q) ==
    \/ TakeTransaction(q) \/ Exchanged(q) \/ ExchangeFails(q) \/ MintCode(q) \/ MintCodeFails(q)
    \/ RedeemCode(q) \/ LookupConsumed(q) \/ RemovePending(q) \/ TakeHalf(q) \/ MarkConsumed(q)
    \/ DeleteReplayedAccess(q) \/ DeleteReplayedRefresh(q)

AuthInit ==
    /\ Init
    /\ transactions = [s \in States |-> None]
    /\ pending = [x \in Codes |-> None]
    /\ half = [x \in Codes |-> None]
    /\ consumed = [x \in Codes |-> None]
    /\ drawn = {} /\ answered = [x \in Codes |-> 0]
    /\ code = [q \in Requests |-> None]

AuthNext == Authorize \/ (\E q \in Requests : CodeSteps(q)) \/ SessionSteps

AuthSpec == AuthInit /\ [][AuthNext]_authVars

------------------------------------------------------------------------------
(* Properties *)

\* A code is redeemed once, however many redemptions pass the checks together:
\* the upstream token set behind it is never in two places, so never behind two
\* sessions, and never behind a session and still redeemable (CodeStore::redeem).
CodeYieldsOneSession ==
    /\ \A u, v \in SessionIds :
         upstream[u] # None /\ upstream[v] # None /\ upstream[u].set.row = upstream[v].set.row => u = v
    /\ \A u \in SessionIds, x \in Codes :
         upstream[u] # None /\ half[x] # None => upstream[u].set.row # half[x].row

\* A replay that arrives after the redeeming client was answered is caught for
\* CODE_TTL, because mark_consumed comes before the response (runs keep
\* MAX_ENTRIES at the number of codes, so mark_consumed is never skipped).
ReplayAfterAnswerIsCaught ==
    [][\A q \in Requests : pc[q] = "consumed?" /\ pc'[q] = "idle" => answered[code[q]] <= now]_authVars

\* store.rs: the stores are "all bounded": no map of CodeStore outgrows its cap.
CodeStoreBounded ==
    \A map \in {pending, half, consumed} :
        Cardinality({x \in Codes : map[x] # None}) <= MAX_ENTRIES
=============================================================================
