------------------------- MODULE ClientRegistryProofs -------------------------
(***************************************************************************)
(* Theorems about ClientRegistry, for any number of clients and handlers,  *)
(* any capacity and any lifetimes that satisfy RegistryAssumption.         *)
(*                                                                         *)
(* Neither LiveAreKnown nor EvictsTheIdleOnly is inductive: a registration *)
(* decides with a live set that is already old.  The invariant says why    *)
(* that is safe.  A client whose token was minted after the live set was   *)
(* read has been touched so recently that the sweep keeps it (CollectedOK, *)
(* ServedOK); and an authorization that has not yet led to a token has     *)
(* been touched within the times its stages last (FlowOK).                 *)
(***************************************************************************)
EXTENDS ClientRegistry, FiniteSetTheorems, TLAPS

\* Labels at which a handler issues tokens, and at which it serves a client.
Issuing == {"insert", "mint_access", "mint_refresh", "refreshing"}
Serving == Issuing \cup {"touch", "begin", "grant_touch", "refresh_touch"}

FlowRecord == [stage: {"none", "transaction", "exchange", "code"}, left: Nat]

\* What TypeOK leaves open.
ShapesOK ==
    /\ flow \in [Clients -> FlowRecord]
    /\ \A h \in Handlers : pc[h] \in Serving => client[h] \in Clients
    /\ lost \cap Registered = {}

\* The map never outgrows its cap.
CapOK == IsFiniteSet(Registered) /\ Cardinality(Registered) <= MAX_CLIENTS

\* c is registered and was last seen at most n ago.
SeenWithin(c, n) == c \in Registered /\ registry[c] <= n

\* An authorization is no older than its stages have lasted.
FlowOK(c) ==
    c \notin lost =>
        /\ flow[c].stage = "transaction" => SeenWithin(c, TRANSACTION_TTL - flow[c].left)
        /\ flow[c].stage = "exchange" =>
             SeenWithin(c, TRANSACTION_TTL + UPSTREAM_TIMEOUT - flow[c].left)
        /\ flow[c].stage = "code" =>
             SeenWithin(c, TRANSACTION_TTL + UPSTREAM_TIMEOUT + CODE_TTL - flow[c].left)

\* A handler that issues tokens has touched its client, at most as long ago as it
\* has waited for Redmine; one that is about to touch it finds it there.
ServedOK(h, c) ==
    /\ pc[h] = "begin" /\ c \in Registered => registry[c] = 0
    /\ pc[h] = "grant_touch" /\ c \notin lost => SeenWithin(c, CLIENT_IDLE_TTL - 1)
    /\ pc[h] \in Issuing /\ c \in Registered => registry[c] <= waited[h]
    /\ pc[h] \in Issuing /\ c \notin lost => c \in Registered
    /\ pc[h] = "refresh_touch" /\ c \in session /\ c \notin lost =>
         c \in Registered /\ (Holds(c) \/ registry[c] < CLIENT_IDLE_TTL)

\* A client that holds a token and is not in a registration's live set got the
\* token since, and was seen since.
CollectedOK(h, c) ==
    c \in Registered /\ c \notin live[h] =>
        /\ pc[h] = "refresh_live?" /\ access[c] > 0 => registry[c] < CLIENT_IDLE_TTL
        /\ pc[h] = "register" /\ Holds(c) => registry[c] < CLIENT_IDLE_TTL

\* A client with a token is registered.
HolderOK(c) == c \notin lost /\ Holds(c) => c \in Registered

ClientOK(c) ==
    /\ FlowOK(c) /\ HolderOK(c)
    /\ \A h \in Handlers : CollectedOK(h, c) /\ (client[h] = c => ServedOK(h, c))

RegistryInv == TypeOK /\ ShapesOK /\ CapOK /\ \A c \in Clients : ClientOK(c)

------------------------------------------------------------------------------
(* Types, shapes and the cap *)

\* Times are natural numbers, and no wait for Redmine makes a client idle.
LEMMA Times ==
    /\ {MAX_CLIENTS, CLIENT_IDLE_TTL, TRANSACTION_TTL, CODE_TTL, EXPIRES_IN, REFRESH_TTL,
        UPSTREAM_TIMEOUT} \subseteq Nat
    /\ 0 < CLIENT_IDLE_TTL /\ 0 < TRANSACTION_TTL /\ 0 < CODE_TTL /\ 0 < EXPIRES_IN /\ 0 < REFRESH_TTL
    /\ UPSTREAM_TIMEOUT < CLIENT_IDLE_TTL
    /\ TRANSACTION_TTL + UPSTREAM_TIMEOUT + CODE_TTL <= CLIENT_IDLE_TTL
BY RegistryAssumption

\* A sweep of the registry only removes clients, and only when it is full: those
\* neither live nor seen within the idle time (ClientRegistry::register).
LEMMA SweptEffect ==
    ASSUME NEW alive
    PROVE  LET r == Swept(registry, alive) IN
           /\ DOMAIN r \subseteq Registered
           /\ \A c \in DOMAIN r : r[c] = registry[c]
           /\ \A c \in Registered \ DOMAIN r :
                AtCapacity(registry) /\ c \notin alive /\ ~(registry[c] < CLIENT_IDLE_TTL)
<1>1. CASE AtCapacity(registry)
  <2>1. Swept(registry, alive) = [c \in DOMAIN registry \cap Kept(registry, alive) |-> registry[c]]
    BY <1>1 DEF Swept, Only
  <2> QED
    BY <1>1, <2>1 DEF Registered, Kept
<1>2. CASE ~AtCapacity(registry)
  BY <1>2 DEF Swept, Registered
<1> QED
  BY <1>1, <1>2

\* What a registration leaves: clients that were registered before, seen when they
\* were, and perhaps a fresh client, seen just now; the clients it removes were
\* idle and not in the live set.
LEMMA RegisterEffect ==
    ASSUME NEW h, register(h)
    PROVE  /\ \A c \in Registered' : \/ c \in Registered /\ registry'[c] = registry[c]
                                     \/ c \in Fresh /\ registry'[c] = 0
           /\ \A c \in Registered \ Registered' :
                AtCapacity(registry) /\ c \notin live[h] /\ ~(registry[c] < CLIENT_IDLE_TTL)
           /\ LET r == Swept(registry, live[h]) IN
              \/ Registered' = DOMAIN r
              \/ ~AtCapacity(r) /\ \E c \in Fresh : Registered' = DOMAIN r \cup {c}
<1> DEFINE r == Swept(registry, live[h])
<1>1. /\ DOMAIN r \subseteq Registered /\ \A c \in DOMAIN r : r[c] = registry[c]
      /\ \A c \in Registered \ DOMAIN r :
           AtCapacity(registry) /\ c \notin live[h] /\ ~(registry[c] < CLIENT_IDLE_TTL)
  BY SweptEffect
<1>2. CASE registry' = r
  BY <1>1, <1>2 DEF Registered
<1>3. CASE ~AtCapacity(r) /\ \E c \in Fresh :
             registry' = [x \in DOMAIN r \cup {c} |-> IF x = c THEN 0 ELSE r[x]]
  <2>1. PICK c \in Fresh : registry' = [x \in DOMAIN r \cup {c} |-> IF x = c THEN 0 ELSE r[x]]
    BY <1>3
  <2> HIDE DEF r
  <2>2. Registered' = DOMAIN r \cup {c}
    BY <2>1 DEF Registered
  <2>3. \A x \in DOMAIN r \cup {c} : registry'[x] = IF x = c THEN 0 ELSE r[x]
    BY <2>1
  <2>4. \A x \in Registered' : \/ x \in Registered /\ registry'[x] = registry[x]
                               \/ x \in Fresh /\ registry'[x] = 0
    BY <1>1, <2>2, <2>3
  <2>5. ~AtCapacity(r) /\ \E x \in Fresh : Registered' = DOMAIN r \cup {x}
    BY <1>3, <2>2
  <2> QED
    BY <1>1, <2>2, <2>4, <2>5 DEF r
<1> QED
  BY <1>2, <1>3 DEF register

\* One tick of a transaction, an exchange or a code: it loses a unit, or is over.
LEMMA AgedEffect ==
    ASSUME NEW f \in FlowRecord, f.stage = "none" \/ f.left > 0
    PROVE  /\ Aged(f) \in FlowRecord
           /\ Aged(f) = NoFlow \/ (Aged(f).stage = f.stage /\ Aged(f).left = f.left - 1)
           /\ f.stage \in {"transaction", "code"} /\ Aged(f) # NoFlow => f.left > 1
           /\ f.stage = "none" => Aged(f) = NoFlow
<1>1. f.stage \in {"none", "transaction", "exchange", "code"} /\ f.left \in Nat
  BY DEF FlowRecord
<1>2. CASE f.stage = "none"
  BY <1>2 DEF Aged, NoFlow, FlowRecord
<1>3. CASE f.stage = "exchange"
  BY <1>1, <1>3 DEF Aged, FlowRecord
<1>4. CASE f.stage \in {"transaction", "code"}
  <2>1. Aged(f) = IF f.left = 1 THEN NoFlow ELSE [f EXCEPT !.left = @ - 1]
    BY <1>4 DEF Aged
  <2> QED
    BY <1>1, <1>4, <2>1 DEF NoFlow, FlowRecord
<1> QED
  BY <1>1, <1>2, <1>3, <1>4

\* Every step keeps the types.
LEMMA TypeStep == RegistryInv /\ [Next]_vars => TypeOK'
<1> SUFFICES ASSUME RegistryInv, [Next]_vars PROVE TypeOK'
  OBVIOUS
<1> USE Times DEF RegistryInv, ShapesOK, FlowRecord
<1>1. ASSUME NEW h \in Handlers, RegisterClient(h) PROVE TypeOK'
  BY <1>1
     DEF RegisterClient, Goto, access_live_client_ids, TypeOK, Registered, NoFlow, Awaiting,
         Working, Serving, Issuing, tokens
<1>2. ASSUME NEW h \in Handlers, CollectRefresh(h) PROVE TypeOK'
  BY <1>2
     DEF CollectRefresh, Goto, refresh_live_client_ids, TypeOK, Registered, NoFlow, Awaiting,
         Working, Serving, Issuing, tokens
<1>3. ASSUME NEW h \in Handlers, register(h) PROVE TypeOK'
  <2>1. pc' \in [Handlers -> {"idle"} \cup Awaiting \cup Working] /\ client' \in [Handlers -> Clients \cup {None}]
        /\ live' \in [Handlers -> SUBSET Clients] /\ waited' \in [Handlers -> 0..UPSTREAM_TIMEOUT]
    BY <1>3 DEF register, Reply, TypeOK
  <2>2. UNCHANGED <<access, refresh, flow, session, lost>>
    BY <1>3 DEF register, tokens
  <2>3. Registered' \subseteq Clients /\ \A c \in Registered' : registry'[c] \in 0..CLIENT_IDLE_TTL
    BY <1>3, RegisterEffect DEF TypeOK, Fresh
  <2> QED
    BY <2>1, <2>2, <2>3 DEF TypeOK
<1>4. ASSUME NEW h \in Handlers, Touch(h) PROVE TypeOK'
  BY <1>4
     DEF Touch, Touched, Goto, Reply, TypeOK, Registered, NoFlow, Awaiting, Working, Serving,
         Issuing, tokens
<1>5. ASSUME NEW h \in Handlers, Begin(h) PROVE TypeOK'
  BY <1>5
     DEF Begin, Reply, TypeOK, Registered, NoFlow, Awaiting, Working, Serving, Issuing, tokens
<1>6. ASSUME NEW h \in Handlers, GrantTouch(h) PROVE TypeOK'
  BY <1>6
     DEF GrantTouch, Touched, Goto, TypeOK, Registered, NoFlow, Awaiting, Working, Serving,
         Issuing, tokens
<1>7. ASSUME NEW h \in Handlers, GrantInsert(h) PROVE TypeOK'
  <2>1. pc' \in [Handlers -> {"idle"} \cup Awaiting \cup Working] /\ client' \in [Handlers -> Clients \cup {None}]
        /\ live' \in [Handlers -> SUBSET Clients] /\ waited' \in [Handlers -> 0..UPSTREAM_TIMEOUT]
    <3>1. CASE Reply(h)
      BY <3>1 DEF Reply, TypeOK
    <3>2. CASE (\E l \in {"mint_access", "mint_refresh", "refreshing"} : Goto(h, l)) /\ UNCHANGED <<client, live, waited>>
      BY <3>2 DEF Goto, TypeOK, Awaiting, Working
    <3> QED
      BY <1>7, <3>1, <3>2 DEF GrantInsert
  <2>2. UNCHANGED <<registry, access, refresh, flow, lost>>
    BY <1>7 DEF GrantInsert, tokens
  <2>3. session' \subseteq Clients
    BY <1>7 DEF GrantInsert, TypeOK, Serving, Issuing
  <2> QED
    BY <2>1, <2>2, <2>3 DEF TypeOK, Registered
<1>8. ASSUME NEW h \in Handlers, MintAccess(h) PROVE TypeOK'
  <2>1. pc' \in [Handlers -> {"idle"} \cup Awaiting \cup Working] /\ client' \in [Handlers -> Clients \cup {None}]
        /\ live' \in [Handlers -> SUBSET Clients] /\ waited' \in [Handlers -> 0..UPSTREAM_TIMEOUT]
    <3>1. CASE Reply(h)
      BY <3>1 DEF Reply, TypeOK
    <3>2. CASE (\E l \in {"mint_access", "mint_refresh", "refreshing"} : Goto(h, l)) /\ UNCHANGED <<client, live, waited>>
      BY <3>2 DEF Goto, TypeOK, Awaiting, Working
    <3> QED
      BY <1>8, <3>1, <3>2 DEF MintAccess
  <2>2. UNCHANGED <<registry, refresh, flow, session, lost>>
    BY <1>8 DEF MintAccess, tokens
  <2>3. access' \in [Clients -> 0..EXPIRES_IN]
    BY <1>8 DEF MintAccess, TypeOK, Serving, Issuing
  <2> QED
    BY <2>1, <2>2, <2>3 DEF TypeOK, Registered
<1>9. ASSUME NEW h \in Handlers, MintRefresh(h) PROVE TypeOK'
  BY <1>9
     DEF MintRefresh, Reply, RefreshLifetime, TypeOK, Registered, NoFlow, Awaiting, Working,
         Serving, Issuing, tokens
<1>10. ASSUME NEW h \in Handlers, RefreshTouch(h) PROVE TypeOK'
  <2>1. pc' \in [Handlers -> {"idle"} \cup Awaiting \cup Working] /\ client' \in [Handlers -> Clients \cup {None}]
        /\ live' \in [Handlers -> SUBSET Clients] /\ waited' \in [Handlers -> 0..UPSTREAM_TIMEOUT]
    <3>1. CASE Reply(h)
      BY <3>1 DEF Reply, TypeOK
    <3>2. CASE (\E l \in {"mint_access", "mint_refresh", "refreshing"} : Goto(h, l)) /\ UNCHANGED <<client, live, waited>>
      BY <3>2 DEF Goto, TypeOK, Awaiting, Working
    <3> QED
      BY <1>10, <3>1, <3>2 DEF RefreshTouch
  <2>2. UNCHANGED <<access, refresh, flow, session, lost>>
    BY <1>10 DEF RefreshTouch, tokens
  <2>3. Registered' \subseteq Clients /\ \A c \in Registered' : registry'[c] \in 0..CLIENT_IDLE_TTL
    BY <1>10 DEF RefreshTouch, Touched, TypeOK, Registered
  <2> QED
    BY <2>1, <2>2, <2>3 DEF TypeOK, Registered
<1>11. ASSUME NEW h \in Handlers, Refreshed(h) PROVE TypeOK'
  BY <1>11
     DEF Refreshed, Goto, TypeOK, Registered, NoFlow, Awaiting, Working, Serving, Issuing,
         tokens
<1>12. ASSUME NEW h \in Handlers, RefreshFails(h) PROVE TypeOK'
  BY <1>12
     DEF RefreshFails, Reply, NoTokens, TypeOK, Registered, NoFlow, Awaiting, Working,
         Serving, Issuing, tokens
<1>13. ASSUME NEW h \in Handlers, NEW d \in Clients, LookUp(h, d) PROVE TypeOK'
  BY <1>13
     DEF LookUp, Goto, TypeOK, Registered, NoFlow, Awaiting, Working, Serving, Issuing, tokens
<1>14. ASSUME NEW h \in Handlers, NEW d \in Clients, Redeem(h, d) PROVE TypeOK'
  BY <1>14
     DEF Redeem, Goto, TypeOK, Registered, NoFlow, Awaiting, Working, Serving, Issuing, tokens
<1>15. ASSUME NEW h \in Handlers, NEW d \in Clients, RedeemRefresh(h, d) PROVE TypeOK'
  BY <1>15
     DEF RedeemRefresh, Goto, TypeOK, Registered, NoFlow, Awaiting, Working, Serving, Issuing,
         tokens
<1>16. ASSUME NEW d \in Clients, Callback(d) PROVE TypeOK'
  BY <1>16 DEF Callback, TypeOK, Registered, NoFlow, Awaiting, Working, Serving, Issuing, tokens
<1>17. ASSUME NEW d \in Clients, Exchanged(d) PROVE TypeOK'
  BY <1>17
     DEF Exchanged, TypeOK, Registered, NoFlow, Awaiting, Working, Serving, Issuing, tokens
<1>18. ASSUME NEW d \in Clients, EndSession(d) PROVE TypeOK'
  BY <1>18
     DEF EndSession, NoTokens, TypeOK, Registered, NoFlow, Awaiting, Working, Serving,
         Issuing, tokens
<1>19. CASE Tick
  <2>1. UNCHANGED <<session, pc, client, live>>
    BY <1>19 DEF Tick
  <2>2. Registered' = Registered /\ \A c \in Registered : registry'[c] \in 0..CLIENT_IDLE_TTL
    BY <1>19 DEF Tick, TypeOK, Registered
  <2>3. access' \in [Clients -> 0..EXPIRES_IN] /\ refresh' \in [Clients -> 0..REFRESH_TTL]
    BY <1>19 DEF Tick, TypeOK, Elapsed
  <2>4. waited' \in [Handlers -> 0..UPSTREAM_TIMEOUT]
    BY <1>19 DEF Tick, TypeOK
  <2>5. lost' \subseteq Clients
    BY <1>19 DEF Tick, TypeOK
  <2>6. ASSUME NEW c \in Clients
        PROVE  \/ flow'[c] = NoFlow
               \/ flow'[c].stage = "transaction" /\ flow'[c].left \in 1..TRANSACTION_TTL
               \/ flow'[c].stage = "exchange" /\ flow'[c].left \in 0..UPSTREAM_TIMEOUT
               \/ flow'[c].stage = "code" /\ flow'[c].left \in 1..CODE_TTL
    <3>1. flow'[c] = Aged(flow[c]) /\ (flow[c].stage = "exchange" => flow[c].left > 0)
      BY <1>19 DEF Tick
    <3> QED
      <4>1. flow[c] \in FlowRecord /\ (flow[c].stage = "none" \/ flow[c].left > 0)
        BY <3>1 DEF FlowRecord, TypeOK, NoFlow
      <4>2. Aged(flow[c]) = NoFlow \/ (Aged(flow[c]).stage = flow[c].stage /\ Aged(flow[c]).left = flow[c].left - 1)
        BY <4>1, AgedEffect
      <4>3. flow[c].stage \in {"transaction", "code"} /\ Aged(flow[c]) # NoFlow => flow[c].left > 1
        BY <4>1, AgedEffect
      <4> QED
        BY <3>1, <4>1, <4>2, <4>3, AgedEffect DEF TypeOK, NoFlow, FlowRecord
  <2> QED
    BY <2>1, <2>2, <2>3, <2>4, <2>5, <2>6 DEF TypeOK
<1>20. CASE UNCHANGED vars
  BY <1>20
     DEF vars, tokens, TypeOK, Registered, NoFlow, Awaiting, Working, Serving, Issuing, tokens
<1> QED
  BY <1>1, <1>2, <1>3, <1>4, <1>5, <1>6, <1>7, <1>8, <1>9, <1>10, <1>11, <1>12, <1>13, <1>14,
     <1>15, <1>16, <1>17, <1>18, <1>19, <1>20
     DEF Next

\* Every step keeps the shapes: a handler serves a client from its lookup to its
\* answer, and a client that was lost is not registered again while it is in use.
LEMMA ShapesStep == RegistryInv /\ [Next]_vars => ShapesOK'
<1> SUFFICES ASSUME RegistryInv, [Next]_vars PROVE ShapesOK'
  OBVIOUS
<1>0. TypeOK /\ TypeOK' /\ ShapesOK
  BY TypeStep DEF RegistryInv
<1> USE <1>0, Times
<1>1. ASSUME NEW h \in Handlers, RegisterClient(h) PROVE ShapesOK'
  BY <1>1
     DEF RegisterClient, Goto, access_live_client_ids, TypeOK, ShapesOK, FlowRecord,
         Registered, NoFlow, Serving, Issuing, tokens
<1>2. ASSUME NEW h \in Handlers, CollectRefresh(h) PROVE ShapesOK'
  BY <1>2
     DEF CollectRefresh, Goto, refresh_live_client_ids, TypeOK, ShapesOK, FlowRecord,
         Registered, NoFlow, Serving, Issuing, tokens
<1>3. ASSUME NEW h \in Handlers, register(h) PROVE ShapesOK'
  BY <1>3, RegisterEffect
     DEF register, Reply, Fresh, TypeOK, ShapesOK, FlowRecord, Registered, NoFlow, Serving,
         Issuing, tokens
<1>4. ASSUME NEW h \in Handlers, Touch(h) PROVE ShapesOK'
  BY <1>4
     DEF Touch, Touched, Goto, Reply, TypeOK, ShapesOK, FlowRecord, Registered, NoFlow,
         Serving, Issuing, tokens
<1>5. ASSUME NEW h \in Handlers, Begin(h) PROVE ShapesOK'
  BY <1>5
     DEF Begin, Reply, TypeOK, ShapesOK, FlowRecord, Registered, NoFlow, Serving, Issuing,
         tokens
<1>6. ASSUME NEW h \in Handlers, GrantTouch(h) PROVE ShapesOK'
  BY <1>6
     DEF GrantTouch, Touched, Goto, TypeOK, ShapesOK, FlowRecord, Registered, NoFlow, Serving,
         Issuing, tokens
<1>7. ASSUME NEW h \in Handlers, GrantInsert(h) PROVE ShapesOK'
  BY <1>7
     DEF GrantInsert, Goto, Reply, TypeOK, ShapesOK, FlowRecord, Registered, NoFlow, Serving,
         Issuing, tokens
<1>8. ASSUME NEW h \in Handlers, MintAccess(h) PROVE ShapesOK'
  BY <1>8
     DEF MintAccess, Goto, Reply, TypeOK, ShapesOK, FlowRecord, Registered, NoFlow, Serving,
         Issuing, tokens
<1>9. ASSUME NEW h \in Handlers, MintRefresh(h) PROVE ShapesOK'
  BY <1>9
     DEF MintRefresh, Reply, RefreshLifetime, TypeOK, ShapesOK, FlowRecord, Registered,
         NoFlow, Serving, Issuing, tokens
<1>10. ASSUME NEW h \in Handlers, RefreshTouch(h) PROVE ShapesOK'
  BY <1>10
     DEF RefreshTouch, Touched, Goto, Reply, TypeOK, ShapesOK, FlowRecord, Registered, NoFlow,
         Serving, Issuing, tokens
<1>11. ASSUME NEW h \in Handlers, Refreshed(h) PROVE ShapesOK'
  BY <1>11
     DEF Refreshed, Goto, TypeOK, ShapesOK, FlowRecord, Registered, NoFlow, Serving, Issuing,
         tokens
<1>12. ASSUME NEW h \in Handlers, RefreshFails(h) PROVE ShapesOK'
  BY <1>12
     DEF RefreshFails, Reply, NoTokens, TypeOK, ShapesOK, FlowRecord, Registered, NoFlow,
         Serving, Issuing, tokens
<1>13. ASSUME NEW h \in Handlers, NEW d \in Clients, LookUp(h, d) PROVE ShapesOK'
  BY <1>13
     DEF LookUp, Goto, TypeOK, ShapesOK, FlowRecord, Registered, NoFlow, Serving, Issuing,
         tokens
<1>14. ASSUME NEW h \in Handlers, NEW d \in Clients, Redeem(h, d) PROVE ShapesOK'
  BY <1>14
     DEF Redeem, Goto, TypeOK, ShapesOK, FlowRecord, Registered, NoFlow, Serving, Issuing,
         tokens
<1>15. ASSUME NEW h \in Handlers, NEW d \in Clients, RedeemRefresh(h, d) PROVE ShapesOK'
  BY <1>15
     DEF RedeemRefresh, Goto, TypeOK, ShapesOK, FlowRecord, Registered, NoFlow, Serving,
         Issuing, tokens
<1>16. ASSUME NEW d \in Clients, Callback(d) PROVE ShapesOK'
  BY <1>16
     DEF Callback, TypeOK, ShapesOK, FlowRecord, Registered, NoFlow, Serving, Issuing, tokens
<1>17. ASSUME NEW d \in Clients, Exchanged(d) PROVE ShapesOK'
  <2>1. flow' \in [Clients -> FlowRecord]
    <3>1. CASE flow' = [flow EXCEPT ![d] = [stage |-> "code", left |-> CODE_TTL]]
      BY <3>1 DEF ShapesOK, FlowRecord
    <3>2. CASE flow' = [flow EXCEPT ![d] = NoFlow]
      BY <3>2 DEF ShapesOK, FlowRecord, NoFlow
    <3> QED
      BY <1>17, <3>1, <3>2 DEF Exchanged
  <2> QED
    BY <1>17, <2>1 DEF Exchanged, ShapesOK, Registered
<1>18. ASSUME NEW d \in Clients, EndSession(d) PROVE ShapesOK'
  BY <1>18
     DEF EndSession, NoTokens, TypeOK, ShapesOK, FlowRecord, Registered, NoFlow, Serving,
         Issuing, tokens
<1>19. CASE Tick
  <2>1. ASSUME NEW c \in Clients PROVE Aged(flow[c]) \in FlowRecord
    <3>1. flow[c] \in FlowRecord /\ (flow[c].stage = "none" \/ flow[c].left > 0)
      BY <1>19 DEF Tick, ShapesOK, FlowRecord, TypeOK, NoFlow
    <3> QED
      BY <3>1, AgedEffect
  <2>2. flow' \in [Clients -> FlowRecord]
    BY <1>19, <2>1 DEF Tick
  <2>3. Registered' = Registered /\ lost' \subseteq lost /\ UNCHANGED <<pc, client>>
    BY <1>19 DEF Tick, Registered
  <2> QED
    BY <2>2, <2>3 DEF ShapesOK
<1>20. CASE UNCHANGED vars
  BY <1>20
     DEF vars, tokens, TypeOK, ShapesOK, FlowRecord, Registered, NoFlow, Serving, Issuing,
         tokens
<1> QED
  BY <1>1, <1>2, <1>3, <1>4, <1>5, <1>6, <1>7, <1>8, <1>9, <1>10, <1>11, <1>12, <1>13, <1>14,
     <1>15, <1>16, <1>17, <1>18, <1>19, <1>20
     DEF Next

\* The registry never holds more than MAX_CLIENTS: only a registration adds a
\* client, under the lock under which it found room (ClientRegistry::register).
LEMMA CapStep == RegistryInv /\ [Next]_vars => CapOK'
<1> SUFFICES ASSUME RegistryInv, [Next]_vars PROVE CapOK'
  OBVIOUS
<1>1. ASSUME NEW h \in Handlers, register(h) PROVE CapOK'
  <2> DEFINE r == Swept(registry, live[h])
  <2>1. IsFiniteSet(Registered) /\ Cardinality(Registered) <= MAX_CLIENTS /\ DOMAIN r \subseteq Registered
    BY SweptEffect DEF RegistryInv, CapOK
  <2>2. /\ IsFiniteSet(DOMAIN r) /\ Cardinality(DOMAIN r) <= MAX_CLIENTS
        /\ Cardinality(DOMAIN r) \in Nat /\ MAX_CLIENTS \in Nat
    BY <2>1, FS_Subset, FS_CardinalityType, Times
  <2>3. CASE Registered' = DOMAIN r
    BY <2>2, <2>3 DEF CapOK
  <2>4. CASE ~AtCapacity(r) /\ \E c \in Fresh : Registered' = DOMAIN r \cup {c}
    <3>1. PICK c \in Fresh : Registered' = DOMAIN r \cup {c}
      BY <2>4
    <3>2. Cardinality(DOMAIN r) < MAX_CLIENTS
      BY <2>2, <2>4 DEF AtCapacity
    <3>3. c \notin DOMAIN r
      BY <2>1 DEF Fresh
    <3>4. IsFiniteSet(DOMAIN r \cup {c}) /\ Cardinality(DOMAIN r \cup {c}) = Cardinality(DOMAIN r) + 1
      BY <2>2, <3>3, FS_AddElement
    <3> QED
      BY <2>2, <3>1, <3>2, <3>4 DEF CapOK
  <2> QED
    BY <1>1, <2>3, <2>4, RegisterEffect
<1>2. CASE Registered' = Registered
  BY <1>2 DEF RegistryInv, CapOK
<1> QED
  BY <1>1, <1>2
  DEF Next, vars, Registered, RegisterClient, CollectRefresh, Touch, Touched, Begin, GrantTouch, GrantInsert,
      MintAccess, MintRefresh, RefreshTouch, Refreshed, RefreshFails, LookUp, Redeem, RedeemRefresh,
      Callback, Exchanged, EndSession, Tick

------------------------------------------------------------------------------
(* Clients *)

\* Every step of every handler, and time, keep what is known of each client; the
\* registration is the step that could break it, with its old live set.
LEMMA ClientStep ==
    ASSUME RegistryInv, [Next]_vars, NEW c \in Clients
    PROVE  ClientOK(c)'
<1>0. /\ TypeOK /\ TypeOK' /\ ShapesOK /\ ShapesOK' /\ ClientOK(c)
  BY TypeStep, ShapesStep DEF RegistryInv
<1>1. ASSUME NEW h \in Handlers, RegisterClient(h) PROVE ClientOK(c)'
  <2>1. FlowOK(c)'
    BY <1>0, <1>1, Times
       DEF RegisterClient, Goto, access_live_client_ids, TypeOK, ShapesOK, FlowRecord,
           Registered, Holds, NoFlow, tokens, SeenWithin, ClientOK, FlowOK
  <2>2. HolderOK(c)'
    BY <1>0, <1>1, Times
       DEF RegisterClient, Goto, access_live_client_ids, TypeOK, ShapesOK, FlowRecord,
           Registered, Holds, NoFlow, tokens, SeenWithin, ClientOK, HolderOK, ServedOK, Issuing
  <2>3. ASSUME NEW g \in Handlers PROVE CollectedOK(g, c)'
    BY <1>0, <1>1, Times
       DEF RegisterClient, Goto, access_live_client_ids, TypeOK, ShapesOK, FlowRecord,
           Registered, Holds, NoFlow, tokens, SeenWithin, ClientOK, CollectedOK, ServedOK,
           Issuing
  <2>4. ASSUME NEW g \in Handlers, client'[g] = c PROVE ServedOK(g, c)'
    BY <1>0, <1>1, <2>4, Times
       DEF RegisterClient, Goto, access_live_client_ids, TypeOK, ShapesOK, FlowRecord,
           Registered, Holds, NoFlow, tokens, SeenWithin, ClientOK, CollectedOK, ServedOK,
           Issuing
  <2> QED
    BY <2>1, <2>2, <2>3, <2>4 DEF ClientOK
<1>2. ASSUME NEW h \in Handlers, CollectRefresh(h) PROVE ClientOK(c)'
  <2>1. FlowOK(c)'
    BY <1>0, <1>2, Times
       DEF CollectRefresh, Goto, refresh_live_client_ids, TypeOK, ShapesOK, FlowRecord,
           Registered, Holds, NoFlow, tokens, SeenWithin, ClientOK, FlowOK
  <2>2. HolderOK(c)'
    BY <1>0, <1>2, Times
       DEF CollectRefresh, Goto, refresh_live_client_ids, TypeOK, ShapesOK, FlowRecord,
           Registered, Holds, NoFlow, tokens, SeenWithin, ClientOK, HolderOK, ServedOK, Issuing
  <2>3. ASSUME NEW g \in Handlers PROVE CollectedOK(g, c)'
    BY <1>0, <1>2, Times
       DEF CollectRefresh, Goto, refresh_live_client_ids, TypeOK, ShapesOK, FlowRecord,
           Registered, Holds, NoFlow, tokens, SeenWithin, ClientOK, CollectedOK, ServedOK,
           Issuing
  <2>4. ASSUME NEW g \in Handlers, client'[g] = c PROVE ServedOK(g, c)'
    BY <1>0, <1>2, <2>4, Times
       DEF CollectRefresh, Goto, refresh_live_client_ids, TypeOK, ShapesOK, FlowRecord,
           Registered, Holds, NoFlow, tokens, SeenWithin, ClientOK, CollectedOK, ServedOK,
           Issuing
  <2> QED
    BY <2>1, <2>2, <2>3, <2>4 DEF ClientOK
<1>3. ASSUME NEW h \in Handlers, register(h) PROVE ClientOK(c)'
  <2>a. /\ UNCHANGED <<access, refresh, flow, session, lost>> /\ pc[h] = "register"
        /\ \A g \in Handlers : g = h => pc'[g] = "idle"
        /\ \A g \in Handlers : g # h => /\ pc'[g] = pc[g] /\ client'[g] = client[g]
                                        /\ live'[g] = live[g] /\ waited'[g] = waited[g]
    BY <1>0, <1>3 DEF register, Reply, tokens, TypeOK
  <2>b. c \in Registered' => \/ c \in Registered /\ registry'[c] = registry[c]
                             \/ c \in Fresh /\ registry'[c] = 0
    BY <1>3, RegisterEffect
  <2>c. ASSUME c \in Registered, c \notin Registered'
        PROVE  ~Holds(c) /\ ~(registry[c] < CLIENT_IDLE_TTL) /\ registry[c] \in Nat
    <3>1. c \notin live[h] /\ ~(registry[c] < CLIENT_IDLE_TTL)
      BY <1>3, <2>c, RegisterEffect
    <3>2. CollectedOK(h, c)
      BY <1>0 DEF ClientOK
    <3> QED
      BY <1>0, <2>a, <2>c, <3>1, <3>2 DEF CollectedOK, TypeOK
  <2>1. FlowOK(c)'
    <3>1. FlowOK(c) /\ (flow[c] = NoFlow \/ flow[c].left \in Nat)
      BY <1>0 DEF ClientOK, TypeOK
    <3>2. CASE c \in Registered /\ c \notin Registered'
      BY <1>0, <2>a, <2>c, <3>1, <3>2, Times DEF FlowOK, SeenWithin, TypeOK, NoFlow
    <3>3. CASE c \in Registered /\ c \in Registered'
      BY <2>a, <2>b, <3>1, <3>3 DEF FlowOK, SeenWithin, Fresh
    <3>4. CASE c \notin Registered
      BY <2>a, <2>b, <3>1, <3>4 DEF FlowOK, SeenWithin, Fresh, NoFlow
    <3> QED
      BY <3>2, <3>3, <3>4
  <2>2. HolderOK(c)'
    BY <1>0, <2>a, <2>c DEF ClientOK, HolderOK, Holds
  <2>3. ASSUME NEW g \in Handlers PROVE CollectedOK(g, c)'
    BY <1>0, <2>a, <2>b, Times DEF ClientOK, CollectedOK, Holds
  <2>4. ASSUME NEW g \in Handlers, client'[g] = c PROVE ServedOK(g, c)'
    <3>1. CASE g = h
      BY <2>a, <3>1 DEF ServedOK, Issuing
    <3>2. CASE g # h
      <4>1. ServedOK(g, c) /\ client[g] = c /\ waited[g] \in 0..UPSTREAM_TIMEOUT
        BY <1>0, <2>a, <2>4, <3>2 DEF ClientOK, TypeOK
      <4>2. c \notin Fresh
        BY <4>1 DEF Fresh
      <4>3. CASE c \in Registered /\ c \notin Registered'
        BY <2>a, <2>c, <3>2, <4>1, <4>3, Times DEF ServedOK, SeenWithin
      <4>4. CASE ~(c \in Registered /\ c \notin Registered')
        BY <2>a, <2>b, <3>2, <4>1, <4>2, <4>4 DEF ServedOK, SeenWithin, Holds
      <4> QED
        BY <4>3, <4>4
    <3> QED
      BY <3>1, <3>2
  <2> QED
    BY <2>1, <2>2, <2>3, <2>4 DEF ClientOK
<1>4. ASSUME NEW h \in Handlers, Touch(h) PROVE ClientOK(c)'
  <2>1. FlowOK(c)'
    BY <1>0, <1>4, Times
       DEF Touch, Touched, Goto, Reply, TypeOK, ShapesOK, FlowRecord, Registered, Holds,
           NoFlow, tokens, SeenWithin, ClientOK, FlowOK
  <2>2. HolderOK(c)'
    BY <1>0, <1>4, Times
       DEF Touch, Touched, Goto, Reply, TypeOK, ShapesOK, FlowRecord, Registered, Holds,
           NoFlow, tokens, SeenWithin, ClientOK, HolderOK, ServedOK, Issuing
  <2>3. ASSUME NEW g \in Handlers PROVE CollectedOK(g, c)'
    BY <1>0, <1>4, Times
       DEF Touch, Touched, Goto, Reply, TypeOK, ShapesOK, FlowRecord, Registered, Holds,
           NoFlow, tokens, SeenWithin, ClientOK, CollectedOK, ServedOK, Issuing
  <2>4. ASSUME NEW g \in Handlers, client'[g] = c PROVE ServedOK(g, c)'
    BY <1>0, <1>4, <2>4, Times
       DEF Touch, Touched, Goto, Reply, TypeOK, ShapesOK, FlowRecord, Registered, Holds,
           NoFlow, tokens, SeenWithin, ClientOK, CollectedOK, ServedOK, Issuing
  <2> QED
    BY <2>1, <2>2, <2>3, <2>4 DEF ClientOK
<1>5. ASSUME NEW h \in Handlers, Begin(h) PROVE ClientOK(c)'
  <2>1. FlowOK(c)'
    <3>1. /\ pc[h] = "begin" /\ client[h] \in Clients /\ registry' = registry
          /\ flow' = [flow EXCEPT ![client[h]] = [stage |-> "transaction", left |-> TRANSACTION_TTL]]
          /\ lost' = IF client[h] \in Registered THEN lost ELSE lost \cup {client[h]}
      BY <1>0, <1>5 DEF Begin, ShapesOK, Serving
    <3>2. CASE c = client[h]
      <4>1. c \notin lost' => c \in Registered /\ registry[c] = 0
        BY <1>0, <3>1, <3>2 DEF ClientOK, ServedOK
      <4>2. flow'[c].stage = "transaction" /\ flow'[c].left = TRANSACTION_TTL
        BY <1>0, <3>1, <3>2 DEF ShapesOK
      <4> QED
        BY <3>1, <4>1, <4>2, Times DEF FlowOK, SeenWithin, Registered
    <3>3. CASE c # client[h]
      <4>1. flow'[c] = flow[c] /\ (c \in lost' <=> c \in lost)
        BY <1>0, <3>1, <3>3 DEF ShapesOK
      <4> QED
        BY <1>0, <3>1, <4>1 DEF ClientOK, FlowOK, SeenWithin, Registered
    <3> QED
      BY <3>2, <3>3
  <2>2. HolderOK(c)'
    BY <1>0, <1>5, Times
       DEF Begin, Reply, TypeOK, ShapesOK, FlowRecord, Registered, Holds, NoFlow, tokens,
           SeenWithin, ClientOK, HolderOK, ServedOK, Issuing
  <2>3. ASSUME NEW g \in Handlers PROVE CollectedOK(g, c)'
    BY <1>0, <1>5, Times
       DEF Begin, Reply, TypeOK, ShapesOK, FlowRecord, Registered, Holds, NoFlow, tokens,
           SeenWithin, ClientOK, CollectedOK, ServedOK, Issuing
  <2>4. ASSUME NEW g \in Handlers, client'[g] = c PROVE ServedOK(g, c)'
    BY <1>0, <1>5, <2>4, Times
       DEF Begin, Reply, TypeOK, ShapesOK, FlowRecord, Registered, Holds, NoFlow, tokens,
           SeenWithin, ClientOK, CollectedOK, ServedOK, Issuing
  <2> QED
    BY <2>1, <2>2, <2>3, <2>4 DEF ClientOK
<1>6. ASSUME NEW h \in Handlers, GrantTouch(h) PROVE ClientOK(c)'
  <2>1. FlowOK(c)'
    BY <1>0, <1>6, Times
       DEF GrantTouch, Touched, Goto, TypeOK, ShapesOK, FlowRecord, Registered, Holds, NoFlow,
           tokens, SeenWithin, ClientOK, FlowOK
  <2>2. HolderOK(c)'
    BY <1>0, <1>6, Times
       DEF GrantTouch, Touched, Goto, TypeOK, ShapesOK, FlowRecord, Registered, Holds, NoFlow,
           tokens, SeenWithin, ClientOK, HolderOK, ServedOK, Issuing
  <2>3. ASSUME NEW g \in Handlers PROVE CollectedOK(g, c)'
    BY <1>0, <1>6, Times
       DEF GrantTouch, Touched, Goto, TypeOK, ShapesOK, FlowRecord, Registered, Holds, NoFlow,
           tokens, SeenWithin, ClientOK, CollectedOK, ServedOK, Issuing
  <2>4. ASSUME NEW g \in Handlers, client'[g] = c PROVE ServedOK(g, c)'
    BY <1>0, <1>6, <2>4, Times
       DEF GrantTouch, Touched, Goto, TypeOK, ShapesOK, FlowRecord, Registered, Holds, NoFlow,
           tokens, SeenWithin, ClientOK, CollectedOK, ServedOK, Issuing
  <2> QED
    BY <2>1, <2>2, <2>3, <2>4 DEF ClientOK
<1>7. ASSUME NEW h \in Handlers, GrantInsert(h) PROVE ClientOK(c)'
  <2>1. FlowOK(c)'
    BY <1>0, <1>7, Times
       DEF GrantInsert, Goto, Reply, TypeOK, ShapesOK, FlowRecord, Registered, Holds, NoFlow,
           tokens, SeenWithin, ClientOK, FlowOK
  <2>2. HolderOK(c)'
    BY <1>0, <1>7, Times
       DEF GrantInsert, Goto, Reply, TypeOK, ShapesOK, FlowRecord, Registered, Holds, NoFlow,
           tokens, SeenWithin, ClientOK, HolderOK, ServedOK, Issuing
  <2>3. ASSUME NEW g \in Handlers PROVE CollectedOK(g, c)'
    BY <1>0, <1>7, Times
       DEF GrantInsert, Goto, Reply, TypeOK, ShapesOK, FlowRecord, Registered, Holds, NoFlow,
           tokens, SeenWithin, ClientOK, CollectedOK, ServedOK, Issuing
  <2>4. ASSUME NEW g \in Handlers, client'[g] = c PROVE ServedOK(g, c)'
    BY <1>0, <1>7, <2>4, Times
       DEF GrantInsert, Goto, Reply, TypeOK, ShapesOK, FlowRecord, Registered, Holds, NoFlow,
           tokens, SeenWithin, ClientOK, CollectedOK, ServedOK, Issuing
  <2> QED
    BY <2>1, <2>2, <2>3, <2>4 DEF ClientOK
<1>8. ASSUME NEW h \in Handlers, MintAccess(h) PROVE ClientOK(c)'
  <2>1. FlowOK(c)'
    BY <1>0, <1>8, Times
       DEF MintAccess, Goto, Reply, TypeOK, ShapesOK, FlowRecord, Registered, Holds, NoFlow,
           tokens, SeenWithin, ClientOK, FlowOK
  <2>2. HolderOK(c)'
    BY <1>0, <1>8, Times
       DEF MintAccess, Goto, Reply, TypeOK, ShapesOK, FlowRecord, Registered, Holds, NoFlow,
           tokens, SeenWithin, ClientOK, HolderOK, ServedOK, Issuing
  <2>3. ASSUME NEW g \in Handlers PROVE CollectedOK(g, c)'
    BY <1>0, <1>8, Times
       DEF MintAccess, Goto, Reply, TypeOK, ShapesOK, FlowRecord, Registered, Holds, NoFlow,
           tokens, SeenWithin, ClientOK, CollectedOK, ServedOK, Issuing
  <2>4. ASSUME NEW g \in Handlers, client'[g] = c PROVE ServedOK(g, c)'
    BY <1>0, <1>8, <2>4, Times
       DEF MintAccess, Goto, Reply, TypeOK, ShapesOK, FlowRecord, Registered, Holds, NoFlow,
           tokens, SeenWithin, ClientOK, CollectedOK, ServedOK, Issuing
  <2> QED
    BY <2>1, <2>2, <2>3, <2>4 DEF ClientOK
<1>9. ASSUME NEW h \in Handlers, MintRefresh(h) PROVE ClientOK(c)'
  <2>1. FlowOK(c)'
    BY <1>0, <1>9, Times
       DEF MintRefresh, Reply, RefreshLifetime, TypeOK, ShapesOK, FlowRecord, Registered,
           Holds, NoFlow, tokens, SeenWithin, ClientOK, FlowOK
  <2>2. HolderOK(c)'
    BY <1>0, <1>9, Times
       DEF MintRefresh, Reply, RefreshLifetime, TypeOK, ShapesOK, FlowRecord, Registered,
           Holds, NoFlow, tokens, SeenWithin, ClientOK, HolderOK, ServedOK, Issuing
  <2>3. ASSUME NEW g \in Handlers PROVE CollectedOK(g, c)'
    BY <1>0, <1>9, Times
       DEF MintRefresh, Reply, RefreshLifetime, TypeOK, ShapesOK, FlowRecord, Registered,
           Holds, NoFlow, tokens, SeenWithin, ClientOK, CollectedOK, ServedOK, Issuing
  <2>4. ASSUME NEW g \in Handlers, client'[g] = c PROVE ServedOK(g, c)'
    BY <1>0, <1>9, <2>4, Times
       DEF MintRefresh, Reply, RefreshLifetime, TypeOK, ShapesOK, FlowRecord, Registered,
           Holds, NoFlow, tokens, SeenWithin, ClientOK, CollectedOK, ServedOK, Issuing
  <2> QED
    BY <2>1, <2>2, <2>3, <2>4 DEF ClientOK
<1>10. ASSUME NEW h \in Handlers, RefreshTouch(h) PROVE ClientOK(c)'
  <2>1. FlowOK(c)'
    BY <1>0, <1>10, Times
       DEF RefreshTouch, Touched, Goto, Reply, TypeOK, ShapesOK, FlowRecord, Registered,
           Holds, NoFlow, tokens, SeenWithin, ClientOK, FlowOK
  <2>2. HolderOK(c)'
    BY <1>0, <1>10, Times
       DEF RefreshTouch, Touched, Goto, Reply, TypeOK, ShapesOK, FlowRecord, Registered,
           Holds, NoFlow, tokens, SeenWithin, ClientOK, HolderOK, ServedOK, Issuing
  <2>3. ASSUME NEW g \in Handlers PROVE CollectedOK(g, c)'
    BY <1>0, <1>10, Times
       DEF RefreshTouch, Touched, Goto, Reply, TypeOK, ShapesOK, FlowRecord, Registered,
           Holds, NoFlow, tokens, SeenWithin, ClientOK, CollectedOK, ServedOK, Issuing
  <2>4. ASSUME NEW g \in Handlers, client'[g] = c PROVE ServedOK(g, c)'
    BY <1>0, <1>10, <2>4, Times
       DEF RefreshTouch, Touched, Goto, Reply, TypeOK, ShapesOK, FlowRecord, Registered,
           Holds, NoFlow, tokens, SeenWithin, ClientOK, CollectedOK, ServedOK, Issuing
  <2> QED
    BY <2>1, <2>2, <2>3, <2>4 DEF ClientOK
<1>11. ASSUME NEW h \in Handlers, Refreshed(h) PROVE ClientOK(c)'
  <2>1. FlowOK(c)'
    BY <1>0, <1>11, Times
       DEF Refreshed, Goto, TypeOK, ShapesOK, FlowRecord, Registered, Holds, NoFlow, tokens,
           SeenWithin, ClientOK, FlowOK
  <2>2. HolderOK(c)'
    BY <1>0, <1>11, Times
       DEF Refreshed, Goto, TypeOK, ShapesOK, FlowRecord, Registered, Holds, NoFlow, tokens,
           SeenWithin, ClientOK, HolderOK, ServedOK, Issuing
  <2>3. ASSUME NEW g \in Handlers PROVE CollectedOK(g, c)'
    BY <1>0, <1>11, Times
       DEF Refreshed, Goto, TypeOK, ShapesOK, FlowRecord, Registered, Holds, NoFlow, tokens,
           SeenWithin, ClientOK, CollectedOK, ServedOK, Issuing
  <2>4. ASSUME NEW g \in Handlers, client'[g] = c PROVE ServedOK(g, c)'
    BY <1>0, <1>11, <2>4, Times
       DEF Refreshed, Goto, TypeOK, ShapesOK, FlowRecord, Registered, Holds, NoFlow, tokens,
           SeenWithin, ClientOK, CollectedOK, ServedOK, Issuing
  <2> QED
    BY <2>1, <2>2, <2>3, <2>4 DEF ClientOK
<1>12. ASSUME NEW h \in Handlers, RefreshFails(h) PROVE ClientOK(c)'
  <2>1. FlowOK(c)'
    BY <1>0, <1>12, Times
       DEF RefreshFails, Reply, NoTokens, TypeOK, ShapesOK, FlowRecord, Registered, Holds,
           NoFlow, tokens, SeenWithin, ClientOK, FlowOK
  <2>2. HolderOK(c)'
    BY <1>0, <1>12, Times
       DEF RefreshFails, Reply, NoTokens, TypeOK, ShapesOK, FlowRecord, Registered, Holds,
           NoFlow, tokens, SeenWithin, ClientOK, HolderOK, ServedOK, Issuing
  <2>3. ASSUME NEW g \in Handlers PROVE CollectedOK(g, c)'
    BY <1>0, <1>12, Times
       DEF RefreshFails, Reply, NoTokens, TypeOK, ShapesOK, FlowRecord, Registered, Holds,
           NoFlow, tokens, SeenWithin, ClientOK, CollectedOK, ServedOK, Issuing
  <2>4. ASSUME NEW g \in Handlers, client'[g] = c PROVE ServedOK(g, c)'
    BY <1>0, <1>12, <2>4, Times
       DEF RefreshFails, Reply, NoTokens, TypeOK, ShapesOK, FlowRecord, Registered, Holds,
           NoFlow, tokens, SeenWithin, ClientOK, CollectedOK, ServedOK, Issuing
  <2> QED
    BY <2>1, <2>2, <2>3, <2>4 DEF ClientOK
<1>13. ASSUME NEW h \in Handlers, NEW d \in Clients, LookUp(h, d) PROVE ClientOK(c)'
  <2>1. FlowOK(c)'
    BY <1>0, <1>13, Times
       DEF LookUp, Goto, TypeOK, ShapesOK, FlowRecord, Registered, Holds, NoFlow, tokens,
           SeenWithin, ClientOK, FlowOK
  <2>2. HolderOK(c)'
    BY <1>0, <1>13, Times
       DEF LookUp, Goto, TypeOK, ShapesOK, FlowRecord, Registered, Holds, NoFlow, tokens,
           SeenWithin, ClientOK, HolderOK, ServedOK, Issuing
  <2>3. ASSUME NEW g \in Handlers PROVE CollectedOK(g, c)'
    BY <1>0, <1>13, Times
       DEF LookUp, Goto, TypeOK, ShapesOK, FlowRecord, Registered, Holds, NoFlow, tokens,
           SeenWithin, ClientOK, CollectedOK, ServedOK, Issuing
  <2>4. ASSUME NEW g \in Handlers, client'[g] = c PROVE ServedOK(g, c)'
    BY <1>0, <1>13, <2>4, Times
       DEF LookUp, Goto, TypeOK, ShapesOK, FlowRecord, Registered, Holds, NoFlow, tokens,
           SeenWithin, ClientOK, CollectedOK, ServedOK, Issuing
  <2> QED
    BY <2>1, <2>2, <2>3, <2>4 DEF ClientOK
<1>14. ASSUME NEW h \in Handlers, NEW d \in Clients, Redeem(h, d) PROVE ClientOK(c)'
  <2>1. FlowOK(c)'
    BY <1>0, <1>14, Times
       DEF Redeem, Goto, TypeOK, ShapesOK, FlowRecord, Registered, Holds, NoFlow, tokens,
           SeenWithin, ClientOK, FlowOK
  <2>2. HolderOK(c)'
    BY <1>0, <1>14, Times
       DEF Redeem, Goto, TypeOK, ShapesOK, FlowRecord, Registered, Holds, NoFlow, tokens,
           SeenWithin, ClientOK, HolderOK, ServedOK, Issuing
  <2>3. ASSUME NEW g \in Handlers PROVE CollectedOK(g, c)'
    BY <1>0, <1>14, Times
       DEF Redeem, Goto, TypeOK, ShapesOK, FlowRecord, Registered, Holds, NoFlow, tokens,
           SeenWithin, ClientOK, CollectedOK, ServedOK, Issuing
  <2>4. ASSUME NEW g \in Handlers, client'[g] = c PROVE ServedOK(g, c)'
    <3>0. /\ UNCHANGED <<registry, access, refresh, session, live, waited, lost>> /\ flow[d].stage = "code"
          /\ client' = [client EXCEPT ![h] = d] /\ pc' = [pc EXCEPT ![h] = "grant_touch"]
      BY <1>14 DEF Redeem, Goto, tokens
    <3>1. CASE g = h
      <4>1. c = d /\ pc'[g] = "grant_touch"
        BY <1>0, <2>4, <3>0, <3>1 DEF TypeOK
      <4>2. flow[c].left \in 1..CODE_TTL /\ FlowOK(c)
        BY <1>0, <3>0, <4>1 DEF TypeOK, ClientOK, NoFlow
      <4>3. c \in Registered => registry[c] \in Nat
        BY <1>0 DEF TypeOK
      <4>4. c \notin lost => SeenWithin(c, CLIENT_IDLE_TTL - 1)
        BY <3>0, <4>1, <4>2, <4>3, Times DEF FlowOK, SeenWithin
      <4> QED
        BY <3>0, <4>1, <4>4 DEF ServedOK, SeenWithin, Registered, Issuing
    <3>2. CASE g # h
      <4>1. client[g] = c /\ pc'[g] = pc[g]
        BY <1>0, <2>4, <3>0, <3>2 DEF TypeOK
      <4> QED
        BY <1>0, <3>0, <4>1 DEF ClientOK, ServedOK, SeenWithin, Registered, Holds
    <3> QED
      BY <3>1, <3>2
  <2> QED
    BY <2>1, <2>2, <2>3, <2>4 DEF ClientOK
<1>15. ASSUME NEW h \in Handlers, NEW d \in Clients, RedeemRefresh(h, d) PROVE ClientOK(c)'
  <2>1. FlowOK(c)'
    BY <1>0, <1>15, Times
       DEF RedeemRefresh, Goto, TypeOK, ShapesOK, FlowRecord, Registered, Holds, NoFlow,
           tokens, SeenWithin, ClientOK, FlowOK
  <2>2. HolderOK(c)'
    BY <1>0, <1>15, Times
       DEF RedeemRefresh, Goto, TypeOK, ShapesOK, FlowRecord, Registered, Holds, NoFlow,
           tokens, SeenWithin, ClientOK, HolderOK, ServedOK, Issuing
  <2>3. ASSUME NEW g \in Handlers PROVE CollectedOK(g, c)'
    BY <1>0, <1>15, Times
       DEF RedeemRefresh, Goto, TypeOK, ShapesOK, FlowRecord, Registered, Holds, NoFlow,
           tokens, SeenWithin, ClientOK, CollectedOK, ServedOK, Issuing
  <2>4. ASSUME NEW g \in Handlers, client'[g] = c PROVE ServedOK(g, c)'
    <3>0. /\ UNCHANGED <<registry, access, refresh, session, live, waited, lost>> /\ refresh[d] > 0
          /\ client' = [client EXCEPT ![h] = d] /\ pc' = [pc EXCEPT ![h] = "refresh_touch"]
      BY <1>15 DEF RedeemRefresh, Goto, tokens
    <3>1. CASE g = h
      <4>1. c = d /\ pc'[g] = "refresh_touch"
        BY <1>0, <2>4, <3>0, <3>1 DEF TypeOK
      <4>2. Holds(c) /\ (c \notin lost => c \in Registered)
        BY <1>0, <3>0, <4>1 DEF ClientOK, HolderOK, Holds
      <4> QED
        BY <3>0, <4>1, <4>2 DEF ServedOK, SeenWithin, Registered, Issuing, Holds
    <3>2. CASE g # h
      <4>1. client[g] = c /\ pc'[g] = pc[g]
        BY <1>0, <2>4, <3>0, <3>2 DEF TypeOK
      <4> QED
        BY <1>0, <3>0, <4>1 DEF ClientOK, ServedOK, SeenWithin, Registered, Holds
    <3> QED
      BY <3>1, <3>2
  <2> QED
    BY <2>1, <2>2, <2>3, <2>4 DEF ClientOK
<1>16. ASSUME NEW d \in Clients, Callback(d) PROVE ClientOK(c)'
  <2>1. FlowOK(c)'
    BY <1>0, <1>16, Times
       DEF Callback, TypeOK, ShapesOK, FlowRecord, Registered, Holds, NoFlow, tokens,
           SeenWithin, ClientOK, FlowOK
  <2>2. HolderOK(c)'
    BY <1>0, <1>16, Times
       DEF Callback, TypeOK, ShapesOK, FlowRecord, Registered, Holds, NoFlow, tokens,
           SeenWithin, ClientOK, HolderOK, ServedOK, Issuing
  <2>3. ASSUME NEW g \in Handlers PROVE CollectedOK(g, c)'
    BY <1>0, <1>16, Times
       DEF Callback, TypeOK, ShapesOK, FlowRecord, Registered, Holds, NoFlow, tokens,
           SeenWithin, ClientOK, CollectedOK, ServedOK, Issuing
  <2>4. ASSUME NEW g \in Handlers, client'[g] = c PROVE ServedOK(g, c)'
    BY <1>0, <1>16, <2>4, Times
       DEF Callback, TypeOK, ShapesOK, FlowRecord, Registered, Holds, NoFlow, tokens,
           SeenWithin, ClientOK, CollectedOK, ServedOK, Issuing
  <2> QED
    BY <2>1, <2>2, <2>3, <2>4 DEF ClientOK
<1>17. ASSUME NEW d \in Clients, Exchanged(d) PROVE ClientOK(c)'
  <2>1. FlowOK(c)'
    BY <1>0, <1>17, Times
       DEF Exchanged, TypeOK, ShapesOK, FlowRecord, Registered, Holds, NoFlow, tokens,
           SeenWithin, ClientOK, FlowOK
  <2>2. HolderOK(c)'
    BY <1>0, <1>17, Times
       DEF Exchanged, TypeOK, ShapesOK, FlowRecord, Registered, Holds, NoFlow, tokens,
           SeenWithin, ClientOK, HolderOK, ServedOK, Issuing
  <2>3. ASSUME NEW g \in Handlers PROVE CollectedOK(g, c)'
    BY <1>0, <1>17, Times
       DEF Exchanged, TypeOK, ShapesOK, FlowRecord, Registered, Holds, NoFlow, tokens,
           SeenWithin, ClientOK, CollectedOK, ServedOK, Issuing
  <2>4. ASSUME NEW g \in Handlers, client'[g] = c PROVE ServedOK(g, c)'
    BY <1>0, <1>17, <2>4, Times
       DEF Exchanged, TypeOK, ShapesOK, FlowRecord, Registered, Holds, NoFlow, tokens,
           SeenWithin, ClientOK, CollectedOK, ServedOK, Issuing
  <2> QED
    BY <2>1, <2>2, <2>3, <2>4 DEF ClientOK
<1>18. ASSUME NEW d \in Clients, EndSession(d) PROVE ClientOK(c)'
  <2>1. FlowOK(c)'
    BY <1>0, <1>18, Times
       DEF EndSession, NoTokens, TypeOK, ShapesOK, FlowRecord, Registered, Holds, NoFlow,
           tokens, SeenWithin, ClientOK, FlowOK
  <2>2. HolderOK(c)'
    BY <1>0, <1>18, Times
       DEF EndSession, NoTokens, TypeOK, ShapesOK, FlowRecord, Registered, Holds, NoFlow,
           tokens, SeenWithin, ClientOK, HolderOK, ServedOK, Issuing
  <2>3. ASSUME NEW g \in Handlers PROVE CollectedOK(g, c)'
    BY <1>0, <1>18, Times
       DEF EndSession, NoTokens, TypeOK, ShapesOK, FlowRecord, Registered, Holds, NoFlow,
           tokens, SeenWithin, ClientOK, CollectedOK, ServedOK, Issuing
  <2>4. ASSUME NEW g \in Handlers, client'[g] = c PROVE ServedOK(g, c)'
    BY <1>0, <1>18, <2>4, Times
       DEF EndSession, NoTokens, TypeOK, ShapesOK, FlowRecord, Registered, Holds, NoFlow,
           tokens, SeenWithin, ClientOK, CollectedOK, ServedOK, Issuing
  <2> QED
    BY <2>1, <2>2, <2>3, <2>4 DEF ClientOK
<1>19. CASE Tick
  <2>a. /\ UNCHANGED <<session, pc, client, live>>
        /\ \A h \in Handlers : pc[h] \notin Working
        /\ \A h \in Handlers : waited'[h] = IF pc[h] \in Awaiting THEN waited[h] + 1 ELSE waited[h]
        /\ flow'[c] = Aged(flow[c]) /\ (flow[c].stage = "exchange" => flow[c].left > 0)
        /\ access'[c] = Elapsed(access[c]) /\ refresh'[c] = Elapsed(refresh[c])
    BY <1>19 DEF Tick
  <2>b. Registered' = Registered /\ (c \in Registered => registry'[c] <= registry[c] + 1 /\ registry[c] \in Nat)
    BY <1>0, <1>19, Times DEF Tick, Registered, TypeOK
  <2>c. ASSUME c \notin lost', c \in lost
        PROVE  ~Holds(c)' /\ flow'[c] = NoFlow /\ \A h \in Handlers : client[h] # c
    BY <1>0, <1>19, <2>c DEF Tick, Holds, TypeOK
  <2>1. FlowOK(c)'
    <3>1. CASE c \in lost
      BY <2>c, <3>1 DEF FlowOK, NoFlow
    <3>2. CASE c \notin lost
      <4>1. /\ flow[c] \in FlowRecord /\ (flow[c].stage = "none" \/ flow[c].left > 0)
            /\ FlowOK(c)
        BY <1>0, <2>a DEF ShapesOK, FlowRecord, TypeOK, NoFlow, ClientOK
      <4>2. CASE flow'[c] = NoFlow
        BY <4>2 DEF FlowOK, NoFlow
      <4>3. CASE flow'[c].stage = flow[c].stage /\ flow'[c].left = flow[c].left - 1
        <5>1. /\ flow[c].left \in Nat /\ flow[c].left - 1 \in Int
              /\ c \in Registered => registry'[c] \in Nat
          BY <1>0, <2>b, <4>1 DEF FlowRecord, TypeOK
        <5> QED
          BY <2>b, <3>2, <4>1, <4>3, <5>1, Times DEF FlowOK, SeenWithin
      <4> QED
        BY <2>a, <4>1, <4>2, <4>3, AgedEffect
    <3> QED
      BY <3>1, <3>2
  <2>2. HolderOK(c)'
    BY <1>0, <2>a, <2>b, <2>c DEF ClientOK, HolderOK, Holds, Elapsed, TypeOK
  <2>3. ASSUME NEW g \in Handlers PROVE CollectedOK(g, c)'
    BY <2>a DEF CollectedOK, Working
  <2>4. ASSUME NEW g \in Handlers, client'[g] = c PROVE ServedOK(g, c)'
    <3>1. ServedOK(g, c) /\ c \notin lost' => c \notin lost
      BY <2>a, <2>c, <2>4
    <3>2. pc[g] \notin {"begin", "grant_touch", "refresh_touch", "insert", "mint_access", "mint_refresh"}
      BY <2>a DEF Working
    <3>3. CASE pc[g] = "refreshing"
      <4>1. waited'[g] = waited[g] + 1 /\ waited[g] \in Nat
        BY <1>0, <2>a, <3>3 DEF Awaiting, TypeOK
      <4>2. ServedOK(g, c) /\ (c \in Registered => registry'[c] \in Nat)
        BY <1>0, <2>a, <2>b, <2>4 DEF ClientOK, TypeOK
      <4> QED
        BY <2>a, <2>b, <3>1, <3>3, <4>1, <4>2 DEF ServedOK, Issuing
    <3>4. CASE pc[g] # "refreshing"
      BY <2>a, <3>2, <3>4 DEF ServedOK, Issuing
    <3> QED
      BY <3>3, <3>4
  <2> QED
    BY <2>1, <2>2, <2>3, <2>4 DEF ClientOK
<1>20. CASE UNCHANGED vars
  <2>1. FlowOK(c)'
    BY <1>0, <1>20, Times
       DEF vars, TypeOK, ShapesOK, FlowRecord, Registered, Holds, NoFlow, tokens, SeenWithin,
           ClientOK, FlowOK
  <2>2. HolderOK(c)'
    BY <1>0, <1>20, Times
       DEF vars, TypeOK, ShapesOK, FlowRecord, Registered, Holds, NoFlow, tokens, SeenWithin,
           ClientOK, HolderOK, ServedOK, Issuing
  <2>3. ASSUME NEW g \in Handlers PROVE CollectedOK(g, c)'
    BY <1>0, <1>20, Times
       DEF vars, TypeOK, ShapesOK, FlowRecord, Registered, Holds, NoFlow, tokens, SeenWithin,
           ClientOK, CollectedOK, ServedOK, Issuing
  <2>4. ASSUME NEW g \in Handlers, client'[g] = c PROVE ServedOK(g, c)'
    BY <1>0, <1>20, <2>4, Times
       DEF vars, TypeOK, ShapesOK, FlowRecord, Registered, Holds, NoFlow, tokens, SeenWithin,
           ClientOK, CollectedOK, ServedOK, Issuing
  <2> QED
    BY <2>1, <2>2, <2>3, <2>4 DEF ClientOK
<1> QED
  BY <1>1, <1>2, <1>3, <1>4, <1>5, <1>6, <1>7, <1>8, <1>9, <1>10, <1>11, <1>12, <1>13, <1>14,
     <1>15, <1>16, <1>17, <1>18, <1>19, <1>20
     DEF Next

\* RegistryInv holds of every reachable state.
THEOREM RegistryInvariant == Spec => []RegistryInv
<1>1. Init => RegistryInv
  <2> SUFFICES ASSUME Init PROVE RegistryInv
    OBVIOUS
  <2>1. Registered = {}
    BY DEF Init, Registered
  <2>2. CapOK
    BY <2>1, FS_EmptySet, Times DEF CapOK
  <2>3. TypeOK
    BY <2>1, Times DEF Init, TypeOK
  <2>4. ShapesOK
    BY DEF Init, ShapesOK, FlowRecord, NoFlow, Serving, Issuing
  <2>5. ASSUME NEW c \in Clients PROVE ClientOK(c)
    BY <2>1 DEF Init, ClientOK, FlowOK, NoFlow, HolderOK, Holds, CollectedOK, ServedOK, Issuing
  <2> QED
    BY <2>2, <2>3, <2>4, <2>5 DEF RegistryInv
<1>2. RegistryInv /\ [Next]_vars => RegistryInv'
  BY TypeStep, ShapesStep, CapStep, ClientStep DEF RegistryInv
<1> QED
  BY <1>1, <1>2, PTL DEF Spec

------------------------------------------------------------------------------
(* Properties *)

\* A client that holds a token, has an authorization under way or is being issued
\* tokens is in the registry, whatever registrations race with it, unless it was
\* forgotten inside /authorize (ProxyState::register_client, authorize_phase_a).
THEOREM ClientsInUseAreKnown == Spec => []LiveAreKnown
<1>1. RegistryInv => LiveAreKnown
  <2> SUFFICES ASSUME RegistryInv, NEW c \in Clients, c \notin lost,
                      \/ Holds(c)
                      \/ flow[c] # NoFlow
                      \/ \E h \in Handlers : client[h] = c /\ pc[h] \in Issuing
               PROVE  c \in Registered
    BY DEF LiveAreKnown, Issuing
  <2>1. ClientOK(c) /\ TypeOK
    BY DEF RegistryInv
  <2>2. flow[c] # NoFlow => flow[c].stage \in {"transaction", "exchange", "code"}
    BY <2>1 DEF TypeOK
  <2> QED
    BY <2>1, <2>2 DEF ClientOK, HolderOK, FlowOK, SeenWithin, ServedOK
<1> QED
  BY <1>1, RegistryInvariant, PTL

\* A registration removes a client only when the registry is full and the client
\* has been idle for CLIENT_IDLE_TTL and holds no token, also one minted after the
\* live set was read (ClientRegistry::register).
THEOREM OnlyTheIdleAreEvicted == Spec => EvictsTheIdleOnly
<1>1. ASSUME RegistryInv, Next, NEW c \in Registered, c \notin DOMAIN registry'
      PROVE  registry[c] = CLIENT_IDLE_TTL /\ ~Holds(c) /\ Cardinality(Registered) = MAX_CLIENTS
  <2>1. PICK h \in Handlers : register(h)
    BY <1>1
    DEF Next, Registered, RegisterClient, CollectRefresh, Touch, Touched, Begin, GrantTouch, GrantInsert,
        MintAccess, MintRefresh, RefreshTouch, Refreshed, RefreshFails, LookUp, Redeem, RedeemRefresh,
        Callback, Exchanged, EndSession, Tick
  <2>2. AtCapacity(registry) /\ c \notin live[h] /\ ~(registry[c] < CLIENT_IDLE_TTL)
    BY <1>1, <2>1, RegisterEffect DEF Registered
  <2>3. TypeOK /\ CapOK /\ CollectedOK(h, c) /\ c \in Clients
    BY <1>1 DEF RegistryInv, ClientOK, TypeOK
  <2>4. registry[c] = CLIENT_IDLE_TTL
    BY <2>2, <2>3, Times DEF TypeOK
  <2>5. ~Holds(c)
    BY <2>1, <2>2, <2>3 DEF CollectedOK, register
  <2>6. Cardinality(Registered) = MAX_CLIENTS
    BY <2>2, <2>3, FS_CardinalityType, Times DEF CapOK, AtCapacity, Registered
  <2> QED
    BY <2>4, <2>5, <2>6
<1>2. RegistryInv /\ [Next]_vars =>
        [\A c \in Registered \ DOMAIN registry' :
            /\ registry[c] = CLIENT_IDLE_TTL
            /\ ~Holds(c)
            /\ Cardinality(Registered) = MAX_CLIENTS]_vars
  BY <1>1
<1> QED
  BY <1>2, RegistryInvariant, PTL DEF Spec, EvictsTheIdleOnly
=============================================================================
