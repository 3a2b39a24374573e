---------------------------- MODULE RefreshLedger ----------------------------
(***************************************************************************)
(* What the proxy promises about refresh tokens, without its stores, locks *)
(* and handlers: a token is issued once, is usable by its session alone,   *)
(* is lent to one redemption at a time, comes back from a failed one, and  *)
(* once gone never works again. A session has one usable token and one     *)
(* redemption under way at most.                                           *)
(***************************************************************************)
CONSTANTS RefreshTokens, SessionIds, NoOwner

VARIABLES status,  \* of each token: "unissued", "usable", "lent" or "gone"
          owner    \* the session of a token that is usable or lent

ledgerVars == <<status, owner>>

Usable(s) == {k \in RefreshTokens : status[k] = "usable" /\ owner[k] = s}
Issued == {k \in RefreshTokens : status[k] # "unissued"}

LedgerInit ==
    /\ status = [k \in RefreshTokens |-> "unissued"]
    /\ owner = [k \in RefreshTokens |-> NoOwner]

\* Issuing also forgets the tokens K, whose time is over.
Issue(k, s, K) ==
    /\ k \notin Issued /\ K \subseteq Issued /\ Usable(s) \subseteq K
    /\ status' = [j \in RefreshTokens |->
                    IF j = k THEN "usable" ELSE IF j \in K THEN "gone" ELSE status[j]]
    /\ owner' = [j \in RefreshTokens |->
                   IF j = k THEN s ELSE IF j \in K THEN NoOwner ELSE owner[j]]

Lend(k) ==
    /\ status[k] = "usable"
    /\ \A j \in RefreshTokens : status[j] = "lent" => owner[j] # owner[k]
    /\ status' = [status EXCEPT ![k] = "lent"] /\ UNCHANGED owner

Return(k) ==
    /\ status[k] = "lent" /\ Usable(owner[k]) = {}
    /\ status' = [status EXCEPT ![k] = "usable"] /\ UNCHANGED owner

\* Rotated away, discarded, expired or revoked with their session.
Forget(K) ==
    /\ K \subseteq Issued
    /\ status' = [k \in RefreshTokens |-> IF k \in K THEN "gone" ELSE status[k]]
    /\ owner' = [k \in RefreshTokens |-> IF k \in K THEN NoOwner ELSE owner[k]]

LedgerNext ==
    \/ \E k \in RefreshTokens, s \in SessionIds, K \in SUBSET RefreshTokens : Issue(k, s, K)
    \/ \E k \in RefreshTokens : Lend(k) \/ Return(k)
    \/ \E K \in SUBSET RefreshTokens : Forget(K)

LedgerSpec == LedgerInit /\ [][LedgerNext]_ledgerVars
==============================================================================
