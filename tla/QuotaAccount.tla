----------------------------- MODULE QuotaAccount -----------------------------
(***************************************************************************)
(* What the attachment store promises about its quota, without disk, maps  *)
(* and sweeps: holders take room before they use it, keep at most what     *)
(* they hold, and give the rest back; used and held never exceed the cap.  *)
(***************************************************************************)
EXTENDS Naturals, Totals

CONSTANTS Holders, Cap

VARIABLES used,  \* bytes of stored files
          held   \* bytes each holder has reserved

accountVars == <<used, held>>

Reserved == Total(held)

AccountInit == used = 0 /\ held = [h \in Holders |-> 0]

Take(h, n) ==
    /\ n > 0 /\ used + Reserved + n <= Cap
    /\ held' = [held EXCEPT ![h] = @ + n] /\ UNCHANGED used

Keep(h, n) ==
    /\ n <= held[h]
    /\ used' = used + n /\ held' = [held EXCEPT ![h] = 0]

GiveBack(h) == held' = [held EXCEPT ![h] = 0] /\ UNCHANGED used

Free(n) == n <= used /\ used' = used - n /\ UNCHANGED held

\* The process restarts: it knows of no file and no holder.
Forget == used' = 0 /\ held' = [h \in Holders |-> 0]

AccountNext ==
    \/ \E h \in Holders : GiveBack(h) \/ \E n \in 0..Cap : Take(h, n) \/ Keep(h, n)
    \/ \E n \in 0..Cap : Free(n)
    \/ Forget

AccountSpec == AccountInit /\ [][AccountNext]_accountVars
===============================================================================
