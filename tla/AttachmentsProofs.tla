-------------------------- MODULE AttachmentsProofs --------------------------
(***************************************************************************)
(* Theorems about Attachments, for any number of requests and files and    *)
(* any sizes and times that satisfy StoreAssumption.                       *)
(*                                                                         *)
(* Neither QuotaExact nor FilesKeptInTime is inductive.  The quota needs   *)
(* that only a task with a guard holds bytes, that a download never writes *)
(* more than it holds (TaskOK), and that no two downloads share a file     *)
(* (OwnOK).  The files need that a download's directory is too young for   *)
(* any sweep (YoungOK), that a sweep only removes what is old (SweepOK),   *)
(* that a reader or a failed download only removes what has no entry       *)
(* (GoneOK), and that a directory is at most a timeout older than its      *)
(* entry (AgeOK).                                                          *)
(***************************************************************************)
EXTENDS Attachments, FiniteSetTheorems, TLAPS

Labels == {"idle", "reserve", "mkdir", "connect", "stream", "abort", "release",
           "judge", "remove", "expire"}
Guarded == {"mkdir", "connect", "stream", "abort", "release"}

Locals == [uuid: Uuids \cup {None}, declared: Sizes, held: Nat, written: Sizes,
           again: BOOLEAN, expired: SUBSET Uuids]

StateOK ==
    /\ entries \in [Uuids -> [size: Sizes, age: 0..EXPIRES] \cup {None}]
    /\ in_flight \in Nat
    /\ dirs \in [Uuids -> 0..EXPIRES \cup {None}]
    /\ pc \in [Tasks -> Labels] /\ my \in [Tasks -> Locals]

\* The locals l a task t has at a label; the sweeper never downloads.
TaskAt(t, label, l) ==
    /\ label \notin Guarded => l.held = 0
    /\ label \in {"connect", "stream", "abort", "remove", "expire"} => l.uuid \in Uuids
    /\ label = "stream" => l.written <= l.held
    /\ label \notin {"stream", "abort", "release"} => l.written = 0
    /\ label \notin {"judge", "remove"} => l.expired = {}
    /\ t = Sweeper => label \in {"idle", "judge", "remove"} /\ ~l.again

TaskOK(t) == TaskAt(t, pc[t], my[t])

\* A download's file is not in the map yet, and nobody else downloads it.
OwnOK(t) ==
    pc[t] \in {"connect", "stream"} =>
        /\ entries[my[t].uuid] = None
        /\ \A o \in Tasks \ {t} : pc[o] \in {"connect", "stream"} => my[o].uuid # my[t].uuid

\* A download's directory is there and young, and no other task has taken it up.
YoungOK(t) ==
    pc[t] \in {"connect", "stream"} =>
        /\ dirs[my[t].uuid] # None
        /\ dirs[my[t].uuid] <= IF pc[t] = "stream" THEN TIMEOUT ELSE 2 * TIMEOUT
        /\ \A o \in Tasks \ {t} : my[o].uuid # my[t].uuid

\* A sweep about to remove a directory found it old, and it has not become younger.
SweepOK(t) == pc[t] = "remove" /\ dirs[my[t].uuid] # None => dirs[my[t].uuid] >= EXPIRES

\* A directory about to be removed for another reason has no entry.
GoneOK(t) == pc[t] \in {"abort", "expire"} => entries[my[t].uuid] = None

\* A directory is at most a timeout older than its entry, and when it is gone the
\* entry is about to expire.
AgeOK(u) ==
    entries[u] # None =>
        /\ dirs[u] # None => dirs[u] <= entries[u].age + TIMEOUT
        /\ dirs[u] = None => EXPIRES <= entries[u].age + TIMEOUT

InTimeInv ==
    /\ \A t \in Tasks : YoungOK(t) /\ SweepOK(t) /\ GoneOK(t)
    /\ \A u \in Uuids : AgeOK(u)

StoreInv ==
    /\ StateOK /\ \A t \in Tasks : TaskOK(t) /\ OwnOK(t)
    /\ QuotaExact
    /\ 2 * TIMEOUT < EXPIRES => InTimeInv

------------------------------------------------------------------------------
(* Totals *)

\* Quantities of finitely many owners.
Quantities(S) == [S -> Nat]

\* The units of one owner.
LEMMA OwnUnits ==
    ASSUME NEW x, NEW n \in Nat
    PROVE  IsFiniteSet({x} \X (1..n)) /\ Cardinality({x} \X (1..n)) = n
<1>1. IsFiniteSet({x}) /\ Cardinality({x}) = 1
  BY FS_Singleton
<1>2. IsFiniteSet(1..n) /\ Cardinality(1..n) = n
  BY FS_Interval
<1>3. IsFiniteSet({x} \X (1..n)) /\ Cardinality({x} \X (1..n)) = Cardinality({x}) * Cardinality(1..n)
  BY <1>1, <1>2, FS_Product
<1> QED BY <1>1, <1>2, <1>3

\* Finitely many owners have finitely many units.
LEMMA UnitsFinite ==
    ASSUME NEW S, IsFiniteSet(S), NEW f \in Quantities(S)
    PROVE  IsFiniteSet(Units(f)) /\ Total(f) \in Nat
<1> DEFINE Own == [x \in S |-> {x} \X (1..f[x])]
           T == {{x} \X (1..f[x]) : x \in S}
<1>1. Own \in Surjection(S, T)
  BY DEF Surjection
<1>2. IsFiniteSet(T)
  BY <1>1, FS_Surjection
<1>3. ASSUME NEW U \in T PROVE IsFiniteSet(U)
  <2>1. PICK x \in S : U = {x} \X (1..f[x])
    OBVIOUS
  <2>2. f[x] \in Nat
    BY DEF Quantities
  <2> QED BY <2>1, <2>2, OwnUnits
<1>4. IsFiniteSet(UNION T)
  <2> HIDE DEF T
  <2> QED BY <1>2, <1>3, FS_UNION
<1>5. Units(f) = UNION T
  BY DEF Units, Quantities
<1> QED BY <1>4, <1>5, FS_CardinalityType DEF Total

\* A unit belongs to an owner and has one of its numbers.
LEMMA UnitMembers ==
    ASSUME NEW S, NEW f \in Quantities(S)
    PROVE  \A v : v \in Units(f) <=> \E x \in S, i \in Nat : i \in 1..f[x] /\ v = <<x, i>>
BY DEF Units, Quantities

\* A sum is one of its terms and the sum of the others.
LEMMA TotalSplit ==
    ASSUME NEW S, IsFiniteSet(S), NEW f \in Quantities(S), NEW x \in S
    PROVE  Total(f) = f[x] + Total([f EXCEPT ![x] = 0])
<1> DEFINE g == [f EXCEPT ![x] = 0]
           A == Units(g)
           B == {x} \X (1..f[x])
<1>1. g \in Quantities(S) /\ f[x] \in Nat
  BY DEF Quantities
<1>2. IsFiniteSet(A) /\ Cardinality(A) \in Nat
  BY <1>1, UnitsFinite DEF Total
<1>3. IsFiniteSet(B) /\ Cardinality(B) = f[x]
  BY <1>1, OwnUnits
<1>4. A \cup B = Units(f)
  <2>1. ASSUME NEW v \in Units(f) PROVE v \in A \cup B
    <3>1. PICK y \in S, i \in Nat : i \in 1..f[y] /\ v = <<y, i>>
      BY <2>1, UnitMembers
    <3>2. CASE y = x
      BY <3>1, <3>2
    <3>3. CASE y # x
      <4>1. g[y] = f[y]
        BY <3>3 DEF Quantities
      <4> QED BY <3>1, <4>1, <1>1, UnitMembers
    <3> QED BY <3>2, <3>3
  <2>2. ASSUME NEW v \in A PROVE v \in Units(f)
    <3>1. PICK y \in S, i \in Nat : i \in 1..g[y] /\ v = <<y, i>>
      <4> HIDE DEF g
      <4> QED BY <2>2, <1>1, UnitMembers
    <3>2. y # x /\ g[y] = f[y]
      BY <3>1 DEF Quantities
    <3> QED BY <3>1, <3>2, UnitMembers
  <2>3. ASSUME NEW v \in B PROVE v \in Units(f)
    BY UnitMembers
  <2> QED BY <2>1, <2>2, <2>3
<1>5. A \cap B = {}
  <2> SUFFICES ASSUME NEW v \in A, v \in B PROVE FALSE
    OBVIOUS
  <2>1. PICK y \in S, i \in Nat : i \in 1..g[y] /\ v = <<y, i>>
    BY <1>1, UnitMembers
  <2>2. y = x /\ g[x] = 0
    BY <2>1 DEF Quantities
  <2> QED BY <2>1, <2>2
<1>6. Cardinality(A \cup B) = Cardinality(A) + Cardinality(B) - Cardinality(A \cap B)
  <2> HIDE DEF A, B
  <2> QED BY <1>2, <1>3, FS_Union
<1>7. Cardinality(A \cap B) = 0
  BY <1>5, FS_EmptySet
<1> HIDE DEF A, B
<1>8. Cardinality(A \cup B) = Cardinality(A) + f[x]
  BY <1>1, <1>2, <1>3, <1>6, <1>7
<1>9. Total(f) = Cardinality(A \cup B)
  BY <1>4 DEF Total
<1>10. Total(g) = Cardinality(A)
  BY DEF Total, A
<1> QED BY <1>1, <1>2, <1>8, <1>9, <1>10

\* Replacing one term changes a sum by the difference.
LEMMA TotalUpdate ==
    ASSUME NEW S, IsFiniteSet(S), NEW f \in Quantities(S), NEW x \in S, NEW n \in Nat
    PROVE  /\ [f EXCEPT ![x] = n] \in Quantities(S)
           /\ Total([f EXCEPT ![x] = n]) = Total(f) - f[x] + n
           /\ f[x] <= Total(f)
<1> DEFINE g == [f EXCEPT ![x] = n]
           z == [f EXCEPT ![x] = 0]
<1>1. g \in Quantities(S) /\ z \in Quantities(S) /\ g[x] = n /\ [g EXCEPT ![x] = 0] = z /\ f[x] \in Nat
  BY DEF Quantities
<1>2. Total(f) = f[x] + Total(z)
  BY TotalSplit
<1> HIDE DEF g
<1>4. Total(g) = g[x] + Total([g EXCEPT ![x] = 0])
  BY <1>1, TotalSplit
<1>3. Total(z) \in Nat
  BY <1>1, UnitsFinite
<1>5. Total(g) = Total(f) - f[x] + n /\ f[x] <= Total(f)
  BY <1>1, <1>2, <1>3, <1>4
<1> QED BY <1>1, <1>5 DEF g

\* A sum of smaller terms is smaller.
LEMMA TotalMonotone ==
    ASSUME NEW S, IsFiniteSet(S), NEW f \in Quantities(S), NEW g \in Quantities(S),
           \A x \in S : g[x] <= f[x]
    PROVE  Total(g) <= Total(f)
<1>1. Units(g) \subseteq Units(f)
  <2> SUFFICES ASSUME NEW v \in Units(g) PROVE v \in Units(f)
    OBVIOUS
  <2>1. PICK y \in S, i \in Nat : i \in 1..g[y] /\ v = <<y, i>>
    BY UnitMembers
  <2>2. i \in 1..f[y]
    BY <2>1 DEF Quantities
  <2> QED BY <2>1, <2>2, UnitMembers
<1>2. IsFiniteSet(Units(f))
  BY UnitsFinite
<1> QED BY <1>1, <1>2, FS_Subset DEF Total

\* A sum of zeros is zero.
LEMMA TotalOfZeros ==
    ASSUME NEW S
    PROVE  Total([x \in S |-> 0]) = 0
<1>1. [x \in S |-> 0] \in Quantities(S)
  BY DEF Quantities
<1>2. Units([x \in S |-> 0]) = {}
  <2> SUFFICES ASSUME NEW v \in Units([x \in S |-> 0]) PROVE FALSE
    OBVIOUS
  <2>1. PICK y \in S, i \in Nat : i \in 1..[x \in S |-> 0][y] /\ v = <<y, i>>
    BY <1>1, UnitMembers
  <2> QED BY <2>1
<1> QED BY <1>2, FS_EmptySet DEF Total

------------------------------------------------------------------------------
(* Types and locals *)

\* The numbers of StoreAssumption, and a task without locals.
LEMMA Numbers ==
    /\ max_download_bytes \in Nat /\ max_store_bytes \in Nat /\ EXPIRES \in Nat /\ TIMEOUT \in Nat
    /\ Filesizes \subseteq Sizes /\ Sizes \subseteq Nat
    /\ IsFiniteSet(Tasks) /\ IsFiniteSet(Uuids) /\ Sweeper \in Tasks /\ Handlers \subseteq Tasks
    /\ Sweeper \notin Handlers /\ None \notin Nat /\ None \notin Uuids
    /\ None \notin [size: Nat, age: Nat] /\ NoLocals \in Locals /\ NoLocals.held = 0
<1>1. IsFiniteSet(Tasks)
  BY StoreAssumption, FS_AddElement DEF Tasks
<1>2. NoLocals \in Locals /\ NoLocals.held = 0
  BY StoreAssumption DEF NoLocals, Locals, Sizes
<1> QED BY <1>1, <1>2, StoreAssumption DEF Sizes, Tasks

\* When one task takes a step, only its own locals have to be looked at.
LEMMA OneTask ==
    ASSUME StateOK, \A x \in Tasks : TaskOK(x), NEW t \in Tasks,
           NEW l \in Locals, NEW label \in Labels, TaskAt(t, label, l),
           my' = [my EXCEPT ![t] = l], pc' = [pc EXCEPT ![t] = label]
    PROVE  /\ pc' \in [Tasks -> Labels] /\ my' \in [Tasks -> Locals]
           /\ \A x \in Tasks : TaskOK(x)'
<1>1. pc' \in [Tasks -> Labels] /\ my' \in [Tasks -> Locals]
  BY DEF StateOK
<1>2. ASSUME NEW x \in Tasks PROVE TaskOK(x)'
  <2>1. CASE x = t
    <3>1. pc'[x] = label /\ my'[x] = l
      BY <2>1 DEF StateOK
    <3> QED BY <2>1, <3>1 DEF TaskOK, TaskAt
  <2>2. CASE x # t
    <3>1. pc'[x] = pc[x] /\ my'[x] = my[x]
      BY <2>2 DEF StateOK
    <3> QED BY <3>1 DEF TaskOK, TaskAt
  <2> QED BY <2>1, <2>2
<1> QED BY <1>1, <1>2

\* The types and the locals stay as they are described.
LEMMA ShapeStep ==
    ASSUME StoreInv, [Next]_vars
    PROVE  StateOK' /\ \A t \in Tasks : TaskOK(t)'
<1> DEFINE Goal == StateOK' /\ \A x \in Tasks : TaskOK(x)'
<1> USE DEF StoreInv
<1>1. ASSUME NEW t \in Handlers, NEW bytes \in Filesizes, StartDownload(t, bytes) PROVE Goal
  BY <1>1, Numbers, ZenonT(60)
     DEF StartDownload, Set, Goto, StateOK, TaskOK, TaskAt, Locals, NoLocals, Guarded, Labels,
         Sizes
<1>2. ASSUME NEW t \in Tasks, try_reserve(t) PROVE Goal
  <2> DEFINE took == [my[t] EXCEPT !.held = my[t].declared]
             swept == [my[t] EXCEPT !.again = TRUE]
  <2>1. my[t] \in Locals /\ TaskAt(t, "reserve", my[t]) /\ pc[t] = "reserve"
    BY <1>2 DEF StateOK, TaskOK, try_reserve
  <2>2. took \in Locals /\ TaskAt(t, "mkdir", took) /\ swept \in Locals /\ TaskAt(t, "judge", swept)
        /\ TaskAt(t, "idle", NoLocals)
    BY <2>1, Numbers DEF Locals, TaskAt, Guarded, NoLocals, Sizes
  <2>3. \/ my' = [my EXCEPT ![t] = took] /\ pc' = [pc EXCEPT ![t] = "mkdir"]
        \/ my' = [my EXCEPT ![t] = swept] /\ pc' = [pc EXCEPT ![t] = "judge"]
        \/ my' = [my EXCEPT ![t] = NoLocals] /\ pc' = [pc EXCEPT ![t] = "idle"]
    BY <1>2 DEF try_reserve, Set, Goto, Done
  <2>4. {"mkdir", "judge", "idle"} \subseteq Labels
    BY DEF Labels
  <2>5. my' \in [Tasks -> Locals] /\ pc' \in [Tasks -> Labels] /\ \A x \in Tasks : TaskOK(x)'
    <3> HIDE DEF took, swept
    <3> QED BY <2>2, <2>3, <2>4, Numbers, OneTask
  <2>6. in_flight' \in Nat
    BY <1>2, <2>1, Numbers DEF try_reserve, StateOK, Locals
  <2> QED BY <1>2, <2>5, <2>6 DEF try_reserve, StateOK
<1>3. ASSUME NEW t \in Tasks, MakeDir(t) PROVE Goal
  BY <1>3, Numbers
     DEF MakeDir, Set, Goto, FreeUuids, StateOK, TaskOK, TaskAt, Locals, NoLocals, Guarded,
         Labels, Sizes
<1>4. ASSUME NEW t \in Tasks, MakeDirFails(t) PROVE Goal
  BY <1>4, Numbers
     DEF MakeDirFails, Set, Goto, Done, Released, StateOK, TaskOK, TaskAt, Locals, NoLocals,
         Guarded, Labels, Sizes
<1>5. ASSUME NEW t \in Tasks, Connected(t) PROVE Goal
  <2>1. my[t] \in Locals /\ TaskAt(t, "stream", my[t]) /\ my[t].uuid \in Uuids
    BY <1>5 DEF StateOK, TaskOK, TaskAt, Connected, Guarded, Locals
  <2>2. my' = [my EXCEPT ![t] = my[t]] /\ pc' = [pc EXCEPT ![t] = "stream"]
    BY <1>5 DEF Connected, Goto, StateOK
  <2>3. my' \in [Tasks -> Locals] /\ pc' \in [Tasks -> Labels] /\ \A x \in Tasks : TaskOK(x)'
    BY <2>1, <2>2, OneTask DEF Labels
  <2>4. dirs' \in [Uuids -> 0..EXPIRES \cup {None}]
    BY <1>5, <2>1, Numbers DEF Connected, StateOK
  <2> QED BY <1>5, <2>3, <2>4 DEF Connected, StateOK
<1>6. ASSUME NEW t \in Tasks, ConnectFails(t) PROVE Goal
  BY <1>6, Numbers
     DEF ConnectFails, Goto, StateOK, TaskOK, TaskAt, Locals, NoLocals, Guarded, Labels, Sizes
<1>7. ASSUME NEW t \in Tasks, Chunk(t) PROVE Goal
  <2> DEFINE more == Deficit(t, my[t].written + 1)
             l == [my[t] EXCEPT !.written = my[t].written + 1, !.held = my[t].held + more]
  <2>1. my[t] \in Locals /\ TaskAt(t, "stream", my[t]) /\ pc[t] = "stream"
        /\ my[t].written + 1 <= max_download_bytes /\ my[t].written \in Nat /\ my[t].held \in Nat
    BY <1>7, Numbers DEF StateOK, TaskOK, Chunk, Fits, Locals
  <2>2. more \in Nat /\ my[t].written + 1 <= my[t].held + more
    BY <2>1 DEF Deficit
  <2> HIDE DEF more
  <2>3. l \in Locals /\ TaskAt(t, "stream", l)
    <3>1. l \in Locals /\ l.written = my[t].written + 1 /\ l.held = my[t].held + more
          /\ l.uuid = my[t].uuid /\ l.expired = my[t].expired /\ l.again = my[t].again
      <4> DEFINE w == [my[t] EXCEPT !.written = my[t].written + 1]
      <4>1. w \in Locals /\ w.written = my[t].written + 1 /\ w.held = my[t].held
            /\ w.uuid = my[t].uuid /\ w.expired = my[t].expired /\ w.again = my[t].again
        BY <2>1, Numbers DEF Locals, Sizes
      <4>2. l = [w EXCEPT !.held = my[t].held + more]
        OBVIOUS
      <4>3. my[t].held + more \in Nat
        BY <2>1, <2>2
      <4> HIDE DEF w, l
      <4> QED BY <4>1, <4>2, <4>3 DEF Locals
    <3> HIDE DEF l
    <3> QED BY <2>1, <2>2, <3>1 DEF TaskAt, Guarded
  <2>4. my' = [my EXCEPT ![t] = l] /\ pc' = [pc EXCEPT ![t] = "stream"] /\ in_flight' = in_flight + more
    BY <1>7 DEF Chunk, Set, StateOK, more
  <2> HIDE DEF l
  <2>5. my' \in [Tasks -> Locals] /\ pc' \in [Tasks -> Labels] /\ \A x \in Tasks : TaskOK(x)'
    BY <2>3, <2>4, OneTask DEF Labels
  <2> QED BY <1>7, <2>2, <2>4, <2>5 DEF Chunk, StateOK
<1>8. ASSUME NEW t \in Tasks, ChunkRefused(t) PROVE Goal
  BY <1>8, Numbers
     DEF ChunkRefused, Goto, StateOK, TaskOK, TaskAt, Locals, NoLocals, Guarded, Labels, Sizes
<1>9. ASSUME NEW t \in Tasks, commit(t) PROVE Goal
  BY <1>9, Numbers
     DEF commit, Set, Goto, Done, Released, StateOK, TaskOK, TaskAt, Locals, NoLocals,
         Guarded, Labels, Sizes
<1>10. ASSUME NEW t \in Tasks, abort(t) PROVE Goal
  BY <1>10, Numbers
     DEF abort, Goto, StateOK, TaskOK, TaskAt, Locals, NoLocals, Guarded, Labels, Sizes
<1>11. ASSUME NEW t \in Tasks, release(t) PROVE Goal
  BY <1>11, Numbers
     DEF release, Set, Goto, Done, Released, StateOK, TaskOK, TaskAt, Locals, NoLocals,
         Guarded, Labels, Sizes
<1>12. ASSUME NEW t \in Handlers, StartCleanup(t) PROVE Goal
  BY <1>12, Numbers
     DEF StartCleanup, Goto, StateOK, TaskOK, TaskAt, Locals, NoLocals, Guarded, Labels, Sizes
<1>13. ASSUME NEW t \in Tasks, NEW u \in Uuids, JudgeDir(t, u) PROVE Goal
  <2> DEFINE l == [my[t] EXCEPT !.uuid = u]
  <2>1. my[t] \in Locals /\ TaskAt(t, "judge", my[t])
    BY <1>13 DEF StateOK, TaskOK, JudgeDir
  <2>2. l \in Locals /\ TaskAt(t, "remove", l)
    BY <2>1, Numbers DEF Locals, TaskAt, Guarded
  <2>3. my' = [my EXCEPT ![t] = l] /\ pc' = [pc EXCEPT ![t] = "remove"]
    BY <1>13 DEF JudgeDir, Set, Goto
  <2> HIDE DEF l
  <2>4. my' \in [Tasks -> Locals] /\ pc' \in [Tasks -> Labels] /\ \A x \in Tasks : TaskOK(x)'
    BY <2>2, <2>3, OneTask DEF Labels
  <2> QED BY <1>13, <2>4 DEF JudgeDir, StateOK
<1>14. ASSUME NEW t \in Tasks, RemoveDir(t) PROVE Goal
  <2> DEFINE l == [my[t] EXCEPT !.uuid = None, !.expired = my[t].expired \cup {my[t].uuid}]
  <2>1. my[t] \in Locals /\ TaskAt(t, "remove", my[t]) /\ my[t].uuid \in Uuids
    BY <1>14 DEF StateOK, TaskOK, TaskAt, RemoveDir
  <2>2. l \in Locals /\ TaskAt(t, "judge", l)
    BY <2>1, Numbers DEF Locals, TaskAt, Guarded
  <2>3. my' = [my EXCEPT ![t] = l] /\ pc' = [pc EXCEPT ![t] = "judge"]
    BY <1>14 DEF RemoveDir, Set, Goto
  <2> HIDE DEF l
  <2>4. my' \in [Tasks -> Locals] /\ pc' \in [Tasks -> Labels] /\ \A x \in Tasks : TaskOK(x)'
    BY <2>2, <2>3, OneTask DEF Labels
  <2>5. dirs' \in [Uuids -> 0..EXPIRES \cup {None}]
    BY <1>14, <2>1 DEF RemoveDir, StateOK
  <2> QED BY <1>14, <2>4, <2>5 DEF RemoveDir, StateOK
<1>15. ASSUME NEW t \in Tasks, RemoveDirFails(t) PROVE Goal
  BY <1>15, Numbers
     DEF RemoveDirFails, Set, Goto, StateOK, TaskOK, TaskAt, Locals, NoLocals, Guarded,
         Labels, Sizes
<1>16. ASSUME NEW t \in Tasks, ForgetExpired(t) PROVE Goal
  <2> DEFINE back == [my[t] EXCEPT !.expired = {}]
  <2>1. my[t] \in Locals /\ TaskAt(t, "judge", my[t])
    BY <1>16 DEF StateOK, TaskOK, ForgetExpired
  <2>2. back \in Locals /\ (my[t].again => TaskAt(t, "reserve", back)) /\ TaskAt(t, "idle", NoLocals)
    BY <2>1, Numbers DEF Locals, TaskAt, Guarded, NoLocals
  <2>3. \/ my[t].again /\ my' = [my EXCEPT ![t] = back] /\ pc' = [pc EXCEPT ![t] = "reserve"]
        \/ my' = [my EXCEPT ![t] = NoLocals] /\ pc' = [pc EXCEPT ![t] = "idle"]
    BY <1>16 DEF ForgetExpired, SweepEnds, Set, Goto, Done
  <2>4. {"reserve", "idle"} \subseteq Labels
    BY DEF Labels
  <2>5. my' \in [Tasks -> Locals] /\ pc' \in [Tasks -> Labels] /\ \A x \in Tasks : TaskOK(x)'
    <3> HIDE DEF back
    <3> QED BY <2>2, <2>3, <2>4, Numbers, OneTask
  <2>6. entries' \in [Uuids -> [size: Sizes, age: 0..EXPIRES] \cup {None}]
    BY <1>16 DEF ForgetExpired, StateOK
  <2> QED BY <1>16, <2>5, <2>6 DEF ForgetExpired, StateOK
<1>17. ASSUME NEW t \in Handlers, NEW u \in Uuids, get(t, u) PROVE Goal
  BY <1>17, Numbers, ZenonT(60)
     DEF get, Set, Goto, StateOK, TaskOK, TaskAt, Locals, NoLocals, Guarded, Labels, Sizes
<1>18. ASSUME NEW t \in Handlers, ExpireDir(t) PROVE Goal
  BY <1>18, Numbers
     DEF ExpireDir, Set, Goto, Done, StateOK, TaskOK, TaskAt, Locals, NoLocals, Guarded,
         Labels, Sizes
<1>19. ASSUME NEW t \in Handlers, Dropped(t) PROVE Goal
  <2>1. TaskAt(t, "idle", NoLocals) /\ NoLocals \in Locals /\ t \in Tasks
    BY Numbers DEF TaskAt, NoLocals
  <2>2. my' = [my EXCEPT ![t] = NoLocals] /\ pc' = [pc EXCEPT ![t] = "idle"]
    BY <1>19 DEF Dropped, Done, Set, Goto
  <2>3. my' \in [Tasks -> Locals] /\ pc' \in [Tasks -> Labels] /\ \A x \in Tasks : TaskOK(x)'
    BY <2>1, <2>2, OneTask DEF Labels
  <2>4. dirs' \in [Uuids -> 0..EXPIRES \cup {None}]
    BY <1>19, Numbers DEF Dropped, DroppedOnDisk, FreeUuids, StateOK
  <2>5. in_flight' \in Nat
    BY <1>19, <2>1 DEF Dropped, Released, StateOK, Locals
  <2> QED BY <1>19, <2>3, <2>4, <2>5 DEF Dropped, StateOK
<1>20. ASSUME StartSweep PROVE Goal
  BY <1>20, Numbers
     DEF StartSweep, Goto, StateOK, TaskOK, TaskAt, Locals, NoLocals, Guarded, Labels, Sizes
<1>21. ASSUME Tick PROVE Goal
  BY <1>21, Numbers
     DEF Tick, InTime, Older, StateOK, TaskOK, TaskAt, Locals, NoLocals, Guarded, Labels, Sizes
<1>22. ASSUME Restart PROVE Goal
  BY <1>22, Numbers
     DEF Restart, StateOK, TaskOK, TaskAt, Locals, NoLocals, Guarded, Labels, Sizes
<1>23. CASE UNCHANGED vars
  BY <1>23 DEF vars, StateOK, TaskOK, TaskAt, Labels, Locals
<1> QED
  BY <1>1, <1>2, <1>3, <1>4, <1>5, <1>6, <1>7, <1>8, <1>9, <1>10, <1>11, <1>12, <1>13, <1>14,
     <1>15, <1>16, <1>17, <1>18, <1>19, <1>20, <1>21, <1>22, <1>23
    DEF Next, DownloadStep, SweepStep, Tasks

------------------------------------------------------------------------------
(* Directories *)

\* What a step does to entries and directories, and to whoever uses one.
Users == {"connect", "stream", "abort", "expire", "remove"}
Others(t) == \A x \in Tasks \ {t} : pc'[x] = pc[x] /\ my'[x].uuid = my[x].uuid
Rests(t) == pc'[t] \notin Users /\ my'[t].uuid \in {my[t].uuid, None} /\ Others(t)
Keeps(t, label) == pc'[t] = label /\ my'[t].uuid = my[t].uuid /\ Others(t)
TakesUp(t, label, u) == pc'[t] = label /\ my'[t].uuid = u /\ Others(t)

\* Nothing appears or goes on disk; entries may be forgotten.
Quiet(t) ==
    /\ dirs' = dirs /\ \A u \in Uuids : entries'[u] \in {entries[u], None}
    /\ Rests(t) \/ Keeps(t, pc[t])

GivesUp(t) ==
    pc[t] \in {"connect", "stream"} /\ Keeps(t, "abort") /\ UNCHANGED <<entries, dirs>>

Makes(t, u) ==
    /\ u \in FreeUuids /\ dirs' = [dirs EXCEPT ![u] = 0] /\ entries' = entries
    /\ Rests(t) \/ TakesUp(t, "connect", u)

Opens(t) ==
    /\ pc[t] = "connect" /\ dirs[my[t].uuid] # None
    /\ dirs' = [dirs EXCEPT ![my[t].uuid] = 0] /\ entries' = entries
    /\ Rests(t) \/ Keeps(t, "stream")

Stores(t) ==
    /\ pc[t] = "stream" /\ Rests(t) /\ dirs' = dirs
    /\ entries' = [entries EXCEPT ![my[t].uuid] = [size |-> my[t].written, age |-> 0]]

Removes(t) ==
    /\ pc[t] \in {"abort", "expire", "remove"} /\ Rests(t)
    /\ dirs' = [dirs EXCEPT ![my[t].uuid] = None] /\ entries' = entries

Judges(t, u) == Old(u) /\ TakesUp(t, "remove", u) /\ UNCHANGED <<entries, dirs>>

Reads(t, u) ==
    /\ entries[u] # None /\ pc[t] = "idle" /\ TakesUp(t, "expire", u)
    /\ entries' = [entries EXCEPT ![u] = None] /\ dirs' = dirs

Effect(t) ==
    \/ Quiet(t) \/ GivesUp(t) \/ Opens(t) \/ Stores(t) \/ Removes(t)
    \/ \E u \in Uuids : Makes(t, u) \/ Judges(t, u) \/ Reads(t, u)

\* A sweep that ends leaves nothing remembered and takes no directory up.
LEMMA SweepEndsEffect ==
    ASSUME StateOK, NEW t \in Tasks, SweepEnds(t)
    PROVE  /\ pc'[t] \in {"reserve", "idle"} /\ my'[t].expired = {}
           /\ my'[t].uuid \in {my[t].uuid, None} /\ my'[t].held \in {my[t].held, 0}
           /\ \A x \in Tasks \ {t} : pc'[x] = pc[x] /\ my'[x] = my[x]
<1>1. CASE my[t].again
  <2> DEFINE l == [my[t] EXCEPT !.expired = {}]
  <2>1. my' = [my EXCEPT ![t] = l] /\ pc' = [pc EXCEPT ![t] = "reserve"]
    BY <1>1 DEF SweepEnds, Set, Goto
  <2>2. l.uuid = my[t].uuid /\ l.held = my[t].held /\ l.expired = {}
    BY DEF StateOK, Locals
  <2> HIDE DEF l
  <2> QED BY <2>1, <2>2 DEF StateOK
<1>2. CASE ~my[t].again
  BY <1>2 DEF SweepEnds, Set, Goto, Done, NoLocals, StateOK
<1> QED BY <1>1, <1>2

\* Every step of a task has one of these effects.
LEMMA StepEffects ==
    ASSUME StateOK, \A t \in Tasks : TaskOK(t), Next
    PROVE  (\E t \in Tasks : Effect(t)) \/ Tick \/ Restart
<1> DEFINE Goal == \E x \in Tasks : Effect(x)
<1> USE DEF Quiet, Rests, Keeps, Others, Users
<1>1. ASSUME NEW t \in Handlers, NEW bytes \in Filesizes, StartDownload(t, bytes) PROVE Goal
  <2>1. Quiet(t) /\ t \in Tasks
    BY <1>1, Numbers DEF StartDownload, Set, Goto, StateOK, NoLocals
  <2> QED BY <2>1 DEF Effect
<1>2. ASSUME NEW t \in Tasks, try_reserve(t) PROVE Goal
  <2>1. Quiet(t)
    BY <1>2 DEF try_reserve, Set, Goto, Done, StateOK, NoLocals, Locals
  <2> QED BY <2>1 DEF Effect
<1>3. ASSUME NEW t \in Tasks, MakeDir(t) PROVE Goal
  <2>1. PICK u \in FreeUuids : /\ dirs' = [dirs EXCEPT ![u] = 0] /\ entries' = entries
                              /\ my' = [my EXCEPT ![t] = [my[t] EXCEPT !.uuid = u]]
                              /\ pc' = [pc EXCEPT ![t] = "connect"]
    BY <1>3 DEF MakeDir, Set, Goto
  <2>2. TakesUp(t, "connect", u)
    BY <2>1 DEF TakesUp, StateOK, Locals
  <2>3. u \in Uuids /\ Makes(t, u)
    BY <2>1, <2>2 DEF Makes, FreeUuids
  <2> QED BY <2>3 DEF Effect
<1>4. ASSUME NEW t \in Tasks, MakeDirFails(t) \/ release(t) PROVE Goal
  <2>1. Quiet(t)
    BY <1>4 DEF MakeDirFails, release, Set, Goto, Done, StateOK, NoLocals
  <2> QED BY <2>1 DEF Effect
<1>5. ASSUME NEW t \in Tasks, Connected(t) PROVE Goal
  <2>1. Opens(t)
    BY <1>5 DEF Connected, Opens, Goto, StateOK
  <2> QED BY <2>1 DEF Effect
<1>6. ASSUME NEW t \in Tasks, ConnectFails(t) \/ ChunkRefused(t) PROVE Goal
  <2>1. GivesUp(t)
    BY <1>6 DEF ConnectFails, ChunkRefused, GivesUp, Goto, StateOK
  <2> QED BY <2>1 DEF Effect
<1>7. ASSUME NEW t \in Tasks, Chunk(t) PROVE Goal
  <2> DEFINE w == [my[t] EXCEPT !.written = my[t].written + 1]
             l == [my[t] EXCEPT !.written = my[t].written + 1,
                                !.held = my[t].held + Deficit(t, my[t].written + 1)]
  <2>1. w.uuid = my[t].uuid /\ DOMAIN w = DOMAIN my[t]
    BY DEF StateOK, Locals
  <2>2. l = [w EXCEPT !.held = my[t].held + Deficit(t, my[t].written + 1)]
    OBVIOUS
  <2>3. my' = [my EXCEPT ![t] = l] /\ pc' = pc /\ UNCHANGED <<entries, dirs>>
    BY <1>7 DEF Chunk, Set
  <2> HIDE DEF w, l
  <2>4. l.uuid = my[t].uuid
    BY <2>1, <2>2 DEF StateOK, Locals
  <2>5. Quiet(t)
    BY <2>3, <2>4 DEF StateOK
  <2> QED BY <2>5 DEF Effect
<1>8. ASSUME NEW t \in Tasks, commit(t) PROVE Goal
  <2>1. Stores(t)
    BY <1>8 DEF commit, Stores, Set, Goto, Done, StateOK, NoLocals
  <2> QED BY <2>1 DEF Effect
<1>9. ASSUME NEW t \in Tasks, abort(t) PROVE Goal
  <2>1. Quiet(t) \/ Removes(t)
    BY <1>9 DEF abort, Removes, Goto, StateOK
  <2> QED BY <2>1 DEF Effect
<1>10. ASSUME NEW t \in Tasks, NEW u \in Uuids, JudgeDir(t, u) PROVE Goal
  <2>1. Judges(t, u)
    BY <1>10 DEF JudgeDir, Judges, TakesUp, Set, Goto, StateOK, Locals
  <2> QED BY <2>1 DEF Effect
<1>11. ASSUME NEW t \in Tasks, RemoveDir(t) PROVE Goal
  <2> DEFINE d == [my[t] EXCEPT !.uuid = None]
             l == [my[t] EXCEPT !.uuid = None, !.expired = my[t].expired \cup {my[t].uuid}]
  <2>1. d.uuid = None /\ DOMAIN d = DOMAIN my[t] /\ "uuid" \in DOMAIN d
    BY DEF StateOK, Locals
  <2>2. l = [d EXCEPT !.expired = my[t].expired \cup {my[t].uuid}]
    OBVIOUS
  <2>3. my' = [my EXCEPT ![t] = l]
    BY <1>11 DEF RemoveDir, Set
  <2> HIDE DEF d, l
  <2>4. l.uuid = None
    BY <2>1, <2>2
  <2>5. Removes(t)
    BY <1>11, <2>3, <2>4 DEF RemoveDir, Removes, Goto, StateOK
  <2> QED BY <2>5 DEF Effect
<1>12. ASSUME NEW t \in Tasks, RemoveDirFails(t) PROVE Goal
  <2>1. Quiet(t)
    BY <1>12 DEF RemoveDirFails, Set, Goto, StateOK, Locals
  <2> QED BY <2>1 DEF Effect
<1>13. ASSUME NEW t \in Tasks, ForgetExpired(t) PROVE Goal
  <2>1. SweepEnds(t) /\ dirs' = dirs /\ \A u \in Uuids : entries'[u] \in {entries[u], None}
    BY <1>13 DEF ForgetExpired
  <2>2. Quiet(t)
    BY <2>1, SweepEndsEffect
  <2> QED BY <2>2 DEF Effect
<1>14. ASSUME NEW t \in Handlers, NEW u \in Uuids, get(t, u) PROVE Goal
  <2>1. Reads(t, u) /\ t \in Tasks
    BY <1>14, Numbers DEF get, Reads, TakesUp, Set, Goto, StateOK, NoLocals
  <2> QED BY <2>1 DEF Effect
<1>15. ASSUME NEW t \in Handlers, ExpireDir(t) PROVE Goal
  <2>1. (Quiet(t) \/ Removes(t)) /\ t \in Tasks
    BY <1>15, Numbers DEF ExpireDir, Removes, Set, Goto, Done, StateOK, NoLocals
  <2> QED BY <2>1 DEF Effect
<1>16. ASSUME NEW t \in Handlers, Dropped(t) PROVE Goal
  <2>1. Rests(t) /\ entries' = entries /\ t \in Tasks /\ DroppedOnDisk(t)
    BY <1>16, Numbers DEF Dropped, Set, Goto, Done, StateOK, NoLocals
  <2>2. CASE UNCHANGED dirs
    <3>1. Quiet(t) BY <2>1, <2>2
    <3> QED BY <2>1, <3>1 DEF Effect
  <2>3. CASE pc[t] = "mkdir" /\ \E u \in FreeUuids : dirs' = [dirs EXCEPT ![u] = 0]
    <3>1. \E u \in Uuids : Makes(t, u)
      BY <2>1, <2>3 DEF Makes, FreeUuids
    <3> QED BY <2>1, <3>1 DEF Effect
  <2>4. CASE /\ pc[t] = "connect" /\ dirs[my[t].uuid] # None
             /\ dirs' = [dirs EXCEPT ![my[t].uuid] = 0]
    <3>1. Opens(t) BY <2>1, <2>4 DEF Opens
    <3> QED BY <2>1, <3>1 DEF Effect
  <2>5. CASE pc[t] \in {"abort", "remove"} /\ dirs' = [dirs EXCEPT ![my[t].uuid] = None]
    <3>1. Removes(t) BY <2>1, <2>5 DEF Removes
    <3> QED BY <2>1, <3>1 DEF Effect
  <2> QED BY <2>1, <2>2, <2>3, <2>4, <2>5 DEF DroppedOnDisk
<1>17. ASSUME NEW t \in Handlers, StartCleanup(t) PROVE Goal
  <2>1. Quiet(t) /\ t \in Tasks
    BY <1>17, Numbers DEF StartCleanup, Goto, StateOK
  <2> QED BY <2>1 DEF Effect
<1>18. ASSUME StartSweep PROVE Goal
  <2>1. Quiet(Sweeper) /\ Sweeper \in Tasks
    BY <1>18, Numbers DEF StartSweep, Goto, StateOK
  <2> QED BY <2>1 DEF Effect
<1> SUFFICES ASSUME ~Tick, ~Restart PROVE Goal
  OBVIOUS
<1> HIDE DEF Goal, Quiet, Rests, Keeps, Others, Users
<1> QED
  BY <1>1, <1>2, <1>3, <1>4, <1>5, <1>6, <1>7, <1>8, <1>9, <1>10, <1>11, <1>12, <1>13, <1>14,
     <1>15, <1>16, <1>17, <1>18
    DEF Next, DownloadStep, SweepStep

\* A download's file stays its own and out of the map.
LEMMA OwnStepOK ==
    ASSUME StoreInv, [Next]_vars
    PROVE  \A x \in Tasks : OwnOK(x)'
<1> DEFINE Goal == \A x \in Tasks : OwnOK(x)'
<1> USE DEF StoreInv
<1>0. /\ \A x \in Tasks : pc[x] \in Users => my[x].uuid \in Uuids
      /\ \A x \in Tasks : pc'[x] \in Users => my'[x].uuid \in Uuids
      /\ entries \in [Uuids -> [size: Sizes, age: 0..EXPIRES] \cup {None}]
  BY ShapeStep DEF TaskOK, TaskAt, Users, StateOK
<1>1. ASSUME NEW t \in Tasks, Effect(t) PROVE Goal
  <2>1. CASE Quiet(t)
    BY <1>0, <2>1 DEF Quiet, Rests, Keeps, Others, Users, OwnOK
  <2>2. CASE GivesUp(t)
    BY <1>0, <2>2 DEF GivesUp, Keeps, Others, OwnOK
  <2>3. CASE Opens(t)
    BY <1>0, <2>3 DEF Opens, Rests, Keeps, Others, Users, OwnOK
  <2>4. CASE Stores(t)
    BY <1>0, <2>4 DEF Stores, Rests, Others, Users, OwnOK
  <2>5. CASE Removes(t)
    BY <1>0, <2>5 DEF Removes, Rests, Others, Users, OwnOK
  <2>6. ASSUME NEW u \in Uuids, Makes(t, u) PROVE Goal
    BY <1>0, <2>6 DEF Makes, FreeUuids, Rests, TakesUp, Others, Users, OwnOK
  <2>7. ASSUME NEW u \in Uuids, Judges(t, u) \/ Reads(t, u) PROVE Goal
    BY <1>0, <2>7 DEF Judges, Reads, TakesUp, Others, Users, OwnOK
  <2> QED BY <1>1, <2>1, <2>2, <2>3, <2>4, <2>5, <2>6, <2>7 DEF Effect
<1>2. CASE Tick
  BY <1>0, <1>2 DEF Tick, Users, OwnOK
<1>3. CASE Restart
  BY <1>3 DEF Restart, OwnOK
<1>4. CASE UNCHANGED vars
  BY <1>4 DEF vars, OwnOK
<1> QED BY <1>1, <1>2, <1>3, <1>4, StepEffects

\* A directory is taken up, renewed, stored or removed only as InTimeInv says.
LEMMA InTimeStep ==
    ASSUME StoreInv, [Next]_vars, 2 * TIMEOUT < EXPIRES
    PROVE  InTimeInv'
<1> USE DEF StoreInv
<1>0. /\ \A x \in Tasks : pc[x] \in Users => my[x].uuid \in Uuids
      /\ \A x \in Tasks : pc'[x] \in Users => my'[x].uuid \in Uuids
      /\ entries \in [Uuids -> [size: Sizes, age: 0..EXPIRES] \cup {None}]
      /\ dirs \in [Uuids -> 0..EXPIRES \cup {None}] /\ EXPIRES \in Nat /\ TIMEOUT \in Nat
      /\ None \notin Nat /\ None \notin Uuids
      /\ \A t \in Tasks : YoungOK(t) /\ SweepOK(t) /\ GoneOK(t) /\ OwnOK(t)
      /\ \A u \in Uuids : AgeOK(u)
  BY ShapeStep, Numbers DEF TaskOK, TaskAt, Users, StateOK, InTimeInv
<1>1. ASSUME NEW t \in Tasks, Effect(t) PROVE InTimeInv'
  <2>1. CASE Quiet(t)
    <3> USE <1>0, <2>1 DEF Quiet, Rests, Keeps, Others, Users
    <3>1. \A x \in Tasks : YoungOK(x)' BY DEF YoungOK
    <3>2. \A x \in Tasks : SweepOK(x)' BY DEF SweepOK
    <3>3. \A x \in Tasks : GoneOK(x)' BY DEF GoneOK
    <3>4. \A u \in Uuids : AgeOK(u)' BY DEF AgeOK
    <3> QED BY <3>1, <3>2, <3>3, <3>4 DEF InTimeInv
  <2>2. CASE GivesUp(t)
    <3> USE <1>0, <2>2 DEF GivesUp, Keeps, Others, Users
    <3>1. \A x \in Tasks : YoungOK(x)' BY DEF YoungOK
    <3>2. \A x \in Tasks : SweepOK(x)' BY DEF SweepOK
    <3>3. \A x \in Tasks : GoneOK(x)' BY DEF GoneOK, OwnOK
    <3>4. \A u \in Uuids : AgeOK(u)' BY DEF AgeOK
    <3> QED BY <3>1, <3>2, <3>3, <3>4 DEF InTimeInv
  <2>3. CASE Opens(t)
    <3> USE <1>0, <2>3 DEF Opens, Rests, Keeps, Others, Users
    <3>1. \A x \in Tasks : YoungOK(x)' BY DEF YoungOK
    <3>2. \A x \in Tasks : SweepOK(x)' BY DEF SweepOK, YoungOK
    <3>3. \A x \in Tasks : GoneOK(x)' BY DEF GoneOK
    <3>4. \A u \in Uuids : AgeOK(u)' BY DEF AgeOK, OwnOK
    <3> QED BY <3>1, <3>2, <3>3, <3>4 DEF InTimeInv
  <2>4. CASE Stores(t)
    <3> USE <1>0, <2>4 DEF Stores, Rests, Others, Users
    <3>1. \A x \in Tasks : YoungOK(x)' BY DEF YoungOK
    <3>2. \A x \in Tasks : SweepOK(x)' BY DEF SweepOK
    <3>3. \A x \in Tasks : GoneOK(x)' BY DEF GoneOK, YoungOK
    <3>4. \A u \in Uuids : AgeOK(u)' BY DEF AgeOK, YoungOK
    <3> QED BY <3>1, <3>2, <3>3, <3>4 DEF InTimeInv
  <2>5. CASE Removes(t)
    <3> USE <1>0, <2>5 DEF Removes, Rests, Others, Users
    <3>1. \A x \in Tasks : YoungOK(x)' BY DEF YoungOK
    <3>2. \A x \in Tasks : SweepOK(x)' BY DEF SweepOK
    <3>3. \A x \in Tasks : GoneOK(x)' BY DEF GoneOK
    <3>4. \A u \in Uuids : AgeOK(u)' BY DEF AgeOK, SweepOK, GoneOK
    <3> QED BY <3>1, <3>2, <3>3, <3>4 DEF InTimeInv
  <2>6. ASSUME NEW u \in Uuids, Makes(t, u) PROVE InTimeInv'
    <3> USE <1>0, <2>6 DEF Makes, FreeUuids, Rests, TakesUp, Others, Users
    <3>1. \A x \in Tasks : YoungOK(x)' BY DEF YoungOK
    <3>2. \A x \in Tasks : SweepOK(x)' BY DEF SweepOK
    <3>3. \A x \in Tasks : GoneOK(x)' BY DEF GoneOK
    <3>4. \A v \in Uuids : AgeOK(v)' BY DEF AgeOK
    <3> QED BY <3>1, <3>2, <3>3, <3>4 DEF InTimeInv
  <2>7. ASSUME NEW u \in Uuids, Judges(t, u) PROVE InTimeInv'
    <3> USE <1>0, <2>7 DEF Judges, Old, TakesUp, Others, Users
    <3>1. \A x \in Tasks : YoungOK(x)' BY DEF YoungOK
    <3>2. \A x \in Tasks : SweepOK(x)' BY DEF SweepOK
    <3>3. \A x \in Tasks : GoneOK(x)' BY DEF GoneOK
    <3>4. \A v \in Uuids : AgeOK(v)' BY DEF AgeOK
    <3> QED BY <3>1, <3>2, <3>3, <3>4 DEF InTimeInv
  <2>8. ASSUME NEW u \in Uuids, Reads(t, u) PROVE InTimeInv'
    <3> USE <1>0, <2>8 DEF Reads, TakesUp, Others, Users
    <3>1. \A x \in Tasks : YoungOK(x)' BY DEF YoungOK, OwnOK
    <3>2. \A x \in Tasks : SweepOK(x)' BY DEF SweepOK
    <3>3. \A x \in Tasks : GoneOK(x)' BY DEF GoneOK
    <3>4. \A v \in Uuids : AgeOK(v)' BY DEF AgeOK
    <3> QED BY <3>1, <3>2, <3>3, <3>4 DEF InTimeInv
  <2> QED BY <1>1, <2>1, <2>2, <2>3, <2>4, <2>5, <2>6, <2>7, <2>8 DEF Effect
<1>2. CASE Tick
  <2>1. pc' = pc /\ my' = my
    BY <1>2 DEF Tick
  <2>2. \A u \in Uuids : dirs[u] # None => dirs[u] \in 0..EXPIRES /\ dirs'[u] = Older(dirs[u]) /\ dirs'[u] # None
    BY <1>0, <1>2 DEF Tick, Older
  <2>3. \A u \in Uuids : dirs[u] = None => dirs'[u] = None
    BY <1>2 DEF Tick
  <2>4. ASSUME NEW x \in Tasks PROVE YoungOK(x)'
    <3> SUFFICES ASSUME pc[x] \in {"connect", "stream"} PROVE YoungOK(x)'
      BY <2>1 DEF YoungOK
    <3>1. x \in Handlers /\ my[x].uuid \in Uuids
      BY <1>0 DEF TaskOK, TaskAt, Tasks, Users
    <3>2. dirs[my[x].uuid] # None /\ InTime(x)
      BY <1>0, <1>2, <3>1 DEF Tick, YoungOK
    <3>3. dirs[my[x].uuid] \in Nat /\ dirs[my[x].uuid] < (IF pc[x] = "stream" THEN TIMEOUT ELSE 2 * TIMEOUT)
      BY <1>0, <3>1, <3>2 DEF InTime
    <3>4. dirs'[my[x].uuid] <= (IF pc[x] = "stream" THEN TIMEOUT ELSE 2 * TIMEOUT)
      BY <1>0, <2>2, <3>1, <3>2, <3>3 DEF Older
    <3> QED BY <1>0, <2>1, <2>2, <3>1, <3>2, <3>4 DEF YoungOK
  <2>5. \A x \in Tasks : SweepOK(x)'
    BY <1>0, <2>1, <2>2, <2>3 DEF SweepOK, Users, Older
  <2>6. \A x \in Tasks : GoneOK(x)'
    BY <1>0, <1>2, <2>1 DEF GoneOK, Users, Tick
  <2>7. ASSUME NEW u \in Uuids PROVE AgeOK(u)'
    <3>1. CASE entries[u] = None
      BY <1>2, <3>1 DEF AgeOK, Tick
    <3>2. CASE entries[u] # None
      <4>1. entries[u].age \in 0..EXPIRES /\ entries'[u].age = Older(entries[u].age)
        BY <1>0, <1>2, <3>2 DEF Tick
      <4>2. CASE dirs[u] # None
        BY <1>0, <2>2, <3>2, <4>1, <4>2 DEF AgeOK, Older
      <4>3. CASE dirs[u] = None
        BY <1>0, <2>3, <3>2, <4>1, <4>3 DEF AgeOK, Older
      <4> QED BY <4>2, <4>3
    <3> QED BY <3>1, <3>2
  <2> QED BY <2>4, <2>5, <2>6, <2>7 DEF InTimeInv
<1>3. CASE Restart
  BY <1>3 DEF Restart, InTimeInv, YoungOK, SweepOK, GoneOK, AgeOK
<1>4. CASE UNCHANGED vars
  BY <1>0, <1>4 DEF vars, InTimeInv, YoungOK, SweepOK, GoneOK, AgeOK
<1> QED BY <1>1, <1>2, <1>3, <1>4, StepEffects

------------------------------------------------------------------------------
(* Quota *)

\* The two quantities of the account.
Held == [t \in Tasks |-> my[t].held]
Stored == [u \in Uuids |-> StoredIn(u)]

\* QuotaExact holds again, after a step that the account allows.
QuotaStep == QuotaExact' /\ [Account!AccountNext]_<<committed, Held>>

\* The quantities are numbers, and in_flight is what is held.
LEMMA Quantity ==
    ASSUME StateOK, QuotaExact
    PROVE  /\ Held \in Quantities(Tasks) /\ Stored \in Quantities(Uuids)
           /\ in_flight = Total(Held) /\ committed = Total(Stored)
           /\ committed \in Nat /\ in_flight \in Nat /\ committed + in_flight <= max_store_bytes
           /\ Account!Reserved = in_flight
<1>1. Held \in Quantities(Tasks) /\ Stored \in Quantities(Uuids)
  BY Numbers DEF StateOK, Held, Stored, StoredIn, Locals, Quantities
<1>2. committed = Total(Stored) /\ in_flight = Total(Held)
  BY DEF committed, Stored, QuotaExact, Held
<1>3. committed \in Nat
  BY <1>1, <1>2, UnitsFinite, Numbers
<1>4. Account!Reserved = Total(Held)
  BY DEF Account!Reserved, Account!Total, Account!Units, Account!Cardinality, Total, Units,
         Cardinality, Held
<1> QED BY <1>1, <1>2, <1>3, <1>4 DEF StateOK, QuotaExact

\* A step of one task changes what that task holds.
LEMMA HeldBy ==
    ASSUME StateOK, NEW t \in Tasks, NEW l, my' = [my EXCEPT ![t] = l]
    PROVE  Held' = [Held EXCEPT ![t] = l.held]
BY DEF Held, StateOK

\* The stored bytes are those of the entries.
LEMMA SameEntries ==
    ASSUME entries' = entries
    PROVE  committed' = committed
BY DEF committed, StoredIn

\* Nothing is taken or returned.
LEMMA QuotaSame ==
    ASSUME StoreInv, committed' = committed, in_flight' = in_flight, Held' = Held
    PROVE  QuotaStep
BY DEF QuotaStep, QuotaExact, Held, StoreInv

\* A guard grows by bytes for which there is room.
LEMMA QuotaTaken ==
    ASSUME StoreInv, NEW t \in Tasks, NEW n \in Nat, n > 0 => HasRoomFor(n),
           committed' = committed, in_flight' = in_flight + n,
           Held' = [Held EXCEPT ![t] = my[t].held + n]
    PROVE  QuotaStep
<1>1. StateOK /\ QuotaExact
  BY DEF StoreInv
<1>2. Held[t] = my[t].held /\ my[t].held \in Nat
  BY <1>1 DEF Held, StateOK, Locals
<1>3. Total(Held') = in_flight + n
  <2>1. Total([Held EXCEPT ![t] = my[t].held + n]) = Total(Held) - Held[t] + (my[t].held + n)
    <3>1. Held \in Quantities(Tasks) /\ IsFiniteSet(Tasks) /\ my[t].held + n \in Nat
      BY <1>1, <1>2, Quantity, Numbers
    <3> QED BY <3>1, TotalUpdate
  <2>2. in_flight = Total(Held) /\ in_flight \in Nat
    BY <1>1, Quantity
  <2> QED BY <1>2, <2>1, <2>2
<1>4. QuotaExact'
  <2>1. in_flight' = Total(Held')
    BY <1>3
  <2>2. committed' + in_flight' <= max_store_bytes
    BY <1>1, Quantity DEF HasRoomFor
  <2> QED BY <2>1, <2>2 DEF QuotaExact, Held
<1>5. CASE n = 0
  <2>1. Held' = Held
    BY <1>1, <1>2, <1>5, Quantity DEF Quantities
  <2> QED BY <1>4, <2>1 DEF QuotaStep
<1>6. CASE n > 0
  <2>1. n \in 0..max_store_bytes /\ committed + Account!Reserved + n <= max_store_bytes
    BY <1>1, <1>6, Quantity, Numbers DEF HasRoomFor
  <2>2. Account!Take(t, n)
    <3>1. Held' = [Held EXCEPT ![t] = Held[t] + n]
      BY <1>2
    <3> QED BY <1>6, <2>1, <3>1 DEF Account!Take, Held
  <2>3. Account!AccountNext
    BY <2>1, <2>2 DEF Account!AccountNext
  <2> QED BY <1>4, <2>3 DEF QuotaStep
<1> QED BY <1>5, <1>6

\* A guard drops: exactly what it held comes back.
LEMMA Returned ==
    ASSUME StoreInv, NEW t \in Tasks, Held' = [Held EXCEPT ![t] = 0]
    PROVE  /\ Released(my[t].held) = in_flight - my[t].held
           /\ Total(Held') = in_flight - my[t].held
           /\ my[t].held \in Nat /\ my[t].held <= in_flight
<1>1. StateOK /\ QuotaExact
  BY DEF StoreInv
<1>2. Held[t] = my[t].held /\ my[t].held \in Nat
  BY <1>1 DEF Held, StateOK, Locals
<1>3. Total([Held EXCEPT ![t] = 0]) = Total(Held) - Held[t] + 0 /\ Held[t] <= Total(Held)
  <2>1. Held \in Quantities(Tasks) /\ IsFiniteSet(Tasks) /\ 0 \in Nat
    BY <1>1, Quantity, Numbers
  <2> QED BY <2>1, TotalUpdate
<1>4. in_flight = Total(Held) /\ in_flight \in Nat
  BY <1>1, Quantity
<1> QED BY <1>2, <1>3, <1>4 DEF Released

\* A download ends without a file.
LEMMA QuotaReturned ==
    ASSUME StoreInv, NEW t \in Tasks, committed' = committed,
           in_flight' = Released(my[t].held), Held' = [Held EXCEPT ![t] = 0]
    PROVE  QuotaStep
<1>1. Account!AccountNext
  BY DEF Account!AccountNext, Account!GiveBack, Held
<1>2. in_flight' = Total(Held') /\ committed' + in_flight' <= max_store_bytes
  <2>1. in_flight' = in_flight - my[t].held /\ in_flight' = Total(Held') /\ my[t].held \in Nat
        /\ my[t].held <= in_flight
    BY Returned
  <2>2. committed \in Nat /\ in_flight \in Nat /\ committed + in_flight <= max_store_bytes
    BY Quantity DEF StoreInv
  <2> QED BY <2>1, <2>2, Numbers
<1> QED BY <1>1, <1>2 DEF QuotaStep, QuotaExact, Held

\* A download ends with a file no larger than what it holds.
LEMMA QuotaKept ==
    ASSUME StoreInv, NEW t \in Tasks, NEW n \in Nat, n <= my[t].held,
           committed' = committed + n,
           in_flight' = Released(my[t].held), Held' = [Held EXCEPT ![t] = 0]
    PROVE  QuotaStep
<1>1. my[t].held \in Nat /\ my[t].held <= in_flight /\ in_flight' = in_flight - my[t].held
      /\ in_flight' = Total(Held')
  BY Returned
<1>2. committed \in Nat /\ in_flight \in Nat /\ committed + in_flight <= max_store_bytes
  BY Quantity DEF StoreInv
<1>3. n \in 0..max_store_bytes /\ committed' + in_flight' <= max_store_bytes
  BY <1>1, <1>2, Numbers
<1>4. Account!Keep(t, n)
  BY DEF Account!Keep, Held
<1>5. Account!AccountNext
  BY <1>3, <1>4 DEF Account!AccountNext
<1> QED BY <1>1, <1>3, <1>5 DEF QuotaStep, QuotaExact, Held

\* Entries go: what they stored is free.
LEMMA QuotaFreed ==
    ASSUME StoreInv, StateOK', in_flight' = in_flight, Held' = Held,
           \A u \in Uuids : entries'[u] \in {entries[u], None}
    PROVE  QuotaStep
<1>1. StateOK /\ QuotaExact
  BY DEF StoreInv
<1>2. Stored' \in Quantities(Uuids) /\ \A u \in Uuids : Stored'[u] <= Stored[u]
  <2>1. ASSUME NEW u \in Uuids
        PROVE  Stored[u] \in Nat /\ Stored'[u] \in Nat /\ Stored'[u] <= Stored[u]
    <3>1. Stored[u] \in Nat
      BY <1>1, Quantity DEF Quantities
    <3>2. CASE entries'[u] = None
      BY <3>1, <3>2 DEF Stored, StoredIn
    <3>3. CASE entries'[u] = entries[u]
      BY <3>1, <3>3 DEF Stored, StoredIn
    <3> QED BY <3>2, <3>3
  <2>2. Stored' = [u \in Uuids |-> Stored'[u]]
    BY DEF Stored
  <2> QED BY <2>1, <2>2 DEF Quantities
<1>3. Total(Stored') <= Total(Stored) /\ Total(Stored') \in Nat
  BY <1>1, <1>2, Quantity, Numbers, TotalMonotone, UnitsFinite
<1>4. committed' = Total(Stored') /\ committed = Total(Stored)
  BY DEF committed, Stored
<1>5. /\ committed \in Nat /\ in_flight \in Nat /\ committed + in_flight <= max_store_bytes
  BY <1>1, Quantity
<1> DEFINE n == committed - committed'
<1>6. n \in 0..max_store_bytes /\ n <= committed /\ committed' = committed - n
  BY <1>3, <1>4, <1>5, Numbers
<1> HIDE DEF n
<1>7. Account!AccountNext
  BY <1>6 DEF Account!AccountNext, Account!Free, Held
<1>8. QuotaExact'
  BY <1>1, <1>3, <1>4, <1>5, Numbers DEF QuotaExact, Held
<1> QED BY <1>7, <1>8 DEF QuotaStep

\* Every step keeps the quota exact and is one that the account allows.
LEMMA QuotaStepOK ==
    ASSUME StoreInv, [Next]_vars
    PROVE  QuotaStep
<1> USE DEF StoreInv
<1>1. ASSUME NEW t \in Handlers, NEW bytes \in Filesizes, StartDownload(t, bytes) PROVE QuotaStep
  <2> DEFINE l == [NoLocals EXCEPT !.declared = bytes]
  <2>1. l.held = my[t].held
    BY <1>1, Numbers DEF StartDownload, Set, StateOK, TaskOK, TaskAt, Guarded, Locals, NoLocals
  <2>2. my' = [my EXCEPT ![t] = l] /\ entries' = entries /\ in_flight' = in_flight
    BY <1>1 DEF StartDownload, Set
  <2> HIDE DEF l
  <2>3. t \in Tasks /\ Held' = [Held EXCEPT ![t] = my[t].held] /\ committed' = committed
    BY <2>1, <2>2, Numbers, HeldBy, SameEntries
  <2>4. Held' = Held
    BY <2>3 DEF Held
  <2> QED BY <2>2, <2>3, <2>4, QuotaSame
<1>2. ASSUME NEW t \in Tasks, try_reserve(t) PROVE QuotaStep
  <2> DEFINE took == [my[t] EXCEPT !.held = my[t].declared]
             swept == [my[t] EXCEPT !.again = TRUE]
  <2>1. my[t].held = 0 /\ my[t].declared \in Nat /\ took.held = my[t].held + my[t].declared
        /\ swept.held = my[t].held /\ NoLocals.held = my[t].held
    BY <1>2, Numbers DEF try_reserve, StateOK, TaskOK, TaskAt, Guarded, Locals, NoLocals
  <2>2. entries' = entries
    BY <1>2 DEF try_reserve
  <2>3. committed' = committed
    BY <2>2, SameEntries
  <2>4. \/ /\ my' = [my EXCEPT ![t] = took]
           /\ HasRoomFor(my[t].declared) /\ in_flight' = in_flight + my[t].declared
        \/ my' = [my EXCEPT ![t] = swept] /\ in_flight' = in_flight
        \/ my' = [my EXCEPT ![t] = NoLocals] /\ in_flight' = in_flight
    BY <1>2 DEF try_reserve, Set, Done
  <2> HIDE DEF took, swept
  <2>5. CASE my' = [my EXCEPT ![t] = took] /\ HasRoomFor(my[t].declared)
             /\ in_flight' = in_flight + my[t].declared
    <3>1. Held' = [Held EXCEPT ![t] = my[t].held + my[t].declared]
      <4>1. Held' = [Held EXCEPT ![t] = took.held]
        BY <2>5, HeldBy
      <4> QED BY <2>1, <4>1
    <3> QED BY <2>1, <2>3, <2>5, <3>1, QuotaTaken
  <2>6. CASE in_flight' = in_flight /\ (my' = [my EXCEPT ![t] = swept] \/ my' = [my EXCEPT ![t] = NoLocals])
    <3>1. Held' = [Held EXCEPT ![t] = my[t].held]
      BY <2>1, <2>6, HeldBy
    <3>2. Held' = Held
      BY <3>1 DEF Held
    <3> QED BY <2>3, <2>6, <3>2, QuotaSame
  <2> QED BY <2>4, <2>5, <2>6
<1>3. ASSUME NEW t \in Tasks, MakeDir(t) PROVE QuotaStep
  <2>0. PICK u \in FreeUuids : my' = [my EXCEPT ![t] = [my[t] EXCEPT !.uuid = u]]
    BY <1>3 DEF MakeDir, Set
  <2> DEFINE l == [my[t] EXCEPT !.uuid = u]
  <2>1. l.held = my[t].held
    BY <1>3, Numbers DEF MakeDir, Set, StateOK, TaskOK, TaskAt, Guarded, Locals, NoLocals
  <2>2. my' = [my EXCEPT ![t] = l] /\ entries' = entries /\ in_flight' = in_flight
    BY <1>3, <2>0 DEF MakeDir
  <2> HIDE DEF l
  <2>3. Held' = [Held EXCEPT ![t] = my[t].held] /\ committed' = committed
    BY <2>1, <2>2, HeldBy, SameEntries
  <2>4. Held' = Held
    BY <2>3 DEF Held
  <2> QED BY <2>2, <2>3, <2>4, QuotaSame
<1>4. ASSUME NEW t \in Tasks, MakeDirFails(t) PROVE QuotaStep
  <2>1. my' = [my EXCEPT ![t] = NoLocals] /\ entries' = entries
        /\ in_flight' = Released(my[t].held)
    BY <1>4 DEF MakeDirFails, Set, Done
  <2>2. Held' = [Held EXCEPT ![t] = 0] /\ committed' = committed
    BY <2>1, Numbers, HeldBy, SameEntries
  <2> QED BY <2>1, <2>2, QuotaReturned
<1>5. ASSUME NEW t \in Tasks, Connected(t) PROVE QuotaStep
  <2>1. committed' = committed /\ in_flight' = in_flight /\ Held' = Held
    BY <1>5, SameEntries, Numbers DEF Connected, Held
  <2> QED BY <2>1, QuotaSame
<1>6. ASSUME NEW t \in Tasks, ConnectFails(t) PROVE QuotaStep
  <2>1. committed' = committed /\ in_flight' = in_flight /\ Held' = Held
    BY <1>6, SameEntries, Numbers DEF ConnectFails, Held
  <2> QED BY <2>1, QuotaSame
<1>7. ASSUME NEW t \in Tasks, Chunk(t) PROVE QuotaStep
  <2> DEFINE more == Deficit(t, my[t].written + 1)
             l == [my[t] EXCEPT !.written = my[t].written + 1, !.held = my[t].held + more]
             w == [my[t] EXCEPT !.written = my[t].written + 1]
  <2>1. more \in Nat /\ my[t] \in Locals /\ (more > 0 => HasRoomFor(more))
    BY <1>7, Numbers DEF Chunk, Fits, Deficit, StateOK, Locals
  <2>2. my' = [my EXCEPT ![t] = l] /\ entries' = entries /\ in_flight' = in_flight + more
    BY <1>7 DEF Chunk, Set
  <2>3. l = [w EXCEPT !.held = my[t].held + more] /\ "held" \in DOMAIN w
    BY <2>1 DEF Locals
  <2> HIDE DEF l, w, more
  <2>4. Held' = [Held EXCEPT ![t] = my[t].held + more] /\ committed' = committed
    <3>1. l.held = my[t].held + more
      BY <2>3
    <3> QED BY <2>2, <3>1, HeldBy, SameEntries
  <2> QED BY <2>1, <2>2, <2>4, QuotaTaken
<1>8. ASSUME NEW t \in Tasks, ChunkRefused(t) PROVE QuotaStep
  <2>1. committed' = committed /\ in_flight' = in_flight /\ Held' = Held
    BY <1>8, SameEntries, Numbers DEF ChunkRefused, Held
  <2> QED BY <2>1, QuotaSame
<1>9. ASSUME NEW t \in Tasks, commit(t) PROVE QuotaStep
  <2> DEFINE u == my[t].uuid
             n == my[t].written
  <2>1. u \in Uuids /\ entries[u] = None /\ n \in Nat /\ n <= my[t].held
    BY <1>9, Numbers DEF commit, StateOK, TaskOK, TaskAt, OwnOK, Locals
  <2>2. my' = [my EXCEPT ![t] = NoLocals] /\ in_flight' = Released(my[t].held)
    BY <1>9 DEF commit, Set, Done
  <2>3. Held' = [Held EXCEPT ![t] = 0]
    BY <2>2, Numbers, HeldBy
  <2>4. Stored' = [Stored EXCEPT ![u] = n] /\ Stored[u] = 0
    <3>1. entries' = [entries EXCEPT ![u] = [size |-> n, age |-> 0]]
      BY <1>9 DEF commit
    <3>2. [size |-> n, age |-> 0] # None
      BY <2>1, Numbers
    <3> QED BY <2>1, <3>1, <3>2 DEF Stored, StoredIn, StateOK
  <2>5. committed' = committed + n
    <3>1. committed = Total(Stored) /\ committed' = Total(Stored') /\ committed \in Nat
          /\ Stored \in Quantities(Uuids)
      BY Quantity DEF committed, Stored
    <3>2. Total([Stored EXCEPT ![u] = n]) = Total(Stored) - Stored[u] + n
      BY <2>1, <3>1, Numbers, TotalUpdate
    <3> QED BY <2>1, <2>4, <3>1, <3>2
  <2> QED BY <2>1, <2>2, <2>3, <2>5, QuotaKept
<1>10. ASSUME NEW t \in Tasks, abort(t) PROVE QuotaStep
  <2>1. committed' = committed /\ in_flight' = in_flight /\ Held' = Held
    BY <1>10, SameEntries, Numbers DEF abort, Held
  <2> QED BY <2>1, QuotaSame
<1>11. ASSUME NEW t \in Tasks, release(t) PROVE QuotaStep
  <2>1. my' = [my EXCEPT ![t] = NoLocals] /\ entries' = entries
        /\ in_flight' = Released(my[t].held)
    BY <1>11 DEF release, Set, Done
  <2>2. Held' = [Held EXCEPT ![t] = 0] /\ committed' = committed
    BY <2>1, Numbers, HeldBy, SameEntries
  <2> QED BY <2>1, <2>2, QuotaReturned
<1>12. ASSUME NEW t \in Handlers, StartCleanup(t) PROVE QuotaStep
  <2>1. committed' = committed /\ in_flight' = in_flight /\ Held' = Held
    BY <1>12, SameEntries, Numbers DEF StartCleanup, Held
  <2> QED BY <2>1, QuotaSame
<1>13. ASSUME NEW t \in Tasks, NEW u \in Uuids, JudgeDir(t, u) PROVE QuotaStep
  <2> DEFINE l == [my[t] EXCEPT !.uuid = u]
  <2>1. l.held = my[t].held
    BY DEF StateOK, Locals
  <2>2. my' = [my EXCEPT ![t] = l] /\ entries' = entries /\ in_flight' = in_flight
    BY <1>13 DEF JudgeDir, Set
  <2> HIDE DEF l
  <2>3. Held' = [Held EXCEPT ![t] = my[t].held] /\ committed' = committed
    BY <2>1, <2>2, HeldBy, SameEntries
  <2>4. Held' = Held
    BY <2>3 DEF Held
  <2> QED BY <2>2, <2>3, <2>4, QuotaSame
<1>14. ASSUME NEW t \in Tasks, RemoveDir(t) PROVE QuotaStep
  <2> DEFINE l == [my[t] EXCEPT !.uuid = None, !.expired = my[t].expired \cup {my[t].uuid}]
  <2>1. l.held = my[t].held
    <3> DEFINE d == [my[t] EXCEPT !.uuid = None]
    <3>1. d \in Locals /\ d.held = my[t].held
      BY DEF StateOK, Locals
    <3>2. l = [d EXCEPT !.expired = my[t].expired \cup {my[t].uuid}]
      OBVIOUS
    <3> HIDE DEF d, l
    <3> QED BY <3>1, <3>2 DEF Locals
  <2>2. my' = [my EXCEPT ![t] = l] /\ entries' = entries /\ in_flight' = in_flight
    BY <1>14 DEF RemoveDir, Set
  <2> HIDE DEF l
  <2>3. Held' = [Held EXCEPT ![t] = my[t].held] /\ committed' = committed
    BY <2>1, <2>2, HeldBy, SameEntries
  <2>4. Held' = Held
    BY <2>3 DEF Held
  <2> QED BY <2>2, <2>3, <2>4, QuotaSame
<1>15. ASSUME NEW t \in Tasks, RemoveDirFails(t) PROVE QuotaStep
  <2> DEFINE l == [my[t] EXCEPT !.uuid = None]
  <2>1. l.held = my[t].held
    BY <1>15, Numbers
       DEF RemoveDirFails, Set, StateOK, TaskOK, TaskAt, Guarded, Locals, NoLocals
  <2>2. my' = [my EXCEPT ![t] = l] /\ entries' = entries /\ in_flight' = in_flight
    BY <1>15 DEF RemoveDirFails, Set
  <2> HIDE DEF l
  <2>3. Held' = [Held EXCEPT ![t] = my[t].held] /\ committed' = committed
    BY <2>1, <2>2, HeldBy, SameEntries
  <2>4. Held' = Held
    BY <2>3 DEF Held
  <2> QED BY <2>2, <2>3, <2>4, QuotaSame
<1>16. ASSUME NEW t \in Tasks, ForgetExpired(t) PROVE QuotaStep
  <2>1. SweepEnds(t) /\ in_flight' = in_flight /\ my[t].held = 0
        /\ \A u \in Uuids : entries'[u] \in {entries[u], None}
    BY <1>16 DEF ForgetExpired, TaskOK, TaskAt, Guarded
  <2>2. my'[t].held = 0 /\ \A x \in Tasks \ {t} : my'[x] = my[x]
    BY <2>1, SweepEndsEffect
  <2>3. Held' = Held
    BY <2>1, <2>2 DEF Held
  <2> QED BY <2>1, <2>3, ShapeStep, QuotaFreed
<1>17. ASSUME NEW t \in Handlers, NEW u \in Uuids, get(t, u) PROVE QuotaStep
  <2> DEFINE l == [NoLocals EXCEPT !.uuid = u]
  <2>1. t \in Tasks /\ my[t].held = 0 /\ l.held = 0 /\ my' = [my EXCEPT ![t] = l]
    BY <1>17, Numbers DEF get, Set, TaskOK, TaskAt, Guarded, NoLocals
  <2>2. in_flight' = in_flight /\ \A v \in Uuids : entries'[v] \in {entries[v], None}
    BY <1>17 DEF get, StateOK
  <2> HIDE DEF l
  <2>3. Held' = [Held EXCEPT ![t] = 0]
    BY <2>1, HeldBy
  <2>4. Held' = Held
    BY <2>1, <2>3 DEF Held
  <2> QED BY <2>2, <2>4, ShapeStep, QuotaFreed
<1>18. ASSUME NEW t \in Handlers, ExpireDir(t) PROVE QuotaStep
  <2>1. my' = [my EXCEPT ![t] = NoLocals] /\ entries' = entries /\ in_flight' = in_flight
    BY <1>18 DEF ExpireDir, Set, Done
  <2>2. t \in Tasks /\ my[t].held = 0
    BY <1>18, Numbers DEF ExpireDir, TaskOK, TaskAt, Guarded
  <2>3. Held' = [Held EXCEPT ![t] = 0] /\ committed' = committed
    BY <2>1, <2>2, Numbers, HeldBy, SameEntries
  <2>4. Held' = Held
    BY <2>2, <2>3 DEF Held
  <2> QED BY <2>1, <2>3, <2>4, QuotaSame
<1>19. ASSUME NEW t \in Handlers, Dropped(t) PROVE QuotaStep
  <2>1. my' = [my EXCEPT ![t] = NoLocals] /\ entries' = entries
        /\ in_flight' = Released(my[t].held)
    BY <1>19 DEF Dropped, Set, Done
  <2>2. Held' = [Held EXCEPT ![t] = 0] /\ committed' = committed
    BY <2>1, Numbers, HeldBy, SameEntries
  <2> QED BY <2>1, <2>2, QuotaReturned, Numbers
<1>20. ASSUME StartSweep PROVE QuotaStep
  <2>1. committed' = committed /\ in_flight' = in_flight /\ Held' = Held
    BY <1>20, SameEntries, Numbers DEF StartSweep, Held
  <2> QED BY <2>1, QuotaSame
<1>21. ASSUME Tick PROVE QuotaStep
  <2>1. ASSUME NEW u \in Uuids PROVE StoredIn(u)' = StoredIn(u)
    <3>1. CASE entries[u] = None
      BY <1>21, <3>1 DEF Tick, StoredIn
    <3>2. CASE entries[u] # None
      <4>1. entries[u] \in [size: Sizes, age: 0..EXPIRES] /\ entries'[u] = [entries[u] EXCEPT !.age = Older(@)]
        BY <1>21, <3>2 DEF Tick, StateOK
      <4>2. entries'[u] \in [size: Nat, age: Nat] /\ entries'[u].size = entries[u].size
        BY <4>1, Numbers DEF Older
      <4> QED BY <3>2, <4>2, Numbers DEF StoredIn
    <3> QED BY <3>1, <3>2
  <2>2. committed' = committed
    BY <2>1 DEF committed
  <2> QED BY <1>21, <2>2, QuotaSame DEF Tick, Held
<1>22. ASSUME Restart PROVE QuotaStep
  <2>1. Held' = [x \in Tasks |-> 0] /\ Stored' = [u \in Uuids |-> 0] /\ in_flight' = 0
    BY <1>22 DEF Restart, Held, Stored, StoredIn, NoLocals
  <2>2. committed' = Total(Stored')
    BY DEF committed, Stored
  <2>3. committed' = 0 /\ Total(Held') = 0
    BY <2>1, <2>2, TotalOfZeros
  <2>4. Account!AccountNext
    BY <2>1, <2>3 DEF Account!AccountNext, Account!Forget, Held
  <2>5. QuotaExact'
    BY <2>1, <2>3, Numbers DEF QuotaExact, Held
  <2> QED BY <2>4, <2>5 DEF QuotaStep
<1>23. CASE UNCHANGED vars
  <2>1. entries' = entries /\ in_flight' = in_flight /\ Held' = Held
    BY <1>23 DEF vars, Held
  <2> QED BY <2>1, SameEntries, QuotaSame
<1> QED
  BY <1>1, <1>2, <1>3, <1>4, <1>5, <1>6, <1>7, <1>8, <1>9, <1>10, <1>11, <1>12, <1>13, <1>14,
     <1>15, <1>16, <1>17, <1>18, <1>19, <1>20, <1>21, <1>22, <1>23
    DEF Next, DownloadStep, SweepStep, Tasks

------------------------------------------------------------------------------
(* Theorems *)

\* The invariant holds when the process starts.
LEMMA InitOK ==
    ASSUME Init
    PROVE  StoreInv /\ committed = 0 /\ Held = [t \in Tasks |-> 0]
<1>1. StateOK
  BY Numbers DEF Init, StateOK, Labels
<1>2. \A t \in Tasks : TaskOK(t) /\ OwnOK(t)
  BY DEF Init, TaskOK, TaskAt, OwnOK, NoLocals
<1>3. InTimeInv
  BY DEF Init, InTimeInv, YoungOK, SweepOK, GoneOK, AgeOK
<1>4. Held = [t \in Tasks |-> 0] /\ [u \in Uuids |-> StoredIn(u)] = [u \in Uuids |-> 0]
  BY DEF Init, Held, NoLocals, StoredIn
<1>5. Total(Held) = 0 /\ committed = 0
  BY <1>4, TotalOfZeros DEF committed
<1>6. QuotaExact
  BY <1>5, Numbers DEF Init, QuotaExact, Held
<1> QED BY <1>1, <1>2, <1>3, <1>4, <1>5, <1>6 DEF StoreInv

\* The inductive invariant of the store, its downloads and its sweeps.
THEOREM StoreInvariant == Spec => []StoreInv
<1>1. Init => StoreInv
  BY InitOK
<1>2. StoreInv /\ [Next]_vars => StoreInv'
  BY ShapeStep, OwnStepOK, InTimeStep, QuotaStepOK DEF StoreInv, QuotaStep
<1> QED BY <1>1, <1>2, PTL DEF Spec

\* No exit from a download leaks quota or returns it twice, and the store never
\* exceeds its cap (QuotaGuard, try_reserve, extend, commit).
THEOREM QuotaIsExact == Spec => []QuotaExact
<1>1. StoreInv => QuotaExact
  BY DEF StoreInv
<1> QED BY <1>1, StoreInvariant, PTL

\* Where two timeouts are less than the expiry, no sweep takes the directory of a
\* download under way and no stored file loses its directory more than a timeout
\* before its link expires, though calls may be dropped in the middle of a sweep
\* and the process restarted (sweep_expired, download_and_commit).
THEOREM FilesAreKept == Spec => []FilesKeptInTime
<1>1. StoreInv => FilesKeptInTime
  <2> SUFFICES ASSUME StoreInv, 2 * TIMEOUT < EXPIRES
               PROVE  /\ \A t \in Handlers : pc[t] \in {"connect", "stream"} => dirs[my[t].uuid] # None
                      /\ \A u \in Uuids : entries[u] # None /\ dirs[u] = None =>
                           entries[u].age + TIMEOUT >= EXPIRES
    BY DEF FilesKeptInTime
  <2>1. \A t \in Handlers : pc[t] \in {"connect", "stream"} => dirs[my[t].uuid] # None
    BY Numbers DEF StoreInv, InTimeInv, YoungOK
  <2>2. \A u \in Uuids : entries[u] # None /\ dirs[u] = None => entries[u].age + TIMEOUT >= EXPIRES
    BY Numbers DEF StoreInv, InTimeInv, AgeOK, StateOK
  <2> QED BY <2>1, <2>2
<1> QED BY <1>1, StoreInvariant, PTL

\* The store implements QuotaAccount.
THEOREM StoreRefinesAccount == Spec => RefinesAccount
<1>1. Init => Account!AccountInit
  BY InitOK DEF Account!AccountInit, Held
<1>2. StoreInv /\ [Next]_vars => [Account!AccountNext]_(Account!accountVars)
  BY QuotaStepOK DEF QuotaStep, Account!accountVars, Held
<1> QED BY <1>1, <1>2, StoreInvariant, PTL DEF Spec, RefinesAccount, Account!AccountSpec
==============================================================================
