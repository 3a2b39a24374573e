----------------------------- MODULE ToolCallProofs -----------------------------
(***************************************************************************)
(* The safety of ToolCall, for every configuration, every call and every   *)
(* bound on subtasks. The argument has three layers:                       *)
(*                                                                         *)
(*   1. the steps a handler may be made of (reads and refusals, writes,    *)
(*      the fork that sends a rejected write again, copy_issue's loop),    *)
(*      and the shapes a sequence of them may have: reads first, each      *)
(*      write once, no promised write left out;                            *)
(*   2. every handler of ToolTable has these shapes for every call that    *)
(*      the router lets through (HandlerReady, HandlerQuiet);              *)
(*   3. every step of ToolCall leaves the rest of the handler, together    *)
(*      with what was sent and performed, in such a shape (RunInv).        *)
(*                                                                         *)
(* PartialInv adds what import_time_entries and update_redmine_issue       *)
(* report when they succeed in part.                                       *)
(***************************************************************************)
EXTENDS ToolCall, SequenceTheorems, FiniteSetTheorems, TLAPS

------------------------------------------------------------------------------
(* Kinds of steps *)

\* The resources of RedmineApi, and the codes a handler answers by itself.
Resources ==
    {"user", "project", "issue", "search", "relation", "watcher", "journal", "category",
     "checklist", "agile", "product", "contact", "contact_project", "time_entry", "activity",
     "tracker", "status", "priority", "query", "role", "custom_field", "version", "membership",
     "wiki", "attachment", "file", "upload", "download", "document"}
Codes ==
    {"invalid_params", "READ_ONLY", "MISCONFIGURED", "CONFIRMATION_REQUIRED",
     "CHILDREN_PRESENT", "SOURCE_REQUIRED", "UNSUPPORTED_SOURCE", "PATH_NOT_ALLOWED",
     "FILE_TOO_LARGE", "STORE_FULL", "NOT_FOUND", "VALIDATION_FAILED"}

\* The steps of ToolSteps as sets of records.
Requests(verbs, fails) ==
    [kind : {"request"}, verb : verbs, res : Resources, n : Nat, fail : fails]
Answers(codes) == [kind : {"answer"}, code : codes]
Forks(S) == [kind : {"either"}, left : Seq(S), right : Seq(S)]

\* Steps that only read, ask or refuse; no handler nests its branches deeper than this.
Gets == Requests({"GET"}, Failures \ {"stop", "recover", "reread"})
ReadLeaf == Gets \cup Answers(Codes)
ReadFork == ReadLeaf \cup Forks(ReadLeaf)
ReadStep == ReadFork \cup Forks(ReadFork)

\* Writes, and the recovery's decision to send one again.
WriteVerbs == {"POST", "PUT", "DELETE"}
WriteFails == Failures \ {"reread"}
WriteStep == Requests(WriteVerbs, WriteFails)
Strict == {"error", "tells", "upload", "recover"}
GiveUp == Answers({"VALIDATION_FAILED"})
Retries == {s \in Seq(Requests(WriteVerbs, {"error"})) : Len(s) = 1}
RetryFork == [kind : {"either"}, left : Retries, right : {Answer("VALIDATION_FAILED")}]

\* The loop of copy_issue, and the steps before it.
LoopStep == [kind : {"level", "child"}, depth : Nat]
CopyStep == [kind : {"request"}, verb : {"GET", "POST"}, res : Resources, n : {0},
             fail : {"error", "skip"}]
            \cup Answers(Codes)

\* The read-back of an update: its rejection sends the update again.
Rereads == Requests({"GET"}, {"reread"})

\* What a handler does once it has written: no refusal any more.
LateStep == Gets \cup Rereads \cup GiveUp \cup WriteStep \cup RetryFork
PlainStep == ReadStep \cup LateStep
Later == LateStep \cup LoopStep
AnyStep == PlainStep \cup LoopStep

------------------------------------------------------------------------------
(* Shapes of a handler *)

\* First steps of one kind, then steps of another.
Parts(s, A, B) ==
    /\ s \in Seq(A \cup B)
    /\ \E n \in 0..Len(s) : /\ \A i \in 1..n : s[i] \in A
                            /\ \A i \in (n + 1)..Len(s) : s[i] \in B

\* Only reads, or only reads up to an answer.
Barred(s) == \E i \in 1..Len(s) : /\ s[i] \in Answers(Codes)
                                  /\ \A j \in 1..(i - 1) : s[j] \in ReadStep
Quiet(s) == s \in Seq(ReadStep) \/ Barred(s)

\* What a step may write.
WritesOf(x) ==
    IF x \in WriteStep THEN {Write(x, x.n)}
    ELSE IF x \in RetryFork THEN {Write(x.left[1], x.left[1].n)}
    ELSE IF x \in Rereads THEN {Repeat}
    ELSE {}

\* Each write of s is one of W, and no other step of s has it.
Once(s, W) ==
    /\ \A i \in 1..Len(s) : WritesOf(s[i]) \subseteq W
    /\ \A i, j \in 1..Len(s) : i # j => WritesOf(s[i]) \cap WritesOf(s[j]) = {}

\* A step that writes w or ends the call, and one that may skip what follows it.
Ensures(x, w) ==
    \/ x \in Answers(Codes)
    \/ w \in WritesOf(x) /\ x \notin Rereads /\ (x \in WriteStep => x.fail \in Strict)
Loose(x) == x \in LoopStep \/ (x \in WriteStep /\ x.fail = "stop")
Tight(s) == \A i \in 1..Len(s) : ~Loose(s[i])
Delivers(s, w) == \E i \in 1..Len(s) : /\ Ensures(s[i], w)
                                       /\ \A j \in 1..(i - 1) : ~Loose(s[j])

\* An update is repeated only behind the update itself.
Backed(s) == \A i \in 1..Len(s) : Repeat \in WritesOf(s[i]) =>
                \E j \in 1..(i - 1) : Ensures(s[j], CoreWrite)

\* A handler without a loop: reads first, the writes W once each, none of P left out.
Sound(s, W, P) ==
    /\ Parts(s, ReadStep, LateStep)
    /\ Once(s, W) /\ Tight(s) /\ Backed(s)
    /\ \A w \in P : Delivers(s, w)

------------------------------------------------------------------------------
(* The invariant *)

Wrote == \E r \in sent : Mutates(r)
Performed == {performed[i] : i \in 1..Len(performed)}
WriteRecord == [verb : WriteVerbs, res : Resources, n : Nat]

\* How far the call has come; before its handler runs nothing was sent, and a handler
\* runs only for a tool of the router and an action of that tool.
CallInv ==
    /\ pc \in {"idle", "dispatch", "route", "run", "answered"}
    /\ pc # "answered" => answer = "none"
    /\ pc # "idle" => call \in Calls
    /\ pc \in {"idle", "dispatch", "route"} =>
         /\ sent = {} /\ acked = {} /\ performed = <<>>
         /\ items = NoItems
    /\ pc = "run" \/ sent # {} => Routed(call.tool, cfg) /\ call.action \in Actions(call.tool)

\* Refusals come before the first write.
OrderInv ==
    /\ pc = "run" => Parts(todo, ReadStep, Later)
    /\ pc = "run" /\ Wrote => todo \in Seq(Later)
    /\ answer \in Refusals => ~Wrote

\* On a read-only server the handler ends before it would write.
QuietInv ==
    cfg.read_only => ~Wrote /\ (pc = "run" => Quiet(todo))

\* The writes that are left are not among those performed. The loop of copy_issue numbers
\* its writes by the length of that record, so each is new. An update that was not
\* acknowledged is not repeated, and no step that is left repeats it before it is.
OnceInv ==
    /\ performed \in Seq(WriteRecord)
    /\ \A i, j \in 1..Len(performed) : performed[i] = performed[j] => i = j
    /\ Repeat \in Performed => CoreWrite \in acked
    /\ pc = "run" => /\ \E W : W \cap Performed = {} /\ Once(todo, W)
                     /\ CoreWrite \in acked \/ Backed(todo)
                     /\ \/ todo \in Seq(PlainStep)
                        \/ /\ Parts(todo, CopyStep, LoopStep)
                           /\ \A i \in 1..Len(performed) : performed[i].n < i

\* A promised write was acknowledged, or the rest of the handler cannot end well without it.
DoneInv ==
    /\ pc = "run" => \A w \in Promised(call) : w \in acked \/ Delivers(todo, w)
    /\ answer = "ok" => Promised(call) \subseteq acked

RunInv == CallInv /\ OrderInv /\ QuietInv /\ OnceInv /\ DoneInv

------------------------------------------------------------------------------
(* Partial success *)

\* import_time_entries: the i-th entry, and the entries left after k of them.
Entry(i, how) == [kind |-> "request", verb |-> "POST", res |-> "time_entry", n |-> i, fail |-> how]
EntryWrite(i) == [verb |-> "POST", res |-> "time_entry", n |-> i]
Entries(k, how) == [i \in 1..(3 - k) |-> Entry(k + i, how)]
How == IF Has(call, "stop_on_error") THEN "stop" ELSE "item"

\* The counters of an import; how many entries its answer lists is another matter.
Counted(good, bad) ==
    \E l : items = [succeeded |-> good, failed |-> bad, listed |-> l]

\* The k entries sent so far are numbered 1 to k and reported; the rest is still to do,
\* unless an entry failed and stop_on_error was given.
ImportInv ==
    call.tool = "import_time_entries" /\ (pc = "run" \/ answer = "ok") =>
        LET k == Cardinality(sent) IN
        /\ k \in 0..3 /\ IsFiniteSet(sent) /\ acked \subseteq sent
        /\ \A r \in sent : r.n \in 1..k
        /\ Counted(Cardinality(acked), k - Cardinality(acked))
        /\ answer = "ok" => k = 3 \/ Has(call, "stop_on_error")
        /\ pc = "run" =>
             \/ k = 0 /\ todo # <<>> /\ Head(todo) \in Answers(Codes)
             \/ Has(call, "stop_on_error") /\ todo = <<>>
             \/ todo = Entries(k, How)

\* The steps of update_redmine_issue before its agile half, and those of that half.
CoreRes == {"issue", "project", "upload", "attachment", "custom_field"}
CoreRequest(core) ==
    {x \in [kind : {"request"}, verb : {"GET", "POST", "PUT"}, res : CoreRes, n : Nat,
            fail : Failures] :
        (x.verb = "PUT" /\ x.res = "issue") \/ x.fail = "reread" => core}
CoreLeaf(core) == CoreRequest(core) \cup Answers(Codes)
CoreStep(core) == CoreLeaf(core) \cup Forks(CoreLeaf(core))
AgileStep(core) == [kind : {"request"}, verb : {"GET", "PUT"}, res : {"agile"}, n : {0},
                    fail : {IF core THEN "tells" ELSE "error"}]
AgileRead == [verb |-> "GET", res |-> "agile", n |-> 0]

\* The agile half of an update follows its core half, and tells of it when it fails.
UpdateInv ==
    call.tool = "update_redmine_issue" =>
        LET core == update_has_core_change(call) IN
        /\ CoreWrite \in acked => core
        /\ pc = "run" => Parts(todo, CoreStep(core), AgileStep(core))
        /\ pc = "run" /\ AgileRead \in sent => todo \in Seq(AgileStep(core))
        /\ (/\ answer \notin {"none", "ok", "INTERNAL"}
            /\ CoreWrite \in acked /\ AgileRead \in sent) => told

PartialInv == (missed => truncated) /\ ImportInv /\ UpdateInv

------------------------------------------------------------------------------
(* Sequences *)

LEMMA Join == ASSUME NEW S PROVE \A s, t \in Seq(S) : s \o t \in Seq(S)
  OBVIOUS

LEMMA Wider == ASSUME NEW S, NEW T, S \subseteq T PROVE Seq(S) \subseteq Seq(T)
  OBVIOUS

LEMMA HeadTail ==
    ASSUME NEW S, NEW s \in Seq(S), s # <<>>
    PROVE  /\ Head(s) \in S /\ Head(s) = s[1] /\ Tail(s) \in Seq(S)
           /\ Len(s) \in Nat /\ Len(s) > 0 /\ Len(Tail(s)) = Len(s) - 1
           /\ \A i \in 1..Len(Tail(s)) : Tail(s)[i] = s[i + 1]
  OBVIOUS

\* The elements of a concatenation.
LEMMA Concat ==
    ASSUME NEW S, NEW s \in Seq(S), NEW t \in Seq(S)
    PROVE  /\ s \o t \in Seq(S) /\ Len(s) \in Nat /\ Len(t) \in Nat
           /\ Len(s \o t) = Len(s) + Len(t)
           /\ \A i \in 1..Len(s) : (s \o t)[i] = s[i]
           /\ \A i \in (Len(s) + 1)..(Len(s) + Len(t)) : (s \o t)[i] = t[i - Len(s)]
  OBVIOUS

LEMMA PartsFirst ==
    ASSUME NEW A, NEW B, NEW s \in Seq(A)
    PROVE  Parts(s, A, B)
<1>1. s \in Seq(A \cup B) /\ Len(s) \in 0..Len(s) /\ \A i \in 1..Len(s) : s[i] \in A
  OBVIOUS
<1> QED BY <1>1 DEF Parts

LEMMA PartsSecond ==
    ASSUME NEW A, NEW B, NEW s \in Seq(B)
    PROVE  Parts(s, A, B)
<1>1. s \in Seq(A \cup B) /\ 0 \in 0..Len(s) /\ \A i \in 1..Len(s) : s[i] \in B
  OBVIOUS
<1> QED BY <1>1 DEF Parts

\* Steps of the first kind may be put in front, steps of the second kind behind.
LEMMA PartsBefore ==
    ASSUME NEW A, NEW B, NEW s \in Seq(A), NEW t, Parts(t, A, B)
    PROVE  Parts(s \o t, A, B)
<1>1. t \in Seq(A \cup B) /\ s \in Seq(A \cup B) /\ \A i \in 1..Len(s) : s[i] \in A
  BY DEF Parts
<1>2. PICK n \in 0..Len(t) : /\ \A i \in 1..n : t[i] \in A
                             /\ \A i \in (n + 1)..Len(t) : t[i] \in B
  BY DEF Parts
<1> DEFINE u == s \o t
           m == Len(s) + n
<1>3. /\ u \in Seq(A \cup B) /\ Len(s) \in Nat /\ Len(t) \in Nat /\ Len(u) = Len(s) + Len(t)
      /\ \A i \in 1..Len(s) : u[i] = s[i]
      /\ \A i \in (Len(s) + 1)..(Len(s) + Len(t)) : u[i] = t[i - Len(s)]
  BY <1>1, Concat
<1> HIDE DEF u
<1>4. m \in 0..Len(u)
  BY <1>2, <1>3
<1>5. ASSUME NEW i \in 1..m PROVE u[i] \in A
  <2>1. CASE i \in 1..Len(s)
    BY <1>3, <2>1
  <2>2. CASE i \notin 1..Len(s)
    <3>1. i \in (Len(s) + 1)..(Len(s) + Len(t)) /\ i - Len(s) \in 1..n
      BY <1>2, <1>3, <2>2
    <3> QED BY <1>2, <1>3, <3>1
  <2> QED BY <2>1, <2>2
<1>6. ASSUME NEW i \in (m + 1)..Len(u) PROVE u[i] \in B
  BY <1>2, <1>3
<1>7. Parts(u, A, B)
  BY <1>3, <1>4, <1>5, <1>6 DEF Parts
<1> QED BY <1>7 DEF u

LEMMA PartsAfter ==
    ASSUME NEW A, NEW B, NEW s, Parts(s, A, B), NEW t \in Seq(B)
    PROVE  Parts(s \o t, A, B)
<1>1. s \in Seq(A \cup B) /\ t \in Seq(A \cup B) /\ \A i \in 1..Len(t) : t[i] \in B
  BY DEF Parts
<1>2. PICK n \in 0..Len(s) : /\ \A i \in 1..n : s[i] \in A
                             /\ \A i \in (n + 1)..Len(s) : s[i] \in B
  BY DEF Parts
<1> DEFINE u == s \o t
<1>3. /\ u \in Seq(A \cup B) /\ Len(s) \in Nat /\ Len(t) \in Nat /\ Len(u) = Len(s) + Len(t)
      /\ \A i \in 1..Len(s) : u[i] = s[i]
      /\ \A i \in (Len(s) + 1)..(Len(s) + Len(t)) : u[i] = t[i - Len(s)]
  BY <1>1, Concat
<1> HIDE DEF u
<1>4. n \in 0..Len(u)
  BY <1>2, <1>3
<1>5. ASSUME NEW i \in 1..n PROVE u[i] \in A
  BY <1>2, <1>3
<1>6. ASSUME NEW i \in (n + 1)..Len(u) PROVE u[i] \in B
  BY <1>1, <1>2, <1>3
<1>7. Parts(u, A, B)
  BY <1>3, <1>4, <1>5, <1>6 DEF Parts
<1> QED BY <1>7 DEF u

\* What is left after the first step.
LEMMA PartsRest ==
    ASSUME NEW A, NEW B, NEW s, Parts(s, A, B), s # <<>>
    PROVE  \/ Head(s) \in A /\ Parts(Tail(s), A, B)
           \/ s \in Seq(B)
<1>1. s \in Seq(A \cup B)
  BY DEF Parts
<1>2. PICK n \in 0..Len(s) : /\ \A i \in 1..n : s[i] \in A
                             /\ \A i \in (n + 1)..Len(s) : s[i] \in B
  BY DEF Parts
<1> DEFINE u == Tail(s)
<1>3. /\ Head(s) = s[1] /\ u \in Seq(A \cup B) /\ Len(s) \in Nat /\ Len(s) > 0
      /\ Len(u) = Len(s) - 1 /\ \A i \in 1..Len(u) : u[i] = s[i + 1]
  BY <1>1, HeadTail
<1> HIDE DEF u
<1>4. CASE n = 0
  <2>1. \A i \in 1..Len(s) : s[i] \in B
    BY <1>2, <1>4
  <2> QED BY <1>1, <2>1
<1>5. CASE n > 0
  <2>1. n - 1 \in 0..Len(u) /\ Head(s) \in A
    BY <1>2, <1>3, <1>5
  <2>2. ASSUME NEW i \in 1..(n - 1) PROVE u[i] \in A
    BY <1>2, <1>3, <1>5
  <2>3. ASSUME NEW i \in ((n - 1) + 1)..Len(u) PROVE u[i] \in B
    BY <1>2, <1>3, <1>5
  <2>4. Parts(u, A, B)
    BY <1>3, <2>1, <2>2, <2>3 DEF Parts
  <2> QED BY <2>1, <2>4 DEF u
<1> QED BY <1>2, <1>4, <1>5
------------------------------------------------------------------------------
(* Kinds of steps, told apart *)

LEMMA Only == ASSUME NEW S, NEW s \in Seq(S), Len(s) = 1 PROVE s[1] \in S
  OBVIOUS

LEMMA ReadKinds ==
    ASSUME NEW x \in ReadStep
    PROVE  /\ x.kind \in {"request", "answer", "either"}
           /\ x.kind = "request" => x \in Gets
           /\ x.kind = "answer" => x \in Answers(Codes)
           /\ x.kind = "either" => x.left \in Seq(ReadStep) /\ x.right \in Seq(ReadStep)
           /\ x \notin WriteStep /\ x \notin RetryFork /\ x \notin LoopStep /\ x \notin Rereads
           /\ WritesOf(x) = {} /\ ~Loose(x)
<1>1. x \in Gets \/ x \in Answers(Codes) \/ x \in Forks(ReadLeaf) \/ x \in Forks(ReadFork)
  BY DEF ReadStep, ReadFork, ReadLeaf
<1>2. CASE x \in Gets
  BY <1>2 DEF Requests, Answers, Gets, Rereads, WriteStep, WriteVerbs, RetryFork, LoopStep,
              WritesOf, Loose
<1>3. CASE x \in Answers(Codes)
  BY <1>3 DEF Requests, Answers, Rereads, WriteStep, RetryFork, LoopStep, WritesOf, Loose
<1>4. CASE x \in Forks(ReadLeaf) \/ x \in Forks(ReadFork)
  <2>1. x.kind = "either" /\ x.left \in Seq(ReadFork) /\ x.right \in Seq(ReadFork)
    <3>1. Seq(ReadLeaf) \subseteq Seq(ReadFork)
      BY Wider DEF ReadFork
    <3> QED BY <1>4, <3>1 DEF Forks
  <2>2. x.left \in Seq(ReadStep) /\ x.right \in Seq(ReadStep)
    BY <2>1, Wider DEF ReadStep
  <2>3. x \notin RetryFork
    <3> SUFFICES ASSUME x \in RetryFork PROVE FALSE
      OBVIOUS
    <3>1. x.left \in Seq(Requests(WriteVerbs, {"error"})) /\ Len(x.left) = 1
      BY DEF RetryFork, Retries
    <3>2. x.left[1] \in Requests(WriteVerbs, {"error"})
      BY <3>1, Only
    <3>3. x.left[1] \in ReadFork
      BY <3>1, <2>1, Only
    <3>4. x.left[1].verb = "GET"
      BY <3>2, <3>3 DEF ReadFork, ReadLeaf, Gets, Requests, Answers, Forks
    <3> QED BY <3>2, <3>4 DEF WriteVerbs, Requests
  <2> QED
    BY <2>1, <2>2, <2>3
       DEF Requests, Answers, Gets, Rereads, WriteStep, LoopStep, WritesOf, Loose
<1> QED BY <1>1, <1>2, <1>3, <1>4

LEMMA LateKinds ==
    ASSUME NEW x \in LateStep
    PROVE  /\ x.kind \in {"request", "answer", "either"}
           /\ x.kind = "request" => x \in Gets \/ x \in Rereads \/ x \in WriteStep
           /\ x.kind = "answer" => x \in GiveUp
           /\ x.kind = "either" => x \in RetryFork
           /\ x \notin LoopStep
  BY DEF LateStep, Requests, Answers, Gets, Rereads, GiveUp, WriteStep, RetryFork, LoopStep

LEMMA LoopKinds ==
    ASSUME NEW x \in LoopStep
    PROVE  /\ x.kind \in {"level", "child"} /\ x.depth \in Nat
           /\ WritesOf(x) = {} /\ Loose(x)
           /\ x \notin Answers(Codes) /\ x \notin ReadStep /\ x \notin LateStep
  BY ReadKinds, LateKinds
     DEF LoopStep, Rereads, WriteStep, RetryFork, Requests, Answers, WritesOf, Loose

LEMMA WriteKinds ==
    ASSUME NEW x \in WriteStep
    PROVE  /\ x \in LateStep /\ WritesOf(x) = {Write(x, x.n)}
           /\ Write(x, x.n) \in WriteRecord /\ Mutates(x) /\ Mutates(Write(x, x.n))
           /\ x \notin Answers(Codes) /\ x.kind = "request" /\ x.n \in Nat
           /\ Loose(x) => x.fail = "stop"
           /\ x \notin Rereads
<1>1. x \in LateStep /\ WritesOf(x) = {Write(x, x.n)}
  BY DEF LateStep, WritesOf
<1> QED
  BY <1>1 DEF WriteStep, Rereads, Write, WriteRecord, Requests, Mutates, WriteVerbs, Answers,
              Loose, LoopStep

\* A step that is sent again after a rejection stands for the same write.
LEMMA RetryKinds ==
    ASSUME NEW x \in RetryFork
    PROVE  /\ x \in LateStep /\ x \notin WriteStep /\ x \notin LoopStep /\ ~Loose(x)
           /\ x.kind = "either"
           /\ x.left \in Seq(WriteStep) /\ Len(x.left) = 1 /\ x.left[1] \in WriteStep
           /\ x.left[1].fail = "error" /\ x.right = Answer("VALIDATION_FAILED")
           /\ WritesOf(x) = WritesOf(x.left[1]) /\ x \notin Rereads
<1>1. x.left \in Seq(Requests(WriteVerbs, {"error"})) /\ Len(x.left) = 1
      /\ x.right = Answer("VALIDATION_FAILED") /\ x.kind = "either"
  BY DEF RetryFork, Retries
<1>2. Requests(WriteVerbs, {"error"}) \subseteq WriteStep
  BY DEF WriteStep, Failures, WriteFails, Requests
<1>3. x.left[1] \in Requests(WriteVerbs, {"error"}) /\ x.left \in Seq(WriteStep)
  BY <1>1, <1>2, Only, Wider
<1>4. x \notin WriteStep /\ x \notin LoopStep /\ x \in LateStep /\ x \notin Rereads
  BY <1>1 DEF WriteStep, LoopStep, LateStep, Requests, Rereads
<1>5. x.left[1] \in WriteStep /\ x.left[1].fail = "error"
  BY <1>2, <1>3 DEF Requests
<1>6. WritesOf(x) = WritesOf(x.left[1])
  BY <1>4, <1>5 DEF WritesOf
<1> QED BY <1>1, <1>3, <1>4, <1>5, <1>6 DEF Loose

LEMMA GetKinds ==
    ASSUME NEW x \in Gets
    PROVE  /\ x \in ReadStep /\ x \in LateStep /\ x.kind = "request" /\ ~Mutates(x)
           /\ x.fail \notin {"stop", "recover", "reread"} /\ x \notin Answers(Codes)
           /\ ~Mutates(Write(x, x.n))
  BY DEF Gets, ReadStep, ReadFork, ReadLeaf, LateStep, Requests, Answers, Mutates, Write

\* The read-back of an update is a read, and stands for the repeated update.
LEMMA RereadKinds ==
    ASSUME NEW x \in Rereads
    PROVE  /\ x \in LateStep /\ x \notin ReadStep /\ x \notin WriteStep
           /\ x.kind = "request" /\ x.fail = "reread" /\ ~Mutates(x) /\ ~Mutates(Write(x, x.n))
           /\ WritesOf(x) = {Repeat} /\ ~Loose(x) /\ \A w : ~Ensures(x, w)
<1>1. /\ x \in LateStep /\ x \notin ReadStep /\ x.kind = "request" /\ x.verb = "GET"
      /\ x.fail = "reread"
  BY ReadKinds DEF LateStep, Rereads, Requests
<1>2. x \notin WriteStep /\ x \notin RetryFork /\ x \notin LoopStep /\ x \notin Answers(Codes)
  BY <1>1 DEF WriteStep, WriteVerbs, Requests, RetryFork, LoopStep, Answers
<1> QED BY <1>1, <1>2 DEF Mutates, Write, WritesOf, Loose, Ensures

LEMMA AnswerKinds ==
    /\ Answers(Codes) \subseteq ReadStep /\ GiveUp \subseteq Answers(Codes)
    /\ GiveUp \subseteq LateStep
<1>1. Answers(Codes) \subseteq ReadStep /\ GiveUp \subseteq LateStep
  BY DEF ReadStep, ReadFork, ReadLeaf, LateStep
<1>2. GiveUp \subseteq Answers(Codes)
  <2>1. "VALIDATION_FAILED" \in Codes
    BY DEF Codes
  <2> QED BY <2>1 DEF Answers, GiveUp
<1> QED BY <1>1, <1>2
------------------------------------------------------------------------------
(* Handlers put together *)

\* A concatenation by position: from the left part, or from the right one.
LEMMA Positions ==
    ASSUME NEW S, NEW s \in Seq(S), NEW t \in Seq(S), NEW i \in 1..Len(s \o t)
    PROVE  \/ i \in 1..Len(s) /\ (s \o t)[i] = s[i]
           \/ i - Len(s) \in 1..Len(t) /\ (s \o t)[i] = t[i - Len(s)]
  OBVIOUS

LEMMA DeliversBefore ==
    ASSUME NEW S, NEW s \in Seq(S), NEW t \in Seq(S), NEW w, Delivers(s, w)
    PROVE  Delivers(s \o t, w)
<1> DEFINE u == s \o t
<1>1. PICK i \in 1..Len(s) : Ensures(s[i], w) /\ \A j \in 1..(i - 1) : ~Loose(s[j])
  BY DEF Delivers
<1>2. /\ Len(s) \in Nat /\ Len(t) \in Nat /\ Len(u) = Len(s) + Len(t)
      /\ \A k \in 1..Len(s) : u[k] = s[k]
  BY Concat
<1> HIDE DEF u
<1>3. i \in 1..Len(u) /\ Ensures(u[i], w) /\ \A j \in 1..(i - 1) : ~Loose(u[j])
  BY <1>1, <1>2
<1>4. Delivers(u, w)
  BY <1>3 DEF Delivers
<1> QED BY <1>4 DEF u

LEMMA DeliversAfter ==
    ASSUME NEW S, NEW s \in Seq(S), NEW t \in Seq(S), NEW w, Tight(s), Delivers(t, w)
    PROVE  Delivers(s \o t, w)
<1> DEFINE u == s \o t
<1>1. PICK i \in 1..Len(t) : Ensures(t[i], w) /\ \A j \in 1..(i - 1) : ~Loose(t[j])
  BY DEF Delivers
<1>2. /\ Len(s) \in Nat /\ Len(t) \in Nat /\ Len(u) = Len(s) + Len(t)
      /\ \A k \in 1..Len(s) : u[k] = s[k]
      /\ \A k \in (Len(s) + 1)..(Len(s) + Len(t)) : u[k] = t[k - Len(s)]
  BY Concat
<1>3. \A k \in 1..Len(s) : ~Loose(s[k])
  BY DEF Tight
<1> HIDE DEF u
<1>4. Len(s) + i \in 1..Len(u) /\ Ensures(u[Len(s) + i], w)
  <2>1. /\ Len(s) + i \in 1..Len(u) /\ Len(s) + i \in (Len(s) + 1)..(Len(s) + Len(t))
        /\ (Len(s) + i) - Len(s) = i
    BY <1>2
  <2> QED BY <1>1, <1>2, <2>1
<1>5. ASSUME NEW j \in 1..(Len(s) + i - 1) PROVE ~Loose(u[j])
  <2>1. CASE j \in 1..Len(s)
    BY <2>1, <1>2, <1>3
  <2>2. CASE j \notin 1..Len(s)
    <3> DEFINE a == j - Len(s)
    <3>1. a \in 1..(i - 1) /\ j \in (Len(s) + 1)..(Len(s) + Len(t))
      BY <2>2, <1>2
    <3>2. u[j] = t[a]
      BY <1>2, <3>1
    <3> HIDE DEF a
    <3> QED BY <1>1, <3>1, <3>2
  <2> QED BY <2>1, <2>2
<1>6. Delivers(u, w)
  BY <1>4, <1>5 DEF Delivers
<1> QED BY <1>6 DEF u

LEMMA TightJoin ==
    ASSUME NEW S, NEW s \in Seq(S), NEW t \in Seq(S), Tight(s), Tight(t)
    PROVE  Tight(s \o t)
<1> SUFFICES ASSUME NEW i \in 1..Len(s \o t) PROVE ~Loose((s \o t)[i])
  BY DEF Tight
<1>1. \/ i \in 1..Len(s) /\ (s \o t)[i] = s[i]
      \/ i - Len(s) \in 1..Len(t) /\ (s \o t)[i] = t[i - Len(s)]
  BY Positions
<1> QED BY <1>1 DEF Tight

LEMMA OnceJoin ==
    ASSUME NEW S, NEW s \in Seq(S), NEW t \in Seq(S), NEW W, NEW V,
           Once(s, W), Once(t, V), W \cap V = {}
    PROVE  Once(s \o t, W \cup V)
<1> DEFINE u == s \o t
<1>1. \A i \in 1..Len(s) : WritesOf(s[i]) \subseteq W
  BY DEF Once
<1>2. \A i \in 1..Len(t) : WritesOf(t[i]) \subseteq V
  BY DEF Once
<1>3. /\ Len(s) \in Nat /\ Len(t) \in Nat /\ Len(u) = Len(s) + Len(t)
      /\ \A k \in 1..Len(s) : u[k] = s[k]
      /\ \A k \in (Len(s) + 1)..(Len(s) + Len(t)) : u[k] = t[k - Len(s)]
  BY Concat
<1> HIDE DEF u
<1>4. \A i \in 1..Len(u) : i \notin 1..Len(s) => i - Len(s) \in 1..Len(t)
  BY <1>3
<1>5. ASSUME NEW i \in 1..Len(u)
      PROVE  WritesOf(u[i]) \subseteq IF i \in 1..Len(s) THEN W ELSE V
  BY <1>1, <1>2, <1>3, <1>4
<1>6. ASSUME NEW i \in 1..Len(u), NEW j \in 1..Len(u), i # j
      PROVE  WritesOf(u[i]) \cap WritesOf(u[j]) = {}
  <2>1. CASE i \in 1..Len(s) /\ j \in 1..Len(s)
    BY <1>6, <2>1, <1>3 DEF Once
  <2>2. CASE i \notin 1..Len(s) /\ j \notin 1..Len(s)
    <3> DEFINE a == i - Len(s)
               b == j - Len(s)
    <3>1. a \in 1..Len(t) /\ b \in 1..Len(t) /\ a # b /\ u[i] = t[a] /\ u[j] = t[b]
      BY <2>2, <1>3, <1>4, <1>6
    <3> HIDE DEF a, b
    <3> QED BY <3>1 DEF Once
  <2>3. CASE i \in 1..Len(s) /\ j \notin 1..Len(s)
    <3>1. WritesOf(u[i]) \subseteq W /\ WritesOf(u[j]) \subseteq V
      BY <2>3, <1>5
    <3> QED BY <3>1
  <2>4. CASE i \notin 1..Len(s) /\ j \in 1..Len(s)
    <3>1. WritesOf(u[i]) \subseteq V /\ WritesOf(u[j]) \subseteq W
      BY <2>4, <1>5
    <3> QED BY <3>1
  <2> QED BY <2>1, <2>2, <2>3, <2>4
<1>7. Once(u, W \cup V)
  BY <1>5, <1>6 DEF Once
<1> QED BY <1>7 DEF u

\* A sequence that repeats nothing, and two sequences with nothing to worry about.
LEMMA BackedNone ==
    ASSUME NEW s, NEW W, Once(s, W), Repeat \notin W
    PROVE  Backed(s)
  BY DEF Once, Backed

LEMMA BackedJoin ==
    ASSUME NEW S, NEW s \in Seq(S), NEW t \in Seq(S), Backed(s), Backed(t)
    PROVE  Backed(s \o t)
<1> DEFINE u == s \o t
<1>1. /\ Len(s) \in Nat /\ Len(t) \in Nat /\ Len(u) = Len(s) + Len(t)
      /\ \A k \in 1..Len(s) : u[k] = s[k]
      /\ \A k \in (Len(s) + 1)..(Len(s) + Len(t)) : u[k] = t[k - Len(s)]
  BY Concat
<1> HIDE DEF u
<1>2. ASSUME NEW i \in 1..Len(u), Repeat \in WritesOf(u[i])
      PROVE  \E j \in 1..(i - 1) : Ensures(u[j], CoreWrite)
  <2>1. CASE i \in 1..Len(s)
    <3>1. PICK j \in 1..(i - 1) : Ensures(s[j], CoreWrite)
      BY <1>1, <1>2, <2>1 DEF Backed
    <3>2. j \in 1..Len(s)
      BY <2>1, <1>1
    <3> QED BY <1>1, <3>1, <3>2
  <2>2. CASE i \notin 1..Len(s)
    <3> DEFINE a == i - Len(s)
    <3>1. a \in 1..Len(t) /\ u[i] = t[a]
      BY <1>1, <2>2
    <3>2. PICK j \in 1..(a - 1) : Ensures(t[j], CoreWrite)
      BY <1>2, <3>1 DEF Backed
    <3>3. /\ Len(s) + j \in 1..(i - 1) /\ Len(s) + j \in (Len(s) + 1)..(Len(s) + Len(t))
          /\ (Len(s) + j) - Len(s) = j
      BY <1>1, <3>1
    <3>4. Ensures(u[Len(s) + j], CoreWrite)
      BY <1>1, <3>2, <3>3
    <3> QED BY <3>3, <3>4
  <2> QED BY <2>1, <2>2
<1>3. Backed(u)
  BY <1>2 DEF Backed
<1> QED BY <1>3 DEF u

LEMMA ReadsSound ==
    ASSUME NEW s \in Seq(ReadStep)
    PROVE  Sound(s, {}, {}) /\ Once(s, {}) /\ Tight(s)
<1>1. \A i \in 1..Len(s) : WritesOf(s[i]) = {} /\ ~Loose(s[i])
  BY ReadKinds
<1>2. Once(s, {}) /\ Tight(s) /\ Backed(s)
  BY <1>1 DEF Once, Tight, Backed
<1> QED BY <1>2, PartsFirst DEF Sound

LEMMA WriteSound ==
    ASSUME NEW x \in WriteStep, x.fail # "stop", Write(x, x.n) # Repeat
    PROVE  /\ <<x>> \in Seq(LateStep) /\ Sound(<<x>>, {Write(x, x.n)}, {})
           /\ x.fail \in Strict => Sound(<<x>>, {Write(x, x.n)}, {Write(x, x.n)})
<1>1. /\ x \in LateStep /\ WritesOf(x) = {Write(x, x.n)} /\ ~Loose(x)
      /\ x \notin Rereads
  BY WriteKinds
<1>2. <<x>> \in Seq(LateStep) /\ Len(<<x>>) = 1 /\ <<x>>[1] = x
  BY <1>1
<1>3. Once(<<x>>, {Write(x, x.n)}) /\ Tight(<<x>>) /\ Backed(<<x>>)
  BY <1>1, <1>2 DEF Once, Tight, Backed
<1>4. x.fail \in Strict => Delivers(<<x>>, Write(x, x.n))
  BY <1>1, <1>2 DEF Delivers, Ensures
<1> QED BY <1>2, <1>3, <1>4, PartsSecond DEF Sound

LEMMA SoundPlain ==
    ASSUME NEW s, NEW W, NEW P, Sound(s, W, P)
    PROVE  s \in Seq(PlainStep)
  BY DEF Sound, Parts, PlainStep

\* Reads in front change nothing.
LEMMA SoundBefore ==
    ASSUME NEW r \in Seq(ReadStep), NEW t, NEW W, NEW P, Sound(t, W, P)
    PROVE  Sound(r \o t, W, P)
<1>1. t \in Seq(PlainStep) /\ r \in Seq(PlainStep)
  BY SoundPlain, Wider DEF PlainStep
<1>2. Once(r \o t, {} \cup W)
  BY <1>1, ReadsSound, OnceJoin DEF Sound
<1>3. {} \cup W = W
  OBVIOUS
<1>4. Tight(r \o t) /\ Backed(r \o t) /\ \A w \in P : Delivers(r \o t, w)
  BY <1>1, ReadsSound, TightJoin, BackedJoin, DeliversAfter DEF Sound
<1>5. Parts(r \o t, ReadStep, LateStep)
  BY PartsBefore DEF Sound
<1> QED BY <1>2, <1>3, <1>4, <1>5 DEF Sound

\* A second write follows the first if they differ.
LEMMA SoundAfter ==
    ASSUME NEW s, NEW W, NEW P, Sound(s, W, P),
           NEW t \in Seq(LateStep), NEW V, NEW Q, Sound(t, V, Q), W \cap V = {}
    PROVE  Sound(s \o t, W \cup V, P \cup Q)
<1>1. s \in Seq(PlainStep) /\ t \in Seq(PlainStep)
  BY SoundPlain
<1>2. Once(s \o t, W \cup V) /\ Tight(s \o t) /\ Backed(s \o t)
  BY <1>1, OnceJoin, TightJoin, BackedJoin DEF Sound
<1>3. \A w \in P : Delivers(s \o t, w)
  BY <1>1, DeliversBefore DEF Sound
<1>4. \A w \in Q : Delivers(s \o t, w)
  BY <1>1, DeliversAfter DEF Sound
<1>5. Parts(s \o t, ReadStep, LateStep)
  BY PartsAfter DEF Sound
<1> QED BY <1>2, <1>3, <1>4, <1>5 DEF Sound

\* So do reads: most updates read their result back.
LEMMA SoundThenGets ==
    ASSUME NEW s, NEW W, NEW P, Sound(s, W, P), NEW t \in Seq(Gets)
    PROVE  Sound(s \o t, W, P)
<1>1. t \in Seq(LateStep) /\ t \in Seq(ReadStep)
  BY GetKinds, Wider
<1>2. Sound(t, {}, {})
  BY <1>1, ReadsSound
<1>3. W \cup {} = W /\ P \cup {} = P /\ W \cap {} = {}
  OBVIOUS
<1>4. Sound(s \o t, W \cup {}, P \cup {})
  BY <1>1, <1>2, <1>3, SoundAfter
<1> QED BY <1>3, <1>4

LEMMA QuietBefore ==
    ASSUME NEW r \in Seq(ReadStep), NEW t \in Seq(AnyStep), Quiet(t)
    PROVE  Quiet(r \o t)
<1>1. CASE t \in Seq(ReadStep)
  BY <1>1, Join DEF Quiet
<1>2. CASE Barred(t)
  <2> DEFINE u == r \o t
  <2>1. PICK i \in 1..Len(t) : t[i] \in Answers(Codes) /\ \A j \in 1..(i - 1) : t[j] \in ReadStep
    BY <1>2 DEF Barred
  <2>2. r \in Seq(AnyStep)
    BY Wider DEF AnyStep, PlainStep
  <2>3. /\ Len(r) \in Nat /\ Len(t) \in Nat /\ Len(u) = Len(r) + Len(t)
        /\ \A k \in 1..Len(r) : u[k] = r[k]
        /\ \A k \in (Len(r) + 1)..(Len(r) + Len(t)) : u[k] = t[k - Len(r)]
    BY <2>2, Concat
  <2>4. \A k \in 1..Len(r) : r[k] \in ReadStep
    OBVIOUS
  <2> HIDE DEF u
  <2>5. Len(r) + i \in 1..Len(u) /\ u[Len(r) + i] \in Answers(Codes)
    BY <2>1, <2>3
  <2>6. ASSUME NEW j \in 1..(Len(r) + i - 1) PROVE u[j] \in ReadStep
    <3>1. CASE j \in 1..Len(r)
      BY <3>1, <2>3, <2>4
    <3>2. CASE j \notin 1..Len(r)
      <4>1. j \in (Len(r) + 1)..(Len(r) + Len(t)) /\ j - Len(r) \in 1..(i - 1)
        BY <3>2, <2>1, <2>3
      <4> QED BY <4>1, <2>1, <2>3
    <3> QED BY <3>1, <3>2
  <2>7. Barred(u)
    BY <2>5, <2>6 DEF Barred
  <2> QED BY <2>7 DEF u, Quiet
<1> QED BY <1>1, <1>2 DEF Quiet

LEMMA BarredAfter ==
    ASSUME NEW s \in Seq(AnyStep), NEW t \in Seq(AnyStep), Barred(s)
    PROVE  Barred(s \o t)
<1> DEFINE u == s \o t
<1>1. PICK i \in 1..Len(s) : s[i] \in Answers(Codes) /\ \A j \in 1..(i - 1) : s[j] \in ReadStep
  BY DEF Barred
<1>2. /\ Len(s) \in Nat /\ Len(t) \in Nat /\ Len(u) = Len(s) + Len(t)
      /\ \A k \in 1..Len(s) : u[k] = s[k]
  BY Concat
<1> HIDE DEF u
<1>3. i \in 1..Len(u) /\ u[i] \in Answers(Codes) /\ \A j \in 1..(i - 1) : u[j] \in ReadStep
  BY <1>1, <1>2
<1>4. Barred(u)
  BY <1>3 DEF Barred
<1> QED BY <1>4 DEF u
------------------------------------------------------------------------------
(* Handlers taken apart: what a step leaves of these shapes *)

LEMMA OnceTail ==
    ASSUME NEW S, NEW s \in Seq(S), s # <<>>, NEW W, Once(s, W)
    PROVE  /\ WritesOf(Head(s)) \subseteq W
           /\ Once(Tail(s), W \ WritesOf(Head(s)))
<1> DEFINE u == Tail(s)
<1>1. /\ Head(s) = s[1] /\ Len(s) \in Nat /\ Len(s) > 0
      /\ Len(u) = Len(s) - 1 /\ \A i \in 1..Len(u) : u[i] = s[i + 1]
  BY HeadTail
<1> HIDE DEF u
<1>2. WritesOf(Head(s)) \subseteq W
  BY <1>1 DEF Once
<1>3. ASSUME NEW i \in 1..Len(u)
      PROVE  WritesOf(u[i]) \subseteq W \ WritesOf(Head(s))
  <2>1. i + 1 \in 1..Len(s) /\ 1 \in 1..Len(s) /\ i + 1 # 1 /\ u[i] = s[i + 1]
    BY <1>1
  <2>2. WritesOf(s[i + 1]) \subseteq W /\ WritesOf(s[i + 1]) \cap WritesOf(s[1]) = {}
    BY <2>1 DEF Once
  <2> QED BY <1>1, <2>1, <2>2
<1>4. ASSUME NEW i \in 1..Len(u), NEW j \in 1..Len(u), i # j
      PROVE  WritesOf(u[i]) \cap WritesOf(u[j]) = {}
  <2> DEFINE a == i + 1
             b == j + 1
  <2>1. a \in 1..Len(s) /\ b \in 1..Len(s) /\ a # b /\ u[i] = s[a] /\ u[j] = s[b]
    BY <1>1, <1>4
  <2> HIDE DEF a, b
  <2> QED BY <2>1 DEF Once
<1>5. Once(u, W \ WritesOf(Head(s)))
  BY <1>3, <1>4 DEF Once
<1> QED BY <1>2, <1>5 DEF u

\* A step may be replaced by steps that write no more than it does.
LEMMA OnceReplace ==
    ASSUME NEW S, NEW s \in Seq(S), s # <<>>, NEW W, Once(s, W),
           NEW p \in Seq(S), Once(p, WritesOf(Head(s)))
    PROVE  Once(p \o Tail(s), W)
<1>1. WritesOf(Head(s)) \subseteq W /\ Once(Tail(s), W \ WritesOf(Head(s)))
  BY OnceTail
<1>2. Tail(s) \in Seq(S)
  BY HeadTail
<1>3. WritesOf(Head(s)) \cap (W \ WritesOf(Head(s))) = {}
      /\ WritesOf(Head(s)) \cup (W \ WritesOf(Head(s))) = W
  BY <1>1
<1>4. Once(p \o Tail(s), WritesOf(Head(s)) \cup (W \ WritesOf(Head(s))))
  BY <1>1, <1>2, <1>3, OnceJoin
<1> QED BY <1>3, <1>4

LEMMA OnceWider ==
    ASSUME NEW s, NEW W, NEW V, Once(s, W), W \subseteq V
    PROVE  Once(s, V)
  BY DEF Once

\* Whatever repeats the update comes behind it, so it is not the first step.
LEMMA BackedTail ==
    ASSUME NEW S, NEW s \in Seq(S), s # <<>>, Backed(s)
    PROVE  /\ Repeat \notin WritesOf(Head(s))
           /\ ~Ensures(Head(s), CoreWrite) => Backed(Tail(s))
<1> DEFINE u == Tail(s)
<1>1. /\ Head(s) = s[1] /\ Len(s) \in Nat /\ Len(s) > 0
      /\ Len(u) = Len(s) - 1 /\ \A i \in 1..Len(u) : u[i] = s[i + 1]
  BY HeadTail
<1> HIDE DEF u
<1>2. Repeat \notin WritesOf(Head(s))
  <2>1. 1 \in 1..Len(s) /\ 1..(1 - 1) = {}
    BY <1>1
  <2> QED BY <1>1, <2>1 DEF Backed
<1>3. ASSUME ~Ensures(Head(s), CoreWrite), NEW i \in 1..Len(u), Repeat \in WritesOf(u[i])
      PROVE  \E j \in 1..(i - 1) : Ensures(u[j], CoreWrite)
  <2>1. i + 1 \in 1..Len(s) /\ Repeat \in WritesOf(s[i + 1])
    BY <1>1, <1>3
  <2>2. PICK j \in 1..((i + 1) - 1) : Ensures(s[j], CoreWrite)
    BY <2>1 DEF Backed
  <2>3. j # 1
    BY <1>1, <1>3, <2>2
  <2>4. j - 1 \in 1..(i - 1) /\ j - 1 \in 1..Len(u) /\ (j - 1) + 1 = j
    BY <1>1, <2>3
  <2>5. Ensures(u[j - 1], CoreWrite)
    BY <1>1, <2>2, <2>4
  <2> QED BY <2>4, <2>5
<1>4. ~Ensures(Head(s), CoreWrite) => Backed(u)
  BY <1>3 DEF Backed
<1> QED BY <1>2, <1>4 DEF u

LEMMA BackedReplace ==
    ASSUME NEW S, NEW s \in Seq(S), s # <<>>, Backed(s), NEW p \in Seq(S),
           Once(p, WritesOf(Head(s))), Ensures(Head(s), CoreWrite) => Delivers(p, CoreWrite)
    PROVE  Backed(p \o Tail(s))
<1>1. Repeat \notin WritesOf(Head(s)) /\ Tail(s) \in Seq(S)
  BY BackedTail, HeadTail
<1>2. CASE ~Ensures(Head(s), CoreWrite)
  BY <1>1, <1>2, BackedTail, BackedNone, BackedJoin
<1>3. CASE Ensures(Head(s), CoreWrite)
  <2> DEFINE u == p \o Tail(s)
  <2>1. PICK j \in 1..Len(p) : Ensures(p[j], CoreWrite)
    BY <1>3 DEF Delivers
  <2>2. /\ Len(p) \in Nat /\ Len(Tail(s)) \in Nat /\ Len(u) = Len(p) + Len(Tail(s))
        /\ \A k \in 1..Len(p) : u[k] = p[k]
    BY <1>1, Concat
  <2> HIDE DEF u
  <2>3. ASSUME NEW i \in 1..Len(u), Repeat \in WritesOf(u[i])
        PROVE  j \in 1..(i - 1) /\ Ensures(u[j], CoreWrite)
    <3>1. i \notin 1..Len(p)
      BY <1>1, <2>2, <2>3 DEF Once
    <3> QED BY <2>1, <2>2, <3>1
  <2>4. Backed(u)
    BY <2>3 DEF Backed
  <2> QED BY <2>4 DEF u
<1> QED BY <1>2, <1>3

LEMMA DeliversTail ==
    ASSUME NEW S, NEW s \in Seq(S), s # <<>>, NEW w, Delivers(s, w), ~Ensures(Head(s), w)
    PROVE  ~Loose(Head(s)) /\ Delivers(Tail(s), w)
<1> DEFINE u == Tail(s)
<1>1. /\ Head(s) = s[1] /\ Len(s) \in Nat /\ Len(s) > 0
      /\ Len(u) = Len(s) - 1 /\ \A i \in 1..Len(u) : u[i] = s[i + 1]
  BY HeadTail
<1>2. PICK i \in 1..Len(s) : Ensures(s[i], w) /\ \A j \in 1..(i - 1) : ~Loose(s[j])
  BY DEF Delivers
<1> HIDE DEF u
<1>3. i - 1 \in 1..Len(u) /\ 1 \in 1..(i - 1)
  BY <1>1, <1>2
<1>4. Ensures(u[i - 1], w)
  BY <1>1, <1>2, <1>3
<1>5. ASSUME NEW j \in 1..(i - 1 - 1) PROVE ~Loose(u[j])
  <2>1. j + 1 \in 1..(i - 1) /\ u[j] = s[j + 1]
    BY <1>1, <1>2
  <2> QED BY <2>1, <1>2
<1>6. Delivers(u, w)
  BY <1>3, <1>4, <1>5 DEF Delivers
<1> QED BY <1>1, <1>2, <1>3, <1>6 DEF u

LEMMA DeliversReplace ==
    ASSUME NEW S, NEW s \in Seq(S), s # <<>>, NEW w, Delivers(s, w),
           NEW p \in Seq(S), Tight(p), Ensures(Head(s), w) => Delivers(p, w)
    PROVE  Delivers(p \o Tail(s), w)
<1>1. Tail(s) \in Seq(S)
  BY HeadTail
<1>2. CASE Ensures(Head(s), w)
  BY <1>1, <1>2, DeliversBefore
<1>3. CASE ~Ensures(Head(s), w)
  BY <1>1, <1>3, DeliversTail, DeliversAfter
<1> QED BY <1>2, <1>3

LEMMA DeliversNothing == ASSUME NEW w PROVE ~Delivers(<<>>, w)
  BY DEF Delivers

LEMMA QuietTail ==
    ASSUME NEW s \in Seq(AnyStep), s # <<>>, Quiet(s)
    PROVE  Head(s) \in ReadStep /\ (Head(s) \notin Answers(Codes) => Quiet(Tail(s)))
<1> DEFINE u == Tail(s)
<1>1. /\ Head(s) = s[1] /\ Len(s) \in Nat /\ Len(s) > 0
      /\ Len(u) = Len(s) - 1 /\ \A i \in 1..Len(u) : u[i] = s[i + 1]
  BY HeadTail
<1>2. CASE s \in Seq(ReadStep)
  BY <1>2, HeadTail DEF Quiet
<1>3. CASE Barred(s)
  <2>1. PICK i \in 1..Len(s) : s[i] \in Answers(Codes) /\ \A j \in 1..(i - 1) : s[j] \in ReadStep
    BY <1>3 DEF Barred
  <2> HIDE DEF u
  <2>2. CASE i = 1
    BY <2>1, <2>2, <1>1, AnswerKinds
  <2>3. CASE i # 1
    <3>1. i - 1 \in 1..Len(u) /\ 1 \in 1..(i - 1) /\ u[i - 1] \in Answers(Codes)
      BY <1>1, <2>1, <2>3
    <3>2. ASSUME NEW j \in 1..(i - 1 - 1) PROVE u[j] \in ReadStep
      <4>1. j + 1 \in 1..(i - 1) /\ u[j] = s[j + 1]
        BY <1>1, <2>1
      <4> QED BY <4>1, <2>1
    <3>3. Barred(u)
      BY <3>1, <3>2 DEF Barred
    <3> QED BY <1>1, <2>1, <3>1, <3>3 DEF u, Quiet
  <2> QED BY <2>2, <2>3
<1> QED BY <1>2, <1>3 DEF Quiet
------------------------------------------------------------------------------
(* The vocabulary of ToolSteps and RedmineApi *)

\* The record of a write with number 0, as Promised lists it.
W0(verb, res) == [verb |-> verb, res |-> res, n |-> 0]

\* A step that writes once.
Sends(s, w) == s \in Seq(LateStep) /\ Sound(s, {w}, {w})

LEMMA One == ASSUME NEW S, NEW x \in S PROVE <<x>> \in Seq(S) /\ Len(<<x>>) = 1 /\ <<x>>[1] = x
  OBVIOUS

LEMMA GetIn == ASSUME NEW r \in Resources PROVE Get(r) \in Seq(Gets)
<1>1. Request("GET", r) \in Gets
  BY DEF Request, Gets, Requests, Failures
<1> QED BY <1>1, One DEF Get

LEMMA GetsRead == Seq(Gets) \subseteq Seq(ReadStep) /\ Seq(Gets) \subseteq Seq(LateStep)
  BY GetKinds, Wider

LEMMA FailingGets ==
    ASSUME NEW s \in Seq(Gets), NEW how \in Failures \ {"stop", "recover", "reread"}
    PROVE  Failing(s, how) \in Seq(Gets)
<1>1. ASSUME NEW i \in DOMAIN s PROVE [s[i] EXCEPT !.fail = how] \in Gets
  <2>1. s[i] \in Gets
    BY <1>1
  <2> QED BY <2>1 DEF Gets, Requests
<1>2. DOMAIN s = 1..Len(s) /\ Len(s) \in Nat
  OBVIOUS
<1> QED BY <1>1, <1>2 DEF Failing

LEMMA AnswerIn ==
    ASSUME NEW code \in Codes
    PROVE  /\ Answer(code) \in Seq(Answers(Codes)) /\ Answer(code) \in Seq(ReadLeaf)
           /\ Answer(code) \in Seq(ReadStep)
           /\ Len(Answer(code)) = 1 /\ Answer(code)[1] \in Answers(Codes)
<1>1. [kind |-> "answer", code |-> code] \in Answers(Codes)
  BY DEF Answers
<1>2. /\ Answer(code) \in Seq(Answers(Codes)) /\ Len(Answer(code)) = 1
      /\ Answer(code)[1] \in Answers(Codes)
  BY <1>1, One DEF Answer
<1>3. Seq(Answers(Codes)) \subseteq Seq(ReadLeaf) /\ Seq(Answers(Codes)) \subseteq Seq(ReadStep)
  BY Wider, AnswerKinds DEF ReadLeaf
<1> QED BY <1>2, <1>3

LEMMA Nothing == ASSUME NEW S PROVE <<>> \in Seq(S)
  OBVIOUS

LEMMA CheckIn == ASSUME NEW cond PROVE Check(cond) \in Seq(ReadStep)
<1>1. "invalid_params" \in Codes
  BY DEF Codes
<1> QED BY <1>1, AnswerIn, Nothing DEF Check

LEMMA RefuseIn ==
    ASSUME NEW cond, NEW code \in Codes
    PROVE  Refuse(cond, code) \in Seq(ReadStep) /\ Refuse(cond, code) \in Seq(ReadLeaf)
  BY AnswerIn, Nothing DEF Refuse

LEMMA NeedIn == ASSUME NEW c, NEW key PROVE Need(c, key) \in Seq(ReadStep)
  BY CheckIn DEF Need

LEMMA ProjectRefIn == ASSUME NEW c PROVE resolve_project_ref(c) \in Seq(ReadStep)
  BY CheckIn DEF resolve_project_ref

LEMMA WhenIn == ASSUME NEW S, NEW cond, NEW s \in Seq(S) PROVE When(cond, s) \in Seq(S)
  BY DEF When

\* A fork of answers, and one of such forks.
LEMMA EitherIn ==
    ASSUME NEW l, NEW r
    PROVE  /\ l \in Seq(ReadLeaf) /\ r \in Seq(ReadLeaf) =>
                Either(l, r) \in Seq(ReadFork) /\ Either(l, r) \in Seq(ReadStep)
           /\ l \in Seq(ReadFork) /\ r \in Seq(ReadFork) => Either(l, r) \in Seq(ReadStep)
<1> DEFINE x == [kind |-> "either", left |-> l, right |-> r]
<1>1. ASSUME NEW S, l \in Seq(S), r \in Seq(S) PROVE x \in Forks(S)
  BY <1>1 DEF Forks
<1>2. Either(l, r) = <<x>>
  BY DEF Either
<1> HIDE DEF x
<1>3. l \in Seq(ReadLeaf) /\ r \in Seq(ReadLeaf) => x \in ReadFork /\ x \in ReadStep
  BY <1>1 DEF ReadFork, ReadStep
<1>4. l \in Seq(ReadFork) /\ r \in Seq(ReadFork) => x \in ReadStep
  BY <1>1 DEF ReadStep
<1> QED BY <1>2, <1>3, <1>4, One

LEMMA MayAnswerIn == ASSUME NEW code \in Codes PROVE MayAnswer(code) \in Seq(ReadStep)
  BY EitherIn, AnswerIn, Nothing DEF MayAnswer

LEMMA GateIn ==
    ASSUME NEW g
    PROVE  /\ ReadOnlyGate(g) \in Seq(ReadStep)
           /\ g.read_only => Barred(ReadOnlyGate(g))
<1>1. "READ_ONLY" \in Codes
  BY DEF Codes
<1>2. ASSUME g.read_only PROVE Barred(ReadOnlyGate(g))
  BY <1>1, <1>2, AnswerIn DEF ReadOnlyGate, Refuse, Barred
<1> QED BY <1>1, <1>2, RefuseIn DEF ReadOnlyGate

LEMMA OneWrite ==
    ASSUME NEW x \in WriteStep, x.fail \in Strict, NEW w, w = Write(x, x.n), w # Repeat
    PROVE  Sends(<<x>>, w)
  BY WriteSound DEF Sends, Strict

LEMMA RequestWrites ==
    ASSUME NEW verb \in WriteVerbs, NEW res \in Resources, NEW k \in Nat, NEW how \in WriteFails,
           NEW x, x = [kind |-> "request", verb |-> verb, res |-> res, n |-> k, fail |-> how]
    PROVE  /\ x \in WriteStep /\ Write(x, x.n) = [verb |-> verb, res |-> res, n |-> k]
           /\ how \in Strict /\ (k = 0 \/ verb # "PUT") =>
                Sends(<<x>>, [verb |-> verb, res |-> res, n |-> k])
<1>1. x \in WriteStep /\ Write(x, x.n) = [verb |-> verb, res |-> res, n |-> k] /\ x.fail = how
  BY DEF WriteStep, Requests, Write
<1>2. k = 0 \/ verb # "PUT" => [verb |-> verb, res |-> res, n |-> k] # Repeat
  BY DEF Repeat, CoreWrite, AGAIN
<1> QED BY <1>1, <1>2, OneWrite

LEMMA RequestIn ==
    ASSUME NEW verb \in WriteVerbs, NEW res \in Resources
    PROVE  Sends(<<Request(verb, res)>>, W0(verb, res))
<1> DEFINE x == Request(verb, res)
<1>1. x = [kind |-> "request", verb |-> verb, res |-> res, n |-> 0, fail |-> "error"]
  BY DEF Request
<1>2. "error" \in WriteFails /\ "error" \in Strict
  BY DEF Failures, WriteFails, Strict
<1> HIDE DEF x
<1>3. Sends(<<x>>, W0(verb, res))
  BY <1>1, <1>2, RequestWrites DEF W0
<1> QED BY <1>3 DEF x

LEMMA FailingWrite ==
    ASSUME NEW verb \in WriteVerbs, NEW res \in Resources, NEW how \in WriteFails
    PROVE  LET x == [kind |-> "request", verb |-> verb, res |-> res, n |-> 0, fail |-> how]
           IN  /\ Failing(<<Request(verb, res)>>, how) = <<x>>
               /\ x \in WriteStep /\ Write(x, x.n) = W0(verb, res)
               /\ how \in Strict => Sends(<<x>>, W0(verb, res))
<1> DEFINE x == [kind |-> "request", verb |-> verb, res |-> res, n |-> 0, fail |-> how]
           y == Request(verb, res)
<1>1. [y EXCEPT !.fail = how] = x
  BY DEF Request
<1>2. Failing(<<y>>, how) = <<x>>
  <2> HIDE DEF y
  <2>1. Failing(<<y>>, how) = [i \in 1..1 |-> [<<y>>[i] EXCEPT !.fail = how]]
    BY DEF Failing
  <2>2. Failing(<<y>>, how) = <<[y EXCEPT !.fail = how]>>
    BY <2>1
  <2> QED BY <2>2, <1>1
<1> HIDE DEF y
<1>3. x \in WriteStep /\ Write(x, x.n) = W0(verb, res)
      /\ (how \in Strict => Sends(<<x>>, W0(verb, res)))
  <2> HIDE DEF x
  <2> QED BY RequestWrites DEF W0, x
<1> QED BY <1>2, <1>3 DEF y
------------------------------------------------------------------------------
(* The API *)

LEMMA ApiReads ==
    /\ current_user \in Seq(Gets) /\ list_projects \in Seq(Gets)
    /\ get_project \in Seq(Gets) /\ list_issues_page \in Seq(Gets)
    /\ search_issues_page \in Seq(Gets) /\ list_issues_by_id \in Seq(Gets)
    /\ list_subtasks \in Seq(Gets) /\ get_issue \in Seq(Gets)
    /\ list_relations \in Seq(Gets) /\ list_issue_categories \in Seq(Gets)
    /\ get_issue_category \in Seq(Gets) /\ list_checklist_items \in Seq(Gets)
    /\ get_agile_data \in Seq(Gets) /\ list_products \in Seq(Gets)
    /\ get_product \in Seq(Gets) /\ list_contacts \in Seq(Gets)
    /\ get_contact \in Seq(Gets) /\ list_time_entries_page \in Seq(Gets)
    /\ get_time_entry \in Seq(Gets) /\ list_time_entry_activities \in Seq(Gets)
    /\ list_trackers \in Seq(Gets) /\ list_issue_statuses \in Seq(Gets)
    /\ list_issue_priorities \in Seq(Gets) /\ list_users \in Seq(Gets)
    /\ list_saved_queries \in Seq(Gets) /\ list_roles \in Seq(Gets)
    /\ list_custom_field_definitions \in Seq(Gets) /\ list_versions \in Seq(Gets)
    /\ get_version \in Seq(Gets) /\ list_memberships \in Seq(Gets)
    /\ get_membership \in Seq(Gets) /\ search_entire_page \in Seq(Gets)
    /\ list_wiki_pages \in Seq(Gets) /\ get_wiki_page \in Seq(Gets)
    /\ get_attachment \in Seq(Gets) /\ list_project_files \in Seq(Gets)
    /\ list_dmsf_nodes \in Seq(Gets) /\ get_dmsf_file \in Seq(Gets)
<1>1. {"activity", "agile", "attachment", "category", "checklist", "contact", "custom_field",
       "document", "file", "issue", "membership", "priority", "product", "project", "query",
       "relation", "role", "search", "status", "time_entry", "tracker", "user", "version",
       "wiki"} \subseteq Resources
  BY DEF Resources
<1> QED
    BY <1>1, GetIn DEF current_user, list_projects, get_project, list_issues_page,
         search_issues_page, list_issues_by_id, list_subtasks, get_issue, list_relations,
         list_issue_categories, get_issue_category, list_checklist_items, get_agile_data,
         list_products, get_product, list_contacts, get_contact, list_time_entries_page,
         get_time_entry, list_time_entry_activities, list_trackers, list_issue_statuses,
         list_issue_priorities, list_users, list_saved_queries, list_roles,
         list_custom_field_definitions, list_versions, get_version, list_memberships,
         get_membership, search_entire_page, list_wiki_pages, get_wiki_page, get_attachment,
         list_project_files, list_dmsf_nodes, get_dmsf_file

LEMMA ApiWrites ==
    /\ Sends(create_issue, W0("POST", "issue"))
    /\ Sends(create_issue_with_attachments, W0("POST", "issue"))
    /\ Sends(delete_issue, W0("DELETE", "issue"))
    /\ Sends(create_relation, W0("POST", "relation"))
    /\ Sends(delete_relation, W0("DELETE", "relation"))
    /\ Sends(add_watcher, W0("POST", "watcher"))
    /\ Sends(remove_watcher, W0("DELETE", "watcher"))
    /\ Sends(update_journal, W0("PUT", "journal"))
    /\ Sends(create_issue_category, W0("POST", "category"))
    /\ Sends(delete_issue_category, W0("DELETE", "category"))
    /\ Sends(create_checklist_item, W0("POST", "checklist"))
    /\ Sends(update_checklist_item, W0("PUT", "checklist"))
    /\ Sends(update_agile_data, W0("PUT", "agile"))
    /\ Sends(create_product, W0("POST", "product"))
    /\ Sends(create_contact, W0("POST", "contact"))
    /\ Sends(delete_contact, W0("DELETE", "contact"))
    /\ Sends(assign_contact_to_project, W0("POST", "contact_project"))
    /\ Sends(remove_contact_from_project, W0("DELETE", "contact_project"))
    /\ Sends(create_time_entry, W0("POST", "time_entry"))
    /\ Sends(create_version, W0("POST", "version"))
    /\ Sends(delete_version, W0("DELETE", "version"))
    /\ Sends(create_membership, W0("POST", "membership"))
    /\ Sends(delete_membership, W0("DELETE", "membership"))
    /\ Sends(write_wiki_page, W0("PUT", "wiki"))
    /\ Sends(delete_wiki_page, W0("DELETE", "wiki"))
    /\ Sends(delete_attachment, W0("DELETE", "attachment"))
    /\ Sends(create_upload, W0("POST", "upload"))
    /\ Sends(create_project_file, W0("POST", "file"))
    /\ Sends(commit_dmsf_upload, W0("POST", "document"))
    /\ Sends(create_dmsf_revision, W0("POST", "document"))
<1>1. {"agile", "attachment", "category", "checklist", "contact", "contact_project",
       "document", "file", "issue", "journal", "membership", "product", "relation",
       "time_entry", "upload", "version", "watcher", "wiki"} \subseteq Resources
  BY DEF Resources
<1>2. {"POST", "PUT", "DELETE"} \subseteq WriteVerbs
  BY DEF WriteVerbs
<1> QED
    BY <1>1, <1>2, RequestIn DEF Post, Put, Delete, create_issue,
         create_issue_with_attachments, delete_issue, create_relation, delete_relation,
         add_watcher, remove_watcher, update_journal, create_issue_category,
         delete_issue_category, create_checklist_item, update_checklist_item,
         update_agile_data, create_product, create_contact, delete_contact,
         assign_contact_to_project, remove_contact_from_project, create_time_entry,
         create_version, delete_version, create_membership, delete_membership,
         write_wiki_page, delete_wiki_page, delete_attachment, create_upload,
         create_project_file, commit_dmsf_upload, create_dmsf_revision

LEMMA SendsThenGets ==
    ASSUME NEW s, NEW w, Sends(s, w), NEW t \in Seq(Gets)
    PROVE  Sends(s \o t, w)
<1>1. t \in Seq(LateStep)
  BY GetsRead
<1> QED BY <1>1, Join, SoundThenGets DEF Sends

LEMMA ApiUpdates ==
    /\ Sends(update_issue_category, W0("PUT", "category"))
    /\ Sends(update_product, W0("PUT", "product"))
    /\ Sends(update_contact, W0("PUT", "contact"))
    /\ Sends(update_time_entry, W0("PUT", "time_entry"))
    /\ Sends(update_version, W0("PUT", "version"))
    /\ Sends(update_membership, W0("PUT", "membership"))
    /\ Sends(upsert_wiki_page, W0("PUT", "wiki"))
<1>1. {"category", "product", "contact", "time_entry", "version", "membership"} \subseteq Resources
  BY DEF Resources
<1>2. ASSUME NEW r \in Resources, NEW t \in Seq(Gets) PROVE Sends(Put(r) \o t, W0("PUT", r))
  <2>1. Sends(Put(r), W0("PUT", r))
    BY RequestIn DEF Put, WriteVerbs
  <2> QED BY <2>1, SendsThenGets
<1>3. Sends(upsert_wiki_page, W0("PUT", "wiki"))
  BY ApiReads, ApiWrites, SendsThenGets DEF upsert_wiki_page
<1> QED
  BY <1>1, <1>2, <1>3, ApiReads DEF update_issue_category, update_product, update_contact,
       update_time_entry, update_version, update_membership

LEMMA ReadsThenSend ==
    ASSUME NEW r \in Seq(ReadStep), NEW s, NEW w, Sends(s, w), NEW P, P \subseteq {w}
    PROVE  Sound(r \o s, {w}, P)
<1>1. Sound(r \o s, {w}, {w})
  BY SoundBefore DEF Sends
<1> QED BY <1>1 DEF Sound
------------------------------------------------------------------------------
(* Handlers that only read *)

Readers ==
    {"get_mcp_server_info", "list_redmine_trackers", "list_project_trackers",
     "list_redmine_issue_statuses", "list_redmine_issue_priorities", "list_redmine_users",
     "get_current_user", "list_redmine_queries", "list_redmine_projects",
     "list_project_issue_custom_fields", "summarize_project_status", "list_redmine_versions",
     "list_project_members", "list_redmine_roles", "get_project_modules", "get_gantt_chart",
     "get_redmine_issue", "list_redmine_issues", "search_redmine_issues", "list_subtasks",
     "get_private_notes", "list_time_entries", "list_time_entry_activities",
     "search_entire_redmine", "get_redmine_attachment", "list_files",
     "cleanup_attachment_files", "get_checklist"}

LEMMA ReaderHandlers ==
    ASSUME NEW c, NEW g, c.tool \in Readers
    PROVE  Handler(c, g) \in Seq(ReadStep)
<1>1. \A s, t \in Seq(ReadStep) : s \o t \in Seq(ReadStep)
  BY Join
<1>2. Seq(Gets) \subseteq Seq(ReadStep)
  BY GetsRead
<1>3. {"FILE_TOO_LARGE", "STORE_FULL", "MISCONFIGURED"} \subseteq Codes
  BY DEF Codes
<1>4. "skip" \in Failures \ {"stop", "recover", "reread"}
  BY DEF Failures
<1>5. CASE c.tool \in {"get_mcp_server_info", "list_redmine_trackers", "list_project_trackers",
            "list_redmine_issue_statuses", "list_redmine_issue_priorities", "list_redmine_users",
            "get_current_user", "list_redmine_queries", "list_redmine_projects"}
  <2>1. Failing(current_user, "skip") \in Seq(Gets)
    BY <1>4, ApiReads, FailingGets
  <2> QED
    BY <1>1, <1>2, <1>5, <2>1, ApiReads, ProjectRefIn
       DEF Handler, get_mcp_server_info, list_redmine_trackers, list_project_trackers,
           list_redmine_issue_statuses, list_redmine_issue_priorities, list_redmine_users,
           get_current_user, list_redmine_queries, list_redmine_projects
<1>6. CASE c.tool \in {"list_project_issue_custom_fields", "summarize_project_status",
            "list_redmine_versions", "list_project_members", "list_redmine_roles",
            "get_project_modules", "get_gantt_chart"}
  BY <1>1, <1>2, <1>6, ApiReads, ProjectRefIn
     DEF Handler, list_project_issue_custom_fields, summarize_project_status,
         list_redmine_versions, list_project_members, list_redmine_roles, get_project_modules,
         get_gantt_chart
<1>7. CASE c.tool \in {"get_redmine_issue", "list_redmine_issues", "search_redmine_issues",
            "list_subtasks", "get_private_notes"}
  <2>1. When("agile" \in g.plugins, Failing(get_agile_data, "skip")) \in Seq(Gets)
    BY <1>4, ApiReads, FailingGets, WhenIn
  <2>2. Either(list_issues_by_id, <<>>) \in Seq(ReadStep)
    <3>1. Seq(Gets) \subseteq Seq(ReadLeaf)
      BY Wider DEF ReadLeaf
    <3> QED BY <3>1, ApiReads, EitherIn, Nothing
  <2> QED
    BY <1>1, <1>2, <1>7, <2>1, <2>2, ApiReads, CheckIn
       DEF Handler, get_redmine_issue, list_redmine_issues, search_redmine_issues,
           list_subtasks_tool, get_private_notes
<1>8. CASE c.tool \in {"list_time_entries", "list_time_entry_activities",
            "search_entire_redmine", "list_files", "cleanup_attachment_files", "get_checklist"}
  BY <1>1, <1>2, <1>8, ApiReads, CheckIn, ProjectRefIn, Nothing
     DEF Handler, list_time_entries_tool, list_time_entry_activities_tool,
         search_entire_redmine, list_files, cleanup_attachment_files, get_checklist
<1>9. CASE c.tool = "get_redmine_attachment"
  <2>1. Get("download") \in Seq(Gets)
    BY GetIn DEF Resources
  <2>2. /\ MayAnswer("FILE_TOO_LARGE") \in Seq(ReadStep)
        /\ MayAnswer("STORE_FULL") \in Seq(ReadStep)
        /\ MayAnswer("MISCONFIGURED") \in Seq(ReadStep)
    BY <1>3, MayAnswerIn
  <2>3. download_and_commit \in Seq(ReadStep)
    BY <1>1, <1>2, <2>1, <2>2 DEF download_and_commit
  <2> QED
    BY <1>1, <1>2, <1>9, <2>2, <2>3, ApiReads DEF Handler, get_redmine_attachment
<1> QED BY <1>5, <1>6, <1>7, <1>8, <1>9 DEF Readers
------------------------------------------------------------------------------
(* Handlers that write once *)

SoundFor(h, P) == \E W : Sound(h, W, P)

LEMMA SingleWrite ==
    \A r \in Seq(ReadStep) : \A s, w : Sends(s, w) => SoundFor(r \o s, {}) /\ SoundFor(r \o s, {w})
<1> SUFFICES ASSUME NEW r \in Seq(ReadStep), NEW s, NEW w, Sends(s, w)
             PROVE  SoundFor(r \o s, {}) /\ SoundFor(r \o s, {w})
  OBVIOUS
<1>1. Sound(r \o s, {w}, {}) /\ Sound(r \o s, {w}, {w})
  BY ReadsThenSend
<1> QED BY <1>1 DEF SoundFor

LEMMA JustWrite == \A s, w : Sends(s, w) => SoundFor(s, {}) /\ SoundFor(s, {w})
<1> SUFFICES ASSUME NEW s, NEW w, Sends(s, w) PROVE SoundFor(s, {}) /\ SoundFor(s, {w})
  OBVIOUS
<1>1. Sound(s, {w}, {}) /\ Sound(s, {w}, {w})
  BY DEF Sends, Sound
<1> QED BY <1>1 DEF SoundFor

LEMMA JustReads == \A s \in Seq(ReadStep) : SoundFor(s, {})
  BY ReadsSound DEF SoundFor

\* The tools without a promise of their own.
LEMMA NoPromise ==
    ASSUME NEW c,
           c.tool \notin {"create_redmine_issue", "copy_issue", "update_redmine_issue",
                          "delete_redmine_issue", "delete_file", "upload_file"},
           ~(c.tool = "manage_document" /\ c.action = "create"),
           ~(c.tool = "manage_redmine_wiki_page" /\ c.action \in {"create", "update", "rename"}),
           ~(c.tool = "manage_contact" /\ c.action = "assign_to_project")
    PROVE  Promised(c) = {}
  BY DEF Promised

SimpleWriters ==
    {"manage_redmine_version", "manage_project_member", "manage_issue_watcher",
     "manage_issue_note", "manage_time_entry", "create_checklist_item", "update_checklist_item"}

LEMMA SimpleHandlers ==
    ASSUME NEW c, NEW g, c.tool \in SimpleWriters, c.action \in Actions(c.tool)
    PROVE  SoundFor(Handler(c, g), Promised(c))
<1>1. \A s, t \in Seq(ReadStep) : s \o t \in Seq(ReadStep)
  BY Join
<1>2. Promised(c) = {}
  BY NoPromise DEF SimpleWriters
<1>3. CASE c.tool = "manage_redmine_version"
  <2>1. Handler(c, g) = manage_redmine_version(c, g) /\ c.action \in ManageVersionAction
    BY <1>3 DEF Handler, Actions
  <2>2. SoundFor(manage_redmine_version(c, g), {})
    BY <1>1, <2>1, CheckIn, NeedIn, ApiWrites, ApiUpdates, SingleWrite
       DEF manage_redmine_version, ManageVersionAction
  <2> QED BY <1>2, <2>1, <2>2
<1>4. CASE c.tool = "manage_project_member"
  <2>1. Handler(c, g) = manage_project_member(c, g) /\ c.action \in ManageMemberAction
    BY <1>4 DEF Handler, Actions
  <2>2. SoundFor(manage_project_member(c, g), {})
    BY <1>1, <2>1, CheckIn, NeedIn, ApiWrites, ApiUpdates, SingleWrite
       DEF manage_project_member, ManageMemberAction
  <2> QED BY <1>2, <2>1, <2>2
<1>5. CASE c.tool = "manage_issue_watcher"
  <2>1. SoundFor(manage_issue_watcher(c, g), {})
    BY ApiWrites, JustWrite DEF manage_issue_watcher
  <2> QED BY <1>2, <1>5, <2>1 DEF Handler
<1>6. CASE c.tool = "manage_issue_note"
  <2>1. SoundFor(manage_issue_note(c, g), {})
    BY NeedIn, ApiWrites, SingleWrite DEF manage_issue_note
  <2> QED BY <1>2, <1>6, <2>1 DEF Handler
<1>7. CASE c.tool = "manage_time_entry"
  <2>1. SoundFor(manage_time_entry(c, g), {})
    BY <1>1, CheckIn, NeedIn, ProjectRefIn, ApiWrites, ApiUpdates, SingleWrite
       DEF manage_time_entry
  <2> QED BY <1>2, <1>7, <2>1 DEF Handler
<1>8. CASE c.tool = "create_checklist_item"
  <2>1. SoundFor(create_checklist_item_tool(c, g), {})
    BY CheckIn, ApiWrites, SingleWrite DEF create_checklist_item_tool
  <2> QED BY <1>2, <1>8, <2>1 DEF Handler
<1>9. CASE c.tool = "update_checklist_item"
  <2>1. SoundFor(update_checklist_item_tool(c, g), {})
    BY <1>1, CheckIn, ApiWrites, SingleWrite DEF update_checklist_item_tool
  <2> QED BY <1>2, <1>9, <2>1 DEF Handler
<1> QED BY <1>3, <1>4, <1>5, <1>6, <1>7, <1>8, <1>9 DEF SimpleWriters

LEMMA DeleteHandlers ==
    ASSUME NEW c, NEW g, c.tool \in {"delete_redmine_issue", "delete_file"}
    PROVE  SoundFor(Handler(c, g), Promised(c))
<1>1. \A s, t \in Seq(ReadStep) : s \o t \in Seq(ReadStep)
  BY Join
<1>2. {"CONFIRMATION_REQUIRED", "CHILDREN_PRESENT"} \subseteq Codes
  BY DEF Codes
<1>3. CASE c.tool = "delete_redmine_issue"
  <2>1. Promised(c) = {W0("DELETE", "issue")}
    BY <1>3 DEF Promised, W0
  <2>2. Either(<<>>, Refuse(~Has(c, "confirm_delete_with_children"), "CHILDREN_PRESENT"))
          \in Seq(ReadStep)
    BY <1>2, RefuseIn, EitherIn, Nothing
  <2>3. SoundFor(delete_redmine_issue(c, g), {W0("DELETE", "issue")})
    BY <1>1, <1>2, <2>2, RefuseIn, ApiReads, GetsRead, ApiWrites, SingleWrite
       DEF delete_redmine_issue
  <2> QED BY <1>3, <2>1, <2>3 DEF Handler
<1>4. CASE c.tool = "delete_file"
  <2>1. Promised(c) = {W0("DELETE", "attachment")}
    BY <1>4 DEF Promised, W0
  <2>2. SoundFor(delete_file(c, g), {W0("DELETE", "attachment")})
    BY <1>2, RefuseIn, ApiWrites, SingleWrite DEF delete_file
  <2> QED BY <1>4, <2>1, <2>2 DEF Handler
<1> QED BY <1>3, <1>4
------------------------------------------------------------------------------
(* Handlers that refuse to write on a read-only server *)

\* Reads that a read-only server does not get past.
Gate(a, g) == a \in Seq(ReadStep) /\ (g.read_only => Barred(a))
Gated(h, g, P) == SoundFor(h, P) /\ (g.read_only => Quiet(h))

LEMMA GateStart == \A g : Gate(ReadOnlyGate(g), g)
  BY GateIn DEF Gate

LEMMA GateThenReads == \A a, g : \A r \in Seq(ReadStep) : Gate(a, g) => Gate(a \o r, g)
<1> SUFFICES ASSUME NEW a, NEW g, NEW r \in Seq(ReadStep), Gate(a, g) PROVE Gate(a \o r, g)
  OBVIOUS
<1>1. a \in Seq(ReadStep) /\ a \in Seq(AnyStep) /\ r \in Seq(AnyStep)
  BY Wider DEF Gate, AnyStep, PlainStep
<1> QED BY <1>1, Join, BarredAfter DEF Gate

LEMMA GatedReads == \A g : \A r \in Seq(ReadStep) : Gated(r, g, {})
  BY JustReads DEF Gated, Quiet

LEMMA GatedAfterReads ==
    \A g, h, P : \A r \in Seq(ReadStep) : Gated(h, g, P) => Gated(r \o h, g, P)
<1> SUFFICES ASSUME NEW g, NEW h, NEW P, NEW r \in Seq(ReadStep), Gated(h, g, P)
             PROVE  Gated(r \o h, g, P)
  OBVIOUS
<1>1. PICK W : Sound(h, W, P)
  BY DEF Gated, SoundFor
<1>2. h \in Seq(AnyStep)
  BY <1>1, SoundPlain, Wider DEF AnyStep
<1>3. Sound(r \o h, W, P)
  BY <1>1, SoundBefore
<1> QED BY <1>2, <1>3, QuietBefore DEF Gated, SoundFor

\* What follows the gate is not reached on a read-only server.
LEMMA GatedWrites ==
    ASSUME NEW g, NEW a, Gate(a, g), NEW W, NEW P, NEW s, Sound(s, W, P)
    PROVE  Gated(a \o s, g, P)
<1>1. a \in Seq(ReadStep) /\ a \in Seq(AnyStep) /\ s \in Seq(AnyStep)
  BY SoundPlain, Wider DEF Gate, AnyStep, PlainStep
<1> QED BY <1>1, SoundBefore, BarredAfter DEF Gate, Gated, SoundFor, Quiet

LEMMA GatedSend ==
    \A g, a, s, w : Gate(a, g) /\ Sends(s, w) => Gated(a \o s, g, {}) /\ Gated(a \o s, g, {w})
<1> SUFFICES ASSUME NEW g, NEW a, NEW s, NEW w, Gate(a, g), Sends(s, w)
             PROVE  Gated(a \o s, g, {}) /\ Gated(a \o s, g, {w})
  OBVIOUS
<1>1. Sound(s, {w}, {}) /\ Sound(s, {w}, {w})
  BY DEF Sends, Sound
<1> QED BY <1>1, GatedWrites

LEMMA Associative ==
    ASSUME NEW S, NEW s \in Seq(S), NEW t \in Seq(S), NEW u \in Seq(S)
    PROVE  (s \o t) \o u = s \o (t \o u)
  BY ConcatAssociative

LEMMA GatedRelation ==
    ASSUME NEW c, NEW g, c.action \in ManageIssueRelationAction
    PROVE  Gated(manage_issue_relation(c, g), g, {})
<1>1. \A s, t \in Seq(ReadStep) : s \o t \in Seq(ReadStep)
  BY Join
<1>2. CASE c.action = "list"
  BY <1>1, <1>2, CheckIn, NeedIn, ApiReads, GetsRead, GatedReads DEF manage_issue_relation
<1>3. CASE c.action = "create"
  <2>1. Gated(ReadOnlyGate(g) \o Need(c, "issue_id") \o Need(c, "issue_to_id") \o create_relation,
              g, {})
    BY GateStart, GateThenReads, NeedIn, ApiWrites, GatedSend
  <2> QED BY <1>3, <2>1, CheckIn, GatedAfterReads DEF manage_issue_relation
<1>4. CASE c.action = "delete"
  <2>1. Gated(ReadOnlyGate(g) \o Need(c, "relation_id") \o delete_relation, g, {})
    BY GateStart, GateThenReads, NeedIn, ApiWrites, GatedSend
  <2> QED BY <1>4, <2>1, CheckIn, GatedAfterReads DEF manage_issue_relation
<1> QED BY <1>2, <1>3, <1>4 DEF ManageIssueRelationAction

LEMMA GatedCategory ==
    ASSUME NEW c, NEW g, c.action \in ManageIssueCategoryAction
    PROVE  Gated(manage_issue_category(c, g), g, {})
<1>1. \A s, t \in Seq(ReadStep) : s \o t \in Seq(ReadStep)
  BY Join
<1>2. CASE c.action = "list"
  BY <1>1, <1>2, NeedIn, ApiReads, GetsRead, GatedReads DEF manage_issue_category
<1>3. CASE c.action # "list"
  BY <1>3, GateStart, GateThenReads, CheckIn, NeedIn, ApiWrites, ApiUpdates, GatedSend
     DEF manage_issue_category, ManageIssueCategoryAction
<1> QED BY <1>2, <1>3

LEMMA GatedProduct ==
    ASSUME NEW c, NEW g, c.action \in ManageProductAction
    PROVE  Gated(manage_product(c, g), g, {})
<1>1. \A s, t \in Seq(ReadStep) : s \o t \in Seq(ReadStep)
  BY Join
<1>2. CASE c.action \in {"list", "get"}
  BY <1>1, <1>2, CheckIn, ProjectRefIn, ApiReads, GetsRead, GatedReads DEF manage_product
<1>3. CASE c.action \notin {"list", "get"}
  BY <1>3, GateStart, GateThenReads, CheckIn, NeedIn, ProjectRefIn, ApiWrites, ApiUpdates, GatedSend
     DEF manage_product, product_create, ManageProductAction
<1> QED BY <1>2, <1>3

LEMMA GatedContact ==
    ASSUME NEW c, NEW g, c.action \in ManageContactAction
    PROVE  /\ c.action # "assign_to_project" => Gated(manage_contact(c, g), g, {})
           /\ c.action = "assign_to_project" =>
                Gated(manage_contact(c, g), g, {W0("POST", "contact_project")})
<1>1. \A s, t \in Seq(ReadStep) : s \o t \in Seq(ReadStep)
  BY Join
<1>2. require_contact_id(c) \in Seq(ReadStep) /\ require_project_ident(c) \in Seq(ReadStep)
  BY CheckIn, NeedIn DEF require_contact_id, require_project_ident
<1>3. CASE c.action \in {"list", "get"}
  BY <1>1, <1>2, <1>3, ProjectRefIn, ApiReads, GetsRead, GatedReads DEF manage_contact
<1>4. CASE c.action \in {"create", "update", "delete"}
  BY <1>2, <1>4, GateStart, GateThenReads, CheckIn, NeedIn, ApiWrites, ApiUpdates, GatedSend
     DEF manage_contact, contact_create, contact_update
<1>5. CASE c.action \in {"assign_to_project", "remove_from_project"}
  BY <1>2, <1>5, GateStart, GateThenReads, ApiWrites, GatedSend DEF manage_contact
<1> QED BY <1>3, <1>4, <1>5 DEF ManageContactAction

LEMMA GatedWiki ==
    ASSUME NEW c, NEW g, c.action \in ManageWikiPageAction
    PROVE  /\ c.action \notin {"create", "update", "rename"} =>
                Gated(manage_redmine_wiki_page(c, g), g, {})
           /\ c.action \in {"create", "update", "rename"} =>
                Gated(manage_redmine_wiki_page(c, g), g, {W0("PUT", "wiki")})
<1>1. \A s, t \in Seq(ReadStep) : s \o t \in Seq(ReadStep)
  BY Join
<1>2. require_title(c) \in Seq(ReadStep)
  BY NeedIn DEF require_title
<1>3. CASE c.action \in {"list", "get"}
  BY <1>1, <1>2, <1>3, ProjectRefIn, ApiReads, GetsRead, GatedReads DEF manage_redmine_wiki_page
<1>4. CASE c.action \in {"create", "update"}
  <2>1. Gated(ReadOnlyGate(g) \o require_title(c) \o Check(Has(c, "text")) \o upsert_wiki_page,
              g, {W0("PUT", "wiki")})
    BY <1>2, GateStart, GateThenReads, CheckIn, ApiUpdates, GatedSend
  <2> QED BY <1>4, <2>1, ProjectRefIn, GatedAfterReads DEF manage_redmine_wiki_page
<1>5. CASE c.action = "delete"
  <2>1. Gated(ReadOnlyGate(g) \o require_title(c) \o delete_wiki_page, g, {})
    BY <1>2, GateStart, GateThenReads, ApiWrites, GatedSend
  <2> QED BY <1>5, <2>1, ProjectRefIn, GatedAfterReads DEF manage_redmine_wiki_page
<1>6. CASE c.action = "rename"
  <2> DEFINE a == ReadOnlyGate(g) \o require_title(c) \o Need(c, "new_title") \o get_wiki_page
             t == Failing(get_wiki_page, "renamed")
  <2>1. Gate(a, g)
    BY <1>2, GateStart, GateThenReads, NeedIn, ApiReads, GetsRead
  <2>2. t \in Seq(Gets)
    BY ApiReads, FailingGets DEF Failures
  <2>3. Sends(write_wiki_page, W0("PUT", "wiki"))
    BY ApiWrites
  <2>4. wiki_rename(c, g) = (a \o write_wiki_page) \o t
    BY DEF wiki_rename
  <2> HIDE DEF a, t
  <2>5. Sends(write_wiki_page \o t, W0("PUT", "wiki"))
    BY <2>2, <2>3, SendsThenGets
  <2>6. (a \o write_wiki_page) \o t = a \o (write_wiki_page \o t)
    <3>1. a \in Seq(PlainStep) /\ write_wiki_page \in Seq(PlainStep) /\ t \in Seq(PlainStep)
      BY <2>1, <2>2, <2>3, GetsRead, Wider DEF Gate, Sends, PlainStep
    <3> QED BY <3>1, Associative
  <2>7. Gated(wiki_rename(c, g), g, {W0("PUT", "wiki")})
    BY <2>1, <2>4, <2>5, <2>6, GatedSend
  <2> QED BY <1>6, <2>7, ProjectRefIn, GatedAfterReads DEF manage_redmine_wiki_page
<1> QED BY <1>3, <1>4, <1>5, <1>6 DEF ManageWikiPageAction
------------------------------------------------------------------------------
(* Handlers that upload, and write what they uploaded *)

LEMMA UploadBodyIn == ASSUME NEW c, NEW name PROVE UploadBody(c, name) \in Seq(ReadStep)
<1>1. \A s, t \in Seq(ReadStep) : s \o t \in Seq(ReadStep)
  BY Join
<1>2. {"invalid_params", "FILE_TOO_LARGE", "PATH_NOT_ALLOWED", "MISCONFIGURED",
       "SOURCE_REQUIRED", "UNSUPPORTED_SOURCE"} \subseteq Codes
  BY DEF Codes
<1>3. decode_upload_base64(c) \in Seq(ReadStep)
  <2>1. Either(Answer("invalid_params"), Answer("FILE_TOO_LARGE")) \in Seq(ReadStep)
    BY <1>2, AnswerIn, EitherIn
  <2> QED BY <2>1, WhenIn DEF decode_upload_base64
<1>4. read_and_validate_upload_path(c) \in Seq(ReadStep)
  <2>1. Either(Answer("FILE_TOO_LARGE"), Answer("MISCONFIGURED")) \in Seq(ReadFork)
    BY <1>2, AnswerIn, EitherIn
  <2>2. Answer("PATH_NOT_ALLOWED") \in Seq(ReadFork)
    <3>1. Seq(ReadLeaf) \subseteq Seq(ReadFork)
      BY Wider DEF ReadFork
    <3> QED BY <3>1, <1>2, AnswerIn
  <2>3. Either(Answer("PATH_NOT_ALLOWED"),
               Either(Answer("FILE_TOO_LARGE"), Answer("MISCONFIGURED"))) \in Seq(ReadStep)
    BY <2>1, <2>2, EitherIn
  <2> QED BY <2>3, WhenIn DEF read_and_validate_upload_path
<1> QED BY <1>1, <1>2, <1>3, <1>4, RefuseIn, CheckIn DEF UploadBody

UploadWrite(k) == [verb |-> "POST", res |-> "upload", n |-> k]

Mint(k) == [kind |-> "request", verb |-> "POST", res |-> "upload", n |-> k, fail |-> "upload"]

LEMMA MintIs ==
    mint_upload_token = <<Mint(0)>> /\ \A k : Numbered(mint_upload_token, k) = <<Mint(k)>>
<1>1. mint_upload_token = <<Mint(0)>>
  <2>1. "POST" \in WriteVerbs /\ "upload" \in Resources /\ "upload" \in WriteFails
    BY DEF WriteVerbs, Resources, Failures, WriteFails
  <2> QED BY <2>1, FailingWrite DEF mint_upload_token, create_upload, Post, Mint
<1>2. ASSUME NEW k PROVE Numbered(mint_upload_token, k) = <<Mint(k)>>
  <2> DEFINE y == Mint(0)
  <2>1. [y EXCEPT !.n = k] = Mint(k)
    BY DEF Mint
  <2>2. mint_upload_token = <<y>>
    BY <1>1
  <2> HIDE DEF y
  <2>3. Numbered(<<y>>, k) = [i \in 1..1 |-> [<<y>>[i] EXCEPT !.n = k]]
    BY DEF Numbered
  <2>4. Numbered(<<y>>, k) = <<[y EXCEPT !.n = k]>>
    BY <2>3
  <2> QED BY <2>1, <2>2, <2>4
<1> QED BY <1>1, <1>2

LEMMA MintIn ==
    /\ Sends(mint_upload_token, UploadWrite(0))
    /\ \A k \in Nat : Sends(Numbered(mint_upload_token, k), UploadWrite(k))
<1>1. "POST" \in WriteVerbs /\ "upload" \in Resources /\ "upload" \in WriteFails
      /\ "upload" \in Strict
  BY DEF WriteVerbs, Resources, Failures, WriteFails, Strict
<1>2. ASSUME NEW k \in Nat PROVE Sends(<<Mint(k)>>, UploadWrite(k))
  BY <1>1, RequestWrites DEF UploadWrite, Mint
<1> QED BY <1>2, MintIs

LEMMA TwoSends ==
    ASSUME NEW s, NEW t, NEW w, NEW v, Sends(s, w), Sends(t, v), w # v
    PROVE  s \o t \in Seq(LateStep) /\ Sound(s \o t, {w, v}, {w, v})
<1>1. {w} \cap {v} = {} /\ {w} \cup {v} = {w, v}
  OBVIOUS
<1>2. Sound(s \o t, {w} \cup {v}, {w} \cup {v})
  BY <1>1, SoundAfter DEF Sends
<1> QED BY <1>1, <1>2, Join DEF Sends

LEMMA UploadFileHandler ==
    ASSUME NEW c, NEW g, c.tool = "upload_file"
    PROVE  SoundFor(Handler(c, g), Promised(c))
<1> DEFINE r == UploadBody(c, "filename") \o resolve_project_ref(c)
           P == {UploadWrite(0), W0("POST", "file")}
<1>1. Promised(c) = P /\ Handler(c, g) = ((r \o mint_upload_token) \o create_project_file)
                                          \o get_attachment
  BY DEF Promised, Handler, upload_file, UploadWrite, W0
<1>2. r \in Seq(ReadStep)
  BY UploadBodyIn, ProjectRefIn, Join
<1>3. Sends(mint_upload_token, UploadWrite(0)) /\ Sends(create_project_file, W0("POST", "file"))
  BY MintIn, ApiWrites
<1>4. {UploadWrite(0)} \cap {W0("POST", "file")} = {}
      /\ {UploadWrite(0)} \cup {W0("POST", "file")} = P
  BY DEF UploadWrite, W0
<1> HIDE DEF r, P
<1>5. Sound(r \o mint_upload_token, {UploadWrite(0)}, {UploadWrite(0)})
  BY <1>2, <1>3, SoundBefore DEF Sends
<1>6. Sound((r \o mint_upload_token) \o create_project_file, P, P)
  BY <1>3, <1>4, <1>5, SoundAfter DEF Sends
<1>7. Sound(((r \o mint_upload_token) \o create_project_file) \o get_attachment, P, P)
  BY <1>6, ApiReads, SoundThenGets
<1> QED BY <1>1, <1>7 DEF SoundFor

LEMMA GatedDocument ==
    ASSUME NEW c, NEW g, c.action \in ManageDocumentAction
    PROVE  /\ c.action # "create" => Gated(manage_document(c, g), g, {})
           /\ c.action = "create" =>
                Gated(manage_document(c, g), g, {UploadWrite(0), W0("POST", "document")})
<1>1. \A s, t \in Seq(ReadStep) : s \o t \in Seq(ReadStep)
  BY Join
<1>2. require_project_ident(c) \in Seq(ReadStep) /\ MayAnswer("NOT_FOUND") \in Seq(ReadStep)
  BY NeedIn, MayAnswerIn DEF require_project_ident, Codes
<1>3. CASE c.action \in {"list", "get"}
  BY <1>1, <1>2, <1>3, CheckIn, ApiReads, GetsRead, GatedReads DEF manage_document
<1>4. CASE c.action = "update"
  <2>1. get_dmsf_file \in Seq(ReadStep) /\ Sends(create_dmsf_revision, W0("POST", "document"))
    BY ApiReads, GetsRead, ApiWrites
  <2> DEFINE a == ReadOnlyGate(g) \o Check(Has(c, "document_id"))
                  \o Check(c.keys \cap DocumentFields # {})
             b == a \o get_dmsf_file \o MayAnswer("NOT_FOUND")
  <2>2. Gate(a, g)
    BY GateStart, GateThenReads, CheckIn
  <2>3. Gate(b, g)
    <3> HIDE DEF a
    <3> QED BY <1>2, <2>1, <2>2, GateThenReads
  <2>4. document_update(c, g) = b \o create_dmsf_revision
    BY DEF document_update
  <2> HIDE DEF b
  <2> QED BY <1>4, <2>1, <2>3, <2>4, GatedSend DEF manage_document
<1>5. CASE c.action = "create"
  <2> DEFINE a == ReadOnlyGate(g) \o Check(Good(c, "version")) \o UploadBody(c, "name")
                  \o require_project_ident(c)
             t == Failing(commit_dmsf_upload, "tells")
             P == {UploadWrite(0), W0("POST", "document")}
  <2>1. Gate(a, g)
    BY <1>2, GateStart, GateThenReads, CheckIn, UploadBodyIn
  <2>2. Sends(t, W0("POST", "document"))
    <3>1. "tells" \in WriteFails /\ "tells" \in Strict /\ "document" \in Resources
          /\ "POST" \in WriteVerbs
      BY DEF Failures, WriteFails, Strict, Resources, WriteVerbs
    <3> QED BY <3>1, FailingWrite DEF commit_dmsf_upload, Post
  <2>3. manage_document(c, g) = (a \o mint_upload_token) \o t
    BY <1>5 DEF manage_document, document_create
  <2>4. Sends(mint_upload_token, UploadWrite(0)) /\ UploadWrite(0) # W0("POST", "document")
    BY MintIn DEF UploadWrite, W0
  <2> HIDE DEF a, t
  <2>5. Sound(mint_upload_token \o t, P, P)
    BY <2>2, <2>4, TwoSends
  <2>6. (a \o mint_upload_token) \o t = a \o (mint_upload_token \o t)
    <3>1. a \in Seq(PlainStep) /\ mint_upload_token \in Seq(PlainStep) /\ t \in Seq(PlainStep)
      BY <2>1, <2>2, <2>4, Wider DEF Gate, Sends, PlainStep
    <3> QED BY <3>1, Associative
  <2>7. Gated(a \o (mint_upload_token \o t), g, P)
    BY <2>1, <2>5, GatedWrites
  <2> QED BY <1>5, <2>3, <2>6, <2>7
<1> QED BY <1>3, <1>4, <1>5 DEF ManageDocumentAction

GatedTools == {"manage_issue_relation", "manage_issue_category", "manage_redmine_wiki_page",
               "manage_product", "manage_contact", "manage_document"}

LEMMA GatedHandlers ==
    ASSUME NEW c, NEW g, c.tool \in GatedTools, c.action \in Actions(c.tool)
    PROVE  Gated(Handler(c, g), g, Promised(c))
<1>1. CASE c.tool = "manage_issue_relation"
  BY <1>1, GatedRelation, NoPromise DEF Handler, Actions
<1>2. CASE c.tool = "manage_issue_category"
  BY <1>2, GatedCategory, NoPromise DEF Handler, Actions
<1>3. CASE c.tool = "manage_product"
  BY <1>3, GatedProduct, NoPromise DEF Handler, Actions
<1>4. CASE c.tool = "manage_contact"
  <2>1. c.action = "assign_to_project" => Promised(c) = {W0("POST", "contact_project")}
    BY <1>4 DEF Promised, W0
  <2> QED BY <1>4, <2>1, GatedContact, NoPromise DEF Handler, Actions
<1>5. CASE c.tool = "manage_redmine_wiki_page"
  <2>1. c.action \in {"create", "update", "rename"} => Promised(c) = {W0("PUT", "wiki")}
    BY <1>5 DEF Promised, W0
  <2> QED BY <1>5, <2>1, GatedWiki, NoPromise DEF Handler, Actions
<1>6. CASE c.tool = "manage_document"
  <2>1. c.action = "create" => Promised(c) = {UploadWrite(0), W0("POST", "document")}
    BY <1>6 DEF Promised, W0, UploadWrite
  <2> QED BY <1>6, <2>1, GatedDocument, NoPromise DEF Handler, Actions
<1> QED BY <1>1, <1>2, <1>3, <1>4, <1>5, <1>6 DEF GatedTools
------------------------------------------------------------------------------
(* create_redmine_issue, update_redmine_issue, copy_issue, import_time_entries *)

LEMMA CustomFieldsIn ==
    ASSUME NEW c
    PROVE  /\ resolve_issue_custom_fields(c) \in Seq(ReadStep)
           /\ resolve_issue_custom_fields_for_update(c) \in Seq(ReadStep)
<1>1. \A s, t \in Seq(ReadStep) : s \o t \in Seq(ReadStep)
  BY Join
<1>2. resolve_entries(c) \in Seq(ReadStep)
  BY EitherIn, AnswerIn, Nothing DEF resolve_entries, Codes
<1>3. get_issue \in Seq(ReadStep) /\ get_project \in Seq(ReadStep)
  BY ApiReads, GetsRead
<1>4. /\ When(Has(c, "custom_fields_by_name"), get_project) \in Seq(ReadStep)
      /\ When(Has(c, "custom_fields_by_name"), get_issue \o get_project) \in Seq(ReadStep)
  BY <1>1, <1>3, WhenIn
<1>5. resolve_issue_custom_fields(c) \in Seq(ReadStep)
  BY <1>1, <1>2, <1>4, CheckIn, WhenIn DEF resolve_issue_custom_fields
<1>6. resolve_issue_custom_fields_for_update(c) \in Seq(ReadStep)
  BY <1>1, <1>2, <1>4, CheckIn, WhenIn DEF resolve_issue_custom_fields_for_update
<1> QED BY <1>5, <1>6

LEMMA TagListIn == ASSUME NEW c, NEW g PROVE TagListGate(c, g) \in Seq(ReadStep)
  BY RefuseIn, CheckIn, Join DEF TagListGate, Codes

UploadWrites == {UploadWrite(1), UploadWrite(2)}

\* The tokens that a call mints, if any.
Minted(c) == IF Has(c, "uploads") THEN UploadWrites ELSE {}

\* After reads, the tokens of a call are minted once each.
LEMMA MintAfter ==
    ASSUME NEW c, NEW r \in Seq(ReadStep)
    PROVE  Sound(r \o resolve_and_mint_issue_uploads(c), Minted(c), Minted(c))
<1> DEFINE m(k) == Numbered(mint_upload_token, k)
           u == resolve_issue_upload(c)
<1>1. CASE ~Has(c, "uploads")
  <2>1. r \o resolve_and_mint_issue_uploads(c) \in Seq(ReadStep) /\ Minted(c) = {}
    BY <1>1, Join, Nothing DEF resolve_and_mint_issue_uploads, When, Minted
  <2> QED BY <2>1, ReadsSound
<1>2. CASE Has(c, "uploads")
  <2>1. u \in Seq(ReadStep)
    BY AnswerIn, EitherIn, Nothing DEF resolve_issue_upload, Codes
  <2>2. Sends(m(1), UploadWrite(1)) /\ Sends(m(2), UploadWrite(2))
    BY MintIn
  <2>3. resolve_and_mint_issue_uploads(c) = (u \o m(1)) \o m(2) /\ Minted(c) = UploadWrites
    BY <1>2 DEF resolve_and_mint_issue_uploads, When, Minted
  <2>4. {UploadWrite(1)} \cap {UploadWrite(2)} = {}
        /\ {UploadWrite(1)} \cup {UploadWrite(2)} = UploadWrites
    BY DEF UploadWrite, UploadWrites
  <2> HIDE DEF u, m
  <2>5. Sound(u \o m(1), {UploadWrite(1)}, {UploadWrite(1)})
    BY <2>1, <2>2, SoundBefore DEF Sends
  <2>6. Sound((u \o m(1)) \o m(2), {UploadWrite(1)} \cup {UploadWrite(2)},
              {UploadWrite(1)} \cup {UploadWrite(2)})
    BY <2>2, <2>4, <2>5, SoundAfter DEF Sends
  <2>7. Sound((u \o m(1)) \o m(2), UploadWrites, UploadWrites)
    BY <2>4, <2>6
  <2> QED BY <2>3, <2>7, SoundBefore
<1> QED BY <1>1, <1>2

LEMMA CreateHandler ==
    ASSUME NEW c, NEW g, c.tool = "create_redmine_issue"
    PROVE  SoundFor(Handler(c, g), Promised(c))
<1> DEFINE r == Check(Good(c, "subject")) \o TagListGate(c, g) \o Check(Good(c, "project_id"))
                \o resolve_issue_custom_fields(c)
           s == r \o resolve_and_mint_issue_uploads(c)
           t == Failing(send_create(c), "recover")
           w == W0("POST", "issue")
<1>1. Handler(c, g) = s \o t /\ Promised(c) = {w} \cup Minted(c)
  BY DEF Handler, create_redmine_issue, Promised, W0, Minted, UploadWrites, UploadWrite
<1>2. r \in Seq(ReadStep)
  BY CheckIn, TagListIn, CustomFieldsIn, Join
<1>3. Sound(s, Minted(c), Minted(c))
  <2> HIDE DEF r
  <2> QED BY <1>2, MintAfter
<1>4. Sends(t, w)
  <2>1. send_create(c) = <<Request("POST", "issue")>>
    BY DEF send_create, create_issue, create_issue_with_attachments, Post
  <2>2. "POST" \in WriteVerbs /\ "issue" \in Resources /\ "recover" \in WriteFails
        /\ "recover" \in Strict
    BY DEF WriteVerbs, Resources, Failures, WriteFails, Strict
  <2> QED BY <2>1, <2>2, FailingWrite
<1>5. Minted(c) \cap {w} = {} /\ Minted(c) \cup {w} = {w} \cup Minted(c)
  BY DEF Minted, UploadWrites, UploadWrite, W0
<1> HIDE DEF s, t, w
<1>6. Sound(s \o t, Minted(c) \cup {w}, Minted(c) \cup {w})
  BY <1>3, <1>4, <1>5, SoundAfter DEF Sends
<1> QED BY <1>1, <1>5, <1>6 DEF SoundFor

LEMMA CallFacts ==
    ASSUME NEW c \in Calls
    PROVE  /\ c.tool \in FixedTools \cup ActionTools /\ c.keys \subseteq Params(c.tool)
           /\ c.action \in Actions(c.tool) \cup {"bogus"}
           /\ c.action = "bogus" => c.tool \in ActionTools
<1>1. DOMAIN FixedScopes = FixedTools /\ DOMAIN ActionScopes = ActionTools
  BY DEF FixedScopes, ActionScopes
<1>2. PICK t \in FixedTools \cup ActionTools : c \in CallsOf(t)
  BY <1>1 DEF Calls, Tools
<1>3. c.tool = t /\ c.keys \subseteq Params(t) /\ c.action \in Actions(t) \cup {"bogus"}
  BY <1>2 DEF CallsOf
<1>4. c.action = "bogus" => c.tool \in ActionTools
  BY <1>1 DEF Calls
<1> QED BY <1>3, <1>4

LEMMA Single ==
    ASSUME NEW S, NEW s \in Seq(S), NEW a, Len(s) = 1, s[1] = a
    PROVE  s = <<a>>
<1> DEFINE t == <<a>>
<1>1. t \in Seq(S) /\ Len(t) = 1 /\ t[1] = a
  OBVIOUS
<1> HIDE DEF t
<1>2. \A i \in 1..Len(s) : s[i] = t[i]
  BY <1>1
<1>3. s = t
  BY <1>1, <1>2, SeqEqual
<1> QED BY <1>3 DEF t

LEMMA Pair ==
    ASSUME NEW a, NEW b
    PROVE  <<a>> \o <<b>> = <<a, b>> /\ Tail(<<a, b>>) = <<b>>
<1> DEFINE S == {a, b}
           u == <<a>> \o <<b>>
           v == <<a, b>>
<1>1. /\ <<a>> \in Seq(S) /\ Len(<<a>>) = 1 /\ <<a>>[1] = a
      /\ <<b>> \in Seq(S) /\ Len(<<b>>) = 1 /\ <<b>>[1] = b
      /\ v \in Seq(S) /\ Len(v) = 2 /\ v[1] = a /\ v[2] = b
  OBVIOUS
<1> HIDE DEF S, v
<1>2. u \in Seq(S) /\ Len(u) = 2 /\ u[1] = a /\ u[2] = b
  BY <1>1, Concat
<1>3. u = v
  <2> HIDE DEF u
  <2>1. \A i \in 1..Len(u) : u[i] = v[i]
    BY <1>1, <1>2
  <2> QED BY <1>1, <1>2, <2>1, SeqEqual
<1>4. Tail(v) = <<b>>
  <2>1. Tail(v) \in Seq(S) /\ Len(Tail(v)) = 1 /\ Tail(v)[1] = b
    BY <1>1
  <2> QED BY <2>1, Single
<1> QED BY <1>3, <1>4 DEF v

LEMMA Triple ==
    ASSUME NEW a, NEW b, NEW d
    PROVE  (<<a>> \o <<b>>) \o <<d>> = <<a, b, d>> /\ <<a>> \o (<<b>> \o <<d>>) = <<a, b, d>>
<1> DEFINE S == {a, b, d}
           v == <<a, b, d>>
           t == <<a, b>>
           e == <<d>>
           u == t \o e
<1>1. /\ <<a>> \in Seq(S) /\ <<b>> \in Seq(S)
      /\ e \in Seq(S) /\ Len(e) = 1 /\ e[1] = d
      /\ t \in Seq(S) /\ Len(t) = 2 /\ t[1] = a /\ t[2] = b
      /\ v \in Seq(S) /\ Len(v) = 3 /\ v[1] = a /\ v[2] = b /\ v[3] = d
  <2>1. a \in S /\ b \in S /\ d \in S
    OBVIOUS
  <2> HIDE DEF S
  <2>2. <<a>> \in Seq(S) /\ <<b>> \in Seq(S) /\ e \in Seq(S) /\ Len(e) = 1 /\ e[1] = d
    BY <2>1
  <2>3. t \in Seq(S) /\ Len(t) = 2 /\ t[1] = a /\ t[2] = b
    BY <2>1
  <2>4. v \in Seq(S) /\ Len(v) = 3 /\ v[1] = a /\ v[2] = b /\ v[3] = d
    BY <2>1
  <2> QED BY <2>2, <2>3, <2>4
<1> HIDE DEF S, t, v, e
<1>2. /\ u \in Seq(S) /\ Len(u) = Len(t) + Len(e)
      /\ \A i \in 1..Len(t) : u[i] = t[i]
      /\ \A i \in (Len(t) + 1)..(Len(t) + Len(e)) : u[i] = e[i - Len(t)]
  <2>1. t \in Seq(S) /\ e \in Seq(S)
    BY <1>1
  <2> QED BY ONLY <2>1, Concat
<1>3. u = v
  <2> HIDE DEF u
  <2>1. Len(u) = 3 /\ u[1] = a /\ u[2] = b /\ u[3] = d
    BY <1>1, <1>2
  <2>2. \A i \in 1..Len(u) : u[i] = v[i]
    BY <1>1, <2>1
  <2> QED BY <1>1, <1>2, <2>1, <2>2, SeqEqual
<1>4. (<<a>> \o <<b>>) \o <<d>> = v
  BY <1>3, Pair DEF t, e
<1>5. (<<a>> \o <<b>>) \o <<d>> = <<a>> \o (<<b>> \o <<d>>)
  BY <1>1, Associative DEF e
<1> QED BY <1>4, <1>5 DEF v

\* The core half of an update: one write and a read back, or only a read.
CoreHalf(c) ==
    IF update_has_core_change(c)
    THEN <<[update_issue[1] EXCEPT !.fail = "recover"],
           [update_issue[2] EXCEPT !.fail = "reread"]>>
    ELSE get_issue
AgileHalf(c) == When(c.keys \cap AgileFields # {}, agile_update(c))

PutIssue == [kind |-> "request", verb |-> "PUT", res |-> "issue", n |-> 0, fail |-> "recover"]
ReadBack == [kind |-> "request", verb |-> "GET", res |-> "issue", n |-> 0, fail |-> "reread"]
Agile(verb, how) == [kind |-> "request", verb |-> verb, res |-> "agile", n |-> 0, fail |-> how]

LEMMA UpdateIssueIs ==
    /\ update_issue = <<Request("PUT", "issue"), Request("GET", "issue")>>
    /\ update_issue[1] = Request("PUT", "issue") /\ update_issue[2] = Request("GET", "issue")
    /\ Tail(update_issue) = Get("issue")
<1> DEFINE a == Request("PUT", "issue")
           b == Request("GET", "issue")
<1>1. update_issue = <<a>> \o <<b>> /\ Get("issue") = <<b>>
  BY DEF update_issue, PutThenGet, Put, Get
<1> HIDE DEF a, b
<1>2. <<a>> \o <<b>> = <<a, b>> /\ Tail(<<a, b>>) = <<b>>
  BY Pair
<1>3. <<a, b>>[1] = a /\ <<a, b>>[2] = b
  OBVIOUS
<1> QED BY <1>1, <1>2, <1>3 DEF a, b

LEMMA CoreHalfIs ==
    ASSUME NEW c
    PROVE  CoreHalf(c) = IF update_has_core_change(c) THEN <<PutIssue, ReadBack>>
                         ELSE Get("issue")
<1>1. /\ [Request("PUT", "issue") EXCEPT !.fail = "recover"] = PutIssue
      /\ [Request("GET", "issue") EXCEPT !.fail = "reread"] = ReadBack
  BY DEF Request, PutIssue, ReadBack
<1> QED BY <1>1, UpdateIssueIs DEF CoreHalf, get_issue

LEMMA AgileHalfIs ==
    ASSUME NEW c
    PROVE  LET how == IF update_has_core_change(c) THEN "tells" ELSE "error" IN
           AgileHalf(c) = IF Has(c, "story_points")
                          THEN <<Agile("GET", how), Agile("PUT", how), Agile("GET", how)>>
                          ELSE <<>>
<1> DEFINE how == IF update_has_core_change(c) THEN "tells" ELSE "error"
           a == Request("GET", "agile")
           b == Request("PUT", "agile")
           s == get_agile_data \o update_agile_data \o get_agile_data
<1>1. [a EXCEPT !.fail = how] = Agile("GET", how) /\ [b EXCEPT !.fail = how] = Agile("PUT", how)
  BY DEF Request, Agile
<1>2. s = <<a>> \o <<b>> \o <<a>>
  BY DEF get_agile_data, update_agile_data, Get, Put
<1> HIDE DEF a, b, how
<1>3. <<a>> \o <<b>> \o <<a>> = <<a, b, a>>
  BY Triple
<1> HIDE DEF s
<1>4. s = <<a, b, a>>
  BY <1>2, <1>3
<1>5. Failing(s, how)
        = <<[a EXCEPT !.fail = how], [b EXCEPT !.fail = how], [a EXCEPT !.fail = how]>>
  <2>1. Failing(s, how) = [i \in 1..3 |-> [<<a, b, a>>[i] EXCEPT !.fail = how]]
    BY <1>4 DEF Failing
  <2> QED BY <2>1
<1>6. agile_update(c) = Failing(s, how)
  BY DEF agile_update, s, how
<1>7. Has(c, "story_points") <=> c.keys \cap AgileFields # {}
  BY DEF Has, AgileFields
<1> QED BY <1>1, <1>5, <1>6, <1>7 DEF AgileHalf, When, how

CoreWrites(c) == IF update_has_core_change(c) THEN {CoreWrite, Repeat} ELSE {}
CorePromise(c) == IF update_has_core_change(c) THEN {CoreWrite} ELSE {}
AgileWrites(c) == IF Has(c, "story_points") THEN {W0("PUT", "agile")} ELSE {}

\* The update, and behind it the read-back that may repeat it.
LEMMA CoreHalfIn ==
    ASSUME NEW c
    PROVE  CoreHalf(c) \in Seq(LateStep) /\ Sound(CoreHalf(c), CoreWrites(c), CorePromise(c))
<1> DEFINE s == <<PutIssue, ReadBack>>
<1>1. Get("issue") \in Seq(LateStep) /\ Get("issue") \in Seq(ReadStep)
  BY GetIn, GetsRead DEF Resources
<1>2. CASE ~update_has_core_change(c)
  BY <1>1, <1>2, CoreHalfIs, ReadsSound DEF CoreWrites, CorePromise
<1>3. CASE update_has_core_change(c)
  <2>1. PutIssue \in WriteStep /\ Write(PutIssue, PutIssue.n) = CoreWrite
        /\ PutIssue.fail = "recover"
    BY DEF PutIssue, WriteStep, WriteVerbs, Requests, Resources, Failures, WriteFails, Write, CoreWrite
  <2>2. ReadBack \in Rereads
    BY DEF ReadBack, Rereads, Requests, Resources
  <2>3. CoreWrite # Repeat
    BY DEF CoreWrite, Repeat, AGAIN
  <2>4. /\ PutIssue \in LateStep /\ WritesOf(PutIssue) = {CoreWrite} /\ ~Loose(PutIssue)
        /\ PutIssue \notin Rereads
    BY <2>1, WriteKinds
  <2>5. ReadBack \in LateStep /\ WritesOf(ReadBack) = {Repeat} /\ ~Loose(ReadBack)
    BY <2>2, RereadKinds
  <2>6. s \in Seq(LateStep) /\ Len(s) = 2 /\ s[1] = PutIssue /\ s[2] = ReadBack
    BY <2>4, <2>5
  <2>7. Ensures(PutIssue, CoreWrite)
    BY <2>1, <2>4 DEF Ensures, Strict
  <2> HIDE DEF s
  <2>8. 1..Len(s) = {1, 2} /\ 1 \in 1..(2 - 1)
    BY <2>6
  <2>9. Once(s, {CoreWrite, Repeat}) /\ Tight(s) /\ Backed(s)
    BY <2>3, <2>4, <2>5, <2>6, <2>7, <2>8 DEF Once, Tight, Backed
  <2>10. Delivers(s, CoreWrite)
    BY <2>6, <2>7, <2>8 DEF Delivers
  <2>11. Sound(s, {CoreWrite, Repeat}, {CoreWrite})
    BY <2>6, <2>9, <2>10, PartsSecond DEF Sound
  <2> QED BY <1>3, <2>6, <2>11, CoreHalfIs DEF CoreWrites, CorePromise, s
<1> QED BY <1>2, <1>3

LEMMA AgileHalfIn ==
    ASSUME NEW c
    PROVE  AgileHalf(c) \in Seq(LateStep) /\ Sound(AgileHalf(c), AgileWrites(c), AgileWrites(c))
<1> DEFINE how == IF update_has_core_change(c) THEN "tells" ELSE "error"
           a == Agile("GET", how)
           b == Agile("PUT", how)
<1>1. how \in Failures \ {"stop", "recover", "reread"} /\ how \in Strict
  BY DEF Failures, Strict
<1>2. AgileHalf(c) = IF Has(c, "story_points") THEN <<a, b, a>> ELSE <<>>
  BY AgileHalfIs
<1> HIDE DEF how
<1>3. a \in Gets
  BY <1>1 DEF Agile, Gets, Requests, Resources
<1>4. Sends(<<b>>, W0("PUT", "agile"))
  <2>1. "PUT" \in WriteVerbs /\ "agile" \in Resources /\ how \in WriteFails
    BY <1>1 DEF WriteVerbs, Resources, WriteFails
  <2> QED BY <1>1, <2>1, RequestWrites DEF Agile, W0
<1> HIDE DEF a, b
<1>5. <<a>> \in Seq(Gets) /\ <<a>> \in Seq(LateStep) /\ <<a>> \in Seq(ReadStep)
  BY <1>3, One, GetsRead
<1>6. Sends(<<b>> \o <<a>>, W0("PUT", "agile"))
  BY <1>4, <1>5, SendsThenGets
<1>7. Sound(<<a>> \o (<<b>> \o <<a>>), {W0("PUT", "agile")}, {W0("PUT", "agile")})
      /\ <<a>> \o (<<b>> \o <<a>>) \in Seq(LateStep)
  BY <1>5, <1>6, SoundBefore, Join DEF Sends
<1>8. <<a>> \o (<<b>> \o <<a>>) = <<a, b, a>>
  BY Triple
<1>9. <<>> \in Seq(LateStep) /\ Sound(<<>>, {}, {})
  BY Nothing, ReadsSound
<1> QED BY <1>2, <1>7, <1>8, <1>9 DEF AgileWrites

\* The steps of an update before its core half.
UpdateChecks(c, g) ==
    LET agile == c.keys \cap AgileFields # {}
        core  == update_has_core_change(c)
    IN  Check(Good(c, "notes"))
        \o Check(~Has(c, "clear_conflict"))
        \o Check(core \/ agile)
        \o Refuse(agile /\ "agile" \notin g.plugins, "MISCONFIGURED")
        \o TagListGate(c, g)
        \o resolve_issue_custom_fields_for_update(c)

LEMMA UpdateIs ==
    ASSUME NEW c, NEW g, c.tool = "update_redmine_issue"
    PROVE  Handler(c, g) = UpdateChecks(c, g) \o resolve_and_mint_issue_uploads(c)
                           \o CoreHalf(c) \o fetch_attachments(c) \o AgileHalf(c)
<1>1. Handler(c, g) = update_redmine_issue(c, g)
  BY DEF Handler
<1> QED BY <1>1 DEF update_redmine_issue, UpdateChecks, CoreHalf, AgileHalf

LEMMA UpdateHandler ==
    ASSUME NEW c \in Calls, NEW g, c.tool = "update_redmine_issue"
    PROVE  SoundFor(Handler(c, g), Promised(c))
<1> DEFINE r == UpdateChecks(c, g)
           s == r \o resolve_and_mint_issue_uploads(c)
           t == s \o CoreHalf(c)
           u == t \o fetch_attachments(c)
           M == Minted(c)
           K == CoreWrites(c)
           Q == CorePromise(c)
           A == AgileWrites(c)
<1>1. Promised(c) = (M \cup Q) \cup A
  <2>1. "issue_id" \notin c.keys
    BY CallFacts DEF Params, UpdateRedmineIssueParams
  <2>2. update_has_core_change(c) <=> c.keys \ {"story_points", "private_notes"} # {}
    BY <2>1 DEF update_has_core_change, AgileFields
  <2> QED
    BY <2>2 DEF Promised, Minted, UploadWrites, UploadWrite, CorePromise, AgileWrites, W0,
                CoreWrite
<1>2. r \in Seq(ReadStep)
  BY CheckIn, RefuseIn, TagListIn, CustomFieldsIn, Join DEF UpdateChecks, Codes
<1>3. Sound(s, M, M)
  BY <1>2, MintAfter
<1>4. M \cap K = {} /\ (M \cup K) \cap A = {}
  BY DEF Minted, UploadWrites, UploadWrite, CoreWrites, CoreWrite, Repeat, AgileWrites, W0
<1>5. Handler(c, g) = u \o AgileHalf(c)
  BY UpdateIs
<1>6. fetch_attachments(c) \in Seq(Gets)
  BY ApiReads, Join, WhenIn DEF fetch_attachments
<1> HIDE DEF r, s, M, K, Q, A
<1>7. Sound(t, M \cup K, M \cup Q)
  <2>1. CoreHalf(c) \in Seq(LateStep) /\ Sound(CoreHalf(c), K, Q)
    BY CoreHalfIn DEF K, Q
  <2> QED BY <1>3, <1>4, <2>1, SoundAfter
<1> HIDE DEF t
<1>8. Sound(u, M \cup K, M \cup Q)
  BY <1>6, <1>7, SoundThenGets
<1> HIDE DEF u
<1>9. Sound(u \o AgileHalf(c), (M \cup K) \cup A, (M \cup Q) \cup A)
  <2>1. AgileHalf(c) \in Seq(LateStep) /\ Sound(AgileHalf(c), A, A)
    BY AgileHalfIn DEF A
  <2> QED BY <1>4, <1>8, <2>1, SoundAfter
<1> QED BY <1>1, <1>5, <1>9 DEF SoundFor

\* What the invariants need of a handler when a call enters it.
Ready(h, P) ==
    /\ Parts(h, ReadStep, Later)
    /\ \E W : Once(h, W)
    /\ Backed(h)
    /\ \A w \in P : Delivers(h, w)
    /\ h \in Seq(PlainStep) \/ Parts(h, CopyStep, LoopStep)

LEMMA PartsWider ==
    ASSUME NEW s, NEW A, NEW B, NEW C, Parts(s, A, B), B \subseteq C
    PROVE  Parts(s, A, C)
<1>1. s \in Seq(A \cup C)
  BY Wider DEF Parts
<1> QED BY <1>1 DEF Parts

LEMMA SoundReady ==
    ASSUME NEW h, NEW P, SoundFor(h, P)
    PROVE  Ready(h, P)
<1>1. PICK W : Sound(h, W, P)
  BY DEF SoundFor
<1>2. Parts(h, ReadStep, Later)
  BY <1>1, PartsWider DEF Sound, Later
<1> QED BY <1>1, <1>2, SoundPlain DEF Sound, Ready

LEMMA CopyIn ==
    /\ \A res \in Resources : Get(res) \in Seq(CopyStep)
    /\ \A cond : Check(cond) \in Seq(CopyStep)
    /\ create_issue \in Seq(CopyStep)
    /\ Failing(create_relation, "skip") \in Seq(CopyStep)
    /\ \A d \in Nat : CopyLevel(d) \in Seq(LoopStep) /\ CopyChild(d)[1] \in LoopStep
<1>1. ASSUME NEW verb \in {"GET", "POST"}, NEW res \in Resources, NEW how \in {"error", "skip"},
             NEW x, x = [kind |-> "request", verb |-> verb, res |-> res, n |-> 0, fail |-> how]
      PROVE  <<x>> \in Seq(CopyStep)
  <2>1. x \in CopyStep
    BY <1>1 DEF CopyStep
  <2> QED BY <2>1, One
<1>2. {"issue", "relation"} \subseteq Resources
  BY DEF Resources
<1>3. \A res \in Resources : Get(res) \in Seq(CopyStep)
  BY <1>1 DEF Get, Request
<1>4. \A cond : Check(cond) \in Seq(CopyStep)
  <2>1. Answer("invalid_params") \in Seq(Answers(Codes))
    BY AnswerIn DEF Codes
  <2>2. Seq(Answers(Codes)) \subseteq Seq(CopyStep)
    BY Wider DEF CopyStep
  <2> QED BY <2>1, <2>2, Nothing DEF Check
<1>5. create_issue \in Seq(CopyStep)
  BY <1>1, <1>2 DEF create_issue, Post, Request
<1>6. Failing(create_relation, "skip") \in Seq(CopyStep)
  <2>1. "POST" \in WriteVerbs /\ "skip" \in WriteFails
    BY DEF WriteVerbs, Failures, WriteFails
  <2>2. Failing(create_relation, "skip")
          = <<[kind |-> "request", verb |-> "POST", res |-> "relation", n |-> 0, fail |-> "skip"]>>
    BY <1>2, <2>1, FailingWrite DEF create_relation, Post
  <2> QED BY <1>1, <1>2, <2>2
<1>7. ASSUME NEW d \in Nat PROVE CopyLevel(d) \in Seq(LoopStep) /\ CopyChild(d)[1] \in LoopStep
  <2>1. /\ [kind |-> "level", depth |-> d] \in LoopStep
        /\ [kind |-> "child", depth |-> d] \in LoopStep
    BY DEF LoopStep
  <2> QED BY <2>1, One DEF CopyLevel, CopyChild
<1> QED BY <1>3, <1>4, <1>5, <1>6, <1>7

LEMMA LoopsWriteNothing ==
    ASSUME NEW s \in Seq(LoopStep)
    PROVE  Once(s, {}) /\ Backed(s) /\ \A w : ~Delivers(s, w)
<1>1. \A i \in 1..Len(s) : /\ s[i] \in LoopStep /\ WritesOf(s[i]) = {} /\ Loose(s[i])
                           /\ s[i] \notin Answers(Codes)
  BY LoopKinds
<1>2. Once(s, {}) /\ Backed(s)
  BY <1>1 DEF Once, Backed
<1> QED BY <1>1, <1>2 DEF Delivers, Ensures

LEMMA CopyHandler ==
    ASSUME NEW c \in Calls, NEW g, c.tool = "copy_issue"
    PROVE  Ready(Handler(c, g), Promised(c))
<1> DEFINE r == get_issue \o Check(Good(c, "project_id"))
           k == When(~Has(c, "no_link"), Failing(create_relation, "skip"))
           p == (r \o create_issue) \o k
           l == When(~Has(c, "no_subtasks"), CopyLevel(0))
           w == W0("POST", "issue")
           v == W0("POST", "relation")
<1>1. Handler(c, g) = p \o l
  BY DEF Handler, copy_issue
<1>2. Promised(c) = {w}
  <2>1. ~Has(c, "uploads")
    BY CallFacts DEF Params, CopyIssueParams, Has
  <2> QED BY <2>1 DEF Promised, W0
<1>3. p \in Seq(CopyStep) /\ l \in Seq(LoopStep)
  <2>1. get_issue \in Seq(CopyStep)
    BY CopyIn DEF get_issue, Resources
  <2> QED BY <2>1, CopyIn, WhenIn, Join
<1>4. Sound(p, {w} \cup {v}, {w})
  <2>1. r \in Seq(ReadStep) /\ Sends(create_issue, w)
    BY CheckIn, ApiReads, GetsRead, ApiWrites, Join
  <2>2. Sound(r \o create_issue, {w}, {w})
    BY <2>1, SoundBefore DEF Sends
  <2>3. k \in Seq(LateStep) /\ Sound(k, {v}, {})
    <3> DEFINE x == [kind |-> "request", verb |-> "POST", res |-> "relation", n |-> 0,
                     fail |-> "skip"]
    <3>1. "POST" \in WriteVerbs /\ "relation" \in Resources /\ "skip" \in WriteFails
      BY DEF WriteVerbs, Resources, Failures, WriteFails
    <3>2. Failing(create_relation, "skip") = <<x>> /\ x \in WriteStep /\ Write(x, x.n) = v
      BY <3>1, FailingWrite DEF create_relation, Post
    <3>3. x.fail # "stop" /\ v # Repeat
      BY DEF W0, Repeat, CoreWrite
    <3> HIDE DEF x, v
    <3>4. <<x>> \in Seq(LateStep) /\ Sound(<<x>>, {v}, {})
      BY <3>2, <3>3, WriteSound
    <3>5. <<>> \in Seq(LateStep) /\ Sound(<<>>, {}, {})
      BY Nothing, ReadsSound
    <3>6. Sound(<<>>, {v}, {})
      BY <3>5, OnceWider DEF Sound
    <3> QED BY <3>2, <3>4, <3>5, <3>6 DEF When
  <2>4. {w} \cap {v} = {} /\ {w} \cup {} = {w}
    BY DEF W0
  <2> HIDE DEF r, k, w, v
  <2>5. Sound((r \o create_issue) \o k, {w} \cup {v}, {w} \cup {})
    BY <2>2, <2>3, <2>4, SoundAfter
  <2> QED BY <2>4, <2>5
<1> HIDE DEF p, l, w, v
<1>5. p \in Seq(AnyStep) /\ l \in Seq(AnyStep)
  BY <1>3, <1>4, SoundPlain, Wider DEF AnyStep
<1>6. Once(p \o l, {w} \cup {v} \cup {}) /\ Delivers(p \o l, w) /\ Backed(p \o l)
  BY <1>3, <1>4, <1>5, LoopsWriteNothing, OnceJoin, DeliversBefore, BackedJoin DEF Sound
<1>7. Parts(p \o l, ReadStep, Later)
  <2>1. Parts(p, ReadStep, Later) /\ l \in Seq(Later)
    BY <1>3, <1>4, PartsWider, Wider DEF Sound, Later
  <2> QED BY <2>1, PartsAfter
<1>8. Parts(p \o l, CopyStep, LoopStep)
  BY <1>3, PartsFirst, PartsAfter
<1> QED BY <1>1, <1>2, <1>6, <1>7, <1>8 DEF Ready

LEMMA ImportIs ==
    ASSUME NEW c, NEW g, c.tool = "import_time_entries"
    PROVE  LET how == IF Has(c, "stop_on_error") THEN "stop" ELSE "item" IN
           Handler(c, g) = Check(Good(c, "entries"))
                           \o <<Entry(1, how), Entry(2, how), Entry(3, how)>>
<1> DEFINE how == IF Has(c, "stop_on_error") THEN "stop" ELSE "item"
           a == Request("POST", "time_entry")
           e(i) == [a EXCEPT !.n = i]
           s == Numbered(create_time_entry, 1) \o Numbered(create_time_entry, 2)
                \o Numbered(create_time_entry, 3)
<1>1. ASSUME NEW i \in 1..3 PROVE [e(i) EXCEPT !.fail = how] = Entry(i, how)
  <2> HIDE DEF how
  <2>1. e(i) = [kind |-> "request", verb |-> "POST", res |-> "time_entry", n |-> i,
                fail |-> "error"]
    BY DEF Request
  <2> HIDE DEF e
  <2> QED BY <2>1 DEF Entry
<1>2. create_time_entry = <<a>>
  BY DEF create_time_entry, Post
<1>3. Handler(c, g) = Check(Good(c, "entries")) \o Failing(s, how)
  BY DEF Handler, import_time_entries
<1> HIDE DEF a, how
<1>4. ASSUME NEW i PROVE Numbered(create_time_entry, i) = <<e(i)>>
  <2>1. Numbered(<<a>>, i) = [j \in 1..1 |-> [<<a>>[j] EXCEPT !.n = i]]
    BY DEF Numbered
  <2> QED BY <1>2, <2>1
<1>5. s = <<e(1), e(2), e(3)>>
  <2>1. /\ Numbered(create_time_entry, 1) = <<e(1)>>
        /\ Numbered(create_time_entry, 2) = <<e(2)>>
        /\ Numbered(create_time_entry, 3) = <<e(3)>>
    BY <1>4
  <2> HIDE DEF e
  <2> QED BY <2>1, Triple
<1> HIDE DEF s, e
<1>6. Failing(s, how)
        = <<[e(1) EXCEPT !.fail = how], [e(2) EXCEPT !.fail = how], [e(3) EXCEPT !.fail = how]>>
  <2>1. Failing(s, how) = [i \in 1..3 |-> [<<e(1), e(2), e(3)>>[i] EXCEPT !.fail = how]]
    BY <1>5 DEF Failing
  <2> QED BY <2>1
<1>7. /\ [e(1) EXCEPT !.fail = how] = Entry(1, how)
      /\ [e(2) EXCEPT !.fail = how] = Entry(2, how)
      /\ [e(3) EXCEPT !.fail = how] = Entry(3, how)
  BY <1>1
<1>8. Handler(c, g) = Check(Good(c, "entries")) \o <<Entry(1, how), Entry(2, how), Entry(3, how)>>
  BY <1>3, <1>6, <1>7
<1> QED BY <1>8 DEF how

LEMMA ImportHandler ==
    ASSUME NEW c, NEW g, c.tool = "import_time_entries"
    PROVE  Ready(Handler(c, g), Promised(c))
<1> DEFINE how == IF Has(c, "stop_on_error") THEN "stop" ELSE "item"
           r == Check(Good(c, "entries"))
           e(i) == Entry(i, how)
           s == <<e(1), e(2), e(3)>>
           W == {EntryWrite(i) : i \in 1..3}
<1>1. Handler(c, g) = r \o s
  BY ImportIs
<1>2. r \in Seq(ReadStep) /\ Promised(c) = {}
  BY CheckIn, NoPromise
<1>3. how \in WriteFails /\ "POST" \in WriteVerbs /\ "time_entry" \in Resources
  BY DEF Failures, WriteFails, WriteVerbs, Resources
<1> HIDE DEF how, r
<1>4. ASSUME NEW i \in 1..3 PROVE e(i) \in WriteStep /\ WritesOf(e(i)) = {EntryWrite(i)}
  <2>1. i \in Nat
    OBVIOUS
  <2> DEFINE x == e(i)
  <2>2. x = [kind |-> "request", verb |-> "POST", res |-> "time_entry", n |-> i, fail |-> how]
    BY DEF Entry
  <2> HIDE DEF x
  <2>3. x \in WriteStep /\ Write(x, x.n) = EntryWrite(i)
    BY <1>3, <2>1, <2>2 DEF EntryWrite, WriteStep, Requests, Write
  <2>4. e(i) \in WriteStep /\ Write(e(i), e(i).n) = EntryWrite(i)
    BY <2>3 DEF x
  <2> QED BY <2>4, WriteKinds
<1> HIDE DEF e
<1>5. e(1) \in WriteStep /\ e(2) \in WriteStep /\ e(3) \in WriteStep
  BY <1>4
<1>6. s \in Seq(WriteStep) /\ Len(s) = 3 /\ \A i \in 1..3 : s[i] = e(i)
  <2>1. s \in Seq(WriteStep) /\ Len(s) = 3 /\ s[1] = e(1) /\ s[2] = e(2) /\ s[3] = e(3)
    BY <1>5
  <2> HIDE DEF s
  <2>2. ASSUME NEW i \in 1..3 PROVE s[i] = e(i)
    <3>1. i = 1 \/ i = 2 \/ i = 3
      OBVIOUS
    <3> QED BY <2>1, <3>1
  <2> QED BY <2>1, <2>2
<1> HIDE DEF s
<1>7. Once(s, W)
  <2>1. \A i \in 1..3 : WritesOf(s[i]) = {EntryWrite(i)}
    BY <1>4, <1>6
  <2>2. \A i, j \in 1..3 : i # j => EntryWrite(i) # EntryWrite(j)
    BY DEF EntryWrite
  <2> QED BY <1>6, <2>1, <2>2 DEF Once
<1>8. s \in Seq(LateStep) /\ s \in Seq(PlainStep) /\ r \in Seq(PlainStep)
  <2>1. WriteStep \subseteq LateStep
    BY WriteKinds
  <2> QED BY <1>2, <1>6, <2>1, Wider DEF PlainStep
<1>9. Once(r \o s, {} \cup W) /\ r \o s \in Seq(PlainStep)
  <2>1. {} \cap W = {} /\ Once(r, {})
    BY <1>2, ReadsSound
  <2> HIDE DEF W
  <2> QED BY <1>7, <1>8, <2>1, OnceJoin, Join
<1>10. Parts(r \o s, ReadStep, Later)
  BY <1>2, <1>8, PartsSecond, PartsBefore, PartsWider DEF Later
<1>11. Backed(r \o s)
  <2>1. Repeat \notin {} \cup W
    BY DEF Repeat, CoreWrite, EntryWrite
  <2> HIDE DEF W
  <2> QED BY <1>9, <2>1, BackedNone
<1> QED BY <1>1, <1>2, <1>9, <1>10, <1>11 DEF Ready

\* Every handler, for every call that reaches it.
LEMMA HandlerReady ==
    ASSUME NEW c \in Calls, NEW g, c.action \in Actions(c.tool)
    PROVE  Ready(Handler(c, g), Promised(c))
<1>1. CASE c.tool \in Readers
  <2>1. Promised(c) = {}
    BY <1>1, NoPromise DEF Readers
  <2> QED BY <1>1, <2>1, ReaderHandlers, JustReads, SoundReady
<1>2. CASE c.tool \in SimpleWriters
  BY <1>2, SimpleHandlers, SoundReady
<1>3. CASE c.tool \in GatedTools
  BY <1>3, GatedHandlers, SoundReady DEF Gated
<1>4. CASE c.tool \in {"delete_redmine_issue", "delete_file", "upload_file",
                       "create_redmine_issue", "update_redmine_issue"}
  BY <1>4, DeleteHandlers, UploadFileHandler, CreateHandler, UpdateHandler, SoundReady
<1>5. CASE c.tool \in {"copy_issue", "import_time_entries"}
  BY <1>5, CopyHandler, ImportHandler
<1>6. c.tool \in FixedTools \cup ActionTools
  BY CallFacts
<1> QED
  BY <1>1, <1>2, <1>3, <1>4, <1>5, <1>6
     DEF FixedTools, UnscopedTools, ActionTools, Readers, SimpleWriters, GatedTools

\* A read-only server routes only handlers that end before they would write.
LEMMA HandlerQuiet ==
    ASSUME NEW c \in Calls, NEW g, c.action \in Actions(c.tool), Routed(c.tool, g), g.read_only
    PROVE  Quiet(Handler(c, g))
<1>1. c.tool \notin WriteTools /\ c.tool \in FixedTools \cup ActionTools
  BY CallFacts DEF Routed
<1>2. CASE c.tool \in Readers
  BY <1>2, ReaderHandlers DEF Quiet
<1>3. CASE c.tool \in GatedTools
  BY <1>3, GatedHandlers DEF Gated
<1> QED
  BY <1>1, <1>2, <1>3
     DEF FixedTools, UnscopedTools, ActionTools, WriteTools, Readers, GatedTools
------------------------------------------------------------------------------
(* The running call *)

LEMMA PartsTail ==
    ASSUME NEW A, NEW B, NEW s, Parts(s, A, B), s # <<>>
    PROVE  /\ Parts(Tail(s), A, B) /\ Head(s) \in A \cup B
           /\ Head(s) \notin A => s \in Seq(B)
<1>1. s \in Seq(A \cup B)
  BY DEF Parts
<1>2. Head(s) \in A \cup B
  BY <1>1, HeadTail
<1>3. CASE s \in Seq(B)
  BY <1>2, <1>3, HeadTail, PartsSecond
<1>4. CASE Head(s) \in A /\ Parts(Tail(s), A, B)
  BY <1>2, <1>4
<1> QED BY <1>3, <1>4, PartsRest

\* What the next step of a running call can be.
LEMMA NextStep ==
    ASSUME OrderInv, pc = "run", todo # <<>>
    PROVE  /\ todo \in Seq(AnyStep) /\ step \in AnyStep /\ Tail(todo) \in Seq(AnyStep)
           /\ Parts(Tail(todo), ReadStep, Later)
           /\ step \notin ReadStep => todo \in Seq(Later)
           /\ todo \in Seq(Later) => step \in Later /\ Tail(todo) \in Seq(Later)
           /\ step.kind \in {"request", "answer", "either", "level", "child"}
           /\ step.kind = "request" => step \in Gets \/ step \in Rereads \/ step \in WriteStep
           /\ step.kind = "answer" => step \in Answers(Codes) /\ (Wrote => step \in GiveUp)
           /\ step.kind = "either" =>
                \/ step \in RetryFork
                \/ ~Wrote /\ step \in ReadStep /\ step.left \in Seq(ReadStep)
                   /\ step.right \in Seq(ReadStep)
           /\ step.kind \in {"level", "child"} => step \in LoopStep
<1>1. Parts(todo, ReadStep, Later) /\ (Wrote => todo \in Seq(Later))
  BY DEF OrderInv
<1>2. todo \in Seq(AnyStep)
  <2>1. ReadStep \cup Later = AnyStep
    BY DEF Later, AnyStep, PlainStep
  <2> QED BY <1>1, <2>1 DEF Parts
<1>3. step \in AnyStep /\ Tail(todo) \in Seq(AnyStep)
  BY <1>2, HeadTail DEF step
<1>4. /\ Parts(Tail(todo), ReadStep, Later) /\ step \in ReadStep \cup Later
      /\ step \notin ReadStep => todo \in Seq(Later)
  BY <1>1, PartsTail DEF step
<1>5. todo \in Seq(Later) => step \in Later /\ Tail(todo) \in Seq(Later)
  BY HeadTail DEF step
<1>6. Wrote => step \in Later
  BY <1>1, <1>5
<1> HIDE DEF step
<1>7. CASE step \in LoopStep
  BY <1>2, <1>3, <1>4, <1>5, <1>7, LoopKinds
<1>8. CASE step \in LateStep
  BY <1>2, <1>3, <1>4, <1>5, <1>8, LateKinds, AnswerKinds
<1>9. CASE step \in ReadStep /\ ~Wrote
  BY <1>2, <1>3, <1>4, <1>5, <1>9, ReadKinds
<1> QED BY <1>4, <1>6, <1>7, <1>8, <1>9 DEF Later

\* What a request leaves behind.
LEMMA ReadSent ==
    ASSUME NEW x \in Gets \cup Rereads, NEW did, NEW ok, Exchange(x, x.n, did, ok)
    PROVE  /\ performed' = performed /\ acked' = acked /\ Wrote' = Wrote
<1>1. ~Mutates(x) /\ ~Mutates(Write(x, x.n))
  BY GetKinds, RereadKinds
<1>2. performed' = performed /\ acked' = acked /\ sent' = sent \cup {Write(x, x.n)}
  BY <1>1 DEF Exchange
<1> QED BY <1>1, <1>2 DEF Wrote

LEMMA WriteSent ==
    ASSUME NEW x, NEW k, NEW did, NEW ok, Exchange(x, k, did, ok), Mutates(x)
    PROVE  /\ acked \subseteq acked' /\ (ok => Write(x, k) \in acked')
           /\ performed' = IF did THEN Append(performed, Write(x, k)) ELSE performed
           /\ Wrote'
<1>1. Mutates(Write(x, k))
  BY DEF Mutates, Write
<1> QED BY <1>1 DEF Exchange, Wrote

\* A write that was not performed yet is appended to the record.
LEMMA PerformedGrows ==
    ASSUME NEW w \in WriteRecord, w \notin Performed, performed \in Seq(WriteRecord),
           \A i, j \in 1..Len(performed) : performed[i] = performed[j] => i = j,
           performed' = Append(performed, w)
    PROVE  /\ performed' \in Seq(WriteRecord) /\ Len(performed') = Len(performed) + 1
           /\ \A i \in 1..Len(performed) : performed'[i] = performed[i]
           /\ performed'[Len(performed) + 1] = w
           /\ Performed' = Performed \cup {w}
           /\ \A i, j \in 1..Len(performed') : performed'[i] = performed'[j] => i = j
<1> DEFINE n == Len(performed)
           q == performed'
<1>1. /\ q \in Seq(WriteRecord) /\ n \in Nat /\ Len(q) = n + 1 /\ q[n + 1] = w
      /\ \A i \in 1..n : q[i] = performed[i]
  OBVIOUS
<1>2. \A i \in 1..n : performed[i] # w
  BY DEF Performed
<1>3. Performed' = {q[i] : i \in 1..Len(q)}
  BY DEF Performed
<1> HIDE DEF q
<1>4. 1..Len(q) = (1..n) \cup {n + 1}
  BY <1>1
<1>5. Performed' = Performed \cup {w}
  BY <1>1, <1>3, <1>4 DEF Performed
<1>6. \A i, j \in 1..Len(q) : q[i] = q[j] => i = j
  BY <1>1, <1>2, <1>4
<1> QED BY <1>1, <1>5, <1>6 DEF q
------------------------------------------------------------------------------
(* The invariant, step by step *)

\* The record of performed writes: no write twice, and an update repeated only once it
\* was acknowledged.
Distinct == /\ performed \in Seq(WriteRecord)
            /\ \A i, j \in 1..Len(performed) : performed[i] = performed[j] => i = j
            /\ Repeat \in Performed => CoreWrite \in acked

\* The handler's remaining steps fit the writes that were performed.
Fits(s) == /\ \E W : W \cap Performed = {} /\ Once(s, W)
           /\ CoreWrite \in acked \/ Backed(s)
           /\ \/ s \in Seq(PlainStep)
              \/ Parts(s, CopyStep, LoopStep) /\ \A i \in 1..Len(performed) : performed[i].n < i

\* A call that ends.
LEMMA CallEnds ==
    ASSUME RunInv, pc = "run", NEW code, NEW says, Reply(code, says), Distinct',
           code \in Refusals => ~Wrote', cfg.read_only => ~Wrote',
           code = "ok" => Promised(call) \subseteq acked'
    PROVE  RunInv'
<1>1. /\ pc' = "answered" /\ answer' = code /\ todo' = <<>> /\ call' = call /\ cfg' = cfg
  BY DEF Reply
<1>2. CallInv'
  BY <1>1 DEF RunInv, CallInv
<1>3. OrderInv' /\ QuietInv'
  BY <1>1 DEF OrderInv, QuietInv
<1>4. OnceInv'
  BY <1>1 DEF OnceInv, Distinct
<1>5. DoneInv'
  BY <1>1 DEF DoneInv
<1> QED BY <1>2, <1>3, <1>4, <1>5 DEF RunInv

\* A call that goes on.
LEMMA CallGoesOn ==
    ASSUME RunInv, pc = "run", UNCHANGED <<cfg, call, pc, answer>>, Distinct', Fits(todo)',
           Parts(todo', ReadStep, Later), Wrote' => todo' \in Seq(Later),
           cfg.read_only => ~Wrote' /\ Quiet(todo'),
           \A w \in Promised(call) : w \in acked' \/ Delivers(todo', w)
    PROVE  RunInv'
<1>1. answer = "none" /\ answer' = "none" /\ call' = call /\ cfg' = cfg /\ pc' = "run"
  BY DEF RunInv, CallInv
<1>2. CallInv'
  BY <1>1 DEF RunInv, CallInv
<1>3. OrderInv' /\ QuietInv'
  BY <1>1 DEF OrderInv, QuietInv, Refusals
<1>4. OnceInv'
  BY <1>1 DEF OnceInv, Distinct, Fits
<1>5. DoneInv'
  BY <1>1 DEF DoneInv
<1> QED BY <1>2, <1>3, <1>4, <1>5 DEF RunInv

\* Only copy_issue has steps that are not plain.
LEMMA PlainTodo ==
    ASSUME RunInv, pc = "run", todo # <<>>,
           step.kind = "either" \/ (step.kind = "request" /\ step.fail \in {"recover", "reread", "stop"})
    PROVE  todo \in Seq(PlainStep)
<1>1. todo \in Seq(PlainStep) \/ Parts(todo, CopyStep, LoopStep)
  BY DEF RunInv, OnceInv
<1>2. ASSUME Parts(todo, CopyStep, LoopStep) PROVE step \in CopyStep \cup LoopStep
  BY <1>2, PartsTail DEF step
<1>3. step \notin CopyStep \cup LoopStep
  BY DEF CopyStep, LoopStep, Answers
<1> QED BY <1>1, <1>2, <1>3

\* A read-only server never comes to a step that is not a read.
LEMMA QuietStep ==
    ASSUME RunInv, pc = "run", todo # <<>>, cfg.read_only
    PROVE  step \in ReadStep /\ (step.kind # "answer" => Quiet(Tail(todo)))
<1>1. todo \in Seq(AnyStep) /\ Quiet(todo)
  BY NextStep DEF RunInv, QuietInv
<1>2. step.kind # "answer" => step \notin Answers(Codes)
  BY DEF Answers
<1> QED BY <1>1, <1>2, QuietTail DEF step

\* A step that is replaced by others: a branch taken, a write to be sent again.
LEMMA Replaced ==
    ASSUME RunInv, pc = "run", todo # <<>>, todo \in Seq(PlainStep),
           step.kind # "answer", NEW p \in Seq(PlainStep),
           Once(p, WritesOf(step)), Tight(p), \A w : Ensures(step, w) => Delivers(p, w),
           \/ step \in ReadStep /\ p \in Seq(ReadStep) /\ ~Wrote'
           \/ step \notin ReadStep /\ p \in Seq(LateStep),
           UNCHANGED <<cfg, call, pc, answer, performed, acked>>, todo' = p \o Tail(todo)
    PROVE  RunInv'
<1> DEFINE q == p \o Tail(todo)
<1>1. Tail(todo) \in Seq(PlainStep) /\ step = Head(todo) /\ q \in Seq(PlainStep)
  <2>1. Tail(todo) \in Seq(PlainStep)
    BY HeadTail
  <2> QED BY <2>1, Join DEF step
<1>2. Distinct'
  BY DEF RunInv, OnceInv, Distinct, Performed
<1>3. Fits(todo)'
  <2>1. PICK W : W \cap Performed = {} /\ Once(todo, W)
    BY DEF RunInv, OnceInv
  <2>2. Once(q, W)
    BY <1>1, <2>1, OnceReplace
  <2>3. Performed' = Performed
    BY DEF Performed
  <2>4. CoreWrite \in acked \/ Backed(q)
    BY <1>1, BackedReplace DEF RunInv, OnceInv
  <2> QED BY <1>1, <2>1, <2>2, <2>3, <2>4 DEF Fits
<1>4. ASSUME NEW w \in Promised(call) PROVE w \in acked' \/ Delivers(q, w)
  <2>1. w \in acked \/ Delivers(todo, w)
    BY DEF RunInv, DoneInv
  <2> QED BY <1>1, <2>1, DeliversReplace
<1>5. CASE step \in ReadStep /\ p \in Seq(ReadStep) /\ ~Wrote'
  <2>1. Parts(q, ReadStep, Later)
    BY <1>5, NextStep, PartsBefore DEF RunInv
  <2>2. cfg.read_only => Quiet(q)
    BY <1>5, QuietStep, NextStep, QuietBefore DEF RunInv
  <2> QED BY <1>2, <1>3, <1>4, <1>5, <2>1, <2>2, CallGoesOn
<1>6. CASE step \notin ReadStep /\ p \in Seq(LateStep)
  <2>1. todo \in Seq(Later) /\ Tail(todo) \in Seq(Later)
    BY <1>6, NextStep DEF RunInv
  <2>2. q \in Seq(Later)
    <3>1. p \in Seq(Later)
      BY <1>6, Wider DEF Later
    <3> QED BY <2>1, <3>1, Join
  <2>3. ~cfg.read_only
    BY <1>6, QuietStep
  <2>4. Parts(q, ReadStep, Later)
    BY <2>2, PartsSecond
  <2> QED BY <1>2, <1>3, <1>4, <2>2, <2>3, <2>4, CallGoesOn
<1> QED BY <1>5, <1>6

\* Performed writes after a request, and what is left of the handler then.
LEMMA Recorded ==
    ASSUME RunInv, Running("request"), NEW did \in BOOLEAN, NEW ok,
           Exchange(step, step.n, did, ok)
    PROVE  /\ Distinct'
           /\ \E W : W \cap Performed' = {} /\ Once(Tail(todo), W)
           /\ CoreWrite \in acked' \/ Ensures(step, CoreWrite) \/ Backed(Tail(todo))
           /\ \/ Tail(todo) \in Seq(PlainStep)
              \/ /\ Parts(Tail(todo), CopyStep, LoopStep)
                 /\ \A i \in 1..Len(performed') : performed'[i].n < i
<1>1. pc = "run" /\ todo # <<>> /\ step.kind = "request" /\ step = Head(todo)
  BY DEF Running, step
<1>2. step \in Gets \/ step \in Rereads \/ step \in WriteStep
  BY <1>1, NextStep DEF RunInv
<1>3. PICK W : W \cap Performed = {} /\ Once(todo, W)
  BY <1>1 DEF RunInv, OnceInv
<1>4. WritesOf(step) \subseteq W /\ Once(Tail(todo), W \ WritesOf(step))
  BY <1>1, <1>3, NextStep, OnceTail DEF RunInv
<1>5. Distinct
  BY DEF RunInv, OnceInv, Distinct
<1>6. \/ Tail(todo) \in Seq(PlainStep)
      \/ /\ Parts(Tail(todo), CopyStep, LoopStep) /\ step \in CopyStep
         /\ \A i \in 1..Len(performed) : performed[i].n < i
  <2>1. CASE todo \in Seq(PlainStep)
    BY <1>1, <2>1, HeadTail
  <2>2. CASE Parts(todo, CopyStep, LoopStep) /\ \A i \in 1..Len(performed) : performed[i].n < i
    <3>1. step \notin LoopStep
      BY <1>1 DEF LoopStep
    <3> QED BY <1>1, <2>2, <3>1, PartsTail
  <2> QED BY <1>1, <2>1, <2>2 DEF RunInv, OnceInv
<1>10. acked \subseteq acked'
  BY DEF Exchange
<1>11. CoreWrite \in acked \/ Backed(todo)
  BY <1>1 DEF RunInv, OnceInv
<1>12. CoreWrite \in acked' \/ Ensures(step, CoreWrite) \/ Backed(Tail(todo))
  BY <1>1, <1>10, <1>11, NextStep, BackedTail DEF RunInv
<1>7. CASE performed' = performed
  <2>1. Performed' = Performed /\ Distinct'
    BY <1>5, <1>7, <1>10 DEF Performed, Distinct
  <2> QED BY <1>3, <1>4, <1>6, <1>7, <1>12, <2>1
<1>8. CASE step \in WriteStep /\ performed' = Append(performed, Write(step, step.n))
  <2> DEFINE w == Write(step, step.n)
  <2>1. WritesOf(step) = {w} /\ w \in WriteRecord
    BY <1>8, WriteKinds
  <2>2. w \notin Performed
    BY <1>3, <1>4, <2>1
  <2>3. step \in CopyStep => w.n = 0
    BY <1>1 DEF CopyStep, Answers, Write
  <2> HIDE DEF w
  <2>8. w = Repeat => CoreWrite \in acked
    BY <1>1, <1>11, <2>1, NextStep, BackedTail DEF RunInv
  <2>9. /\ performed' \in Seq(WriteRecord) /\ Performed' = Performed \cup {w}
        /\ Len(performed') = Len(performed) + 1
        /\ \A i \in 1..Len(performed) : performed'[i] = performed[i]
        /\ performed'[Len(performed) + 1] = w
        /\ \A i, j \in 1..Len(performed') : performed'[i] = performed'[j] => i = j
    BY <1>5, <1>8, <2>1, <2>2, PerformedGrows DEF Distinct, w
  <2>4. Distinct'
    BY <1>5, <1>10, <2>8, <2>9 DEF Distinct
  <2>5. (W \ WritesOf(step)) \cap Performed' = {}
    BY <1>3, <2>1, <2>9
  <2>6. Len(performed) \in Nat
    BY <1>5 DEF Distinct
  <2>7. step \in CopyStep /\ (\A i \in 1..Len(performed) : performed[i].n < i)
          => \A i \in 1..Len(performed') : performed'[i].n < i
    BY <2>3, <2>6, <2>9
  <2> QED BY <1>4, <1>6, <1>12, <2>4, <2>5, <2>7
<1>9. \/ performed' = performed
      \/ step \in WriteStep /\ performed' = Append(performed, Write(step, step.n))
  <2>1. CASE step \in Gets \cup Rereads
    BY <2>1, ReadSent
  <2>2. CASE step \in WriteStep
    BY <2>2, WriteKinds, WriteSent
  <2> QED BY <1>2, <2>1, <2>2
<1> QED BY <1>7, <1>8, <1>9

\* The next step, for the steps that go on with the rest of the handler.
LEMMA RestFollows ==
    ASSUME RunInv, Running("request"), NEW did \in BOOLEAN, NEW ok,
           Exchange(step, step.n, did, ok), Continue(Tail(todo)),
           step \in WriteStep /\ step.fail \in Strict => ok
    PROVE  RunInv'
<1>1. /\ pc = "run" /\ todo # <<>> /\ step.kind = "request" /\ step = Head(todo)
      /\ todo' = Tail(todo) /\ UNCHANGED <<cfg, call, pc, answer>>
  BY DEF Running, step, Continue
<1>2. step \in Gets \/ step \in Rereads \/ step \in WriteStep
  BY <1>1, NextStep DEF RunInv
<1>3. /\ todo \in Seq(AnyStep) /\ Parts(Tail(todo), ReadStep, Later)
      /\ step \notin ReadStep => todo \in Seq(Later)
      /\ todo \in Seq(Later) => Tail(todo) \in Seq(Later)
  BY <1>1, NextStep DEF RunInv
<1>8. ASSUME NEW w, Ensures(step, w) PROVE w \in acked'
  <2>1. step \notin Answers(Codes)
    BY <1>1 DEF Answers
  <2>2. step \in WriteStep /\ w = Write(step, step.n) /\ step.fail \in Strict
    <3>1. CASE step \in Gets
      BY <1>8, <2>1, <3>1, GetKinds, ReadKinds DEF Ensures
    <3>2. CASE step \in Rereads
      BY <1>8, <3>2, RereadKinds
    <3>3. CASE step \in WriteStep
      BY <1>8, <2>1, <3>3, WriteKinds DEF Ensures
    <3> QED BY <1>2, <3>1, <3>2, <3>3
  <2> QED BY <2>2, WriteSent, WriteKinds
<1>4. Distinct' /\ Fits(todo)'
  <2>1. Ensures(step, CoreWrite) => CoreWrite \in acked'
    BY <1>8
  <2> QED BY <1>1, <2>1, Recorded DEF Fits
<1>5. Wrote' => todo' \in Seq(Later)
  <2>1. CASE step \in Gets \cup Rereads
    BY <1>1, <1>3, <2>1, ReadSent DEF RunInv, OrderInv
  <2>2. CASE step \in WriteStep
    <3>1. step \notin ReadStep
      BY <2>2, ReadKinds
    <3> QED BY <1>1, <1>3, <3>1
  <2> QED BY <1>2, <2>1, <2>2
<1>6. cfg.read_only => ~Wrote' /\ Quiet(todo')
  <2> SUFFICES ASSUME cfg.read_only PROVE ~Wrote' /\ Quiet(todo')
    OBVIOUS
  <2>1. step \in ReadStep /\ Quiet(Tail(todo))
    BY <1>1, QuietStep
  <2>2. step \in Gets
    BY <1>2, <2>1, ReadKinds
  <2> QED BY <1>1, <2>1, <2>2, ReadSent DEF RunInv, QuietInv
<1>7. ASSUME NEW w \in Promised(call) PROVE w \in acked' \/ Delivers(todo', w)
  <2>1. acked \subseteq acked'
    BY <1>2, ReadSent, WriteSent, WriteKinds
  <2>2. w \in acked \/ Delivers(todo, w)
    BY <1>1 DEF RunInv, DoneInv
  <2>3. CASE Delivers(todo, w) /\ ~Ensures(step, w)
    BY <1>1, <1>3, <2>3, DeliversTail
  <2>4. CASE Ensures(step, w)
    BY <1>8, <2>4
  <2> QED BY <2>1, <2>2, <2>3, <2>4
<1> QED BY <1>1, <1>3, <1>4, <1>5, <1>6, <1>7, CallGoesOn

LEMMA RequestOkStep == ASSUME RunInv, RequestOk PROVE RunInv'
<1>1. Running("request") /\ Exchange(step, step.n, TRUE, TRUE) /\ Continue(Tail(todo))
  BY DEF RequestOk
<1> QED BY <1>1, RestFollows

\* The recovery sends the rejected write again, at most once.
LEMMA Recovery ==
    ASSUME NEW x \in WriteStep, NEW c, NEW g
    PROVE  LET p == recover_required_fields(c, g, x) IN
           /\ p \in Seq(LateStep) /\ Once(p, WritesOf(x)) /\ Tight(p)
           /\ \A w : Ensures(x, w) => Delivers(p, w)
<1> DEFINE p == recover_required_fields(c, g, x)
           w == Write(x, x.n)
           give == Answer("VALIDATION_FAILED")
<1>1. /\ x \in LateStep /\ WritesOf(x) = {w} /\ x \notin Answers(Codes)
  BY WriteKinds
<1>2. /\ give \in Seq(ReadStep) /\ give \in Seq(LateStep)
      /\ Len(give) = 1 /\ give[1] \in Answers(Codes)
  <2>1. [kind |-> "answer", code |-> "VALIDATION_FAILED"] \in GiveUp
    BY DEF GiveUp, Answers
  <2>2. give \in Seq(LateStep)
    BY <2>1, AnswerKinds, One DEF Answer
  <2> QED BY <2>2, AnswerIn DEF Codes
<1>3. CASE ~g.autofill
  <2>1. p = give
    BY <1>3 DEF recover_required_fields
  <2>2. Once(p, {}) /\ Tight(p)
    BY <1>2, <2>1, ReadsSound
  <2>3. \A v : Delivers(p, v)
    BY <1>2, <2>1 DEF Delivers, Ensures
  <2> QED BY <1>2, <2>1, <2>2, <2>3, OnceWider
<1>4. CASE g.autofill
  <2> DEFINE y == [x EXCEPT !.fail = "error"]
             f == [kind |-> "either", left |-> <<y>>, right |-> give]
             d == fetch_definitions_for_autofill(c)
  <2>1. d \in Seq(Gets)
    <3>1. {"giveup", "defaults"} \subseteq Failures \ {"stop", "recover", "reread"}
      BY DEF Failures
    <3>2. When(c.tool = "update_redmine_issue", get_issue) \o get_project \in Seq(Gets)
      BY ApiReads, WhenIn, Join
    <3> QED BY <3>1, <3>2, ApiReads, FailingGets, Join DEF fetch_definitions_for_autofill
  <2>2. p = d \o <<f>>
    BY <1>4 DEF recover_required_fields, compute_autofill, Either
  <2>3. y \in Requests(WriteVerbs, {"error"}) /\ Write(y, y.n) = w
    BY DEF WriteStep, Requests, Write
  <2> HIDE DEF y
  <2>4. f \in RetryFork /\ f.left = <<y>>
    <3>1. <<y>> \in Retries
      BY <2>3, One DEF Retries
    <3> QED BY <3>1 DEF RetryFork
  <2> HIDE DEF f, d, w
  <2>5. f.left[1] = y
    BY <2>4
  <2>6. y \in WriteStep /\ WritesOf(y) = {w} /\ WritesOf(f) = {w} /\ f \in LateStep /\ ~Loose(f)
        /\ f \notin WriteStep /\ f \notin Rereads
    BY <2>3, <2>4, <2>5, RetryKinds, WriteKinds
  <2>7. <<f>> \in Seq(LateStep) /\ Len(<<f>>) = 1 /\ <<f>>[1] = f
    BY <2>6, One
  <2>8. Once(<<f>>, {w}) /\ Tight(<<f>>) /\ Delivers(<<f>>, w)
    BY <2>6, <2>7 DEF Once, Tight, Delivers, Ensures
  <2>9. d \in Seq(LateStep) /\ Once(d, {}) /\ Tight(d)
    BY <2>1, GetsRead, ReadsSound
  <2>10. p \in Seq(LateStep) /\ Once(p, {w}) /\ Tight(p) /\ Delivers(p, w)
    <3>1. {} \cap {w} = {} /\ {} \cup {w} = {w}
      OBVIOUS
    <3>2. Once(d \o <<f>>, {} \cup {w})
      BY <2>7, <2>8, <2>9, <3>1, OnceJoin
    <3>3. Tight(d \o <<f>>) /\ d \o <<f>> \in Seq(LateStep)
      BY <2>7, <2>8, <2>9, TightJoin, Join
    <3>4. Delivers(d \o <<f>>, w)
      BY <2>7, <2>8, <2>9, DeliversAfter
    <3> QED BY <2>2, <3>1, <3>2, <3>3, <3>4
  <2>11. \A v : Ensures(x, v) => v = w
    BY <1>1 DEF Ensures
  <2> QED BY <1>1, <2>10, <2>11
<1> QED BY <1>3, <1>4

\* After a rejected read-back, the same for the update that it read back.
LEMMA ReadBackRecovery ==
    ASSUME NEW c, NEW g
    PROVE  LET p == recover_read_back(c, g) IN
           p \in Seq(LateStep) /\ Once(p, {Repeat}) /\ Tight(p)
<1> DEFINE x == [update_issue[1] EXCEPT !.n = AGAIN]
           p == recover_required_fields(c, g, x)
           t == Tail(update_issue)
<1>1. x = [kind |-> "request", verb |-> "PUT", res |-> "issue", n |-> 1, fail |-> "error"]
  BY UpdateIssueIs DEF Request, AGAIN
<1>2. recover_read_back(c, g) = p \o t
  BY DEF recover_read_back
<1> HIDE DEF x
<1>3. x \in WriteStep /\ Write(x, x.n) = Repeat
  BY <1>1 DEF WriteStep, WriteVerbs, Requests, Resources, Failures, WriteFails, Write, Repeat, CoreWrite,
              AGAIN
<1>4. p \in Seq(LateStep) /\ Once(p, {Repeat}) /\ Tight(p)
  BY <1>3, Recovery, WriteKinds
<1>5. t \in Seq(LateStep) /\ Once(t, {}) /\ Tight(t)
  BY UpdateIssueIs, GetIn, GetsRead, ReadsSound DEF Resources
<1> HIDE DEF p, t
<1>6. Once(p \o t, {Repeat} \cup {})
  <2>1. {Repeat} \cap {} = {}
    OBVIOUS
  <2> QED BY <1>4, <1>5, <2>1, OnceJoin
<1>7. {Repeat} \cup {} = {Repeat}
  OBVIOUS
<1> QED BY <1>2, <1>4, <1>5, <1>6, <1>7, TightJoin, Join

LEMMA ErrorCodes ==
    ASSUME NEW cause \in Causes
    PROVE  to_tool_error(cause) \notin Refusals \cup {"ok", "none"}
  BY DEF Causes, to_tool_error, Refusals

LEMMA RequestFailsStep ==
    ASSUME RunInv, NEW cause \in Causes, NEW did \in BOOLEAN, RequestFails(cause, did)
    PROVE  RunInv'
<1>1. /\ Running("request") /\ Exchange(step, step.n, did, FALSE) /\ OnFailure(step, cause)
      /\ did => MayHaveHappened(cause)
  BY DEF RequestFails
<1>2. pc = "run" /\ todo # <<>> /\ step.kind = "request" /\ step = Head(todo)
  BY <1>1 DEF Running, step
<1>3. step \in Gets \/ step \in Rereads \/ step \in WriteStep
  BY <1>2, NextStep DEF RunInv
<1>4. ASSUME NEW code, NEW says, Reply(code, says), code \notin Refusals \cup {"ok"}
      PROVE  RunInv'
  <2>1. Distinct'
    BY <1>1, Recorded
  <2>2. cfg.read_only => ~Wrote'
    <3>1. cfg.read_only => step \in Gets
      BY <1>2, <1>3, QuietStep, ReadKinds
    <3> QED BY <1>1, <3>1, ReadSent DEF RunInv, QuietInv
  <2> QED BY <1>2, <1>4, <2>1, <2>2, CallEnds
<1>5. ASSUME Continue(Tail(todo)), step.fail \notin Strict PROVE RunInv'
  BY <1>1, <1>5, RestFollows
<1>6. ASSUME step.fail = "stop", Continue(<<>>) PROVE RunInv'
  <2>1. step \in WriteStep /\ step \notin ReadStep /\ Loose(step)
    BY <1>3, <1>6, GetKinds, ReadKinds, RereadKinds DEF Loose
  <2>2. todo' = <<>> /\ UNCHANGED <<cfg, call, pc, answer>>
    BY <1>6 DEF Continue
  <2>3. Distinct' /\ Fits(todo)'
    <3>1. /\ Once(<<>>, {}) /\ {} \cap Performed' = {} /\ <<>> \in Seq(PlainStep)
          /\ Backed(<<>>)
      BY Nothing, ReadsSound DEF Sound
    <3> QED BY <1>1, <2>2, <3>1, Recorded DEF Fits
  <2>4. ~cfg.read_only
    BY <1>2, <2>1, QuietStep
  <2>5. ASSUME NEW w \in Promised(call) PROVE w \in acked'
    <3>1. w \in acked \/ Delivers(todo, w)
      BY <1>2 DEF RunInv, DoneInv
    <3>2. ~Ensures(step, w)
      BY <1>6, <2>1, WriteKinds DEF Ensures, Strict
    <3>3. ~Delivers(todo, w)
      BY <1>2, <2>1, <3>2, NextStep, DeliversTail DEF RunInv
    <3> QED BY <1>1, <2>1, <3>1, <3>3, WriteSent, WriteKinds
  <2>6. Parts(todo', ReadStep, Later) /\ todo' \in Seq(Later)
    BY <2>2, Nothing, PartsSecond
  <2> QED BY <1>2, <2>2, <2>3, <2>4, <2>5, <2>6, CallGoesOn
<1>7. ASSUME step.fail = "recover", Recoverable(cause),
             Continue(recover_required_fields(call, cfg, step) \o Tail(todo))
      PROVE  RunInv'
  <2> DEFINE p == recover_required_fields(call, cfg, step)
  <2>1. step \in WriteStep /\ step \notin ReadStep
    BY <1>3, <1>7, GetKinds, ReadKinds, RereadKinds
  <2>2. /\ p \in Seq(LateStep) /\ Once(p, WritesOf(step)) /\ Tight(p)
        /\ \A w : Ensures(step, w) => Delivers(p, w)
    BY <1>7, <2>1, Recovery
  <2>3. ~did
    BY <1>1, <1>7 DEF Recoverable, MayHaveHappened
  <2>4. performed' = performed /\ acked' = acked
    BY <1>1, <2>3 DEF Exchange
  <2>5. todo' = p \o Tail(todo) /\ UNCHANGED <<cfg, call, pc, answer>>
    BY <1>7 DEF Continue
  <2>6. p \in Seq(PlainStep) /\ todo \in Seq(PlainStep)
    BY <1>2, <1>7, <2>2, PlainTodo, Wider DEF PlainStep
  <2> HIDE DEF p
  <2> QED BY <1>2, <2>1, <2>2, <2>4, <2>5, <2>6, Replaced
<1>20. ASSUME step.fail = "reread", Continue(recover_read_back(call, cfg) \o Tail(todo))
       PROVE  RunInv'
  <2> DEFINE p == recover_read_back(call, cfg)
  <2>1. step \in Rereads
    BY <1>3, <1>20, GetKinds DEF WriteStep, WriteFails, Requests
  <2>3. step \notin ReadStep /\ WritesOf(step) = {Repeat} /\ \A w : ~Ensures(step, w)
    BY <2>1, RereadKinds
  <2>4. p \in Seq(LateStep) /\ Once(p, WritesOf(step)) /\ Tight(p)
    BY <2>3, ReadBackRecovery
  <2>5. performed' = performed /\ acked' = acked
    BY <1>1, <2>1, ReadSent
  <2>6. todo' = p \o Tail(todo) /\ UNCHANGED <<cfg, call, pc, answer>>
    BY <1>20 DEF Continue
  <2>7. p \in Seq(PlainStep) /\ todo \in Seq(PlainStep)
    BY <1>2, <1>20, <2>4, PlainTodo, Wider DEF PlainStep
  <2> HIDE DEF p
  <2> QED BY <1>2, <2>3, <2>4, <2>5, <2>6, <2>7, Replaced
<1>8. {"FILE_TOO_LARGE", "VALIDATION_FAILED", "FORBIDDEN"} \cap (Refusals \cup {"ok"}) = {}
  BY DEF Refusals
<1>9. to_tool_error(cause) \notin Refusals \cup {"ok"}
  BY ErrorCodes
<1> HIDE DEF step
<1>10. CASE step.fail = "error" /\ Reply(to_tool_error(cause), FALSE)
  BY <1>4, <1>9, <1>10
<1>11. CASE step.fail = "tells" /\ Reply(to_tool_error(cause), TRUE)
  BY <1>4, <1>9, <1>11
<1>12. CASE step.fail \in {"skip", "item"} /\ Continue(Tail(todo))
  BY <1>5, <1>12 DEF Strict
<1>13. CASE step.fail = "stop" /\ Continue(<<>>)
  BY <1>6, <1>13
<1>14. CASE step.fail = "upload"
            /\ Reply(IF cause = "invalid" THEN "FILE_TOO_LARGE" ELSE to_tool_error(cause), FALSE)
  BY <1>4, <1>8, <1>9, <1>14
<1>15. CASE step.fail = "giveup" /\ Reply("VALIDATION_FAILED", FALSE)
  BY <1>4, <1>8, <1>15
<1>16. CASE step.fail = "defaults" /\ (Continue(Tail(todo)) \/ Reply("VALIDATION_FAILED", FALSE))
  BY <1>4, <1>5, <1>8, <1>16 DEF Strict
<1>17. CASE step.fail = "renamed"
            /\ (Reply("FORBIDDEN", TRUE) \/ Reply(to_tool_error(cause), FALSE))
  BY <1>4, <1>8, <1>9, <1>17
<1>18. CASE step.fail = "recover" /\ Reply(to_tool_error(cause), FALSE)
  BY <1>4, <1>9, <1>18
<1>19. CASE step.fail = "recover" /\ Recoverable(cause)
            /\ Continue(recover_required_fields(call, cfg, step) \o Tail(todo))
  BY <1>7, <1>19
<1>21. CASE step.fail = "reread" /\ Reply(to_tool_error(cause), FALSE)
  BY <1>4, <1>9, <1>21
<1>22. CASE step.fail = "reread" /\ Continue(recover_read_back(call, cfg) \o Tail(todo))
  BY <1>20, <1>22
<1> QED
  BY <1>1, <1>10, <1>11, <1>12, <1>13, <1>14, <1>15, <1>16, <1>17, <1>18, <1>19, <1>21, <1>22
     DEF OnFailure

LEMMA BranchStep == ASSUME RunInv, Branch PROVE RunInv'
<1>1. /\ pc = "run" /\ todo # <<>> /\ step.kind = "either" /\ NothingSent
  BY DEF Branch, Running
<1>2. PICK p \in {step.left, step.right} : Continue(p \o Tail(todo))
  BY DEF Branch
<1>3. /\ todo' = p \o Tail(todo) /\ UNCHANGED <<cfg, call, pc, answer, performed, acked>>
      /\ Wrote' = Wrote
  BY <1>1, <1>2 DEF Continue, NothingSent, Wrote
<1>4. todo \in Seq(PlainStep)
  BY <1>1, PlainTodo
<1>5. \/ step \in RetryFork
      \/ ~Wrote /\ step \in ReadStep /\ step.left \in Seq(ReadStep) /\ step.right \in Seq(ReadStep)
  BY <1>1, NextStep DEF RunInv
<1>6. step \notin Answers(Codes)
  BY <1>1 DEF Answers
<1> HIDE DEF step
<1>7. CASE /\ ~Wrote /\ step \in ReadStep
           /\ step.left \in Seq(ReadStep) /\ step.right \in Seq(ReadStep)
  <2>1. p \in Seq(ReadStep) /\ p \in Seq(PlainStep)
    BY <1>7, Wider DEF PlainStep
  <2>2. WritesOf(step) = {} /\ \A w : ~Ensures(step, w)
    BY <1>6, <1>7, ReadKinds DEF Ensures
  <2>3. Once(p, WritesOf(step)) /\ Tight(p)
    BY <2>1, <2>2, ReadsSound
  <2> QED BY <1>1, <1>3, <1>4, <1>7, <2>1, <2>2, <2>3, Replaced
<1>8. CASE step \in RetryFork
  <2>1. /\ step \notin WriteStep /\ step.left \in Seq(WriteStep) /\ Len(step.left) = 1
        /\ step.left[1] \in WriteStep /\ step.left[1].fail = "error"
        /\ step.right = Answer("VALIDATION_FAILED") /\ WritesOf(step) = WritesOf(step.left[1])
        /\ step \notin ReadStep
    BY <1>8, RetryKinds, ReadKinds
  <2>2. CASE p = step.left
    <3>1. WriteStep \subseteq LateStep /\ ~Loose(p[1])
      BY <2>1, <2>2, WriteKinds
    <3>2. p \in Seq(LateStep) /\ p \in Seq(PlainStep)
      BY <2>1, <2>2, <3>1, Wider DEF PlainStep
    <3>3. Once(p, WritesOf(step)) /\ Tight(p)
      BY <2>1, <2>2, <3>1 DEF Once, Tight
    <3>4. ASSUME NEW w, Ensures(step, w) PROVE Delivers(p, w)
      <4>1. w \in WritesOf(p[1]) /\ p[1].fail = "error"
        BY <1>6, <2>1, <2>2, <3>4 DEF Ensures
      <4>2. p[1] \notin Rereads
        BY <2>1, <2>2, RereadKinds
      <4>3. Ensures(p[1], w)
        BY <4>1, <4>2 DEF Ensures, Strict
      <4> QED BY <2>1, <2>2, <4>3 DEF Delivers
    <3> QED BY <1>1, <1>3, <1>4, <2>1, <3>2, <3>3, <3>4, Replaced
  <2>3. CASE p = step.right
    <3>1. p = Answer("VALIDATION_FAILED")
      BY <2>1, <2>3
    <3>2. /\ p \in Seq(ReadStep) /\ Len(p) = 1 /\ p[1] \in Answers(Codes)
      BY <3>1, AnswerIn DEF Codes
    <3>3. p \in Seq(LateStep) /\ p \in Seq(PlainStep)
      <4>1. [kind |-> "answer", code |-> "VALIDATION_FAILED"] \in GiveUp
        BY DEF GiveUp, Answers
      <4>2. p \in Seq(LateStep)
        BY <3>1, <4>1, AnswerKinds, One DEF Answer
      <4> QED BY <4>2, Wider DEF PlainStep
    <3>4. Once(p, WritesOf(step)) /\ Tight(p)
      BY <3>2, ReadsSound, OnceWider
    <3>5. \A w : Delivers(p, w)
      BY <3>2 DEF Delivers, Ensures
    <3> QED BY <1>1, <1>3, <1>4, <2>1, <3>3, <3>4, <3>5, Replaced
  <2> QED BY <2>2, <2>3
<1> QED BY <1>5, <1>7, <1>8

\* Steps that end the call without a request.
LEMMA EndStep == ASSUME RunInv, Refuses \/ Succeeds \/ HandlerPanics PROVE RunInv'
<1>1. pc = "run" /\ NothingSent
  BY DEF Refuses, Succeeds, HandlerPanics, Running
<1>2. Wrote' = Wrote /\ acked' = acked /\ Distinct'
  BY <1>1 DEF NothingSent, Wrote, RunInv, OnceInv, Distinct, Performed
<1>3. cfg.read_only => ~Wrote'
  BY <1>2 DEF RunInv, QuietInv
<1>4. CASE Refuses
  <2>1. todo # <<>> /\ step.kind = "answer" /\ Reply(step.code, FALSE)
    BY <1>4 DEF Refuses, Running
  <2>2. step \in Answers(Codes) /\ (Wrote => step \in GiveUp)
    BY <1>1, <2>1, NextStep DEF RunInv
  <2>3. step.code # "ok" /\ (Wrote => step.code \notin Refusals)
    BY <2>2 DEF Answers, Codes, GiveUp, Refusals
  <2> QED BY <1>1, <1>2, <1>3, <2>1, <2>3, CallEnds
<1>5. CASE Succeeds
  <2>1. todo = <<>> /\ Reply("ok", FALSE)
    BY <1>5 DEF Succeeds
  <2>2. Promised(call) \subseteq acked'
    BY <1>1, <1>2, <2>1, DeliversNothing DEF RunInv, DoneInv
  <2> QED BY <1>1, <1>2, <1>3, <2>1, <2>2, CallEnds DEF Refusals
<1>6. CASE HandlerPanics
  <2>1. Reply("INTERNAL", FALSE)
    BY <1>6 DEF HandlerPanics
  <2> QED BY <1>1, <1>2, <1>3, <2>1, CallEnds DEF Refusals
<1> QED BY <1>4, <1>5, <1>6

\* The loop of copy_issue: everything promised is done, and nothing but the loop is left.
LEMMA InLoop ==
    ASSUME RunInv, Running("level") \/ Running("child")
    PROVE  /\ pc = "run" /\ todo # <<>> /\ step \in LoopStep /\ todo \in Seq(LoopStep)
           /\ Tail(todo) \in Seq(LoopStep) /\ ~cfg.read_only /\ Promised(call) \subseteq acked
           /\ Distinct /\ \A i \in 1..Len(performed) : performed[i].n < i
<1>1. pc = "run" /\ todo # <<>> /\ step.kind \in {"level", "child"} /\ step = Head(todo)
  BY DEF Running, step
<1>2. step \in LoopStep
  BY <1>1, NextStep DEF RunInv
<1>3. todo \notin Seq(PlainStep)
  <2>1. step \notin ReadStep /\ step \notin LateStep
    BY <1>2, LoopKinds
  <2> QED BY <1>1, <2>1, HeadTail DEF PlainStep
<1>4. Parts(todo, CopyStep, LoopStep) /\ \A i \in 1..Len(performed) : performed[i].n < i
  BY <1>1, <1>3 DEF RunInv, OnceInv
<1>5. todo \in Seq(LoopStep)
  <2>1. step \notin CopyStep
    BY <1>1 DEF CopyStep, Answers
  <2> QED BY <1>1, <1>4, <2>1, PartsTail
<1>6. ~cfg.read_only
  BY <1>1, <1>2, LoopKinds, QuietStep
<1>7. Promised(call) \subseteq acked
  BY <1>1, <1>5, LoopsWriteNothing DEF RunInv, DoneInv
<1> QED BY <1>1, <1>2, <1>4, <1>5, <1>6, <1>7, HeadTail DEF RunInv, OnceInv, Distinct

LEMMA LoopGoesOn ==
    ASSUME RunInv, Running("level") \/ Running("child"), UNCHANGED <<cfg, call, pc, answer>>,
           todo' \in Seq(LoopStep), acked \subseteq acked', Distinct',
           \A i \in 1..Len(performed') : performed'[i].n < i
    PROVE  RunInv'
<1>1. pc = "run" /\ ~cfg.read_only /\ Promised(call) \subseteq acked
  BY InLoop
<1>2. Parts(todo', ReadStep, Later) /\ todo' \in Seq(Later)
  BY Wider, PartsSecond DEF Later
<1>3. Fits(todo)'
  <2>1. /\ Once(todo', {}) /\ {} \cap Performed' = {} /\ Backed(todo')
        /\ Parts(todo', CopyStep, LoopStep)
    BY LoopsWriteNothing, PartsSecond
  <2> QED BY <2>1 DEF Fits
<1> QED BY <1>1, <1>2, <1>3, CallGoesOn

\* The list of subtasks is a read; a copy is a write with a number of its own.
LEMMA ListSent ==
    ASSUME NEW did, NEW ok, Exchange(list_subtasks[1], 0, did, ok)
    PROVE  performed' = performed /\ acked' = acked
<1>1. list_subtasks[1] = Request("GET", "issue")
  BY DEF list_subtasks, Get
<1>2. ~Mutates(list_subtasks[1])
  BY <1>1 DEF Mutates, Request
<1> QED BY <1>2 DEF Exchange

LEMMA ChildSent ==
    ASSUME RunInv, Running("child"), NEW did \in BOOLEAN, NEW ok,
           Exchange(create_issue[1], Len(performed), did, ok)
    PROVE  acked \subseteq acked' /\ Distinct' /\ \A i \in 1..Len(performed') : performed'[i].n < i
<1> DEFINE k == Len(performed)
           w == [verb |-> "POST", res |-> "issue", n |-> k]
<1>1. Distinct /\ \A i \in 1..k : performed[i].n < i
  BY InLoop
<1>2. k \in Nat
  BY <1>1 DEF Distinct
<1>3. create_issue[1] = Request("POST", "issue")
  BY DEF create_issue, Post
<1>4. Mutates(create_issue[1]) /\ Write(create_issue[1], k) = w
  BY <1>3 DEF Mutates, Request, Write
<1>5. acked \subseteq acked' /\ performed' = IF did THEN Append(performed, w) ELSE performed
  BY <1>4, WriteSent
<1>6. CASE ~did
  BY <1>1, <1>5, <1>6 DEF Distinct, Performed
<1>7. CASE did
  <2>1. w \in WriteRecord /\ w.n = k /\ w # Repeat
    BY <1>2 DEF WriteRecord, WriteVerbs, Resources, Repeat, CoreWrite
  <2> HIDE DEF w
  <2>2. w \notin Performed
    <3>1. \A i \in 1..k : performed[i].n < i /\ performed[i] \in WriteRecord
      BY <1>1 DEF Distinct
    <3>2. \A i \in 1..k : performed[i].n \in Nat
      BY <3>1 DEF WriteRecord
    <3> QED BY <1>2, <2>1, <3>1, <3>2 DEF Performed
  <2>3. /\ performed' \in Seq(WriteRecord) /\ Performed' = Performed \cup {w}
        /\ Len(performed') = k + 1 /\ performed'[k + 1] = w
        /\ \A i \in 1..k : performed'[i] = performed[i]
        /\ \A i, j \in 1..Len(performed') : performed'[i] = performed'[j] => i = j
    BY <1>1, <1>5, <1>7, <2>1, <2>2, PerformedGrows DEF Distinct
  <2>5. Distinct'
    BY <1>1, <1>5, <2>1, <2>3 DEF Distinct
  <2>4. \A i \in 1..Len(performed') : performed'[i].n < i
    BY <1>1, <1>2, <2>1, <2>3
  <2> QED BY <1>5, <2>4, <2>5
<1> QED BY <1>6, <1>7

LEMMA LoopStepNext ==
    ASSUME RunInv,
           \/ LevelTooDeep \/ LevelFails \/ \E k \in 0..MaxChildren : LevelListed(k)
           \/ ChildOverCap \/ ChildCopied \/ \E did \in BOOLEAN : ChildFails(did)
    PROVE  RunInv'
<1>1. ASSUME Running("level") \/ Running("child"), CopyOn, NothingSent,
             todo' \in {Tail(todo), <<>>}
      PROVE  RunInv'
  <2>1. /\ Tail(todo) \in Seq(LoopStep) /\ Distinct /\ <<>> \in Seq(LoopStep)
        /\ \A i \in 1..Len(performed) : performed[i].n < i
    BY <1>1, InLoop, Nothing
  <2>2. UNCHANGED <<cfg, call, pc, answer>> /\ performed' = performed /\ acked' = acked
    BY <1>1 DEF CopyOn, NothingSent
  <2>3. Distinct' /\ todo' \in Seq(LoopStep)
    BY <1>1, <2>1, <2>2 DEF Distinct, Performed
  <2> QED BY <1>1, <2>1, <2>2, <2>3, LoopGoesOn
<1>2. ASSUME Running("level"), CopyOn, NEW did, NEW ok, Exchange(list_subtasks[1], 0, did, ok),
             todo' \in Seq(LoopStep)
      PROVE  RunInv'
  <2>1. performed' = performed /\ acked' = acked /\ UNCHANGED <<cfg, call, pc, answer>>
    BY <1>2, ListSent DEF CopyOn
  <2>2. Distinct /\ \A i \in 1..Len(performed) : performed[i].n < i
    BY <1>2, InLoop
  <2>3. Distinct'
    BY <2>1, <2>2 DEF Distinct, Performed
  <2> QED BY <1>2, <2>1, <2>2, <2>3, LoopGoesOn
<1>3. ASSUME Running("child"), CopyOn, NEW did \in BOOLEAN, NEW ok,
             Exchange(create_issue[1], Len(performed), did, ok), todo' \in Seq(LoopStep)
      PROVE  RunInv'
  <2>1. UNCHANGED <<cfg, call, pc, answer>>
    BY <1>3 DEF CopyOn
  <2> QED BY <1>3, <2>1, ChildSent, LoopGoesOn
<1>4. CASE LevelTooDeep
  BY <1>1, <1>4 DEF LevelTooDeep
<1>5. CASE LevelFails
  <2>1. Running("level") /\ todo' = Tail(todo) /\ CopyOn
        /\ Exchange(list_subtasks[1], 0, FALSE, FALSE)
    BY <1>5 DEF LevelFails
  <2> QED BY <1>2, <2>1, InLoop
<1>6. ASSUME NEW k \in 0..MaxChildren, LevelListed(k) PROVE RunInv'
  <2>1. /\ Running("level") /\ CopyOn /\ Exchange(list_subtasks[1], 0, TRUE, TRUE)
        /\ todo' = [i \in 1..k |-> CopyChild(step.depth)[1]] \o Tail(todo)
    BY <1>6 DEF LevelListed
  <2>2. step \in LoopStep /\ Tail(todo) \in Seq(LoopStep)
    BY <2>1, InLoop
  <2>3. CopyChild(step.depth)[1] \in LoopStep
    BY <2>2, LoopKinds, CopyIn
  <2>4. [i \in 1..k |-> CopyChild(step.depth)[1]] \in Seq(LoopStep)
    BY <2>3, CopyAssumption
  <2>5. todo' \in Seq(LoopStep)
    BY <2>1, <2>2, <2>4, Join
  <2> QED BY <1>2, <2>1, <2>5
<1>7. CASE ChildOverCap
  BY <1>1, <1>7 DEF ChildOverCap
<1>8. CASE ChildCopied
  <2>1. /\ Running("child") /\ CopyOn /\ Exchange(create_issue[1], Len(performed), TRUE, TRUE)
        /\ todo' = Tail(todo) \o CopyLevel(step.depth + 1)
    BY <1>8 DEF ChildCopied
  <2>2. step \in LoopStep /\ Tail(todo) \in Seq(LoopStep)
    BY <2>1, InLoop
  <2>3. step.depth + 1 \in Nat
    BY <2>2, LoopKinds
  <2>4. todo' \in Seq(LoopStep)
    BY <2>1, <2>2, <2>3, CopyIn, Join
  <2> QED BY <1>3, <2>1, <2>4
<1>9. ASSUME NEW did \in BOOLEAN, ChildFails(did) PROVE RunInv'
  <2>1. /\ Running("child") /\ CopyOn /\ Exchange(create_issue[1], Len(performed), did, FALSE)
        /\ todo' = Tail(todo)
    BY <1>9 DEF ChildFails
  <2> QED BY <1>3, <2>1, InLoop
<1> QED BY <1>4, <1>5, <1>6, <1>7, <1>8, <1>9
------------------------------------------------------------------------------
(* From one call to the next *)

\* A call that has sent nothing yet.
Fresh == sent = {} /\ acked = {} /\ performed = <<>>

LEMMA FreshNow == Fresh => ~Wrote /\ Performed = {} /\ Distinct
<1> SUFFICES ASSUME Fresh PROVE ~Wrote /\ Performed = {} /\ Distinct
  OBVIOUS
<1>1. Len(performed) = 0 /\ 1..0 = {} /\ performed \in Seq(WriteRecord)
  BY Nothing DEF Fresh
<1>2. ~Wrote /\ Performed = {}
  BY <1>1 DEF Wrote, Performed, Fresh
<1> QED BY <1>1, <1>2 DEF Distinct

\* Before its handler runs, and when it was refused then, nothing more is asked of a call.
LEMMA WaitingNow == CallInv /\ Fresh /\ pc # "run" /\ answer # "ok" => RunInv
<1> SUFFICES ASSUME CallInv, Fresh, pc # "run", answer # "ok" PROVE RunInv
  OBVIOUS
<1>1. ~Wrote /\ Distinct
  BY FreshNow
<1> QED BY <1>1 DEF RunInv, OrderInv, QuietInv, OnceInv, DoneInv, Distinct

LEMMA FreshNext == Fresh' => (~Wrote /\ Performed = {} /\ Distinct)'
  BY FreshNow, PTL

LEMMA WaitingNext == CallInv' /\ Fresh' /\ (pc # "run")' /\ (answer # "ok")' => RunInv'
  BY WaitingNow, PTL

LEMMA InitRun == ASSUME Init PROVE RunInv
<1>1. /\ pc = "idle" /\ sent = {} /\ acked = {} /\ performed = <<>> /\ answer = "none"
      /\ items = NoItems
  BY DEF Init, Idle
<1>2. CallInv
  BY <1>1 DEF CallInv
<1> QED BY <1>1, <1>2, WaitingNow DEF Fresh

LEMMA FinishStep == ASSUME Finish PROVE RunInv'
<1>1. /\ pc' = "idle" /\ sent' = {} /\ acked' = {} /\ performed' = <<>> /\ answer' = "none"
      /\ items' = NoItems
  BY DEF Finish
<1>2. CallInv'
  BY <1>1 DEF CallInv
<1> QED BY <1>1, <1>2, WaitingNext DEF Fresh

LEMMA ArriveStep ==
    ASSUME RunInv, NEW c \in Calls, NEW h, Arrive(c, h)
    PROVE  RunInv'
<1>1. /\ pc = "idle" /\ pc' = "dispatch" /\ call' = c
      /\ UNCHANGED <<sent, acked, performed, answer, items>>
  BY DEF Arrive
<1>2. /\ sent = {} /\ acked = {} /\ performed = <<>> /\ answer = "none"
      /\ items = NoItems
  BY <1>1 DEF RunInv, CallInv
<1>3. CallInv'
  BY <1>1, <1>2 DEF CallInv
<1> QED BY <1>1, <1>2, <1>3, WaitingNext DEF Fresh

LEMMA DispatchStep == ASSUME RunInv, dispatch_tool_call PROVE RunInv'
<1>1. /\ pc = "dispatch" /\ UNCHANGED <<sent, acked, performed, items>>
      /\ \/ pc' = "answered" /\ answer' = "INSUFFICIENT_SCOPE" /\ call' = call
         \/ pc' = "route" /\ answer' = answer /\ call' = call
  BY DEF dispatch_tool_call, Reply, NothingSent
<1>2. /\ sent = {} /\ acked = {} /\ performed = <<>> /\ answer = "none" /\ call \in Calls
      /\ items = NoItems
  BY <1>1 DEF RunInv, CallInv
<1>3. CallInv'
  BY <1>1, <1>2 DEF CallInv
<1>4. pc' # "run" /\ answer' # "ok"
  BY <1>1, <1>2
<1> QED BY <1>1, <1>2, <1>3, <1>4, WaitingNext DEF Fresh

\* The router starts a handler, which is ready for its call.
LEMMA RouteStep == ASSUME RunInv, Route PROVE RunInv'
<1>1. pc = "route" /\ UNCHANGED <<sent, acked, performed, items, cfg, call>>
  BY DEF Route, Reply, NothingSent
<1>2. /\ sent = {} /\ acked = {} /\ performed = <<>> /\ answer = "none" /\ call \in Calls
      /\ items = NoItems
  BY <1>1 DEF RunInv, CallInv
<1>3. CASE pc' = "answered" /\ answer' = "invalid_params"
  <2>1. CallInv'
    BY <1>1, <1>2, <1>3 DEF CallInv
  <2> QED BY <1>1, <1>2, <1>3, <2>1, WaitingNext DEF Fresh
<1>4. CASE /\ Routed(call.tool, cfg) /\ call.action \in Actions(call.tool)
           /\ pc' = "run" /\ todo' = Handler(call, cfg) /\ answer' = answer
  <2>1. Ready(todo', Promised(call))
    BY <1>2, <1>4, HandlerReady
  <2>2. cfg.read_only => Quiet(todo')
    BY <1>2, <1>4, HandlerQuiet
  <2>3. ~Wrote' /\ Performed' = {} /\ Distinct'
    BY <1>1, <1>2, FreshNext DEF Fresh
  <2>4. CallInv'
    BY <1>1, <1>2, <1>4 DEF CallInv
  <2>5. OrderInv' /\ QuietInv'
    BY <1>1, <1>2, <1>4, <2>1, <2>2, <2>3 DEF OrderInv, QuietInv, Ready, Refusals
  <2>6. OnceInv'
    <3>1. Len(performed') = 0 /\ 1..0 = {}
      BY <1>1, <1>2
    <3> QED BY <1>4, <2>1, <2>3, <3>1 DEF OnceInv, Ready, Distinct
  <2>7. DoneInv'
    BY <1>1, <1>2, <1>4, <2>1 DEF DoneInv, Ready
  <2> QED BY <2>4, <2>5, <2>6, <2>7 DEF RunInv
<1> QED BY <1>3, <1>4 DEF Route, Reply

LEMMA RunStep == ASSUME RunInv, [Next]_vars PROVE RunInv'
<1>1. CASE UNCHANGED vars
  BY <1>1 DEF vars, RunInv, CallInv, OrderInv, QuietInv, OnceInv, DoneInv, Wrote, Performed
<1>2. ASSUME NEW c \in Calls, NEW h \in TokensFor(c), Arrive(c, h) PROVE RunInv'
  BY <1>2, ArriveStep
<1>3. CASE dispatch_tool_call
  BY <1>3, DispatchStep
<1>4. CASE Route
  BY <1>4, RouteStep
<1>5. CASE Refuses \/ Succeeds \/ HandlerPanics
  BY <1>5, EndStep
<1>6. CASE Branch
  BY <1>6, BranchStep
<1>7. CASE RequestOk
  BY <1>7, RequestOkStep
<1>8. ASSUME NEW cause \in Causes, NEW did \in BOOLEAN, RequestFails(cause, did) PROVE RunInv'
  BY <1>8, RequestFailsStep
<1>9. CASE \/ LevelTooDeep \/ LevelFails \/ \E k \in 0..MaxChildren : LevelListed(k)
           \/ ChildOverCap \/ ChildCopied \/ \E did \in BOOLEAN : ChildFails(did)
  BY <1>9, LoopStepNext
<1>10. CASE Finish
  BY <1>10, FinishStep
<1> QED BY <1>1, <1>2, <1>3, <1>4, <1>5, <1>6, <1>7, <1>8, <1>9, <1>10 DEF Next

\* The invariant of a running call: where its handler stands, what it wrote and
\* what it still has to write (the handlers of tools/, run by ToolCall). The steps
\* that are left write nothing that was performed already, but for the update that
\* update_redmine_issue sends again when its read-back was rejected.
THEOREM CallsKeepTheirShape == Spec => []RunInv
  BY InitRun, RunStep, PTL DEF Spec

\* Whatever tool, action and arguments a client picks, a read-only server sends
\* Redmine only reads: write_tools::ALL takes the write tools out of the router,
\* and each of the others refuses its write actions before the first write.
THEOREM ReadOnlyServersOnlyRead == Spec => []ReadOnlyHolds
<1>1. RunInv => ReadOnlyHolds
  BY DEF RunInv, QuietInv, Wrote, ReadOnlyHolds
<1> QED BY <1>1, CallsKeepTheirShape, PTL

\* No handler refuses a call after a write of it: the checks, the read-only gate
\* and the validation of a batch all come first.
THEOREM RefusalsComeFirst == Spec => []RefusedMeansUntouched
<1>1. RunInv => RefusedMeansUntouched
  BY DEF RunInv, OrderInv, Wrote, RefusedMeansUntouched
<1> QED BY <1>1, CallsKeepTheirShape, PTL

\* Redmine performs no write of a call twice, however many requests fail and
\* whichever answers are lost: a write is sent again only after a rejection
\* (recover_required_fields), and copies of subtasks are numbered. The one exception
\* is the update whose read-back Redmine rejects: it is performed once more, and only
\* if its first answer was a success.
THEOREM NoWriteTwice == Spec => []WriteOnce
<1>1. RunInv => WriteOnce
  <2> SUFFICES ASSUME RunInv PROVE WriteOnce
    OBVIOUS
  <2>1. Distinct
    BY DEF RunInv, OnceInv, Distinct
  <2>2. DOMAIN performed = 1..Len(performed)
    BY <2>1 DEF Distinct
  <2> QED BY <2>1, <2>2 DEF WriteOnce, Distinct, Performed
<1> QED BY <1>1, CallsKeepTheirShape, PTL

\* A call that answers success had every promised write acknowledged: no handler
\* reaches its end around one of them.
THEOREM SuccessIsEarned == Spec => []SuccessMeansDone
<1>1. RunInv => SuccessMeansDone
  BY DEF RunInv, DoneInv, SuccessMeansDone
<1> QED BY <1>1, CallsKeepTheirShape, PTL
------------------------------------------------------------------------------
(* The scope gate and the tool list *)

\* The scope table names exactly the actions that the tools have.
LEMMA ActionTables ==
    ASSUME NEW t \in ActionTools
    PROVE  DOMAIN ActionScopes[t] = Actions(t) /\ Actions(t) # {}
<1>1. CASE t = "manage_time_entry"
  BY <1>1 DEF ActionScopes, ActionTools, Actions, ManageTimeEntryAction
<1>2. CASE t = "manage_issue_relation"
  BY <1>2 DEF ActionScopes, ActionTools, Actions, ManageIssueRelationAction
<1>3. CASE t = "manage_issue_watcher"
  BY <1>3 DEF ActionScopes, ActionTools, Actions, ManageIssueWatcherAction
<1>4. CASE t = "manage_issue_note"
  BY <1>4 DEF ActionScopes, ActionTools, Actions, ManageIssueNoteAction
<1>5. CASE t = "manage_issue_category"
  BY <1>5 DEF ActionScopes, ActionTools, Actions, ManageIssueCategoryAction
<1>6. CASE t = "manage_redmine_wiki_page"
  BY <1>6 DEF ActionScopes, ActionTools, Actions, ManageWikiPageAction
<1>7. CASE t = "manage_document"
  BY <1>7 DEF ActionScopes, ActionTools, Actions, ManageDocumentAction
<1> QED BY <1>1, <1>2, <1>3, <1>4, <1>5, <1>6, <1>7 DEF ActionTools

\* The other tools have at least one action, too.
LEMMA SomeAction == ASSUME NEW t PROVE \E a : a \in Actions(t)
<1>1. CASE t \in ActionTools
  BY <1>1, ActionTables
<1>2. CASE t \notin ActionTools
  BY <1>2 DEF ActionTools, Actions, ManageVersionAction, ManageMemberAction,
              ManageProductAction, ManageContactAction
<1> QED BY <1>1, <1>2

LEMMA TableKinds ==
    /\ DOMAIN FixedScopes = FixedTools /\ DOMAIN ActionScopes = ActionTools
    /\ FixedTools \cap ActionTools = {}
    /\ {"update_redmine_issue", "create_redmine_issue"} \subseteq FixedTools
  BY DEF FixedScopes, ActionScopes, FixedTools, UnscopedTools, ActionTools

\* What a call needs, by the kind of its tool.
LEMMA RequiredByKind ==
    ASSUME NEW c, c.tool \in FixedTools \cup ActionTools
    PROVE  /\ c.tool = "update_redmine_issue" =>
                required_for_call(c) = update_redmine_issue_requirement(c.keys)
           /\ c.tool = "create_redmine_issue" =>
                required_for_call(c) = create_redmine_issue_requirement(c.keys)
           /\ c.tool \in ActionTools /\ c.action \in Actions(c.tool) =>
                required_for_call(c) = Requirement(ActionScopes[c.tool][c.action], {})
           /\ c.tool \in FixedTools \ {"update_redmine_issue", "create_redmine_issue"} =>
                required_for_call(c) = Requirement(FixedScopes[c.tool], {})
<1>1. c.tool \in ActionTools => c.tool \notin {"update_redmine_issue", "create_redmine_issue"}
  BY TableKinds
<1>2. c.tool \in ActionTools => DOMAIN ActionScopes[c.tool] = Actions(c.tool)
  BY ActionTables
<1> QED BY <1>1, <1>2, TableKinds DEF required_for_call

LEMMA RoutedIsChecked ==
    ASSUME NEW c \in Calls, c.action \in Actions(c.tool)
    PROVE  required_for_call(c).checked
<1>1. c.tool \in FixedTools \cup ActionTools
  BY CallFacts
<1>2. \A A, B : Requirement(A, B).checked
  BY DEF Requirement
<1>3. \A K : /\ update_redmine_issue_requirement(K).checked
             /\ create_redmine_issue_requirement(K).checked
  BY <1>2 DEF update_redmine_issue_requirement, create_redmine_issue_requirement
<1> QED BY <1>1, <1>2, <1>3, RequiredByKind

\* A call whose action the scope table does not know gets no request out, although
\* the scope gate lets it pass: the table and the handlers' enumerations name the
\* same actions, so its arguments do not deserialize (ScopeRule::PerAction).
THEOREM UncheckedCallsEndAtTheRouter == Spec => []UncheckedSendsNothing
<1>1. RunInv => UncheckedSendsNothing
  BY RoutedIsChecked DEF RunInv, CallInv, UncheckedSendsNothing
<1> QED BY <1>1, CallsKeepTheirShape, PTL

\* The call that list_tools has in mind: some action and at most one optional argument.
Probe(c, a, k) == [c EXCEPT !.action = a, !.keys = {k} \ {"none"}]
Passes(c, H) == LET req == required_for_call(c) IN req.checked /\ Satisfies(req, H)

LEMMA ProbeIs ==
    ASSUME NEW c \in Calls, NEW a, NEW k
    PROVE  LET d == Probe(c, a, k) IN
           d.tool = c.tool /\ d.action = a /\ d.keys = {k} \ {"none"}
<1>1. PICK t, b, K, m : c = [tool |-> t, action |-> b, keys |-> K, bad |-> m]
  BY DEF Calls, CallsOf
<1> QED BY <1>1 DEF Probe

LEMMA PassesIs ==
    ASSUME NEW A, NEW B, NEW H
    PROVE  LET req == Requirement(A, B) IN
           req.checked /\ Satisfies(req, H)
             <=> ADMIN_SCOPE \in H \/ (A \subseteq H /\ (B # {} => B \cap H # {}))
  BY DEF Requirement, Satisfies

LEMMA PassesAll ==
    ASSUME NEW c, NEW A, NEW H, required_for_call(c) = Requirement(A, {})
    PROVE  Passes(c, H) <=> ADMIN_SCOPE \in H \/ A \subseteq H
<1> DEFINE req == Requirement(A, {})
<1>1. req.checked /\ (Satisfies(req, H) <=> ADMIN_SCOPE \in H \/ A \subseteq H)
  BY DEF Requirement, Satisfies
<1> HIDE DEF req
<1>2. required_for_call(c) = req
  BY DEF req
<1> QED BY <1>1, <1>2 DEF Passes

\* One argument decides what an update needs: notes alone need less than a change.
LEMMA UpdateNeeds ==
    ASSUME NEW H, NEW k \in UpdateRedmineIssueParams \cup {"none"}
    PROVE  LET req(j) == update_redmine_issue_requirement({j} \ {"none"}) IN
           /\ req(k).checked /\ Satisfies(req(k), H) =>
                ADMIN_SCOPE \in H \/ "edit_issues" \in H \/ "add_issue_notes" \in H
           /\ req("none") = Requirement({"edit_issues"}, {})
           /\ req("notes") = Requirement({"add_issue_notes"}, {})
<1> DEFINE req(j) == update_redmine_issue_requirement({j} \ {"none"})
<1>1. req("none") = Requirement({"edit_issues"}, {})
  BY DEF update_redmine_issue_requirement, is_notes_only_update
<1>2. req("notes") = Requirement({"add_issue_notes"}, {})
  BY DEF update_redmine_issue_requirement, is_notes_only_update, NOTES_ONLY_FIELDS
<1>3. \/ req(k) = Requirement({"add_issue_notes"}, {})
      \/ \E A, B : req(k) = Requirement({"edit_issues"} \cup A, B)
  <2>1. CASE is_notes_only_update({k} \ {"none"})
    BY <2>1 DEF update_redmine_issue_requirement
  <2>2. CASE ~is_notes_only_update({k} \ {"none"})
    <3> DEFINE K == {k} \ {"none"}
               X == IF K \cap {"parent_issue_id", "clear_parent"} # {} THEN {"manage_subtasks"}
                    ELSE {}
               Y == IF "story_points" \in K THEN {"view_agile_queries"} ELSE {}
               B == IF "tag_list" \in K THEN TAG_LIST_SCOPES ELSE {}
    <3>1. req(k) = Requirement({"edit_issues"} \cup X \cup Y, B)
      BY <2>2 DEF update_redmine_issue_requirement
    <3>2. {"edit_issues"} \cup X \cup Y = {"edit_issues"} \cup (X \cup Y)
      OBVIOUS
    <3> HIDE DEF X, Y, B, req
    <3>3. req(k) = Requirement({"edit_issues"} \cup (X \cup Y), B)
      BY <3>1, <3>2
    <3> QED BY <3>3
  <2> QED BY <2>1, <2>2
<1> HIDE DEF req
<1>4. req(k).checked /\ Satisfies(req(k), H) =>
        ADMIN_SCOPE \in H \/ "edit_issues" \in H \/ "add_issue_notes" \in H
  <2>1. CASE req(k) = Requirement({"add_issue_notes"}, {})
    BY <2>1, PassesIs
  <2>2. ASSUME NEW A, NEW B, req(k) = Requirement({"edit_issues"} \cup A, B)
        PROVE  req(k).checked /\ Satisfies(req(k), H) => ADMIN_SCOPE \in H \/ "edit_issues" \in H
    BY <2>2, PassesIs
  <2> QED BY <1>3, <2>1, <2>2
<1> QED BY <1>1, <1>2, <1>4 DEF req

LEMMA VisibleMeansCallable ==
    ASSUME NEW c \in Calls, NEW H
    PROVE  visible_for(c.tool, H)
             <=> \E a \in Actions(c.tool), k \in Params(c.tool) \cup {"none"} :
                   Passes(Probe(c, a, k), H)
<1> DEFINE t == c.tool
           req(a, k) == required_for_call(Probe(c, a, k))
           callable == \E a \in Actions(t), k \in Params(t) \cup {"none"} :
                         Passes(Probe(c, a, k), H)
<1>1. t \in FixedTools \cup ActionTools
  BY CallFacts
<1>2. ASSUME NEW a, NEW k
      PROVE  /\ Probe(c, a, k).tool = t /\ Probe(c, a, k).action = a
             /\ Probe(c, a, k).keys = {k} \ {"none"}
  BY ProbeIs
<1>3. PICK a0 : a0 \in Actions(t)
  BY SomeAction
<1>4. CASE t \in ActionTools
  <2>1. ASSUME NEW a \in Actions(t), NEW k
        PROVE  Passes(Probe(c, a, k), H) <=> ADMIN_SCOPE \in H \/ ActionScopes[t][a] \subseteq H
    <3>1. req(a, k) = Requirement(ActionScopes[t][a], {})
      BY <1>2, <1>4, RequiredByKind
    <3> QED BY <3>1, PassesAll
  <2>2. visible_for(t, H)
          <=> ADMIN_SCOPE \in H \/ \E a \in Actions(t) : ActionScopes[t][a] \subseteq H
    BY <1>4, ActionTables, TableKinds DEF visible_for
  <2> HIDE DEF t
  <2>3. callable <=> \E a \in Actions(t) : ADMIN_SCOPE \in H \/ ActionScopes[t][a] \subseteq H
    BY <2>1
  <2> QED BY <1>3, <2>2, <2>3 DEF t
<1>5. CASE t \in FixedTools \ {"update_redmine_issue", "create_redmine_issue"}
  <2>1. ASSUME NEW a, NEW k
        PROVE  Passes(Probe(c, a, k), H) <=> ADMIN_SCOPE \in H \/ FixedScopes[t] \subseteq H
    <3>1. req(a, k) = Requirement(FixedScopes[t], {})
      BY <1>2, <1>5, RequiredByKind
    <3> QED BY <3>1, PassesAll
  <2>2. visible_for(t, H) <=> ADMIN_SCOPE \in H \/ FixedScopes[t] \subseteq H
    BY <1>5, TableKinds DEF visible_for
  <2> HIDE DEF t
  <2>3. callable <=> ADMIN_SCOPE \in H \/ FixedScopes[t] \subseteq H
    BY <1>3, <2>1
  <2> QED BY <2>2, <2>3 DEF t
<1>6. CASE t = "create_redmine_issue"
  <2>1. ASSUME NEW a, NEW k
        PROVE  req(a, k) = create_redmine_issue_requirement({k} \ {"none"})
    BY <1>1, <1>2, <1>6, RequiredByKind
  <2>2. FixedScopes[t] = {"add_issues"}
    BY <1>6 DEF FixedScopes, FixedTools, UnscopedTools
  <2>3. visible_for(t, H) <=> ADMIN_SCOPE \in H \/ "add_issues" \in H
    BY <1>6, <2>2, TableKinds DEF visible_for
  <2>4. ASSUME NEW a, NEW k, Passes(Probe(c, a, k), H) PROVE ADMIN_SCOPE \in H \/ "add_issues" \in H
    BY <2>1, <2>4, PassesIs DEF Passes, create_redmine_issue_requirement
  <2>5. ADMIN_SCOPE \in H \/ "add_issues" \in H => Passes(Probe(c, a0, "none"), H)
    <3>1. req(a0, "none") = Requirement({"add_issues"}, {})
      BY <2>1 DEF create_redmine_issue_requirement
    <3> QED BY <3>1, PassesAll
  <2> QED BY <1>3, <2>3, <2>4, <2>5
<1>7. CASE t = "update_redmine_issue"
  <2>1. ASSUME NEW a, NEW k
        PROVE  req(a, k) = update_redmine_issue_requirement({k} \ {"none"})
    BY <1>1, <1>2, <1>7, RequiredByKind
  <2>2. visible_for(t, H) <=> ADMIN_SCOPE \in H \/ "edit_issues" \in H \/ "add_issue_notes" \in H
    BY <1>7, TableKinds DEF visible_for
  <2>3. Params(t) = UpdateRedmineIssueParams /\ "notes" \in UpdateRedmineIssueParams
    BY <1>7 DEF Params, UpdateRedmineIssueParams
  <2>4. ASSUME NEW a, NEW k \in Params(t) \cup {"none"}, Passes(Probe(c, a, k), H)
        PROVE  ADMIN_SCOPE \in H \/ "edit_issues" \in H \/ "add_issue_notes" \in H
    BY <2>1, <2>3, <2>4, UpdateNeeds DEF Passes
  <2>5. ADMIN_SCOPE \in H \/ "edit_issues" \in H => Passes(Probe(c, a0, "none"), H)
    <3>1. req(a0, "none") = Requirement({"edit_issues"}, {})
      BY <2>1, UpdateNeeds
    <3> QED BY <3>1, PassesAll
  <2>6. "add_issue_notes" \in H => Passes(Probe(c, a0, "notes"), H)
    <3>1. req(a0, "notes") = Requirement({"add_issue_notes"}, {})
      BY <2>1, UpdateNeeds
    <3> QED BY <3>1, PassesAll
  <2> QED BY <1>3, <2>2, <2>3, <2>4, <2>5, <2>6
<1> QED BY <1>1, <1>4, <1>5, <1>6, <1>7

\* list_tools shows a tool exactly if the token may make some call of it, for every
\* set of scopes: visible_for and required_for_call read the same table, and the
\* notes-only update is the one place where an argument lowers what a call needs.
THEOREM ShownIffUsable == Spec => []VisibleIffCallable
<1>1. RunInv => VisibleIffCallable
  BY VisibleMeansCallable DEF RunInv, CallInv, VisibleIffCallable, Passes, Probe
<1> QED BY <1>1, CallsKeepTheirShape, PTL
------------------------------------------------------------------------------
(* Partial success *)

LoopNext ==
    \/ LevelTooDeep \/ LevelFails \/ \E k \in 0..MaxChildren : LevelListed(k)
    \/ ChildOverCap \/ ChildCopied \/ \E did \in BOOLEAN : ChildFails(did)

LEMMA LoopNextRuns ==
    ASSUME LoopNext
    PROVE  pc = "run" /\ todo # <<>> /\ step.kind \in {"level", "child"}
  BY DEF LoopNext, LevelTooDeep, LevelFails, LevelListed, ChildOverCap, ChildCopied,
         ChildFails, Running

\* The copy's report: what is left out is on record.
LEMMA MissedStep ==
    ASSUME missed => truncated, [Next]_vars
    PROVE  missed' => truncated'
<1>1. CASE \/ UNCHANGED vars \/ dispatch_tool_call \/ Route \/ Refuses \/ Branch
           \/ Succeeds \/ HandlerPanics \/ RequestOk
  BY <1>1 DEF vars, dispatch_tool_call, Route, Refuses, Branch, Succeeds, HandlerPanics,
              RequestOk, Reply, copyVars
<1>2. ASSUME NEW c, NEW h, Arrive(c, h) PROVE missed' => truncated'
  BY <1>2 DEF Arrive, copyVars
<1>3. ASSUME NEW cause, NEW did, RequestFails(cause, did) PROVE missed' => truncated'
  <2>1. OnFailure(step, cause)
    BY <1>3 DEF RequestFails
  <2>2. UNCHANGED copyVars
    BY <2>1 DEF OnFailure, Reply
  <2> QED BY <2>2 DEF copyVars
<1>4. CASE LoopNext
  BY <1>4 DEF LoopNext, LevelTooDeep, LevelFails, LevelListed, ChildOverCap, ChildCopied,
              ChildFails, copyVars
<1>5. CASE Finish
  BY <1>5 DEF Finish
<1> QED BY <1>1, <1>2, <1>3, <1>4, <1>5 DEF Next, LoopNext

\* A batch of three entries, and what is left of it after k of them.
LEMMA EntriesLeft ==
    ASSUME NEW k \in 0..2, NEW how
    PROVE  /\ Entries(k, how) # <<>> /\ Head(Entries(k, how)) = Entry(k + 1, how)
           /\ Tail(Entries(k, how)) = Entries(k + 1, how)
<1> DEFINE S == {Entry(i, how) : i \in 1..3}
           s == Entries(k, how)
           t == Entries(k + 1, how)
<1>1. /\ s \in Seq(S) /\ Len(s) = 3 - k /\ \A i \in 1..(3 - k) : s[i] = Entry(k + i, how)
      /\ t \in Seq(S) /\ Len(t) = 2 - k /\ \A i \in 1..(2 - k) : t[i] = Entry(k + 1 + i, how)
  <2>1. /\ \A i \in 1..(3 - k) : k + i \in 1..3
        /\ \A i \in 1..(3 - (k + 1)) : k + 1 + i \in 1..3
        /\ 3 - k \in Nat /\ 3 - (k + 1) \in Nat /\ 3 - (k + 1) = 2 - k
    OBVIOUS
  <2>2. s \in [1..(3 - k) -> S] /\ t \in [1..(2 - k) -> S]
    BY <2>1 DEF Entries
  <2>3. /\ \A i \in 1..(3 - k) : s[i] = Entry(k + i, how)
        /\ \A i \in 1..(2 - k) : t[i] = Entry(k + 1 + i, how)
    BY <2>1 DEF Entries
  <2> HIDE DEF s, t, S
  <2> QED BY <2>1, <2>2, <2>3
<1> HIDE DEF s, t, S
<1>2. s # <<>> /\ 1 \in 1..(3 - k)
  BY <1>1
<1>3. Head(s) = s[1] /\ Tail(s) \in Seq(S) /\ Len(Tail(s)) = Len(s) - 1
      /\ \A i \in 1..Len(Tail(s)) : Tail(s)[i] = s[i + 1]
  BY <1>1, <1>2, HeadTail
<1>4. Head(s) = Entry(k + 1, how)
  BY <1>1, <1>2, <1>3
<1>5. Tail(s) = t
  <2>1. Len(Tail(s)) = Len(t)
    BY <1>1, <1>3
  <2>2. ASSUME NEW i \in 1..Len(t) PROVE Tail(s)[i] = t[i]
    <3>1. i + 1 \in 1..(3 - k) /\ i \in 1..(2 - k) /\ k + (i + 1) = k + 1 + i
      BY <1>1
    <3> QED BY <1>1, <1>3, <2>1, <3>1
  <2> QED BY <1>1, <1>3, <2>1, <2>2, SeqEqual
<1> QED BY <1>2, <1>4, <1>5 DEF s, t

LEMMA EntriesAll ==
    ASSUME NEW how
    PROVE  <<Entry(1, how), Entry(2, how), Entry(3, how)>> = Entries(0, how)
<1>1. Entries(0, how) = [i \in 1..3 |-> Entry(i, how)]
  BY DEF Entries
<1> DEFINE e(i) == Entry(i, how)
<1>2. Entries(0, how) = [i \in 1..3 |-> e(i)]
  BY <1>1
<1> HIDE DEF e
<1>3. <<e(1), e(2), e(3)>> = [i \in 1..3 |-> e(i)]
  OBVIOUS
<1> QED BY <1>2, <1>3 DEF e

LEMMA EntriesDone == ASSUME NEW how PROVE Entries(3, how) = <<>>
<1>1. Entries(3, how) = [i \in {} |-> Entry(3 + i, how)]
  BY DEF Entries
<1> QED BY <1>1

LEMMA EntriesEmpty == ASSUME NEW k \in 0..3, NEW how, Entries(k, how) = <<>> PROVE k = 3
<1>1. k \in 0..2 \/ k = 3
  OBVIOUS
<1> QED BY <1>1, EntriesLeft
\* An import starts with its three entries, or with a refusal.
LEMMA ImportStart ==
    ASSUME NEW c, NEW g, c.tool = "import_time_entries"
    PROVE  LET h == Handler(c, g) IN
           \/ h = Entries(0, IF Has(c, "stop_on_error") THEN "stop" ELSE "item")
           \/ h # <<>> /\ Head(h) \in Answers(Codes)
<1> DEFINE how == IF Has(c, "stop_on_error") THEN "stop" ELSE "item"
           S == Answers(Codes) \cup {Entry(i, how) : i \in 1..3}
           s == Entries(0, how)
           a == Answer("invalid_params")
<1>1. Handler(c, g) = Check(Good(c, "entries")) \o <<Entry(1, how), Entry(2, how), Entry(3, how)>>
  BY ImportIs
<1> HIDE DEF how
<1>2. Handler(c, g) = Check(Good(c, "entries")) \o s
  BY <1>1, EntriesAll
<1>3. s \in Seq(S)
  <2>1. s \in [1..3 -> S]
    BY DEF Entries
  <2>2. \A n \in Nat : [1..n -> S] \subseteq Seq(S)
    OBVIOUS
  <2> HIDE DEF s, S
  <2> QED BY <2>1, <2>2
<1>4. a \in Seq(Answers(Codes)) /\ Len(a) = 1 /\ a[1] \in Answers(Codes)
  BY AnswerIn DEF Codes
<1> HIDE DEF s, a
<1>5. CASE Good(c, "entries")
  <2> HIDE DEF S
  <2>1. Handler(c, g) = s
    BY <1>2, <1>3, <1>5 DEF Check
  <2> QED BY <2>1 DEF s, how
<1>6. CASE ~Good(c, "entries")
  <2>1. Handler(c, g) = a \o s
    BY <1>2, <1>6 DEF Check, a
  <2>2. a \in Seq(S)
    BY <1>4, Wider
  <2> HIDE DEF S
  <2>3. /\ a \o s \in Seq(S) /\ Len(a \o s) = Len(a) + Len(s) /\ Len(s) \in Nat
        /\ \A i \in 1..Len(a) : (a \o s)[i] = a[i]
    BY <1>3, <2>2, Concat
  <2>4. 1 \in 1..Len(a) /\ Len(a \o s) > 0
    BY <1>4, <2>3
  <2>5. (a \o s)[1] \in Answers(Codes) /\ a \o s # <<>>
    BY <1>4, <2>3, <2>4
  <2> QED BY <2>1, <2>3, <2>5
<1> QED BY <1>5, <1>6

\* What an import looks like while it runs.
Importing ==
    LET k == Cardinality(sent) IN
    /\ k \in 0..3 /\ IsFiniteSet(sent) /\ acked \subseteq sent
    /\ \A r \in sent : r.n \in 1..k
    /\ Counted(Cardinality(acked), k - Cardinality(acked))

LEMMA EntryKind ==
    ASSUME NEW i, NEW how
    PROVE  /\ Entry(i, how).kind = "request" /\ Entry(i, how).fail = how /\ Entry(i, how).n = i
           /\ Mutates(Entry(i, how)) /\ Write(Entry(i, how), i) = EntryWrite(i)
           /\ EntryWrite(i).n = i
  BY DEF Entry, Mutates, Write, EntryWrite

\* One entry sent: it is a new one, and it is counted as what Redmine answered.
LEMMA EntrySent ==
    ASSUME Importing, NEW ok \in BOOLEAN, NEW did, Cardinality(sent) \in 0..2,
           NEW x, x = EntryWrite(Cardinality(sent) + 1),
           sent' = sent \cup {x}, acked' = IF ok THEN acked \cup {x} ELSE acked,
           items' = IF ok THEN [items EXCEPT !.succeeded = @ + 1]
                          ELSE [items EXCEPT !.failed = @ + 1]
    PROVE  Importing' /\ Cardinality(sent') = Cardinality(sent) + 1
<1> DEFINE k == Cardinality(sent)
           m == Cardinality(acked)
<1>1. /\ k \in 0..2 /\ IsFiniteSet(sent) /\ acked \subseteq sent /\ \A r \in sent : r.n \in 1..k
      /\ Counted(m, k - m)
  BY DEF Importing
<1>10. PICK l : items = [succeeded |-> m, failed |-> k - m, listed |-> l]
  BY <1>1 DEF Counted
<1>2. x.n = k + 1
  BY EntryKind
<1>3. x \notin sent /\ x \notin acked
  BY <1>1, <1>2
<1>4. IsFiniteSet(acked) /\ m \in Nat
  BY <1>1, FS_Subset, FS_CardinalityType
<1>5. IsFiniteSet(sent') /\ Cardinality(sent') = k + 1
  BY <1>1, <1>3, FS_AddElement
<1>6. acked' \subseteq sent' /\ Cardinality(acked') = IF ok THEN m + 1 ELSE m
  BY <1>1, <1>3, <1>4, FS_AddElement
<1>7. \A r \in sent' : r.n \in 1..(k + 1)
  BY <1>1, <1>2
<1> HIDE DEF k, m
<1>8. items' = [succeeded |-> Cardinality(acked'), failed |-> (k + 1) - Cardinality(acked'),
                listed |-> l]
  <2>1. CASE ok
    <3>1. items' = [succeeded |-> m + 1, failed |-> k - m, listed |-> l]
      BY <1>10, <2>1
    <3>2. (k + 1) - (m + 1) = k - m
      BY <1>1, <1>4
    <3> QED BY <1>6, <2>1, <3>1, <3>2
  <2>2. CASE ~ok
    <3>1. items' = [succeeded |-> m, failed |-> (k - m) + 1, listed |-> l]
      BY <1>10, <2>2
    <3>2. (k + 1) - m = (k - m) + 1
      BY <1>1, <1>4
    <3> QED BY <1>6, <2>2, <3>1, <3>2
  <2> QED BY <2>1, <2>2
<1>9. k + 1 \in 0..3
  BY <1>1
<1> QED BY <1>5, <1>6, <1>7, <1>8, <1>9 DEF Importing, Counted, k

\* The next step of an import is a refusal before the first entry, or the next entry.
LEMMA ImportNext ==
    ASSUME RunInv, ImportInv, pc = "run", call.tool = "import_time_entries"
    PROVE  /\ Importing /\ answer = "none"
           /\ todo = <<>> => Cardinality(sent) = 3 \/ Has(call, "stop_on_error")
           /\ todo # <<>> =>
                \/ step \in Answers(Codes) /\ step.kind = "answer"
                \/ /\ Cardinality(sent) \in 0..2 /\ step = Entry(Cardinality(sent) + 1, How)
                   /\ Tail(todo) = Entries(Cardinality(sent) + 1, How)
<1> DEFINE k == Cardinality(sent)
<1>1. Importing /\ answer = "none"
  BY DEF ImportInv, Importing, RunInv, CallInv
<1>2. k \in 0..3
  BY <1>1 DEF Importing
<1>3. \/ todo # <<>> /\ step \in Answers(Codes)
      \/ Has(call, "stop_on_error") /\ todo = <<>>
      \/ todo = Entries(k, How)
  BY DEF ImportInv, step
<1>4. step \in Answers(Codes) => step.kind = "answer"
  BY DEF Answers
<1> HIDE DEF k
<1>5. CASE todo = Entries(k, How)
  <2>1. CASE k = 3
    BY <1>1, <1>5, <2>1, EntriesDone DEF k
  <2>2. CASE k \in 0..2
    BY <1>1, <1>5, <2>2, EntriesLeft DEF k, step
  <2> QED BY <1>2, <2>1, <2>2
<1> QED BY <1>1, <1>3, <1>4, <1>5 DEF k

\* An import goes on with the entries that are left, or has stopped.
LEMMA ImportGoesOn ==
    ASSUME Importing', UNCHANGED <<call, pc, answer>>, answer = "none",
           \/ todo' = Entries(Cardinality(sent'), How)
           \/ Has(call, "stop_on_error") /\ todo' = <<>>
    PROVE  ImportInv'
<1>1. How' = How /\ (Has(call, "stop_on_error"))' = Has(call, "stop_on_error")
  BY DEF How, Has
<1> QED BY <1>1 DEF ImportInv, Importing

LEMMA ImportStep == ASSUME RunInv, ImportInv, [Next]_vars PROVE ImportInv'
<1>1. CASE UNCHANGED vars
  <2>1. \A good, bad : Counted(good, bad)' = Counted(good, bad)
    BY <1>1 DEF vars, Counted
  <2> QED BY <1>1, <2>1 DEF vars, ImportInv, How, Has
<1> SUFFICES ASSUME call'.tool = "import_time_entries", pc' = "run" \/ answer' = "ok", Next
             PROVE  ImportInv'
  BY <1>1 DEF ImportInv
<1>2. CASE pc # "run"
  <2>1. Route \/ UNCHANGED vars \/ pc' \in {"idle", "dispatch", "route"}
        \/ (pc' = "answered" /\ answer' # "ok")
    BY <1>2, LoopNextRuns DEF Next, LoopNext, Arrive, dispatch_tool_call, Reply, Refuses, Branch,
       Succeeds, HandlerPanics, RequestOk, RequestFails, Running, Finish
  <2>2. CASE pc' \in {"idle", "dispatch", "route"}
    BY <2>2, RunStep DEF RunInv, CallInv
  <2>3. CASE Route
    <3>1. /\ pc = "route" /\ sent = {} /\ acked = {} /\ answer = "none"
          /\ items = NoItems /\ UNCHANGED <<sent, acked, items, call>>
      BY <2>3 DEF Route, Reply, NothingSent, RunInv, CallInv
    <3>2. pc' = "run" /\ todo' = Handler(call, cfg) /\ answer' = "none"
      BY <2>3, <3>1 DEF Route, Reply
    <3>3. Importing'
      <4>1. Cardinality(sent') = 0 /\ Cardinality(acked') = 0 /\ IsFiniteSet(sent') /\ 0 - 0 = 0
        BY <3>1, FS_EmptySet
      <4>2. Counted(0, 0)'
        BY <3>1 DEF Counted, NoItems
      <4> QED BY <3>1, <4>1, <4>2 DEF Importing
    <3>4. How' = How /\ (Has(call, "stop_on_error"))' = Has(call, "stop_on_error")
      BY <3>1 DEF How, Has
    <3>5. call.tool = "import_time_entries"
      BY <3>1
    <3>6. todo' = Entries(0, How) \/ (todo' # <<>> /\ Head(todo') \in Answers(Codes))
      BY <3>2, <3>5, ImportStart DEF How
    <3>7. Cardinality(sent') = 0
      BY <3>1, FS_EmptySet
    <3> QED BY <3>2, <3>3, <3>4, <3>6, <3>7 DEF ImportInv, Importing
  <2> QED BY <1>1, <2>1, <2>2, <2>3
<1>3. CASE pc = "run"
  <2>1. call.tool = "import_time_entries" /\ UNCHANGED call
    BY <1>3, LoopNextRuns DEF Next, LoopNext, Arrive, dispatch_tool_call, Route, Reply, Refuses,
       Branch, Succeeds, HandlerPanics, RequestOk, RequestFails, OnFailure, Continue, Finish,
       LevelTooDeep, LevelFails, LevelListed, ChildOverCap, ChildCopied, ChildFails, CopyOn
  <2> DEFINE k == Cardinality(sent)
  <2>2. /\ Importing /\ answer = "none"
        /\ todo = <<>> => k = 3 \/ Has(call, "stop_on_error")
        /\ todo # <<>> =>
             \/ step \in Answers(Codes) /\ step.kind = "answer"
             \/ k \in 0..2 /\ step = Entry(k + 1, How) /\ Tail(todo) = Entries(k + 1, How)
    BY <1>3, <2>1, ImportNext
  <2>3. How \in {"stop", "item"} /\ (How = "stop" => Has(call, "stop_on_error"))
    BY DEF How
  <2>4. todo # <<>> => step.kind \in {"answer", "request"}
    BY <2>2, EntryKind
  <2>5. CASE Succeeds
    <3>1. /\ todo = <<>> /\ answer' = "ok" /\ pc' = "answered" /\ UNCHANGED <<sent, acked>>
          /\ \E listed : items' = [items EXCEPT !.listed = listed]
      BY <2>1, <2>5 DEF Succeeds, Reply, NothingSent, apply_caps
    <3>2. (Has(call, "stop_on_error"))' = Has(call, "stop_on_error")
      BY <2>1 DEF Has
    <3>3. ASSUME NEW good, NEW bad, Counted(good, bad) PROVE Counted(good, bad)'
      <4>1. PICK l : items = [succeeded |-> good, failed |-> bad, listed |-> l]
        BY <3>3 DEF Counted
      <4>2. PICK listed : items' = [items EXCEPT !.listed = listed]
        BY <3>1
      <4>3. items' = [succeeded |-> good, failed |-> bad, listed |-> listed]
        BY <4>1, <4>2
      <4> QED BY <4>3 DEF Counted
    <3>4. Importing'
      BY <2>2, <3>1, <3>3 DEF Importing
    <3> QED BY <2>2, <3>1, <3>2, <3>4 DEF ImportInv, Importing
  <2>6. CASE Refuses
    <3>1. step \in Answers(Codes) /\ answer' = step.code /\ pc' = "answered"
      BY <2>2, <2>6, EntryKind DEF Refuses, Running, Reply
    <3>2. answer' # "ok"
      BY <3>1 DEF Answers, Codes
    <3> QED BY <3>1, <3>2
  <2>7. CASE HandlerPanics
    BY <2>7 DEF HandlerPanics, Reply
  <2>8. ASSUME Running("request")
        PROVE  /\ k \in 0..2 /\ step = Entry(k + 1, How) /\ Tail(todo) = Entries(k + 1, How)
               /\ step.fail = How /\ Batched(step) /\ step.n = k + 1 /\ Mutates(step)
               /\ Write(step, step.n) = EntryWrite(k + 1)
    BY <2>2, <2>3, <2>8, EntryKind DEF Running, Batched
  <2>9. CASE RequestOk
    <3>1. /\ Running("request") /\ Exchange(step, step.n, TRUE, TRUE) /\ Continue(Tail(todo))
          /\ items' = IF Batched(step) THEN [items EXCEPT !.succeeded = @ + 1] ELSE items
      BY <2>9 DEF RequestOk
    <3>2. /\ sent' = sent \cup {EntryWrite(k + 1)} /\ acked' = acked \cup {EntryWrite(k + 1)}
          /\ items' = [items EXCEPT !.succeeded = @ + 1]
      BY <2>8, <3>1 DEF Exchange
    <3>3. Importing' /\ Cardinality(sent') = k + 1
      BY <2>2, <2>8, <3>1, <3>2, EntrySent
    <3>4. todo' = Entries(k + 1, How) /\ UNCHANGED <<call, pc, answer>>
      BY <2>8, <3>1 DEF Continue
    <3> QED BY <2>2, <3>3, <3>4, ImportGoesOn
  <2>10. ASSUME NEW cause \in Causes, NEW did \in BOOLEAN, RequestFails(cause, did)
         PROVE  ImportInv'
    <3>1. /\ Running("request") /\ Exchange(step, step.n, did, FALSE) /\ OnFailure(step, cause)
          /\ items' = IF Batched(step) THEN [items EXCEPT !.failed = @ + 1] ELSE items
      BY <2>10 DEF RequestFails
    <3>2. /\ sent' = sent \cup {EntryWrite(k + 1)} /\ acked' = acked
          /\ items' = [items EXCEPT !.failed = @ + 1]
      BY <2>8, <3>1 DEF Exchange
    <3>3. Importing' /\ Cardinality(sent') = k + 1
      BY <2>2, <2>8, <3>1, <3>2, EntrySent
    <3>4. \/ step.fail = "item" /\ Continue(Tail(todo))
          \/ step.fail = "stop" /\ Continue(<<>>)
      BY <2>3, <2>8, <3>1 DEF OnFailure
    <3>5. /\ UNCHANGED <<call, pc, answer>>
          /\ todo' = Entries(k + 1, How) \/ (Has(call, "stop_on_error") /\ todo' = <<>>)
      BY <2>3, <2>8, <3>1, <3>4 DEF Continue
    <3> QED BY <2>2, <3>3, <3>5, ImportGoesOn
  <2>11. ~Branch /\ ~LoopNext
    BY <2>4, LoopNextRuns DEF Branch, Running
  <2>12. ~dispatch_tool_call /\ ~Route /\ ~Finish /\ \A c, h : ~Arrive(c, h)
    BY <1>3 DEF dispatch_tool_call, Route, Finish, Arrive
  <2> QED
    BY <2>5, <2>6, <2>7, <2>9, <2>10, <2>11, <2>12 DEF Next, LoopNext
<1> QED BY <1>2, <1>3
------------------------------------------------------------------------------
(* The two halves of an update *)

LEMMA CoreKinds ==
    ASSUME NEW core, NEW x \in CoreStep(core)
    PROVE  /\ x.kind \in {"request", "answer", "either"}
           /\ x.kind = "request" => x \in CoreRequest(core)
           /\ x.kind = "either" => x.left \in Seq(CoreStep(core)) /\ x.right \in Seq(CoreStep(core))
<1>1. CASE x \in CoreRequest(core)
  BY <1>1 DEF CoreRequest
<1>2. CASE x \in Answers(Codes)
  BY <1>2 DEF Answers
<1>3. CASE x \in Forks(CoreLeaf(core))
  <2>1. x.kind = "either" /\ x.left \in Seq(CoreLeaf(core)) /\ x.right \in Seq(CoreLeaf(core))
    BY <1>3 DEF Forks
  <2>2. Seq(CoreLeaf(core)) \subseteq Seq(CoreStep(core))
    BY Wider DEF CoreStep
  <2> QED BY <2>1, <2>2
<1> QED BY <1>1, <1>2, <1>3 DEF CoreStep, CoreLeaf

LEMMA CoreRequestKinds ==
    ASSUME NEW core, NEW x \in CoreRequest(core)
    PROVE  /\ Write(x, x.n) # AgileRead /\ (Write(x, x.n) = CoreWrite => core)
           /\ x.res # "agile"
  BY DEF CoreRequest, CoreRes, Write, AgileRead, CoreWrite

LEMMA AgileKinds ==
    ASSUME NEW core, NEW x \in AgileStep(core)
    PROVE  /\ x.kind = "request" /\ x.res = "agile" /\ x.fail = IF core THEN "tells" ELSE "error"
           /\ x \notin CoreStep(core) /\ Write(x, x.n) # CoreWrite
<1>1. x.kind = "request" /\ x.res = "agile" /\ x.fail = IF core THEN "tells" ELSE "error"
  BY DEF AgileStep
<1>2. x \notin CoreStep(core)
  BY <1>1, CoreKinds, CoreRequestKinds
<1> QED BY <1>1, <1>2 DEF Write, CoreWrite

\* The vocabulary again, now for the steps of the core half.
LEMMA CoreLeaves ==
    ASSUME NEW core
    PROVE  /\ Seq(CoreRequest(core)) \subseteq Seq(CoreLeaf(core))
           /\ Seq(CoreLeaf(core)) \subseteq Seq(CoreStep(core))
           /\ \A code \in Codes : Answer(code) \in Seq(CoreLeaf(core))
           /\ \A res \in CoreRes : Get(res) \in Seq(CoreRequest(core))
           /\ \A l, r \in Seq(CoreLeaf(core)) : Either(l, r) \in Seq(CoreStep(core))
<1>1. /\ Seq(CoreRequest(core)) \subseteq Seq(CoreLeaf(core))
      /\ Seq(CoreLeaf(core)) \subseteq Seq(CoreStep(core))
      /\ Seq(Answers(Codes)) \subseteq Seq(CoreLeaf(core))
  BY Wider DEF CoreLeaf, CoreStep
<1>2. \A code \in Codes : Answer(code) \in Seq(CoreLeaf(core))
  BY <1>1, AnswerIn
<1>3. ASSUME NEW res \in CoreRes PROVE Get(res) \in Seq(CoreRequest(core))
  <2>1. Request("GET", res) \in CoreRequest(core)
    BY DEF Request, CoreRequest, Failures
  <2> QED BY <2>1, One DEF Get
<1>4. ASSUME NEW l \in Seq(CoreLeaf(core)), NEW r \in Seq(CoreLeaf(core))
      PROVE  Either(l, r) \in Seq(CoreStep(core))
  <2> DEFINE x == [kind |-> "either", left |-> l, right |-> r]
  <2>1. x \in Forks(CoreLeaf(core))
    BY DEF Forks
  <2> HIDE DEF x
  <2>2. x \in CoreStep(core)
    BY <2>1 DEF CoreStep
  <2> QED BY <2>2, One DEF Either, x
<1> QED BY <1>1, <1>2, <1>3, <1>4

LEMMA FailingCore ==
    ASSUME NEW core, NEW s \in Seq(CoreRequest(core)), NEW how \in WriteFails
    PROVE  Failing(s, how) \in Seq(CoreRequest(core))
<1>1. ASSUME NEW i \in DOMAIN s PROVE [s[i] EXCEPT !.fail = how] \in CoreRequest(core)
  <2>1. s[i] \in CoreRequest(core)
    BY <1>1
  <2> QED BY <2>1 DEF CoreRequest, Failures, WriteFails
<1>2. DOMAIN s = 1..Len(s) /\ Len(s) \in Nat
  OBVIOUS
<1> QED BY <1>1, <1>2 DEF Failing

LEMMA ChecksAreCore ==
    ASSUME NEW c, NEW g, NEW core
    PROVE  UpdateChecks(c, g) \in Seq(CoreStep(core))
<1> DEFINE S == Seq(CoreStep(core))
<1>1. \A s, t \in S : s \o t \in S
  BY Join
<1>2. /\ \A cond : Check(cond) \in S /\ Refuse(cond, "MISCONFIGURED") \in S
      /\ <<>> \in Seq(CoreLeaf(core)) /\ <<>> \in S
      /\ Answer("invalid_params") \in Seq(CoreLeaf(core))
  BY CoreLeaves, Nothing DEF Check, Refuse, Codes
<1>3. get_issue \in S /\ get_project \in S
  BY CoreLeaves DEF get_issue, get_project, CoreRes
<1>4. resolve_entries(c) \in S
  BY <1>2, CoreLeaves DEF resolve_entries
<1> HIDE DEF S
<1>5. resolve_issue_custom_fields_for_update(c) \in S
  BY <1>1, <1>2, <1>3, <1>4 DEF resolve_issue_custom_fields_for_update, When
<1>6. TagListGate(c, g) \in S
  BY <1>1, <1>2 DEF TagListGate
<1>7. UpdateChecks(c, g) \in S
  BY <1>1, <1>2, <1>5, <1>6 DEF UpdateChecks
<1> QED BY <1>7 DEF S

LEMMA MintsAreCore ==
    ASSUME NEW c, NEW core
    PROVE  resolve_and_mint_issue_uploads(c) \in Seq(CoreStep(core))
<1> DEFINE S == Seq(CoreStep(core))
<1>1. \A s, t \in S : s \o t \in S
  BY Join
<1>2. ASSUME NEW k \in Nat PROVE Numbered(mint_upload_token, k) \in S
  <2>1. Mint(k) \in CoreRequest(core)
    BY DEF Mint, CoreRequest, CoreRes, Failures
  <2>2. <<Mint(k)>> \in Seq(CoreRequest(core))
    BY <2>1, One
  <2> QED BY <2>2, CoreLeaves, MintIs
<1>3. resolve_issue_upload(c) \in S /\ <<>> \in S
  BY CoreLeaves, Nothing DEF resolve_issue_upload, Codes
<1>4. Numbered(mint_upload_token, 1) \in S /\ Numbered(mint_upload_token, 2) \in S
  BY <1>2
<1> HIDE DEF S
<1>5. resolve_and_mint_issue_uploads(c) \in S
  BY <1>1, <1>3, <1>4 DEF resolve_and_mint_issue_uploads, When
<1> QED BY <1>5 DEF S

LEMMA UpdateParts ==
    ASSUME NEW c, NEW g, c.tool = "update_redmine_issue"
    PROVE  LET core == update_has_core_change(c) IN
           Parts(Handler(c, g), CoreStep(core), AgileStep(core))
<1> DEFINE core == update_has_core_change(c)
           S == Seq(CoreStep(core))
<1>1. \A s, t \in S : s \o t \in S
  BY Join
<1>2. UpdateChecks(c, g) \in S /\ resolve_and_mint_issue_uploads(c) \in S
  BY ChecksAreCore, MintsAreCore
<1>3. Get("issue") \in S /\ get_attachment \in S /\ <<>> \in S
  BY CoreLeaves, Nothing DEF get_attachment, CoreRes
<1>4. CoreHalf(c) \in S
  <2>1. CASE core
    <3>1. PutIssue \in CoreRequest(core) /\ ReadBack \in CoreRequest(core)
      BY <2>1 DEF PutIssue, ReadBack, CoreRequest, CoreRes, Failures
    <3> HIDE DEF core
    <3>2. <<PutIssue, ReadBack>> \in Seq(CoreRequest(core))
      BY <3>1
    <3>3. <<PutIssue, ReadBack>> \in S
      BY <3>2, CoreLeaves
    <3> QED BY <2>1, <3>3, CoreHalfIs DEF core
  <2>2. CASE ~core
    BY <1>3, <2>2, CoreHalfIs
  <2> QED BY <2>1, <2>2
<1>5. fetch_attachments(c) \in S
  BY <1>1, <1>3 DEF fetch_attachments, When
<1>6. AgileHalf(c) \in Seq(AgileStep(core))
  <2> DEFINE how == IF core THEN "tells" ELSE "error"
             a == Agile("GET", how)
             b == Agile("PUT", how)
  <2>1. AgileHalf(c) = IF Has(c, "story_points") THEN <<a, b, a>> ELSE <<>>
    BY AgileHalfIs
  <2> HIDE DEF core
  <2>2. a \in AgileStep(core) /\ b \in AgileStep(core)
    BY DEF Agile, AgileStep
  <2> HIDE DEF a, b
  <2> QED BY <2>1, <2>2
<1> HIDE DEF S
<1>7. UpdateChecks(c, g) \o resolve_and_mint_issue_uploads(c) \o CoreHalf(c)
        \o fetch_attachments(c) \in S
  BY <1>1, <1>2, <1>4, <1>5
<1> HIDE DEF core
<1>8. Parts(Handler(c, g), CoreStep(core), AgileStep(core))
  BY <1>6, <1>7, UpdateIs, PartsFirst, PartsAfter DEF S
<1> QED BY <1>8 DEF core

LEMMA RecoveryIsCore ==
    ASSUME NEW core, NEW x \in CoreRequest(core), NEW c, NEW g
    PROVE  recover_required_fields(c, g, x) \in Seq(CoreStep(core))
<1> DEFINE y == [x EXCEPT !.fail = "error"]
           R == Seq(CoreRequest(core))
<1>1. \A s, t \in R : s \o t \in R
  BY Join
<1>2. get_issue \in R /\ get_project \in R /\ list_custom_field_definitions \in R /\ <<>> \in R
  BY CoreLeaves, Nothing DEF get_issue, get_project, list_custom_field_definitions, CoreRes
<1>3. \A s \in R : Failing(s, "giveup") \in R /\ Failing(s, "defaults") \in R
  BY FailingCore DEF Failures, WriteFails
<1>4. y \in CoreRequest(core)
  BY DEF CoreRequest, Failures
<1> HIDE DEF y
<1>5. <<y>> \in Seq(CoreLeaf(core)) /\ Answer("VALIDATION_FAILED") \in Seq(CoreLeaf(core))
  <2>1. <<y>> \in R
    BY <1>4, One
  <2> QED BY <2>1, CoreLeaves DEF Codes
<1>6. compute_autofill(<<y>>) \in Seq(CoreStep(core))
  BY <1>5, CoreLeaves DEF compute_autofill
<1>7. fetch_definitions_for_autofill(c) \in Seq(CoreStep(core))
  <2> HIDE DEF R
  <2>1. fetch_definitions_for_autofill(c) \in R
    BY <1>1, <1>2, <1>3 DEF fetch_definitions_for_autofill, When
  <2> QED BY <2>1, CoreLeaves DEF R
<1>8. fetch_definitions_for_autofill(c) \o compute_autofill(<<y>>) \in Seq(CoreStep(core))
  BY <1>6, <1>7, Join
<1> QED BY <1>5, <1>8, CoreLeaves DEF recover_required_fields, y

LEMMA ReadBackIsCore ==
    ASSUME NEW core, core, NEW c, NEW g
    PROVE  recover_read_back(c, g) \in Seq(CoreStep(core))
<1> DEFINE x == [update_issue[1] EXCEPT !.n = AGAIN]
<1>1. x = [kind |-> "request", verb |-> "PUT", res |-> "issue", n |-> 1, fail |-> "error"]
  BY UpdateIssueIs DEF Request, AGAIN
<1>2. recover_read_back(c, g) = recover_required_fields(c, g, x) \o Tail(update_issue)
  BY DEF recover_read_back
<1> HIDE DEF x
<1>3. x \in CoreRequest(core)
  BY <1>1 DEF CoreRequest, CoreRes, Failures
<1>4. Tail(update_issue) \in Seq(CoreStep(core))
  BY UpdateIssueIs, CoreLeaves DEF CoreRes
<1> QED BY <1>2, <1>3, <1>4, RecoveryIsCore, Join

\* What an update is about to do.
Core == update_has_core_change(call)

LEMMA UpdateNext ==
    ASSUME UpdateInv, pc = "run", call.tool = "update_redmine_issue", todo # <<>>
    PROVE  /\ step \in CoreStep(Core) \/ step \in AgileStep(Core)
           /\ Parts(Tail(todo), CoreStep(Core), AgileStep(Core))
           /\ step \in AgileStep(Core) =>
                todo \in Seq(AgileStep(Core)) /\ Tail(todo) \in Seq(AgileStep(Core))
           /\ AgileRead \in sent => step \in AgileStep(Core)
           /\ step.kind \in {"request", "answer", "either"}
<1>1. Parts(todo, CoreStep(Core), AgileStep(Core))
      /\ (AgileRead \in sent => todo \in Seq(AgileStep(Core)))
  BY DEF UpdateInv, Core
<1>2. /\ step \in CoreStep(Core) \cup AgileStep(Core)
      /\ Parts(Tail(todo), CoreStep(Core), AgileStep(Core))
      /\ step \notin CoreStep(Core) => todo \in Seq(AgileStep(Core))
  BY <1>1, PartsTail DEF step
<1>3. todo \in Seq(AgileStep(Core)) =>
        step \in AgileStep(Core) /\ Tail(todo) \in Seq(AgileStep(Core))
  BY HeadTail DEF step
<1>4. step \in AgileStep(Core) => step \notin CoreStep(Core)
  BY AgileKinds
<1>5. step.kind \in {"request", "answer", "either"}
  BY <1>2, AgileKinds, CoreKinds
<1> QED BY <1>1, <1>2, <1>3, <1>4, <1>5

\* An update that goes on.
LEMMA UpdateGoesOn ==
    ASSUME UNCHANGED <<call, pc, answer>>, answer = "none",
           CoreWrite \in acked' => Core, Parts(todo', CoreStep(Core), AgileStep(Core)),
           AgileRead \in sent' => todo' \in Seq(AgileStep(Core))
    PROVE  UpdateInv'
<1>1. (update_has_core_change(call))' = Core
  BY DEF Core, update_has_core_change
<1> QED BY <1>1 DEF UpdateInv

\* An update that ends.
LEMMA UpdateEnds ==
    ASSUME UpdateInv, call.tool = "update_redmine_issue", NEW code, NEW says, Reply(code, says),
           CoreWrite \in acked' => CoreWrite \in acked,
           code \notin {"ok", "INTERNAL"} /\ CoreWrite \in acked' /\ AgileRead \in sent' => says
    PROVE  UpdateInv'
<1>1. /\ pc' = "answered" /\ answer' = code /\ told' = says /\ call' = call
  BY DEF Reply
<1>2. (update_has_core_change(call))' = Core /\ (CoreWrite \in acked => Core)
  BY <1>1 DEF Core, update_has_core_change, UpdateInv
<1> QED BY <1>1, <1>2 DEF UpdateInv

\* A request of an update leaves the halves in order.
LEMMA UpdateSent ==
    ASSUME UpdateInv, Running("request"), call.tool = "update_redmine_issue",
           NEW did, NEW ok, Exchange(step, step.n, did, ok)
    PROVE  /\ CoreWrite \in acked' => Core
           /\ AgileRead \in sent' => step \in AgileStep(Core)
           /\ ~ok => acked' = acked
<1>1. pc = "run" /\ todo # <<>> /\ step.kind = "request"
  BY DEF Running
<1>2. /\ step \in CoreStep(Core) \/ step \in AgileStep(Core)
      /\ AgileRead \in sent => step \in AgileStep(Core)
  BY <1>1, UpdateNext
<1>3. CoreWrite \in acked => Core
  BY DEF UpdateInv, Core
<1>4. /\ sent' = sent \cup {Write(step, step.n)}
      /\ acked' \subseteq acked \cup {Write(step, step.n)}
      /\ ~ok => acked' = acked
  BY DEF Exchange
<1> HIDE DEF step
<1>5. CASE step \in AgileStep(Core)
  BY <1>3, <1>4, <1>5, AgileKinds
<1>6. CASE step \in CoreStep(Core)
  <2>1. /\ Write(step, step.n) # AgileRead /\ (Write(step, step.n) = CoreWrite => Core)
    BY <1>1, <1>6, CoreKinds, CoreRequestKinds
  <2> QED BY <1>2, <1>3, <1>4, <2>1
<1> QED BY <1>2, <1>5, <1>6

LEMMA UpdateFails ==
    ASSUME RunInv, UpdateInv, call.tool = "update_redmine_issue",
           NEW cause \in Causes, NEW did \in BOOLEAN, RequestFails(cause, did)
    PROVE  UpdateInv'
<1>1. Running("request") /\ Exchange(step, step.n, did, FALSE) /\ OnFailure(step, cause)
  BY DEF RequestFails
<1>2. pc = "run" /\ todo # <<>> /\ step.kind = "request" /\ answer = "none"
  BY <1>1 DEF Running, RunInv, CallInv
<1>3. /\ CoreWrite \in acked' => Core
      /\ AgileRead \in sent' => step \in AgileStep(Core)
      /\ acked' = acked
  BY <1>1, UpdateSent
<1>4. /\ step \in CoreStep(Core) \/ step \in AgileStep(Core)
      /\ Parts(Tail(todo), CoreStep(Core), AgileStep(Core))
      /\ step \in AgileStep(Core) => Tail(todo) \in Seq(AgileStep(Core))
  BY <1>2, UpdateNext
<1>5. ASSUME NEW code, NEW says, Reply(code, says), step.fail = "tells" => says PROVE UpdateInv'
  <2>1. CoreWrite \in acked' /\ AgileRead \in sent' => step.fail = "tells"
    BY <1>3, AgileKinds
  <2> QED BY <1>3, <1>5, <2>1, UpdateEnds
<1>6. ASSUME Continue(Tail(todo)) PROVE UpdateInv'
  BY <1>2, <1>3, <1>4, <1>6, UpdateGoesOn DEF Continue
<1>7. ASSUME Continue(<<>>) PROVE UpdateInv'
  BY <1>2, <1>3, <1>7, Nothing, PartsSecond, UpdateGoesOn DEF Continue
<1>8. ASSUME step.fail = "recover",
             Continue(recover_required_fields(call, cfg, step) \o Tail(todo))
      PROVE  UpdateInv'
  <2>1. step \notin AgileStep(Core)
    BY <1>8, AgileKinds
  <2>2. step \in CoreRequest(Core)
    BY <1>2, <1>4, <2>1, CoreKinds
  <2>3. recover_required_fields(call, cfg, step) \in Seq(CoreStep(Core))
    BY <2>2, RecoveryIsCore
  <2>4. Parts(todo', CoreStep(Core), AgileStep(Core)) /\ UNCHANGED <<call, pc, answer>>
    BY <1>4, <1>8, <2>3, PartsBefore DEF Continue
  <2> QED BY <1>2, <1>3, <2>1, <2>4, UpdateGoesOn
<1>14. ASSUME step.fail = "reread", Continue(recover_read_back(call, cfg) \o Tail(todo))
       PROVE  UpdateInv'
  <2>1. step \notin AgileStep(Core)
    BY <1>14, AgileKinds
  <2>2. step \in CoreRequest(Core)
    BY <1>2, <1>4, <2>1, CoreKinds
  <2>3. recover_read_back(call, cfg) \in Seq(CoreStep(Core))
    <3>1. Core
      BY <1>14, <2>2 DEF CoreRequest
    <3> QED BY <3>1, ReadBackIsCore
  <2>4. Parts(todo', CoreStep(Core), AgileStep(Core)) /\ UNCHANGED <<call, pc, answer>>
    BY <1>4, <1>14, <2>3, PartsBefore DEF Continue
  <2> QED BY <1>2, <1>3, <2>1, <2>4, UpdateGoesOn
<1> HIDE DEF step
<1>9. CASE \E code : Reply(code, FALSE) /\ step.fail # "tells"
  BY <1>5, <1>9
<1>10. CASE \E code : Reply(code, TRUE)
  BY <1>5, <1>10
<1>11. CASE Continue(Tail(todo)) \/ Continue(<<>>)
  BY <1>6, <1>7, <1>11
<1>12. CASE /\ step.fail = "recover"
            /\ Continue(recover_required_fields(call, cfg, step) \o Tail(todo))
  BY <1>8, <1>12
<1>15. CASE step.fail = "reread" /\ Continue(recover_read_back(call, cfg) \o Tail(todo))
  BY <1>14, <1>15
<1>13. \/ \E code : Reply(code, FALSE) /\ step.fail # "tells"
       \/ \E code : Reply(code, TRUE)
       \/ Continue(Tail(todo)) \/ Continue(<<>>)
       \/ /\ step.fail = "recover"
          /\ Continue(recover_required_fields(call, cfg, step) \o Tail(todo))
       \/ step.fail = "reread" /\ Continue(recover_read_back(call, cfg) \o Tail(todo))
  BY <1>1 DEF OnFailure
<1> QED BY <1>9, <1>10, <1>11, <1>12, <1>13, <1>15

LEMMA UpdateStep == ASSUME RunInv, UpdateInv, [Next]_vars PROVE UpdateInv'
<1>1. CASE UNCHANGED vars
  BY <1>1 DEF vars, UpdateInv, update_has_core_change
<1> SUFFICES ASSUME call'.tool = "update_redmine_issue", Next PROVE UpdateInv'
  BY <1>1 DEF UpdateInv
<1>2. CASE Route
  <2>1. /\ pc = "route" /\ sent' = {} /\ acked' = {} /\ call' = call
        /\ \/ pc' = "answered"
           \/ pc' = "run" /\ todo' = Handler(call, cfg) /\ answer' = "none"
    BY <1>2 DEF Route, Reply, NothingSent, RunInv, CallInv
  <2>2. (update_has_core_change(call))' = Core /\ call.tool = "update_redmine_issue"
    BY <2>1 DEF Core, update_has_core_change
  <2>3. Parts(Handler(call, cfg), CoreStep(Core), AgileStep(Core))
    BY <2>2, UpdateParts DEF Core
  <2> QED BY <2>1, <2>2, <2>3 DEF UpdateInv
<1>3. CASE dispatch_tool_call
  <2>1. pc = "dispatch" /\ sent' = {} /\ acked' = {} /\ pc' # "run"
    BY <1>3 DEF dispatch_tool_call, Reply, NothingSent, RunInv, CallInv
  <2> QED BY <2>1 DEF UpdateInv
<1>4. ASSUME NEW c, NEW h, Arrive(c, h) PROVE UpdateInv'
  <2>1. sent' = {} /\ acked' = {} /\ pc' # "run"
    BY <1>4 DEF Arrive, RunInv, CallInv
  <2> QED BY <2>1 DEF UpdateInv
<1>5. CASE Finish
  BY <1>5 DEF Finish, NoCall
<1>6. CASE ~Route /\ ~dispatch_tool_call /\ ~Finish /\ \A c, h : ~Arrive(c, h)
  <2>1. pc = "run" /\ answer = "none" /\ call' = call /\ call.tool = "update_redmine_issue"
    <3>1. pc = "run" /\ call' = call
      BY <1>6, LoopNextRuns DEF Next, LoopNext, Reply, Refuses, Branch, Succeeds, HandlerPanics,
         RequestOk, RequestFails, OnFailure, Continue, Running, LevelTooDeep, LevelFails,
         LevelListed, ChildOverCap, ChildCopied, ChildFails, CopyOn
    <3> QED BY <3>1 DEF RunInv, CallInv
  <2>2. CASE Refuses
    <3>1. todo # <<>> /\ step.kind = "answer" /\ Reply(step.code, FALSE) /\ NothingSent
      BY <2>2 DEF Refuses, Running
    <3>2. AgileRead \notin sent
      BY <2>1, <3>1, UpdateNext, AgileKinds
    <3> QED BY <2>1, <3>1, <3>2, UpdateEnds DEF NothingSent
  <2>3. CASE Branch
    <3>1. todo # <<>> /\ step.kind = "either" /\ NothingSent
      BY <2>3 DEF Branch, Running
    <3>2. PICK p \in {step.left, step.right} : Continue(p \o Tail(todo))
      BY <2>3 DEF Branch
    <3>3. step \in CoreStep(Core) /\ AgileRead \notin sent
          /\ Parts(Tail(todo), CoreStep(Core), AgileStep(Core))
      BY <2>1, <3>1, UpdateNext, AgileKinds
    <3>4. p \in Seq(CoreStep(Core))
      BY <3>1, <3>2, <3>3, CoreKinds
    <3>5. Parts(todo', CoreStep(Core), AgileStep(Core)) /\ UNCHANGED <<call, pc, answer>>
      BY <3>2, <3>3, <3>4, PartsBefore DEF Continue
    <3>6. CoreWrite \in acked' => Core
      BY <2>1, <3>1 DEF NothingSent, UpdateInv, Core
    <3> QED BY <2>1, <3>1, <3>3, <3>5, <3>6, UpdateGoesOn DEF NothingSent
  <2>4. CASE Succeeds
    BY <2>1, <2>4, UpdateEnds DEF Succeeds, NothingSent
  <2>5. CASE HandlerPanics
    BY <2>1, <2>5, UpdateEnds DEF HandlerPanics, NothingSent
  <2>6. CASE RequestOk
    <3>1. Running("request") /\ Exchange(step, step.n, TRUE, TRUE) /\ Continue(Tail(todo))
      BY <2>6 DEF RequestOk
    <3>2. (CoreWrite \in acked' => Core) /\ (AgileRead \in sent' => step \in AgileStep(Core))
      BY <2>1, <3>1, UpdateSent
    <3>3. /\ Parts(Tail(todo), CoreStep(Core), AgileStep(Core))
          /\ step \in AgileStep(Core) => Tail(todo) \in Seq(AgileStep(Core))
      BY <2>1, <3>1, UpdateNext DEF Running
    <3> QED BY <2>1, <3>1, <3>2, <3>3, UpdateGoesOn DEF Continue
  <2>7. ASSUME NEW cause \in Causes, NEW did \in BOOLEAN, RequestFails(cause, did)
        PROVE  UpdateInv'
    BY <2>1, <2>7, UpdateFails
  <2>8. ~LoopNext
    <3>1. todo # <<>> => step.kind \in {"request", "answer", "either"}
      BY <2>1, UpdateNext
    <3> QED BY <3>1, LoopNextRuns
  <2> QED BY <1>6, <2>2, <2>3, <2>4, <2>5, <2>6, <2>7, <2>8 DEF Next, LoopNext
<1> QED BY <1>2, <1>3, <1>4, <1>5, <1>6

LEMMA InitPartial == ASSUME Init PROVE PartialInv
  BY DEF Init, Idle, NoCall, PartialInv, ImportInv, UpdateInv

LEMMA PartialTold == ASSUME RunInv, PartialInv PROVE PartialSuccessIsTold
<1>1. missed => truncated
  BY DEF PartialInv
<1>2. ASSUME answer = "ok", call.tool = "import_time_entries"
      PROVE  /\ items.succeeded = Cardinality(acked)
             /\ items.succeeded + items.failed = Cardinality(sent)
             /\ ~Has(call, "stop_on_error") => Cardinality(sent) = BatchSize
  <2> DEFINE k == Cardinality(sent)
             m == Cardinality(acked)
  <2>1. /\ k \in 0..3 /\ IsFiniteSet(sent) /\ acked \subseteq sent
        /\ Counted(m, k - m)
        /\ k = 3 \/ Has(call, "stop_on_error")
    BY <1>2 DEF PartialInv, ImportInv
  <2>2. m \in Nat
    BY <2>1, FS_Subset, FS_CardinalityType
  <2> HIDE DEF k, m
  <2>3. items.succeeded = m /\ items.succeeded + items.failed = k
    BY <2>1, <2>2 DEF Counted
  <2> QED BY <2>1, <2>3 DEF k, m, BatchSize
<1>3. ASSUME call.tool = "update_redmine_issue", answer \notin {"none", "ok", "INTERNAL"},
             CoreWrite \in acked,
             [verb |-> "GET", res |-> "agile", n |-> 0] \in sent
      PROVE  told
  BY <1>3 DEF PartialInv, UpdateInv, AgileRead
<1> QED BY <1>1, <1>2, <1>3 DEF PartialSuccessIsTold

\* A call that succeeds in part says so: copy_issue puts every subtask it left out
\* on record (subtasks_truncated), the counters of import_time_entries add up to what
\* was sent and acknowledged, however few of the entries the output caps let it list,
\* and an update_redmine_issue whose agile half failed says that the issue was updated
\* (agile_failure_result). Read-backs that fail before that half are not part of it.
THEOREM NoSilentLoss == Spec => []PartialSuccessIsTold
<1>1. RunInv /\ PartialInv /\ [Next]_vars => PartialInv'
  BY MissedStep, ImportStep, UpdateStep DEF PartialInv
<1>2. Init => PartialInv
  BY InitPartial
<1>3. RunInv /\ PartialInv => PartialSuccessIsTold
  BY PartialTold
<1> QED BY <1>1, <1>2, <1>3, CallsKeepTheirShape, PTL DEF Spec

===============================================================================
