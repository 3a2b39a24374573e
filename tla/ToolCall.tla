------------------------------- MODULE ToolCall -------------------------------
(***************************************************************************)
(* One server answering tool calls, one at a time: the scope gate, the     *)
(* router, and the handler's steps against a Redmine that may refuse a     *)
(* request, or perform it and lose the answer (server.rs, panic_guard.rs,  *)
(* error.rs and the tool modules). Concurrent calls share no state of this *)
(* server, so one call at a time loses nothing here.                       *)
(***************************************************************************)
EXTENDS ToolTable

CONSTANTS Configs,         \* server configurations
          MaxChildren,     \* bound: subtasks of one issue
          COPY_MAX_TOTAL,  \* issues one copy_issue may create
          COPY_MAX_DEPTH,  \* levels of subtasks one copy_issue may enter
          MAX_RESPONSE_ITEMS  \* items an answer may list

ASSUME CopyAssumption ==
    MaxChildren \in Nat /\ COPY_MAX_TOTAL \in Nat \ {0} /\ COPY_MAX_DEPTH \in Nat

\* The configuration refuses 0.
ASSUME CapsAssumption == MAX_RESPONSE_ITEMS \in Nat \ {0}

VARIABLES cfg,        \* the configuration, fixed at start
          call,       \* the call being served
          held,       \* the scopes of its token
          pc,         \* "idle", "dispatch", "route", "run" or "answered"
          todo,       \* the handler's remaining steps
          sent,       \* requests sent for this call
          acked,      \* writes that Redmine acknowledged
          performed,  \* writes that Redmine performed, in order
          answer,     \* the answer's code, "none" before
          told,       \* the answer says that earlier writes hold
          copied,     \* subtasks copied so far (subtasks_copied)
          truncated,  \* subtasks_truncated
          missed,     \* history: some subtask of the source has no copy
          items       \* import: entries counted and entries listed in results

copyVars == <<copied, truncated, missed>>
vars == <<cfg, call, held, pc, todo, sent, acked, performed, answer, told, copyVars, items>>

Causes == {"unauthorized", "forbidden", "missing", "invalid", "limited", "unreachable",
           "oversized", "garbled"}

\* The answer's code for a failed request. Error::Config is no such failure: it comes
\* before the request is sent, and only from a download link that does not parse
\* (the MISCONFIGURED that get_redmine_attachment may answer before its download).
to_tool_error(cause) ==
    CASE cause = "unauthorized" -> "UNAUTHORIZED"
      [] cause = "forbidden"   -> "FORBIDDEN"
      [] cause = "missing"     -> "NOT_FOUND"
      [] cause = "invalid"     -> "VALIDATION_FAILED"
      [] cause = "limited"     -> "RATE_LIMITED"
      [] cause = "unreachable" -> "UNREACHABLE"
      [] cause = "oversized"   -> "LIMIT_EXCEEDED"
      [] cause = "garbled"     -> "UNEXPECTED_RESPONSE"

\* Redmine may have performed a write whose answer did not arrive, was larger than the
\* client reads, or was not understood.
MayHaveHappened(cause) == cause \in {"unreachable", "oversized", "garbled"}

NoItems == [succeeded |-> 0, failed |-> 0, listed |-> 0]
NoCall == [tool |-> "none", action |-> "none", keys |-> {}, bad |-> "none"]

Idle ==
    /\ call = NoCall /\ held = {} /\ pc = "idle" /\ todo = <<>>
    /\ sent = {} /\ acked = {} /\ performed = <<>> /\ answer = "none" /\ told = FALSE
    /\ copied = 0 /\ truncated = FALSE /\ missed = FALSE
    /\ items = NoItems

Init == cfg \in Configs /\ Idle

\* Tokens worth telling apart for a call: enough, one scope short, none, admin.
TokensFor(c) ==
    LET need == required_for_call(c).all \cup required_for_call(c).any
    IN  IF cfg.enforce THEN {need, {}, {ADMIN_SCOPE}} \cup {need \ {s} : s \in need} ELSE {{}}

Arrive(c, h) ==
    /\ pc = "idle"
    /\ call' = c /\ held' = h /\ pc' = "dispatch"
    /\ UNCHANGED <<cfg, todo, sent, acked, performed, answer, told, copyVars, items>>

Reply(code, says) ==
    /\ answer' = code /\ told' = says /\ pc' = "answered" /\ todo' = <<>>
    /\ UNCHANGED <<cfg, call, held, copyVars>>

Continue(rest) ==
    /\ todo' = rest
    /\ UNCHANGED <<cfg, call, held, pc, answer, told>>

NothingSent == UNCHANGED <<sent, acked, performed>>

\* dispatch_tool_call up to the router.
dispatch_tool_call ==
    /\ pc = "dispatch"
    /\ IF cfg.enforce /\ ~Satisfies(required_for_call(call), held)
       THEN Reply("INSUFFICIENT_SCOPE", FALSE)
       ELSE pc' = "route" /\ UNCHANGED <<cfg, call, held, todo, answer, told, copyVars>>
    /\ NothingSent /\ UNCHANGED items

\* Mutant: an action that does not deserialize is taken for the tool's first one.
RouteLenient ==
    /\ pc = "route"
    /\ IF Routed(call.tool, cfg)
       THEN /\ pc' = "run"
            /\ todo' = Handler([call EXCEPT !.action = CHOOSE a \in Actions(call.tool) : TRUE], cfg)
            /\ UNCHANGED <<cfg, call, held, answer, told, copyVars>>
       ELSE Reply("invalid_params", FALSE)
    /\ NothingSent /\ UNCHANGED items

\* The router knows the tool and its arguments deserialize, or the call ends here.
Route ==
    /\ pc = "route"
    /\ IF Routed(call.tool, cfg) /\ call.action \in Actions(call.tool)
       THEN /\ pc' = "run" /\ todo' = Handler(call, cfg)
            /\ UNCHANGED <<cfg, call, held, answer, told, copyVars>>
       ELSE Reply("invalid_params", FALSE)
    /\ NothingSent /\ UNCHANGED items

step == Head(todo)
Running(kind) == pc = "run" /\ todo # <<>> /\ step.kind = kind

Refuses ==
    /\ Running("answer")
    /\ Reply(step.code, FALSE) /\ NothingSent /\ UNCHANGED items

Branch ==
    /\ Running("either")
    /\ \E path \in {step.left, step.right} : Continue(path \o Tail(todo))
    /\ NothingSent /\ UNCHANGED <<copyVars, items>>

\* The number of entries of the modelled batch.
BatchSize == 3

\* output::ok lists a prefix of the entries: no more than the item cap allows, and
\* fewer if they are too many bytes. This answer has no pagination object, so
\* nothing in it marks the cut.
apply_caps(listed) ==
    /\ listed <= BatchSize /\ listed <= MAX_RESPONSE_ITEMS
    /\ items' = [items EXCEPT !.listed = listed]

\* The handler ran to its end.
Succeeds ==
    /\ pc = "run" /\ todo = <<>>
    /\ Reply("ok", FALSE) /\ NothingSent
    /\ IF call.tool = "import_time_entries"
       THEN \E listed \in 0..BatchSize : apply_caps(listed)
       ELSE UNCHANGED items

\* catch_tool_panic: a panic anywhere in the handler is an answer, too.
HandlerPanics ==
    /\ pc = "run"
    /\ Reply("INTERNAL", FALSE) /\ NothingSent /\ UNCHANGED items

---------------------------------------------------------------------------
(* Requests.                                                               *)

Write(s, n) == [verb |-> s.verb, res |-> s.res, n |-> n]

\* A request that Redmine performs (did) and answers well (ok), or not.
Exchange(s, n, did, ok) ==
    LET w == Write(s, n) IN
    /\ sent' = sent \cup {w}
    /\ performed' = IF did /\ Mutates(s) THEN Append(performed, w) ELSE performed
    /\ acked' = IF ok /\ Mutates(s) THEN acked \cup {w} ELSE acked

\* An unanswered item of a batch is counted, whatever Redmine did with it.
Batched(s) == s.fail \in {"item", "stop"}

RequestOk ==
    /\ Running("request")
    /\ Exchange(step, step.n, TRUE, TRUE)
    /\ Continue(Tail(todo))
    /\ items' = IF Batched(step) THEN [items EXCEPT !.succeeded = @ + 1] ELSE items
    /\ UNCHANGED copyVars

\* The recovery has fetched the definitions, so what runs now is its one retry.
Retried == Write(list_custom_field_definitions[1], 0) \in sent

\* What the handler does about a failed request.
OnFailure(s, cause) ==
    \/ s.fail = "error" /\ Reply(to_tool_error(cause), FALSE)
    \/ s.fail = "tells" /\ Reply(to_tool_error(cause), TRUE)
    \/ s.fail \in {"skip", "item"} /\ Continue(Tail(todo)) /\ UNCHANGED copyVars
    \/ s.fail = "stop" /\ Continue(<<>>) /\ UNCHANGED copyVars
    \/ s.fail = "upload"
       /\ Reply(IF cause = "invalid" THEN "FILE_TOO_LARGE" ELSE to_tool_error(cause), FALSE)
    \/ s.fail = "giveup" /\ Reply("VALIDATION_FAILED", FALSE)
    \/ s.fail = "defaults"
       /\ IF cause = "forbidden"
          THEN Continue(Tail(todo)) /\ UNCHANGED copyVars
          ELSE Reply("VALIDATION_FAILED", FALSE)
    \/ s.fail = "renamed"
       /\ IF cause = "missing" THEN Reply("FORBIDDEN", TRUE) ELSE Reply(to_tool_error(cause), FALSE)
    \/ s.fail = "recover" /\ Reply(to_tool_error(cause), FALSE)
    \/ s.fail = "recover" /\ Recoverable(cause)
       /\ Continue(recover_required_fields(call, cfg, s) \o Tail(todo)) /\ UNCHANGED copyVars
    \/ s.fail = "reread" /\ Reply(to_tool_error(cause), FALSE)
    \/ s.fail = "reread" /\ Recoverable(cause) /\ ~Retried
       /\ Continue(recover_read_back(call, cfg) \o Tail(todo)) /\ UNCHANGED copyVars

RequestFails(cause, did) ==
    /\ Running("request")
    /\ ~(step.res = "agile" /\ step.verb = "GET" /\ cause = "missing")
    /\ did => MayHaveHappened(cause)
    /\ Exchange(step, step.n, did, FALSE)
    /\ OnFailure(step, cause)
    /\ items' = IF Batched(step) THEN [items EXCEPT !.failed = @ + 1] ELSE items

---------------------------------------------------------------------------
(* copy_issue's queue of levels.                                           *)

CopyOn == UNCHANGED <<cfg, call, held, pc, answer, told, items>>

\* Too deep: not even listed, so whether it has subtasks is not known here.
LevelTooDeep ==
    /\ Running("level") /\ step.depth >= COPY_MAX_DEPTH
    /\ truncated' = TRUE /\ missed' \in {missed, TRUE}
    /\ todo' = Tail(todo) /\ UNCHANGED copied /\ NothingSent /\ CopyOn

\* list_subtasks answers with k of them, or fails.
LevelListed(k) ==
    /\ Running("level") /\ step.depth < COPY_MAX_DEPTH
    /\ todo' = [i \in 1..k |-> CopyChild(step.depth)[1]] \o Tail(todo)
    /\ Exchange(list_subtasks[1], 0, TRUE, TRUE)
    /\ UNCHANGED copyVars /\ CopyOn

\* Mutant: a failed listing is logged and passed over.
LevelFailsSilently ==
    /\ Running("level") /\ step.depth < COPY_MAX_DEPTH
    /\ missed' \in {missed, TRUE}
    /\ todo' = Tail(todo) /\ Exchange(list_subtasks[1], 0, FALSE, FALSE)
    /\ UNCHANGED <<copied, truncated>> /\ CopyOn

LevelFails ==
    /\ Running("level") /\ step.depth < COPY_MAX_DEPTH
    /\ truncated' = TRUE /\ missed' \in {missed, TRUE}
    /\ todo' = Tail(todo) /\ Exchange(list_subtasks[1], 0, FALSE, FALSE)
    /\ UNCHANGED copied /\ CopyOn

total_created == copied + 1

\* At the cap the whole copy ends.
ChildOverCap ==
    /\ Running("child") /\ total_created >= COPY_MAX_TOTAL
    /\ truncated' = TRUE /\ missed' = TRUE
    /\ todo' = <<>> /\ UNCHANGED copied /\ NothingSent /\ CopyOn

ChildCopied ==
    /\ Running("child") /\ total_created < COPY_MAX_TOTAL
    /\ copied' = copied + 1
    /\ todo' = Tail(todo) \o CopyLevel(step.depth + 1)
    /\ Exchange(create_issue[1], Len(performed), TRUE, TRUE)
    /\ UNCHANGED <<truncated, missed>> /\ CopyOn

\* A copy that failed, or whose answer was lost: its subtasks are not copied.
ChildFails(did) ==
    /\ Running("child") /\ total_created < COPY_MAX_TOTAL
    /\ truncated' = TRUE /\ missed' = TRUE
    /\ todo' = Tail(todo) /\ Exchange(create_issue[1], Len(performed), did, FALSE)
    /\ UNCHANGED copied /\ CopyOn

---------------------------------------------------------------------------
\* The server is ready for the next call.
Finish ==
    /\ pc = "answered"
    /\ call' = NoCall /\ held' = {} /\ pc' = "idle" /\ todo' = <<>>
    /\ sent' = {} /\ acked' = {} /\ performed' = <<>> /\ answer' = "none" /\ told' = FALSE
    /\ copied' = 0 /\ truncated' = FALSE /\ missed' = FALSE
    /\ items' = NoItems
    /\ UNCHANGED cfg

Next ==
    \/ pc = "idle" /\ \E c \in Calls : \E h \in TokensFor(c) : Arrive(c, h)
    \/ dispatch_tool_call \/ Route \/ Refuses \/ Branch \/ Succeeds \/ HandlerPanics
    \/ RequestOk
    \/ \E cause \in Causes, did \in BOOLEAN : RequestFails(cause, did)
    \/ LevelTooDeep \/ LevelFails \/ \E k \in 0..MaxChildren : LevelListed(k)
    \/ ChildOverCap \/ ChildCopied \/ \E did \in BOOLEAN : ChildFails(did)
    \/ Finish

Spec == Init /\ [][Next]_vars

---------------------------------------------------------------------------
(* Properties.                                                             *)

\* The state of one call; no copy exceeds its cap, and an answer exists exactly
\* when the call is answered.
TypeOK ==
    /\ cfg \in Configs
    /\ call.tool \in Tools \cup {"none"}
    /\ pc \in {"idle", "dispatch", "route", "run", "answered"}
    /\ (answer = "none") = (pc # "answered")
    /\ told \in BOOLEAN /\ truncated \in BOOLEAN /\ missed \in BOOLEAN
    /\ copied \in 0..(COPY_MAX_TOTAL - 1)
    /\ items \in [succeeded : 0..BatchSize, failed : 0..BatchSize, listed : 0..BatchSize]

\* A read-only server never sends Redmine anything but reads, whichever tool,
\* action and arguments a client picks: between them write_tools::ALL and the
\* handlers' own refusals cover every write (server.rs RedmineMcp::new).
ReadOnlyHolds == cfg.read_only => \A r \in sent : ~Mutates(r)

Refusals == {"invalid_params", "INSUFFICIENT_SCOPE", "READ_ONLY", "MISCONFIGURED",
             "CONFIRMATION_REQUIRED", "CHILDREN_PRESENT", "SOURCE_REQUIRED",
             "UNSUPPORTED_SOURCE", "PATH_NOT_ALLOWED"}

\* A refusal the caller is expected to fix and send again comes before the first
\* write: no half-done call, no upload token minted for nothing (the batch
\* validation of import_time_entries, resolve_and_mint_issue_uploads, D7 of DMSF).
RefusedMeansUntouched == answer \in Refusals => \A r \in sent : ~Mutates(r)

\* A call whose action the scope table does not know passes the scope gate
\* unchecked; it must not get a single request out (ScopeRule::PerAction).
UncheckedSendsNothing ==
    cfg.enforce /\ pc # "idle" /\ ~required_for_call(call).checked => sent = {}

\* list_tools shows exactly the tools of which the token may make some call
\* (visible_for agrees with required_for_call).
VisibleIffCallable ==
    pc = "dispatch" =>
        (visible_for(call.tool, held)
           <=> \E a \in Actions(call.tool), k \in Params(call.tool) \cup {"none"} :
                 LET req == required_for_call([call EXCEPT !.action = a, !.keys = {k} \ {"none"}])
                 IN  req.checked /\ Satisfies(req, held))

\* The update of an issue, and the same update sent again after its read-back failed.
CoreWrite == [verb |-> "PUT", res |-> "issue", n |-> 0]
Repeat == [CoreWrite EXCEPT !.n = AGAIN]

\* No write of one call is performed twice, also not when the recovery of required
\* fields sends it again or when an answer was lost; with one exception. The recovery
\* of update_redmine_issue also takes a 422 on the read-back for a rejected update and
\* repeats an update that Redmine performed (issues.rs, the Err of update_issue): once
\* at most, and only an update that Redmine acknowledged, never one whose answer was
\* lost.
WriteOnce ==
    /\ \A i, j \in DOMAIN performed : performed[i] = performed[j] => i = j
    /\ \A i \in DOMAIN performed : performed[i] = Repeat => CoreWrite \in acked

\* What a successful call must have made Redmine do.
Promised(c) ==
    LET W(verb, res) == {[verb |-> verb, res |-> res, n |-> 0]}
        Uploads == {[verb |-> "POST", res |-> "upload", n |-> i] : i \in {1, 2}}
        IfHas(k, ws) == IF Has(c, k) THEN ws ELSE {}
    IN  CASE c.tool \in {"create_redmine_issue", "copy_issue"} ->
               W("POST", "issue") \cup IfHas("uploads", Uploads)
          [] c.tool = "update_redmine_issue" ->
               IfHas("story_points", W("PUT", "agile"))
               \cup IfHas("uploads", Uploads)
               \cup (IF c.keys \ {"story_points", "private_notes"} # {} THEN W("PUT", "issue") ELSE {})
          [] c.tool = "delete_redmine_issue" -> W("DELETE", "issue")
          [] c.tool = "delete_file" -> W("DELETE", "attachment")
          [] c.tool = "upload_file" -> W("POST", "upload") \cup W("POST", "file")
          [] c.tool = "manage_document" /\ c.action = "create" ->
               W("POST", "upload") \cup W("POST", "document")
          [] c.tool = "manage_redmine_wiki_page" /\ c.action \in {"create", "update", "rename"} ->
               W("PUT", "wiki")
          [] c.tool = "manage_contact" /\ c.action = "assign_to_project" -> W("POST", "contact_project")
          [] OTHER -> {}

\* A call that answers success had every write that Promised lists for it acknowledged
\* by Redmine: a created or updated issue with its uploads and its agile row, a deleted
\* issue or attachment, a file, a document, a wiki page, a contact's project. The
\* best-effort extras of a copy (its link, its subtasks) are not promised.
SuccessMeansDone == answer = "ok" => Promised(call) \subseteq acked

\* A call that succeeds in part says so. copy_issue never cuts a subtree silently,
\* at its caps or after a failure (subtasks_truncated: "never a silent cut").
\* import_time_entries counts every entry it sent, none as created that was not, and
\* without stop_on_error every entry of the batch, also where the output caps cut the
\* list of results (total against results is then all that tells of the cut).
\* update_redmine_issue says that the issue is updated when its agile half failed
\* (agile_failure_result); it does not when it only failed to read back the issue or
\* its attachments, before that half.
PartialSuccessIsTold ==
    /\ answer = "ok" /\ missed => truncated
    /\ answer = "ok" /\ call.tool = "import_time_entries" =>
         /\ items.succeeded = Cardinality(acked)
         /\ items.succeeded + items.failed = Cardinality(sent)
         /\ ~Has(call, "stop_on_error") => Cardinality(sent) = BatchSize
    /\ /\ call.tool = "update_redmine_issue" /\ answer \notin {"none", "ok", "INTERNAL"}
       /\ CoreWrite \in acked
       /\ [verb |-> "GET", res |-> "agile", n |-> 0] \in sent
       => told
===============================================================================
