------------------------------ MODULE ToolSteps ------------------------------
(***************************************************************************)
(* The vocabulary the tool modules are written in. A tool handler is a     *)
(* straight line of argument checks, refusals and requests to Redmine, so  *)
(* a handler is a sequence of steps; ToolCall runs it. A request's `fail`  *)
(* says what the handler does when the request fails.                      *)
(*                                                                         *)
(* A call is a record: the tool, its action, the set of argument keys that *)
(* are present, and the key whose value is malformed ("none" if all are    *)
(* well formed). cfg is the server's configuration.                        *)
(***************************************************************************)
EXTENDS Naturals, Sequences

\* What a handler does when a request fails (ToolCall!OnFailure).
Failures == {"error",     \* return to_tool_error(e)
             "tells",     \* the same, and the message says earlier writes hold
             "skip",      \* go on without the result
             "item",      \* go on, and report this item of the batch as failed
             "stop",      \* the same, and attempt no further item
             "upload",    \* a rejection means the file is too large
             "giveup",    \* answer the required-field error
             "defaults",  \* a 403 is tolerated, anything else gives up
             "renamed",   \* a 404 says that the page was updated, not renamed
             "recover",   \* try the required-field recovery, once
             "reread"}    \* the same, for the read-back of a write already performed

\* One request; n numbers the writes of one call that are meant to be distinct, and
\* AGAIN marks the one write that a handler may send after it was performed.
Request(verb, res) == [kind |-> "request", verb |-> verb, res |-> res, n |-> 0, fail |-> "error"]
AGAIN == 1

Get(res)    == <<Request("GET", res)>>
Post(res)   == <<Request("POST", res)>>
Put(res)    == <<Request("PUT", res)>>
Delete(res) == <<Request("DELETE", res)>>

\* The same steps with another reaction to failure, or another number.
Failing(steps, how) == [i \in DOMAIN steps |-> [steps[i] EXCEPT !.fail = how]]
Numbered(steps, k)  == [i \in DOMAIN steps |-> [steps[i] EXCEPT !.n = k]]

\* The handler returns here.
Answer(code) == <<[kind |-> "answer", code |-> code]>>

\* The handler returns an argument error unless cond, or a coded refusal if cond.
Check(cond)        == IF cond THEN <<>> ELSE Answer("invalid_params")
Refuse(cond, code) == IF cond THEN Answer(code) ELSE <<>>

\* A branch on data that came from Redmine or from the caller's values.
Either(left, right) == <<[kind |-> "either", left |-> left, right |-> right]>>

MayAnswer(code) == Either(<<>>, Answer(code))

\* Steps taken only if cond.
When(cond, steps) == IF cond THEN steps ELSE <<>>

Has(c, key)  == key \in c.keys
Good(c, key) == c.bad # key

\* A key that an action cannot do without, and whose value must be well formed.
Need(c, key) == Check(Has(c, key) /\ Good(c, key))

\* A project reference, if given, is a number or a slug.
resolve_project_ref(c) == Check(Good(c, "project_id"))

\* The in-handler refusal of a write action of a tool that also reads.
ReadOnlyGate(cfg) == Refuse(cfg.read_only, "READ_ONLY")

Mutates(step) == step.verb # "GET"
=============================================================================
