-------------------------- MODULE CustomFieldSteps --------------------------
(***************************************************************************)
(* The requests behind an issue's custom_fields argument: resolving names  *)
(* before the write, and the one recovery after Redmine rejected the write *)
(* because a required field is missing (tools/custom_fields.rs).           *)
(***************************************************************************)
EXTENDS RedmineApi

\* custom_fields carries ids; custom_fields_by_name stands for an array with a
\* name entry, which needs the project's definitions.
validate_entry_shapes(c) ==
    /\ Good(c, "custom_fields")
    /\ c.bad # "custom_fields_by_name"

\* An unknown, ambiguous or repeated entry is an argument error. Names are
\* judged by what Redmine defines, after the lookup.
resolve_entries(c) == Either(<<>>, Answer("invalid_params"))

resolve_issue_custom_fields(c) ==
    LET given == Has(c, "custom_fields") \/ Has(c, "custom_fields_by_name") IN
    When(given,
         Check(validate_entry_shapes(c))
         \o When(Has(c, "custom_fields_by_name"), get_project)
         \o resolve_entries(c))

\* The update knows only the issue: a name entry costs a read of it first.
resolve_issue_custom_fields_for_update(c) ==
    LET given == Has(c, "custom_fields") \/ Has(c, "custom_fields_by_name") IN
    When(given,
         Check(validate_entry_shapes(c))
         \o When(Has(c, "custom_fields_by_name"), get_issue \o get_project)
         \o resolve_entries(c))

\* The definitions for the recovery are always fetched again; a 403 on the
\* admin-only list leaves the project's own list.
fetch_definitions_for_autofill(c) ==
    Failing(When(c.tool = "update_redmine_issue", get_issue) \o get_project, "giveup")
    \o Failing(list_custom_field_definitions, "defaults")

\* No field of the rejection has a usable default: the call gives up.
compute_autofill(retry) == Either(retry, Answer("VALIDATION_FAILED"))

\* Mutant: a write whose answer was lost is retried as well.
RecoverableToo(cause) == cause \in {"invalid", "unreachable"}

\* Only a rejection that names a missing required field is recovered.
Recoverable(cause) == cause = "invalid"

\* What follows a rejection that names required fields: one retry of the same
\* write with merged fields, never a loop.
recover_required_fields(c, cfg, write) ==
    IF cfg.autofill
    THEN fetch_definitions_for_autofill(c)
         \o compute_autofill(<<[write EXCEPT !.fail = "error"]>>)
    ELSE Answer("VALIDATION_FAILED")

\* The update's handler recovers whatever update_issue fails with, its read-back
\* included: the write, performed already, is then sent again and read back again.
recover_read_back(c, cfg) ==
    recover_required_fields(c, cfg, [update_issue[1] EXCEPT !.n = AGAIN]) \o Tail(update_issue)
=============================================================================
