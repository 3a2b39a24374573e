----------------------------- MODULE IssueTools -----------------------------
(***************************************************************************)
(* The issue tools (tools/issues.rs): one operator per tool, the sequence  *)
(* of steps its handler takes for a call.                                  *)
(***************************************************************************)
EXTENDS CustomFieldSteps, FileTools

\* Optional keys of the tools whose arguments decide what happens. clear_parent
\* stands for clear_fields naming parent_issue_id, clear_conflict for a field
\* that is both set and cleared.
CreateRedmineIssueParams == {"uploads", "tag_list", "custom_fields", "custom_fields_by_name"}
UpdateRedmineIssueParams ==
    {"subject", "notes", "private_notes", "parent_issue_id", "clear_parent", "clear_conflict",
     "uploads", "story_points", "tag_list", "custom_fields_by_name"}
DeleteRedmineIssueParams == {"confirm_delete", "confirm_delete_with_children"}
CopyIssueParams == {"project_id", "no_link", "no_subtasks"}

get_redmine_issue(c, cfg) ==
    get_issue \o When("agile" \in cfg.plugins, Failing(get_agile_data, "skip"))

list_redmine_issues(c, cfg) ==
    Check(c.bad \notin {"fields", "project_id", "assigned_to_id"}) \o list_issues_page

\* Search results carry only ids; the issues themselves are fetched when any matched.
search_redmine_issues(c, cfg) ==
    Check(c.bad \notin {"query", "fields"})
    \o search_issues_page \o Either(list_issues_by_id, <<>>)

list_subtasks_tool(c, cfg) == list_subtasks

get_private_notes(c, cfg) == get_issue

\* Every upload is resolved locally before the first token is minted.
resolve_issue_upload(c) ==
    IF c.bad = "uploads"
    THEN Either(Answer("invalid_params"), Answer("SOURCE_REQUIRED"))
    ELSE <<>>

\* Mutant: the first item is minted before the second is resolved.
resolve_and_mint_issue_uploads_in_turn(c) ==
    When(Has(c, "uploads"),
         Numbered(mint_upload_token, 1) \o resolve_issue_upload(c) \o Numbered(mint_upload_token, 2))

\* Two items, minted one after the other.
resolve_and_mint_issue_uploads(c) ==
    When(Has(c, "uploads"),
         resolve_issue_upload(c) \o Numbered(mint_upload_token, 1) \o Numbered(mint_upload_token, 2))

fetch_attachments(c) == When(Has(c, "uploads"), get_attachment \o get_attachment)

TagListGate(c, cfg) ==
    Refuse(Has(c, "tag_list") /\ "tags" \notin cfg.plugins, "MISCONFIGURED")
    \o Check(Good(c, "tag_list"))

send_create(c) == IF Has(c, "uploads") THEN create_issue_with_attachments ELSE create_issue

create_redmine_issue(c, cfg) ==
    Check(Good(c, "subject"))
    \o TagListGate(c, cfg)
    \o Check(Good(c, "project_id"))
    \o resolve_issue_custom_fields(c)
    \o resolve_and_mint_issue_uploads(c)
    \o Failing(send_create(c), "recover")

AgileFields == {"story_points"}

update_has_core_change(c) == c.keys \ (AgileFields \cup {"issue_id", "private_notes"}) # {}

\* The agile row is read, merged, written and read again; a failure says that
\* the core fields were changed already, if they were.
agile_update(c) ==
    Failing(get_agile_data \o update_agile_data \o get_agile_data,
            IF update_has_core_change(c) THEN "tells" ELSE "error")

\* The core half is update_issue, a write and its read-back, and the recovery stands
\* for a failure of either.
update_redmine_issue(c, cfg) ==
    LET agile == c.keys \cap AgileFields # {}
        core  == update_has_core_change(c)
    IN  Check(Good(c, "notes"))
        \o Check(~Has(c, "clear_conflict"))
        \o Check(core \/ agile)
        \o Refuse(agile /\ "agile" \notin cfg.plugins, "MISCONFIGURED")
        \o TagListGate(c, cfg)
        \o resolve_issue_custom_fields_for_update(c)
        \o resolve_and_mint_issue_uploads(c)
        \o (IF core THEN <<[update_issue[1] EXCEPT !.fail = "recover"],
                            [update_issue[2] EXCEPT !.fail = "reread"]>>
                    ELSE get_issue)
        \o fetch_attachments(c)
        \o When(agile, agile_update(c))

delete_redmine_issue(c, cfg) ==
    get_issue \o list_subtasks \o list_time_entries_page
    \o Refuse(~Has(c, "confirm_delete"), "CONFIRMATION_REQUIRED")
    \o Either(<<>>, Refuse(~Has(c, "confirm_delete_with_children"), "CHILDREN_PRESENT"))
    \o delete_issue

\* Copying a subtree is a queue: list one issue's subtasks, create a copy of
\* each, and put each copy's own subtasks at the end (ToolCall runs the queue).
CopyLevel(depth) == <<[kind |-> "level", depth |-> depth]>>
CopyChild(depth) == <<[kind |-> "child", depth |-> depth]>>

copy_issue(c, cfg) ==
    get_issue
    \o Check(Good(c, "project_id"))
    \o create_issue
    \o When(~Has(c, "no_link"), Failing(create_relation, "skip"))
    \o When(~Has(c, "no_subtasks"), CopyLevel(0))

ManageIssueRelationAction == {"list", "create", "delete"}
ManageIssueRelationParams == {"issue_id", "issue_to_id", "relation_id"}

manage_issue_relation(c, cfg) ==
    Check(Good(c, "relation_type"))
    \o CASE c.action = "list"   -> Need(c, "issue_id") \o list_relations
         [] c.action = "create" -> ReadOnlyGate(cfg) \o Need(c, "issue_id")
                                   \o Need(c, "issue_to_id") \o create_relation
         [] c.action = "delete" -> ReadOnlyGate(cfg) \o Need(c, "relation_id") \o delete_relation

ManageIssueWatcherAction == {"add", "remove"}

manage_issue_watcher(c, cfg) == IF c.action = "add" THEN add_watcher ELSE remove_watcher

ManageIssueNoteAction == {"edit", "set_private"}
ManageIssueNoteParams == {"notes", "is_private"}

manage_issue_note(c, cfg) ==
    Need(c, IF c.action = "edit" THEN "notes" ELSE "is_private") \o update_journal

ManageIssueCategoryAction == {"list", "create", "update", "delete"}
ManageIssueCategoryParams == {"project_id", "name", "category_id"}

manage_issue_category(c, cfg) ==
    CASE c.action = "list"   -> Need(c, "project_id") \o list_issue_categories
      [] c.action = "create" -> ReadOnlyGate(cfg) \o Need(c, "project_id") \o Need(c, "name")
                                \o create_issue_category
      [] c.action = "update" -> ReadOnlyGate(cfg) \o Need(c, "category_id")
                                \o Check(Good(c, "name")) \o update_issue_category
      [] c.action = "delete" -> ReadOnlyGate(cfg) \o Need(c, "category_id") \o delete_issue_category
=============================================================================
