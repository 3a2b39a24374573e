------------------------------ MODULE ToolGates ------------------------------
(***************************************************************************)
(* Which tools a server has and which of them a token may use: the plugin, *)
(* read-only and admin-tool filters of the router (server.rs, readonly.rs) *)
(* and the OAuth scope table (auth/scope.rs).                              *)
(***************************************************************************)
EXTENDS FiniteSets

ADMIN_SCOPE == "admin"

\* PLUGIN_TOOLS: these exist only with their plugin.
PLUGIN_TOOLS ==
    [t \in {"get_checklist", "create_checklist_item", "update_checklist_item",
            "manage_product", "manage_contact", "manage_document"} |->
        CASE t = "manage_product"  -> "products"
          [] t = "manage_contact"  -> "crm"
          [] t = "manage_document" -> "dmsf"
          [] OTHER -> "checklists"]

\* write_tools::ALL: removed from a read-only server.
WriteTools ==
    {"manage_redmine_version", "manage_project_member", "manage_time_entry",
     "import_time_entries", "create_redmine_issue", "update_redmine_issue",
     "delete_redmine_issue", "copy_issue", "manage_issue_watcher", "manage_issue_note",
     "delete_file", "upload_file", "create_checklist_item", "update_checklist_item"}

\* RedmineMcp::new: what is left in the router.
Routed(tool, cfg) ==
    /\ tool \in DOMAIN PLUGIN_TOOLS => PLUGIN_TOOLS[tool] \in cfg.plugins
    /\ cfg.read_only => tool \notin WriteTools
    /\ tool = "cleanup_attachment_files" => cfg.admin_tools

\* The tools of TOOL_SCOPES that any token may use, whatever its scopes.
UnscopedTools ==
    {"get_current_user", "get_mcp_server_info", "list_redmine_trackers",
     "list_redmine_issue_statuses", "list_redmine_issue_priorities", "list_redmine_users",
     "list_project_issue_custom_fields", "list_redmine_roles", "list_time_entry_activities",
     "cleanup_attachment_files", "get_checklist", "create_checklist_item",
     "update_checklist_item", "manage_product", "manage_contact"}

FixedTools ==
    UnscopedTools \cup
    {"list_redmine_projects", "list_project_trackers", "get_project_modules",
     "list_redmine_queries", "list_redmine_versions", "get_redmine_issue",
     "list_redmine_issues", "list_subtasks", "get_gantt_chart", "get_redmine_attachment",
     "list_files", "delete_file", "upload_file", "summarize_project_status",
     "manage_redmine_version", "list_project_members", "manage_project_member",
     "search_redmine_issues", "get_private_notes", "list_time_entries",
     "import_time_entries", "create_redmine_issue", "update_redmine_issue",
     "delete_redmine_issue", "copy_issue", "search_entire_redmine"}

\* TOOL_SCOPES, ScopeRule::Fixed: the scopes a tool needs whatever its arguments.
FixedScopes ==
    [t \in FixedTools |->
        CASE t \in UnscopedTools -> {}
          [] t \in {"list_redmine_projects", "list_project_trackers", "get_project_modules"} ->
               {"view_project"}
          [] t \in {"list_redmine_queries", "list_redmine_versions", "get_redmine_issue",
                    "list_redmine_issues", "list_subtasks", "get_gantt_chart"} -> {"view_issues"}
          [] t \in {"get_redmine_attachment", "list_files"} -> {"view_files"}
          [] t \in {"delete_file", "upload_file"}   -> {"manage_files"}
          [] t = "summarize_project_status"         -> {"view_project", "view_issues"}
          [] t = "manage_redmine_version"           -> {"manage_versions"}
          [] t = "list_project_members"             -> {"view_members"}
          [] t = "manage_project_member"            -> {"manage_members"}
          [] t = "search_redmine_issues"            -> {"search_project", "view_issues"}
          [] t = "get_private_notes"                -> {"view_issues", "view_private_notes"}
          [] t = "list_time_entries"                -> {"view_time_entries"}
          [] t = "import_time_entries"              -> {"log_time"}
          [] t = "create_redmine_issue"             -> {"add_issues"}
          [] t = "update_redmine_issue"             -> {"edit_issues"}
          [] t = "delete_redmine_issue"             -> {"delete_issues"}
          [] t = "copy_issue"                       -> {"view_issues", "add_issues"}
          [] t = "search_entire_redmine"            -> {"search_project"}]

\* TOOL_SCOPES, ScopeRule::PerAction.
ActionTools ==
    {"manage_time_entry", "manage_issue_relation", "manage_issue_watcher", "manage_issue_note",
     "manage_issue_category", "manage_redmine_wiki_page", "manage_document"}

ActionScopes ==
    [t \in ActionTools |->
        CASE t = "manage_time_entry" ->
               [a \in {"create", "update"} |->
                   IF a = "create" THEN {"log_time"} ELSE {"edit_time_entries"}]
          [] t = "manage_issue_relation" ->
               [a \in {"list", "create", "delete"} |->
                   IF a = "list" THEN {"view_issues"} ELSE {"manage_issue_relations"}]
          [] t = "manage_issue_watcher" ->
               [a \in {"add", "remove"} |->
                   IF a = "add" THEN {"add_issue_watchers"} ELSE {"delete_issue_watchers"}]
          [] t = "manage_issue_note" ->
               [a \in {"edit", "set_private"} |->
                   IF a = "edit" THEN {"edit_issue_notes"} ELSE {"set_notes_private"}]
          [] t = "manage_issue_category" ->
               [a \in {"list", "create", "update", "delete"} |->
                   IF a = "list" THEN {"view_issues"} ELSE {"manage_categories"}]
          [] t = "manage_redmine_wiki_page" ->
               [a \in {"list", "get", "create", "update", "delete", "rename"} |->
                   CASE a \in {"list", "get"}      -> {"view_wiki_pages"}
                     [] a \in {"create", "update"} -> {"edit_wiki_pages"}
                     [] a = "delete"               -> {"delete_wiki_pages"}
                     [] a = "rename"               -> {"rename_wiki_pages"}]
          [] t = "manage_document" ->
               [a \in {"list", "get", "create", "update"} |->
                   CASE a \in {"list", "get"} -> {"view_documents"}
                     [] a = "create"          -> {"add_documents"}
                     [] a = "update"          -> {"edit_documents"}]]

TAG_LIST_SCOPES == {"create_issue_tags", "edit_issue_tags"}
NOTES_ONLY_FIELDS == {"notes", "private_notes"}

\* A requirement: all of one set and, unless it is empty, one of another;
\* unchecked calls are left to the tool's own argument checks.
Requirement(all, any) == [checked |-> TRUE, all |-> all, any |-> any]
Unchecked == [checked |-> FALSE, all |-> {}, any |-> {}]

is_notes_only_update(keys) ==
    keys \ {"issue_id"} # {} /\ keys \ {"issue_id"} \subseteq NOTES_ONLY_FIELDS

update_redmine_issue_requirement(keys) ==
    LET reparents == keys \cap {"parent_issue_id", "clear_parent"} # {}
        agile     == "story_points" \in keys
    IN  IF is_notes_only_update(keys)
        THEN Requirement({"add_issue_notes"}, {})
        ELSE Requirement({"edit_issues"}
                         \cup (IF reparents THEN {"manage_subtasks"} ELSE {})
                         \cup (IF agile THEN {"view_agile_queries"} ELSE {}),
                         IF "tag_list" \in keys THEN TAG_LIST_SCOPES ELSE {})

create_redmine_issue_requirement(keys) ==
    Requirement({"add_issues"}, IF "tag_list" \in keys THEN TAG_LIST_SCOPES ELSE {})

\* required_for_call; a tool that no table names is denied.
required_for_call(c) ==
    CASE c.tool = "update_redmine_issue" -> update_redmine_issue_requirement(c.keys)
      [] c.tool = "create_redmine_issue" -> create_redmine_issue_requirement(c.keys)
      [] c.tool \in DOMAIN ActionScopes ->
           IF c.action \in DOMAIN ActionScopes[c.tool]
           THEN Requirement(ActionScopes[c.tool][c.action], {})
           ELSE Unchecked
      [] OTHER -> Requirement(FixedScopes[c.tool], {})

\* dispatch_tool_call's decision for a token's scopes.
Satisfies(req, held) ==
    \/ ADMIN_SCOPE \in held
    \/ ~req.checked
    \/ /\ req.all \subseteq held
       /\ req.any # {} => req.any \cap held # {}

\* Mutant: the notes-only path of update_redmine_issue is forgotten.
visible_for_fixed(tool, held) ==
    \/ ADMIN_SCOPE \in held
    \/ /\ tool \in DOMAIN FixedScopes /\ FixedScopes[tool] \subseteq held
    \/ /\ tool \in DOMAIN ActionScopes
       /\ \E a \in DOMAIN ActionScopes[tool] : ActionScopes[tool][a] \subseteq held

\* list_tools' decision: some call of the tool could pass.
visible_for(tool, held) ==
    \/ ADMIN_SCOPE \in held
    \/ /\ tool = "update_redmine_issue"
       /\ held \cap {"edit_issues", "add_issue_notes"} # {}
    \/ /\ tool \in DOMAIN FixedScopes \ {"update_redmine_issue"}
       /\ FixedScopes[tool] \subseteq held
    \/ /\ tool \in DOMAIN ActionScopes
       /\ \E a \in DOMAIN ActionScopes[tool] : ActionScopes[tool][a] \subseteq held
=============================================================================
