------------------------------ MODULE ToolTable ------------------------------
(***************************************************************************)
(* The table of all tools: their actions, the arguments that decide        *)
(* something, the calls a client may make, and each tool's handler.        *)
(***************************************************************************)
EXTENDS IssueTools, ProjectTools, TimeWikiTools, PluginTools, ToolGates

CONSTANT MaxKeys   \* bound: optional arguments per call

ASSUME MaxKeysAssumption == MaxKeys \in Nat

Actions(tool) ==
    CASE tool = "manage_redmine_version"   -> ManageVersionAction
      [] tool = "manage_project_member"    -> ManageMemberAction
      [] tool = "manage_time_entry"        -> ManageTimeEntryAction
      [] tool = "manage_issue_relation"    -> ManageIssueRelationAction
      [] tool = "manage_issue_watcher"     -> ManageIssueWatcherAction
      [] tool = "manage_issue_note"        -> ManageIssueNoteAction
      [] tool = "manage_issue_category"    -> ManageIssueCategoryAction
      [] tool = "manage_redmine_wiki_page" -> ManageWikiPageAction
      [] tool = "manage_product"           -> ManageProductAction
      [] tool = "manage_contact"           -> ManageContactAction
      [] tool = "manage_document"          -> ManageDocumentAction
      [] OTHER -> {"none"}

\* The optional arguments that decide something.
Params(tool) ==
    CASE tool = "create_redmine_issue"       -> CreateRedmineIssueParams
      [] tool = "update_redmine_issue"       -> UpdateRedmineIssueParams
      [] tool = "delete_redmine_issue"       -> DeleteRedmineIssueParams
      [] tool = "copy_issue"                 -> CopyIssueParams
      [] tool = "manage_issue_relation"      -> ManageIssueRelationParams
      [] tool = "manage_issue_note"          -> ManageIssueNoteParams
      [] tool = "manage_issue_category"      -> ManageIssueCategoryParams
      [] tool = "manage_redmine_version"     -> ManageRedmineVersionParams
      [] tool = "manage_project_member"      -> ManageProjectMemberParams
      [] tool = "manage_time_entry"          -> ManageTimeEntryParams
      [] tool = "list_time_entry_activities" -> ListTimeEntryActivitiesParams
      [] tool = "import_time_entries"        -> ImportTimeEntriesParams
      [] tool = "manage_redmine_wiki_page"   -> ManageRedmineWikiPageParams
      [] tool = "delete_file"                -> DeleteFileParams
      [] tool = "upload_file"                -> UploadFileParams
      [] tool = "update_checklist_item"      -> ChecklistFields
      [] tool = "manage_product"             -> ManageProductParams
      [] tool = "manage_contact"             -> ManageContactParams
      [] tool = "manage_document"            -> ManageDocumentParams
      [] OTHER -> {}

\* Arguments that can be malformed, besides the optional ones present.
Malformed(tool) ==
    CASE tool = "create_redmine_issue" -> {"subject", "project_id"}
      [] tool \in {"list_redmine_issues", "list_project_trackers", "list_redmine_versions",
                   "list_files", "manage_redmine_wiki_page", "upload_file", "manage_product",
                   "list_time_entries", "list_project_issue_custom_fields",
                   "list_project_members", "get_project_modules", "get_gantt_chart",
                   "manage_contact"} -> {"project_id"}
      [] tool \in {"search_redmine_issues", "search_entire_redmine"} -> {"query"}
      [] tool = "manage_issue_relation" -> {"relation_type"}
      [] tool = "import_time_entries" -> {"entries"}
      [] tool = "create_checklist_item" -> {"subject", "position"}
      [] tool = "manage_document" -> {"version"}
      [] OTHER -> {}

Tools == DOMAIN FixedScopes \cup DOMAIN ActionScopes

\* An action the tool does not have stands for any the caller may make up.
CallsOf(tool) ==
    {[tool |-> tool, action |-> a, keys |-> k, bad |-> b] :
        a \in Actions(tool) \cup {"bogus"},
        k \in {s \in SUBSET Params(tool) : Cardinality(s) <= MaxKeys},
        b \in {"none"} \cup Malformed(tool) \cup Params(tool)}

Calls == {c \in UNION {CallsOf(t) : t \in Tools} :
            /\ c.bad \in c.keys \cup Malformed(c.tool) \cup {"none"}
            /\ c.action = "bogus" => c.tool \in DOMAIN ActionScopes /\ c.keys = {} /\ c.bad = "none"}

\* The router's table.
Handler(c, g) ==
    CASE c.tool = "get_mcp_server_info" -> get_mcp_server_info(c, g)
      [] c.tool = "list_redmine_trackers" -> list_redmine_trackers(c, g)
      [] c.tool = "list_project_trackers" -> list_project_trackers(c, g)
      [] c.tool = "list_redmine_issue_statuses" -> list_redmine_issue_statuses(c, g)
      [] c.tool = "list_redmine_issue_priorities" -> list_redmine_issue_priorities(c, g)
      [] c.tool = "list_redmine_users" -> list_redmine_users(c, g)
      [] c.tool = "get_current_user" -> get_current_user(c, g)
      [] c.tool = "list_redmine_queries" -> list_redmine_queries(c, g)
      [] c.tool = "list_redmine_projects" -> list_redmine_projects(c, g)
      [] c.tool = "list_project_issue_custom_fields" -> list_project_issue_custom_fields(c, g)
      [] c.tool = "summarize_project_status" -> summarize_project_status(c, g)
      [] c.tool = "list_redmine_versions" -> list_redmine_versions(c, g)
      [] c.tool = "manage_redmine_version" -> manage_redmine_version(c, g)
      [] c.tool = "list_project_members" -> list_project_members(c, g)
      [] c.tool = "list_redmine_roles" -> list_redmine_roles(c, g)
      [] c.tool = "get_project_modules" -> get_project_modules(c, g)
      [] c.tool = "manage_project_member" -> manage_project_member(c, g)
      [] c.tool = "get_gantt_chart" -> get_gantt_chart(c, g)
      [] c.tool = "get_redmine_issue" -> get_redmine_issue(c, g)
      [] c.tool = "list_redmine_issues" -> list_redmine_issues(c, g)
      [] c.tool = "search_redmine_issues" -> search_redmine_issues(c, g)
      [] c.tool = "list_subtasks" -> list_subtasks_tool(c, g)
      [] c.tool = "get_private_notes" -> get_private_notes(c, g)
      [] c.tool = "create_redmine_issue" -> create_redmine_issue(c, g)
      [] c.tool = "update_redmine_issue" -> update_redmine_issue(c, g)
      [] c.tool = "delete_redmine_issue" -> delete_redmine_issue(c, g)
      [] c.tool = "copy_issue" -> copy_issue(c, g)
      [] c.tool = "manage_issue_relation" -> manage_issue_relation(c, g)
      [] c.tool = "manage_issue_watcher" -> manage_issue_watcher(c, g)
      [] c.tool = "manage_issue_note" -> manage_issue_note(c, g)
      [] c.tool = "manage_issue_category" -> manage_issue_category(c, g)
      [] c.tool = "list_time_entries" -> list_time_entries_tool(c, g)
      [] c.tool = "manage_time_entry" -> manage_time_entry(c, g)
      [] c.tool = "list_time_entry_activities" -> list_time_entry_activities_tool(c, g)
      [] c.tool = "import_time_entries" -> import_time_entries(c, g)
      [] c.tool = "search_entire_redmine" -> search_entire_redmine(c, g)
      [] c.tool = "manage_redmine_wiki_page" -> manage_redmine_wiki_page(c, g)
      [] c.tool = "get_redmine_attachment" -> get_redmine_attachment(c, g)
      [] c.tool = "list_files" -> list_files(c, g)
      [] c.tool = "delete_file" -> delete_file(c, g)
      [] c.tool = "upload_file" -> upload_file(c, g)
      [] c.tool = "cleanup_attachment_files" -> cleanup_attachment_files(c, g)
      [] c.tool = "get_checklist" -> get_checklist(c, g)
      [] c.tool = "create_checklist_item" -> create_checklist_item_tool(c, g)
      [] c.tool = "update_checklist_item" -> update_checklist_item_tool(c, g)
      [] c.tool = "manage_product" -> manage_product(c, g)
      [] c.tool = "manage_contact" -> manage_contact(c, g)
      [] c.tool = "manage_document" -> manage_document(c, g)
===============================================================================
