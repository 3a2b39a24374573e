----------------------------- MODULE ProjectTools -----------------------------
(***************************************************************************)
(* The discovery, project, Gantt and server-info tools                     *)
(* (tools/discovery.rs, projects.rs, gantt.rs, meta.rs). Reads sent        *)
(* together with try_join! are a sequence here: the first failure ends     *)
(* both, and reads commute.                                                *)
(***************************************************************************)
EXTENDS RedmineApi

\* Redmine being unreachable only leaves current_user empty.
get_mcp_server_info(c, cfg) == Failing(current_user, "skip")

list_redmine_trackers(c, cfg)         == list_trackers
list_project_trackers(c, cfg)         == resolve_project_ref(c) \o get_project
list_redmine_issue_statuses(c, cfg)   == list_issue_statuses
list_redmine_issue_priorities(c, cfg) == list_issue_priorities
list_redmine_users(c, cfg)            == list_users
get_current_user(c, cfg)              == current_user
list_redmine_queries(c, cfg)          == list_saved_queries

list_redmine_projects(c, cfg) == list_projects

list_project_issue_custom_fields(c, cfg) ==
    resolve_project_ref(c) \o get_project \o list_custom_field_definitions

\* The project, a sample of its issues and four counts.
summarize_project_status(c, cfg) ==
    get_project \o list_issues_page \o list_issues_page \o list_issues_page
    \o list_issues_page \o list_issues_page

list_redmine_versions(c, cfg) == resolve_project_ref(c) \o list_versions

ManageVersionAction == {"create", "update", "delete"}
ManageRedmineVersionParams == {"project_id", "name", "version_id"}

manage_redmine_version(c, cfg) ==
    CASE c.action = "create" -> Need(c, "project_id") \o Check(Has(c, "name")) \o create_version
      [] c.action = "update" -> Check(Has(c, "version_id")) \o update_version
      [] c.action = "delete" -> Check(Has(c, "version_id")) \o delete_version

list_project_members(c, cfg) == resolve_project_ref(c) \o list_memberships
list_redmine_roles(c, cfg)   == list_roles
get_project_modules(c, cfg)  == resolve_project_ref(c) \o get_project

ManageMemberAction == {"add", "update", "remove"}
ManageProjectMemberParams == {"project_id", "user_id", "group_id", "role_ids", "membership_id"}

\* A member is a user or a group, never both and never neither.
manage_project_member(c, cfg) ==
    CASE c.action = "add"    -> Need(c, "project_id")
                                \o Check(Has(c, "user_id") # Has(c, "group_id"))
                                \o Need(c, "role_ids") \o create_membership
      [] c.action = "update" -> Check(Has(c, "membership_id")) \o Need(c, "role_ids")
                                \o update_membership
      [] c.action = "remove" -> Check(Has(c, "membership_id")) \o delete_membership

get_gantt_chart(c, cfg) ==
    resolve_project_ref(c) \o get_project \o list_issues_page \o list_versions
===============================================================================
