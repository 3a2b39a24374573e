------------------------------ MODULE RedmineApi ------------------------------
(***************************************************************************)
(* The Redmine API as RedmineClient offers it (redmine-client/client.rs):  *)
(* one operator per method, the requests it sends. An auto-paged walk is   *)
(* one step here (Pagination models the walk, RequestRetry one request).   *)
(* A resource names what a write changes, so that a write sent twice shows.*)
(***************************************************************************)
EXTENDS ToolSteps

\* Redmine answers PUT with no body, so most updates read the result back.
PutThenGet(res) == Put(res) \o Get(res)

current_user  == Get("user")
list_projects == Get("project")
get_project   == Get("project")

list_issues_page   == Get("issue")
search_issues_page == Get("search")
list_issues_by_id  == Get("issue")   \* not sent for an empty list of ids
list_subtasks      == Get("issue")
get_issue          == Get("issue")
create_issue       == Post("issue")
create_issue_with_attachments == Post("issue")
update_issue       == PutThenGet("issue")
delete_issue       == Delete("issue")
list_relations     == Get("relation")
create_relation    == Post("relation")
delete_relation    == Delete("relation")
add_watcher        == Post("watcher")
remove_watcher     == Delete("watcher")
update_journal     == Put("journal")

list_issue_categories == Get("category")
get_issue_category    == Get("category")
create_issue_category == Post("category")
update_issue_category == Put("category") \o get_issue_category
delete_issue_category == Delete("category")

list_checklist_items  == Get("checklist")
create_checklist_item == Post("checklist")
update_checklist_item == Put("checklist")   \* no read back

get_agile_data    == Get("agile")           \* a 404 is "no agile data"
update_agile_data == Put("agile")

list_products  == Get("product")
get_product    == Get("product")
create_product == Post("product")
update_product == Put("product") \o get_product

list_contacts  == Get("contact")
get_contact    == Get("contact")
create_contact == Post("contact")
update_contact == Put("contact") \o get_contact
delete_contact == Delete("contact")
assign_contact_to_project   == Post("contact_project")
remove_contact_from_project == Delete("contact_project")

list_time_entries_page == Get("time_entry")
create_time_entry      == Post("time_entry")
get_time_entry         == Get("time_entry")
update_time_entry      == Put("time_entry") \o get_time_entry

list_time_entry_activities == Get("activity")
list_trackers              == Get("tracker")
list_issue_statuses        == Get("status")
list_issue_priorities      == Get("priority")
list_users                 == Get("user")
list_saved_queries         == Get("query")
list_roles                 == Get("role")
list_custom_field_definitions == Get("custom_field")

list_versions  == Get("version")
get_version    == Get("version")
create_version == Post("version")
update_version == Put("version") \o get_version
delete_version == Delete("version")

list_memberships  == Get("membership")
get_membership    == Get("membership")
create_membership == Post("membership")
update_membership == Put("membership") \o get_membership
delete_membership == Delete("membership")

search_entire_page == Get("search")
list_wiki_pages    == Get("wiki")
get_wiki_page      == Get("wiki")
write_wiki_page    == Put("wiki")
upsert_wiki_page   == write_wiki_page \o get_wiki_page
delete_wiki_page   == Delete("wiki")

get_attachment      == Get("attachment")
delete_attachment   == Delete("attachment")
list_project_files  == Get("file")
create_upload       == Post("upload")
create_project_file == Post("file")

list_dmsf_nodes      == Get("document")
get_dmsf_file        == Get("document")
commit_dmsf_upload   == Post("document")
create_dmsf_revision == Post("document")
===============================================================================
