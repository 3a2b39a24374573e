---------------------------- MODULE TimeWikiTools ----------------------------
(***************************************************************************)
(* Time tracking, cross-resource search and the wiki (tools/time.rs,       *)
(* search_wiki.rs).                                                        *)
(***************************************************************************)
EXTENDS RedmineApi

list_time_entries_tool(c, cfg) ==
    resolve_project_ref(c) \o Check(Good(c, "user_id")) \o list_time_entries_page

ManageTimeEntryAction == {"create", "update"}
ManageTimeEntryParams == {"hours", "project_id", "issue_id", "time_entry_id"}

manage_time_entry(c, cfg) ==
    IF c.action = "create"
    THEN Need(c, "hours") \o Check(Has(c, "project_id") \/ Has(c, "issue_id"))
         \o resolve_project_ref(c) \o create_time_entry
    ELSE Check(Has(c, "time_entry_id")) \o Check(Good(c, "hours")) \o update_time_entry

ListTimeEntryActivitiesParams == {"project_id"}

list_time_entry_activities_tool(c, cfg) ==
    IF Has(c, "project_id")
    THEN resolve_project_ref(c) \o get_project
    ELSE list_time_entry_activities

ImportTimeEntriesParams == {"stop_on_error"}

\* Every entry is validated before the first is sent. Then each is sent on its
\* own; a failed one is counted and, with stop_on_error, ends the batch.
\* bad = "entries" is an empty or oversized batch, or one bad entry in it. What
\* the answer lists of the entries is cut by the output caps (ToolCall!apply_caps).
import_time_entries(c, cfg) ==
    LET how == IF Has(c, "stop_on_error") THEN "stop" ELSE "item" IN
    Check(Good(c, "entries"))
    \o Failing(Numbered(create_time_entry, 1) \o Numbered(create_time_entry, 2)
               \o Numbered(create_time_entry, 3), how)

search_entire_redmine(c, cfg) == Check(Good(c, "query")) \o search_entire_page

ManageWikiPageAction == {"list", "get", "create", "update", "delete", "rename"}
ManageRedmineWikiPageParams == {"wiki_page_title", "text", "new_title"}

require_title(c) == Need(c, "wiki_page_title")

\* Mutant: the rename branch forgets its read-only refusal.
wiki_rename_ungated(c, cfg) ==
    require_title(c) \o Need(c, "new_title")
    \o get_wiki_page \o write_wiki_page \o Failing(get_wiki_page, "renamed")

\* A rename rewrites the page under its old title with the text just read. If
\* the page is then not found under its new title, Redmine kept the old one,
\* and the answer says that the page was updated.
wiki_rename(c, cfg) ==
    ReadOnlyGate(cfg) \o require_title(c) \o Need(c, "new_title")
    \o get_wiki_page \o write_wiki_page \o Failing(get_wiki_page, "renamed")

manage_redmine_wiki_page(c, cfg) ==
    resolve_project_ref(c)
    \o CASE c.action = "list"   -> list_wiki_pages
         [] c.action = "get"    -> require_title(c) \o get_wiki_page
         [] c.action \in {"create", "update"} ->
              ReadOnlyGate(cfg) \o require_title(c) \o Check(Has(c, "text")) \o upsert_wiki_page
         [] c.action = "delete" -> ReadOnlyGate(cfg) \o require_title(c) \o delete_wiki_page
         [] c.action = "rename" -> wiki_rename(c, cfg)
===============================================================================
