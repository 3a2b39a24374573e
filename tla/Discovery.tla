------------------------------ MODULE Discovery ------------------------------
(***************************************************************************)
(* What a server with bearer tokens says about itself: the scopes it       *)
(* advertises (oauth/scopes.rs) and its two discovery documents            *)
(* (oauth/metadata.rs, well_known_routes of transport/http.rs).  cfg is a  *)
(* configuration as Config builds it.                                      *)
(***************************************************************************)
EXTENDS ToolGates

READ_SCOPES ==
    {"view_project", "search_project", "view_members", "view_issues", "view_documents",
     "view_files", "view_wiki_pages", "view_time_entries", "view_private_notes",
     "view_issue_watchers"}

WRITE_SCOPES ==
    {"add_issues", "edit_issues", "delete_issues", "manage_subtasks",
     "manage_issue_relations", "add_issue_watchers", "delete_issue_watchers",
     "add_issue_notes", "edit_issue_notes", "set_notes_private", "log_time",
     "edit_time_entries", "manage_versions", "manage_categories", "manage_wiki",
     "edit_wiki_pages", "rename_wiki_pages", "delete_wiki_pages", "add_documents",
     "edit_documents", "delete_documents", "manage_files", "manage_members"}

AGILE_READ_SCOPES == {"view_agile_queries"}
TAGS_READ_SCOPES  == {"view_issue_tags"}
TAGS_WRITE_SCOPES == {"create_issue_tags", "edit_issue_tags"}

\* Mutant: the agile scopes were never added to the catalogue.
advertised_core(read_only, plugins) ==
    READ_SCOPES
    \cup (IF read_only THEN {} ELSE WRITE_SCOPES)
    \cup (IF "tags" \in plugins
          THEN TAGS_READ_SCOPES \cup (IF read_only THEN {} ELSE TAGS_WRITE_SCOPES) ELSE {})

\* The catalogue of a mode, before REDMINE_MCP_SCOPES narrows it.
advertised(read_only, plugins) ==
    READ_SCOPES
    \cup (IF read_only THEN {} ELSE WRITE_SCOPES)
    \cup (IF "agile" \in plugins THEN AGILE_READ_SCOPES ELSE {})
    \cup (IF "tags" \in plugins
          THEN TAGS_READ_SCOPES \cup (IF read_only THEN {} ELSE TAGS_WRITE_SCOPES) ELSE {})

\* narrow: every scope asked for must be in the catalogue.
NarrowFails(full, requested) == ~(requested \subseteq full)
narrow(full, requested) == full \cap requested

BearerModes == {"oauth", "oauth-proxy"}

\* Which server a URL of a document points at.
issuer(cfg) == IF cfg.oauth.discovery_as = "self" THEN "self" ELSE "redmine"

\* The authorization server's endpoints, by the server that must answer them.
authorization_server(cfg) ==
    [issuer    |-> issuer(cfg),
     host      |-> IF cfg.mode = "oauth-proxy" THEN "self" ELSE "redmine",
     endpoints |-> {"/authorize", "/token", "/revoke"}
                   \cup (IF cfg.mode = "oauth-proxy" THEN {"/register"} ELSE {})]

protected_resource(cfg) ==
    [resource |-> cfg.http.mcp_path, authorization_servers |-> {issuer(cfg)}]

\* well_known_routes: where the two documents are mounted.
as_path(cfg) == IF cfg.oauth.discovery_as = "self" THEN "as-root" ELSE "as-suffixed"
well_known_routes(cfg) == {"resource-metadata", as_path(cfg)}
=============================================================================
