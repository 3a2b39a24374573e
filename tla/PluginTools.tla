----------------------------- MODULE PluginTools -----------------------------
(***************************************************************************)
(* The tools that exist only with a Redmine plugin (tools/plugins/*.rs).   *)
(***************************************************************************)
EXTENDS FileTools

get_checklist(c, cfg) == list_checklist_items

create_checklist_item_tool(c, cfg) ==
    Check(c.bad \notin {"subject", "position"}) \o create_checklist_item

ChecklistFields == {"subject", "is_done", "position"}

update_checklist_item_tool(c, cfg) ==
    Check(c.bad \notin {"subject", "position"})
    \o Check(c.keys \cap ChecklistFields # {}) \o update_checklist_item

ProductFields == {"name", "status_id"}

ManageProductAction == {"list", "get", "create", "update"}
ManageProductParams == ProductFields \cup {"product_id"}

\* A product's project is a number: a slug is refused after it resolved.
product_create(c, cfg) ==
    ReadOnlyGate(cfg) \o Need(c, "name") \o Check(Good(c, "status_id"))
    \o resolve_project_ref(c) \o create_product

manage_product(c, cfg) ==
    CASE c.action = "list"   -> resolve_project_ref(c) \o list_products
      [] c.action = "get"    -> Check(Has(c, "product_id")) \o get_product
      [] c.action = "create" -> product_create(c, cfg)
      [] c.action = "update" -> ReadOnlyGate(cfg) \o Check(Has(c, "product_id"))
                                \o Check(c.bad \notin ProductFields)
                                \o Check(c.keys \cap ProductFields # {}) \o update_product

ContactFields == {"first_name", "visibility"}

ManageContactAction ==
    {"list", "get", "create", "update", "delete", "assign_to_project", "remove_from_project"}
ManageContactParams == ContactFields \cup {"contact_id", "project_id"}

require_contact_id(c) == Check(Has(c, "contact_id"))
require_project_ident(c) == Need(c, "project_id")

contact_create(c, cfg) ==
    ReadOnlyGate(cfg) \o Need(c, "first_name") \o Check(Good(c, "visibility"))
    \o require_project_ident(c) \o create_contact

contact_update(c, cfg) ==
    ReadOnlyGate(cfg) \o require_contact_id(c) \o Check(c.bad \notin ContactFields)
    \o Check(c.keys \cap ContactFields # {}) \o update_contact

manage_contact(c, cfg) ==
    CASE c.action = "list"   -> resolve_project_ref(c) \o list_contacts
      [] c.action = "get"    -> require_contact_id(c) \o get_contact
      [] c.action = "create" -> contact_create(c, cfg)
      [] c.action = "update" -> contact_update(c, cfg)
      [] c.action = "delete" -> ReadOnlyGate(cfg) \o require_contact_id(c) \o delete_contact
      [] c.action = "assign_to_project" ->
           ReadOnlyGate(cfg) \o require_contact_id(c) \o require_project_ident(c)
           \o assign_contact_to_project
      [] c.action = "remove_from_project" ->
           ReadOnlyGate(cfg) \o require_contact_id(c) \o require_project_ident(c)
           \o remove_contact_from_project

DocumentFields == {"name", "title"}

ManageDocumentAction == {"list", "get", "create", "update"}
ManageDocumentParams == UploadSources \cup DocumentFields \cup {"document_id", "project_id"}

\* create uploads, then commits, and a failed commit says that the upload
\* holds; update reads the current revision to fill what the caller left out.
document_create(c, cfg) ==
    ReadOnlyGate(cfg) \o Check(Good(c, "version")) \o UploadBody(c, "name")
    \o require_project_ident(c)
    \o mint_upload_token \o Failing(commit_dmsf_upload, "tells")

document_update(c, cfg) ==
    ReadOnlyGate(cfg) \o Check(Has(c, "document_id")) \o Check(c.keys \cap DocumentFields # {})
    \o get_dmsf_file \o MayAnswer("NOT_FOUND") \o create_dmsf_revision

manage_document(c, cfg) ==
    CASE c.action = "list"   -> require_project_ident(c) \o list_dmsf_nodes
      [] c.action = "get"    -> Check(Has(c, "document_id")) \o get_dmsf_file \o MayAnswer("NOT_FOUND")
      [] c.action = "create" -> document_create(c, cfg)
      [] c.action = "update" -> document_update(c, cfg)
===============================================================================
