------------------------------ MODULE FileTools ------------------------------
(***************************************************************************)
(* The file tools (tools/files.rs) and the upload sources that the issue   *)
(* and document tools share with them. The local store behind              *)
(* get_redmine_attachment is the module Attachments; here only its answers *)
(* matter.                                                                 *)
(***************************************************************************)
EXTENDS RedmineApi, FiniteSets

UploadSources == {"content_base64", "file_path", "source_url"}

\* Malformed base64 is an argument error, an oversized one a coded refusal.
decode_upload_base64(c) ==
    When(c.bad = "content_base64",
         Either(Answer("invalid_params"), Answer("FILE_TOO_LARGE")))

\* Outside the allowed roots, missing, swapped while it was opened, too large,
\* or unreadable.
read_and_validate_upload_path(c) ==
    When(c.bad = "file_path",
         Either(Answer("PATH_NOT_ALLOWED"),
                Either(Answer("FILE_TOO_LARGE"), Answer("MISCONFIGURED"))))

\* Exactly one source, and base64 content comes with a name.
UploadBody(c, name) ==
    Refuse(Cardinality(c.keys \cap UploadSources) # 1, "SOURCE_REQUIRED")
    \o Refuse(Has(c, "source_url"), "UNSUPPORTED_SOURCE")
    \o (IF Has(c, "content_base64")
        THEN Check(Has(c, name)) \o decode_upload_base64(c)
        ELSE read_and_validate_upload_path(c))

mint_upload_token == Failing(create_upload, "upload")

\* The answers of the reservation and of the download, which count bytes.
download_and_commit ==
    Get("download")
    \o MayAnswer("FILE_TOO_LARGE") \o MayAnswer("STORE_FULL") \o MayAnswer("MISCONFIGURED")

get_redmine_attachment(c, cfg) ==
    get_attachment
    \o MayAnswer("FILE_TOO_LARGE") \o MayAnswer("STORE_FULL") \o MayAnswer("MISCONFIGURED")
    \o download_and_commit

list_files(c, cfg) == resolve_project_ref(c) \o list_project_files

DeleteFileParams == {"confirm_delete_any_attachment"}

delete_file(c, cfg) ==
    Refuse(~Has(c, "confirm_delete_any_attachment"), "CONFIRMATION_REQUIRED")
    \o delete_attachment

UploadFileParams == UploadSources \cup {"filename"}

\* Mutant: a file that could not be attached to the project is only logged.
upload_file_optimistic(c, cfg) ==
    UploadBody(c, "filename")
    \o resolve_project_ref(c)
    \o mint_upload_token \o Failing(create_project_file, "skip") \o get_attachment

upload_file(c, cfg) ==
    UploadBody(c, "filename")
    \o resolve_project_ref(c)
    \o mint_upload_token \o create_project_file \o get_attachment

\* Local only: nothing is sent to Redmine.
cleanup_attachment_files(c, cfg) == <<>>
===============================================================================
