------------------------------ MODULE HttpEdge ------------------------------
(***************************************************************************)
(* transport/http.rs: what a request meets on its way in.  router mounts   *)
(* the routes a mode has and puts layers around them; a request passes the *)
(* layers from the outside in, and each one lets it on or answers it.      *)
(* auth/legacy.rs, auth/per_user.rs and server.rs choose whose credential  *)
(* a tool call uses at Redmine.                                            *)
(***************************************************************************)
EXTENDS Config

FlowRoutes == {"/register", "/authorize", "/auth/callback", "/token", "/revoke"}
HealthRoutes == {"/livez", "/readyz"}
Documents == {"resource-metadata", "as-root", "as-suffixed"}
Routes == {"mcp", "files"} \cup FlowRoutes \cup Documents

\* RedmineMcp::new builds a verifier exactly in the bearer modes.
HasVerifier(cfg) == cfg.mode \in BearerModes

Mounted(cfg) ==
    {"mcp", "files"}
    \cup (IF cfg.mode \in BearerModes THEN well_known_routes(cfg) ELSE {})
    \cup (IF cfg.mode = "oauth" THEN {"/revoke"} ELSE {})
    \cup (IF cfg.mode = "oauth-proxy" THEN FlowRoutes ELSE {})

Limiter(cfg, class) == IF cfg.http.rate_limit.enabled THEN <<class>> ELSE <<>>
Bearer(cfg) == IF HasVerifier(cfg) THEN <<"bearer">> ELSE <<>>

\* The layers of a mounted route, the outermost first.
Layers(cfg, route) ==
    CASE route = "mcp" ->
           Limiter(cfg, "standard") \o Bearer(cfg) \o <<"host", "credential">>
      [] route = "files" -> Limiter(cfg, "standard") \o <<"host">>
      [] route \in FlowRoutes /\ cfg.mode = "oauth-proxy" -> Limiter(cfg, "strict")
      [] OTHER -> <<>>

(***************************************************************************)
(* The Host check.                                                         *)
(***************************************************************************)
normalize_host(host) == IF host = "[::1]" THEN "::1" ELSE host
parse_authority(a) == At(normalize_host(a.host), a.port)

host_is_allowed(host, allowed_hosts) ==
    \/ allowed_hosts = {}
    \/ \E raw \in allowed_hosts :
         /\ ParsesAsAuthority(raw)
         /\ LET allowed == parse_authority(raw) IN
            /\ allowed.host = host.host
            /\ allowed.port # 0 => host.port = allowed.port

\* A missing or unreadable Host is refused, whatever the allowlist.
validate_files_host(host, allowed_hosts) ==
    IF ~ParsesAsAuthority(host) THEN "400"
    ELSE IF host_is_allowed(parse_authority(host), allowed_hosts) THEN "pass" ELSE "403"

\* rmcp's own check of the MCP route; it takes an entry that is no authority
\* for a plain host name.
rmcp_host_is_allowed(host, allowed_hosts) ==
    \/ allowed_hosts = {}
    \/ \E raw \in allowed_hosts :
         LET allowed == parse_authority(raw) IN
         /\ allowed.host = parse_authority(host).host
         /\ allowed.port # 0 => host.port = allowed.port

(***************************************************************************)
(* Credentials.  A request carries a bearer token or an X-Redmine-API-Key  *)
(* header: none, one that is good or bad at Redmine, one that no server    *)
(* can read, or two of them.                                               *)
(***************************************************************************)
Credentials == {"none", "good", "bad", "unreadable", "twice"}

\* Mutant: the first of two headers is taken.
credential_from_parts_first(credential) == credential \in {"good", "bad", "twice"}

\* A readable credential, and only one: the key header, and a bearer token.
credential_from_parts(credential) == credential \in {"good", "bad"}
extract_bearer(credential) == credential \in {"good", "bad"}

\* require_bearer asks Redmine about every readable token; in oauth-proxy mode
\* one this server did not issue is refused before that.
Introspects(cfg, credential) ==
    /\ extract_bearer(credential)
    /\ cfg.mode = "oauth-proxy" => credential = "good"

\* Whom a tool call acts as: nobody when the credential is refused.
scoped(cfg, credential) ==
    CASE cfg.mode = "legacy" -> {"as_server"}
      [] cfg.mode = "legacy-per-user" ->
           IF credential_from_parts(credential) THEN {"as_caller"} ELSE {}
      [] OTHER -> {"as_caller"}

\* Whom the readiness probe asks.
ProbeTarget(cfg) ==
    IF HasVerifier(cfg) THEN "introspection"
    ELSE IF cfg.mode = "legacy" THEN "redmine" ELSE "nobody"
=============================================================================
