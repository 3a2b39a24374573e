------------------------------- MODULE Config -------------------------------
(***************************************************************************)
(* config.rs: the environment a server is started with, and the            *)
(* configuration it makes of it or the error it refuses to start with.     *)
(*                                                                         *)
(* An environment is a function from variables to values; `optional` takes *)
(* a variable set to the empty string for unset, so such a variable is not *)
(* in the function's domain.  A value is what its parser tells apart: a    *)
(* number is an integer, -1 one that does not parse; a URL or an authority *)
(* is a record; a list is [entries, exact], exact when no blank or spare   *)
(* separator surrounds its entries.  Every parse_x is the sequence of the  *)
(* errors x would meet, in the order of the code: the first is reported.   *)
(***************************************************************************)
EXTENDS Integers, Sequences, Discovery

MAX_HEALTH_TTL_SECONDS == 3600
MAX_OAUTH_TOKEN_CACHE_TTL_SECONDS == 3600
MIN_MAX_REQUEST_BODY_BYTES == 1024
MAX_MAX_REQUEST_BODY_BYTES == 64 * 1024 * 1024
MAX_PORT == 65535
MiB == 1024 * 1024

\* An authority: a host and a port, 0 for none.
At(host, port) == [host |-> host, port |-> port]
LOOPBACK_HOSTS == {At("localhost", 0), At("127.0.0.1", 0), At("::1", 0)}
LoopbackIps == {"127.0.0.1", "127.0.0.2", "::1"}

\* What the parsers of numbers make of a variable.
Numbers ==
    {"SERVER_PORT", "PUBLIC_PORT", "HEALTH_INTROSPECTION_TTL_SECONDS",
     "REDMINE_MCP_MAX_REQUEST_BODY_BYTES", "REDMINE_MCP_RATE_LIMIT_RPS",
     "REDMINE_MCP_RATE_LIMIT_BURST", "REDMINE_MCP_RATE_LIMIT_AUTH_RPS",
     "REDMINE_MCP_RATE_LIMIT_AUTH_BURST", "REDMINE_MCP_RATE_LIMIT_MAX_KEYS",
     "REDMINE_OAUTH_TOKEN_CACHE_TTL_SECONDS", "ATTACHMENT_MAX_DOWNLOAD_BYTES",
     "ATTACHMENT_STORE_MAX_BYTES", "CLEANUP_INTERVAL_MINUTES", "ATTACHMENT_EXPIRES_MINUTES",
     "REDMINE_MCP_MAX_RESPONSE_ITEMS", "REDMINE_MCP_MAX_RESPONSE_BYTES"}
IsEnvironment(vars) == \A var \in Numbers \cap DOMAIN vars : vars[var] \in Int

(***************************************************************************)
(* Reading one variable.                                                   *)
(***************************************************************************)
optional(vars, var) == var \in DOMAIN vars
ValueOr(vars, var, default) == IF optional(vars, var) THEN vars[var] ELSE default

Fails(kind, var, condition) == IF condition THEN <<[kind |-> kind, var |-> var]>> ELSE <<>>
Invalid(var, condition)  == Fails("Invalid", var, condition)
Conflict(var, condition) == Fails("Conflict", var, condition)
required(vars, var)      == Fails("Missing", var, ~optional(vars, var))

optional_bool(vars, var) ==
    Invalid(var, ValueOr(vars, var, "true") \notin {"true", "1", "false", "0"})
Enabled(vars, var, default) ==
    IF optional(vars, var) THEN vars[var] \in {"true", "1"} ELSE default

\* A secret or the file that holds it; an empty file is an empty secret.
secret(vars, var, file_var) ==
    Conflict(var, optional(vars, var) /\ optional(vars, file_var))
    \o Invalid(var, ValueOr(vars, file_var, "") = "unreadable")
HasSecret(vars, var, file_var) == optional(vars, var) \/ optional(vars, file_var)

positive(vars, var) == Invalid(var, ValueOr(vars, var, 1) < 1)
InRange(vars, var, low, high) ==
    Invalid(var, optional(vars, var) /\ (vars[var] < low \/ vars[var] > high))
OneOf(vars, var, values) == Invalid(var, optional(vars, var) /\ vars[var] \notin values)

parse_csv(vars, var) == Invalid(var, optional(vars, var) /\ vars[var].entries = <<>>)
Entries(vars, var) ==
    IF optional(vars, var) THEN {vars[var].entries[i] : i \in DOMAIN vars[var].entries} ELSE {}

HttpUrl(url) == url.scheme \in {"http", "https"}
parse_url(vars, var) == Invalid(var, optional(vars, var) /\ ~HttpUrl(vars[var]))

(***************************************************************************)
(* Redmine, the bind address and the Host allowlist.                       *)
(***************************************************************************)
parse_redmine(vars) ==
    required(vars, "REDMINE_URL")
    \o parse_url(vars, "REDMINE_URL")
    \o Invalid("REDMINE_URL", optional(vars, "REDMINE_URL") /\ vars["REDMINE_URL"].userinfo)
    \o optional_bool(vars, "REDMINE_SSL_VERIFY")
    \o Invalid("REDMINE_VERSION", ValueOr(vars, "REDMINE_VERSION", "7.0.3") = "bad")

parse_port(vars, var) == InRange(vars, var, 1, MAX_PORT)

parse_bind(vars) ==
    Invalid("SERVER_HOST", ValueOr(vars, "SERVER_HOST", "127.0.0.1") = "hostname")
    \o parse_port(vars, "SERVER_PORT")
Bind(vars) == At(ValueOr(vars, "SERVER_HOST", "127.0.0.1"), ValueOr(vars, "SERVER_PORT", 8000))
IsLoopback(bind) == bind.host \in LoopbackIps

\* http::uri::Authority: a bare IPv6 address has too many colons for it.
ParsesAsAuthority(a) == a.host \notin {"", "::1"}
validate_authority(var, a) == Invalid(var, ~ParsesAsAuthority(a))

AllowsAny(vars) ==
    \E a \in Entries(vars, "REDMINE_MCP_ALLOWED_HOSTS") : a.host = "*"

parse_allowed_hosts(vars) ==
    LET VAR == "REDMINE_MCP_ALLOWED_HOSTS" IN
    IF optional(vars, VAR)
    THEN parse_csv(vars, VAR)
         \o Invalid(VAR, AllowsAny(vars) /\ Len(vars[VAR].entries) > 1)
         \o Invalid(VAR, ~AllowsAny(vars) /\ \E a \in Entries(vars, VAR) : ~ParsesAsAuthority(a))
    ELSE parse_port(vars, "PUBLIC_PORT")
         \o Conflict("PUBLIC_PORT", ~optional(vars, "PUBLIC_HOST") /\ optional(vars, "PUBLIC_PORT"))
         \o Fails("Missing", "PUBLIC_HOST",
                  ~optional(vars, "PUBLIC_HOST") /\ ~IsLoopback(Bind(vars)))
         \o validate_authority("PUBLIC_HOST", ValueOr(vars, "PUBLIC_HOST", At("none", 0)))

\* The port of PUBLIC_HOST: PUBLIC_PORT, or its own.
PublicPort(vars) == ValueOr(vars, "PUBLIC_PORT", vars["PUBLIC_HOST"].port)

\* Mutant: the public host is left out.
AllowedHostsLocal(vars) ==
    IF optional(vars, "REDMINE_MCP_ALLOWED_HOSTS")
    THEN IF AllowsAny(vars) THEN {} ELSE Entries(vars, "REDMINE_MCP_ALLOWED_HOSTS")
    ELSE LOOPBACK_HOSTS

\* The empty allowlist allows every host.
AllowedHosts(vars) ==
    IF optional(vars, "REDMINE_MCP_ALLOWED_HOSTS")
    THEN IF AllowsAny(vars) THEN {} ELSE Entries(vars, "REDMINE_MCP_ALLOWED_HOSTS")
    ELSE LOOPBACK_HOSTS
         \cup (IF optional(vars, "PUBLIC_HOST")
               THEN {At(vars["PUBLIC_HOST"].host, PublicPort(vars))}
               ELSE {})

parse_allowed_origins(vars) ==
    parse_csv(vars, "REDMINE_MCP_ALLOWED_ORIGINS")
    \o Invalid("REDMINE_MCP_ALLOWED_ORIGINS",
               Entries(vars, "REDMINE_MCP_ALLOWED_ORIGINS")
                   \cap {"*", "null", "schemeless", "not-a-header"} # {})

parse_mcp_path(vars) ==
    OneOf(vars, "FASTMCP_STREAMABLE_HTTP_PATH", {"/mcp", "/rpc/mcp"})

(***************************************************************************)
(* The origin of the links this server hands out.                          *)
(***************************************************************************)
parse_public_scheme(vars) == OneOf(vars, "PUBLIC_SCHEME", {"http", "https"})
PublicScheme(vars) ==
    ValueOr(vars, "PUBLIC_SCHEME", IF ValueOr(vars, "PUBLIC_PORT", 0) = 443 THEN "https" ELSE "http")

DefaultPort(scheme) == IF scheme = "https" THEN 443 ELSE 80

\* A URL as the url crate keeps it: without the port its scheme implies.
Url(scheme, host, port) ==
    [scheme |-> scheme, at |-> At(host, IF port = DefaultPort(scheme) THEN 0 ELSE port)]

public_base_from_loopback_bind(bind) ==
    Url("http", IF bind.host = "::1" THEN "[::1]" ELSE bind.host, bind.port)

parse_public_base(vars) ==
    parse_port(vars, "PUBLIC_PORT")
    \o parse_public_scheme(vars)
    \o Fails("Missing", "PUBLIC_HOST",
             ~optional(vars, "PUBLIC_HOST") /\ ~IsLoopback(Bind(vars)))
    \o Invalid("PUBLIC_HOST",
               /\ optional(vars, "PUBLIC_HOST")
               /\ \/ ~ParsesAsAuthority(vars["PUBLIC_HOST"])
                  \/ vars["PUBLIC_HOST"].port # 0 /\ optional(vars, "PUBLIC_PORT"))
PublicBase(vars) ==
    IF optional(vars, "PUBLIC_HOST")
    THEN Url(PublicScheme(vars), vars["PUBLIC_HOST"].host, PublicPort(vars))
    ELSE public_base_from_loopback_bind(Bind(vars))

(***************************************************************************)
(* The rate limiter and the HTTP transport.                                *)
(***************************************************************************)
RateLimit(vars) ==
    [enabled        |-> Enabled(vars, "REDMINE_MCP_RATE_LIMIT_ENABLED", TRUE),
     standard_rps   |-> ValueOr(vars, "REDMINE_MCP_RATE_LIMIT_RPS", 10),
     standard_burst |-> ValueOr(vars, "REDMINE_MCP_RATE_LIMIT_BURST", 40),
     strict_rps     |-> ValueOr(vars, "REDMINE_MCP_RATE_LIMIT_AUTH_RPS", 1),
     strict_burst   |-> ValueOr(vars, "REDMINE_MCP_RATE_LIMIT_AUTH_BURST", 10),
     max_keys       |-> ValueOr(vars, "REDMINE_MCP_RATE_LIMIT_MAX_KEYS", 10000)]

RateLimitNumbers(vars) ==
    optional_bool(vars, "REDMINE_MCP_RATE_LIMIT_ENABLED")
    \o positive(vars, "REDMINE_MCP_RATE_LIMIT_RPS")
    \o positive(vars, "REDMINE_MCP_RATE_LIMIT_BURST")
    \o positive(vars, "REDMINE_MCP_RATE_LIMIT_AUTH_RPS")
    \o positive(vars, "REDMINE_MCP_RATE_LIMIT_AUTH_BURST")
    \o positive(vars, "REDMINE_MCP_RATE_LIMIT_MAX_KEYS")

\* Mutant: only the numbers the operator set are compared.
parse_rate_limit_given(vars) ==
    RateLimitNumbers(vars)
    \o Invalid("REDMINE_MCP_RATE_LIMIT_BURST",
               /\ optional(vars, "REDMINE_MCP_RATE_LIMIT_BURST")
               /\ RateLimit(vars).standard_burst < RateLimit(vars).standard_rps)

parse_rate_limit(vars) ==
    RateLimitNumbers(vars)
    \o Invalid("REDMINE_MCP_RATE_LIMIT_BURST",
               RateLimit(vars).standard_burst < RateLimit(vars).standard_rps)
    \o Invalid("REDMINE_MCP_RATE_LIMIT_AUTH_BURST",
               RateLimit(vars).strict_burst < RateLimit(vars).strict_rps)

parse_http(vars) ==
    parse_bind(vars)
    \o parse_allowed_hosts(vars)
    \o Invalid("REDMINE_MCP_ALLOWED_HOSTS",
               /\ optional(vars, "REDMINE_MCP_ALLOWED_HOSTS")
               /\ AllowedHosts(vars) = {}
               /\ ~vars["REDMINE_MCP_ALLOWED_HOSTS"].exact)
    \o InRange(vars, "REDMINE_MCP_MAX_REQUEST_BODY_BYTES",
               MIN_MAX_REQUEST_BODY_BYTES, MAX_MAX_REQUEST_BODY_BYTES)
    \o InRange(vars, "HEALTH_INTROSPECTION_TTL_SECONDS", 0, MAX_HEALTH_TTL_SECONDS)
    \o parse_mcp_path(vars)
    \o parse_allowed_origins(vars)
    \o parse_public_base(vars)
    \o parse_rate_limit(vars)

NoHttp == [bind |-> At("none", 0)]
HttpConfig(vars) ==
    [bind            |-> Bind(vars),
     mcp_path        |-> ValueOr(vars, "FASTMCP_STREAMABLE_HTTP_PATH", "/mcp"),
     allowed_hosts   |-> AllowedHosts(vars),
     allowed_origins |-> Entries(vars, "REDMINE_MCP_ALLOWED_ORIGINS"),
     health_ttl      |-> ValueOr(vars, "HEALTH_INTROSPECTION_TTL_SECONDS", 30),
     max_body        |-> ValueOr(vars, "REDMINE_MCP_MAX_REQUEST_BODY_BYTES", 4 * MiB),
     public_base     |-> PublicBase(vars),
     rate_limit      |-> RateLimit(vars)]

(***************************************************************************)
(* Authentication.                                                         *)
(***************************************************************************)
parse_oauth_base_url(vars) ==
    LET VAR == "REDMINE_MCP_BASE_URL" IN
    required(vars, VAR)
    \o parse_url(vars, VAR)
    \o Invalid(VAR, optional(vars, VAR) /\ (vars[VAR].userinfo \/ vars[VAR].query))

parse_token_cache_ttl(vars) ==
    InRange(vars, "REDMINE_OAUTH_TOKEN_CACHE_TTL_SECONDS", 0, MAX_OAUTH_TOKEN_CACHE_TTL_SECONDS)
parse_scope_enforcement(vars) == OneOf(vars, "REDMINE_OAUTH_SCOPE_ENFORCEMENT", {"on", "off"})
parse_discovery_as(vars) == OneOf(vars, "REDMINE_OAUTH_DISCOVERY_AS", {"redmine", "self"})

Plugins == {"agile", "checklists", "products", "crm", "dmsf", "tags"}
PluginVar == [agile |-> "REDMINE_AGILE_ENABLED", checklists |-> "REDMINE_CHECKLISTS_ENABLED",
              products |-> "REDMINE_PRODUCTS_ENABLED", crm |-> "REDMINE_CRM_ENABLED",
              dmsf |-> "REDMINE_DMSF_ENABLED", tags |-> "REDMINE_TAGS_ENABLED"]
parse_plugins(vars) ==
    optional_bool(vars, PluginVar.agile) \o optional_bool(vars, PluginVar.checklists)
    \o optional_bool(vars, PluginVar.products) \o optional_bool(vars, PluginVar.crm)
    \o optional_bool(vars, PluginVar.dmsf) \o optional_bool(vars, PluginVar.tags)
PluginFlags(vars) == {p \in Plugins : Enabled(vars, PluginVar[p], FALSE)}

ReadOnly(vars) == Enabled(vars, "REDMINE_MCP_READ_ONLY", FALSE)
FullScopes(vars) == advertised(ReadOnly(vars), PluginFlags(vars))

parse_scopes(vars) ==
    Invalid("REDMINE_MCP_SCOPES",
            NarrowFails(FullScopes(vars), ValueOr(vars, "REDMINE_MCP_SCOPES", {})))
Scopes(vars) ==
    IF optional(vars, "REDMINE_MCP_SCOPES")
    THEN narrow(FullScopes(vars), vars["REDMINE_MCP_SCOPES"]) ELSE FullScopes(vars)

parse_oauth_resource(vars, transport) ==
    parse_oauth_base_url(vars)
    \o required(vars, "REDMINE_INTROSPECT_CLIENT_ID")
    \o secret(vars, "REDMINE_INTROSPECT_CLIENT_SECRET", "REDMINE_INTROSPECT_CLIENT_SECRET_FILE")
    \o Fails("Missing", "REDMINE_INTROSPECT_CLIENT_SECRET",
             ~HasSecret(vars, "REDMINE_INTROSPECT_CLIENT_SECRET",
                        "REDMINE_INTROSPECT_CLIENT_SECRET_FILE"))
    \o Conflict("transport", transport = "stdio")
    \o parse_token_cache_ttl(vars)
    \o parse_discovery_as(vars)
    \o parse_scopes(vars)
    \o parse_scope_enforcement(vars)

\* Both halves of a dedicated upstream client, or neither.
parse_upstream_client(vars) ==
    LET hasSecret == HasSecret(vars, "REDMINE_OAUTH_CLIENT_SECRET",
                               "REDMINE_OAUTH_CLIENT_SECRET_FILE")
    IN  secret(vars, "REDMINE_OAUTH_CLIENT_SECRET", "REDMINE_OAUTH_CLIENT_SECRET_FILE")
        \o Conflict("REDMINE_OAUTH_CLIENT_ID",
                    optional(vars, "REDMINE_OAUTH_CLIENT_ID") # hasSecret)
UpstreamClient(vars) ==
    IF optional(vars, "REDMINE_OAUTH_CLIENT_ID") THEN "dedicated" ELSE "introspection"

parse_redirect_policy(vars) ==
    parse_csv(vars, "REDMINE_MCP_ALLOWED_CLIENT_REDIRECT_URIS")
    \o Invalid("REDMINE_MCP_ALLOWED_CLIENT_REDIRECT_URIS",
               "not-a-pattern" \in Entries(vars, "REDMINE_MCP_ALLOWED_CLIENT_REDIRECT_URIS"))

AuthModes == {"legacy", "legacy-per-user", "oauth", "oauth-proxy"}
Mode(vars) == ValueOr(vars, "REDMINE_AUTH_MODE", "legacy")

parse_auth(vars, transport) ==
    CASE Mode(vars) = "legacy" ->
           secret(vars, "REDMINE_API_KEY", "REDMINE_API_KEY_FILE")
           \o Fails("Missing", "REDMINE_API_KEY",
                    ~HasSecret(vars, "REDMINE_API_KEY", "REDMINE_API_KEY_FILE"))
      [] Mode(vars) = "legacy-per-user" ->
           Fails("Missing", "REDMINE_PER_USER_TRUST_PROXY",
                 ValueOr(vars, "REDMINE_PER_USER_TRUST_PROXY", "") # "true")
           \o Conflict("transport", transport = "stdio")
           \o optional_bool(vars, "REDMINE_PER_USER_AUDIT_IDENTITY")
      [] Mode(vars) = "oauth" -> parse_oauth_resource(vars, transport)
      [] Mode(vars) = "oauth-proxy" ->
           parse_oauth_resource(vars, transport)
           \o Conflict("REDMINE_OAUTH_DISCOVERY_AS",
                       ValueOr(vars, "REDMINE_OAUTH_DISCOVERY_AS", "self") = "redmine")
           \o parse_upstream_client(vars)
           \o parse_redirect_policy(vars)
      [] OTHER -> Invalid("REDMINE_AUTH_MODE", TRUE)

\* Mutant: what the variable says, in oauth-proxy mode too.
DiscoveryAsGiven(vars) == ValueOr(vars, "REDMINE_OAUTH_DISCOVERY_AS", "redmine")

\* In oauth-proxy mode this server is the authorization server.
DiscoveryAs(vars) ==
    IF Mode(vars) = "oauth-proxy" THEN "self"
    ELSE ValueOr(vars, "REDMINE_OAUTH_DISCOVERY_AS", "redmine")

NoOAuth == [scopes |-> {}]
OAuthConfig(vars) ==
    [discovery_as      |-> DiscoveryAs(vars),
     scopes            |-> Scopes(vars),
     scope_enforcement |-> ValueOr(vars, "REDMINE_OAUTH_SCOPE_ENFORCEMENT", "on") = "on",
     token_cache_ttl   |-> ValueOr(vars, "REDMINE_OAUTH_TOKEN_CACHE_TTL_SECONDS", 60),
     upstream_client   |-> UpstreamClient(vars)]

(***************************************************************************)
(* Attachments, response limits and the rest.                              *)
(***************************************************************************)
\* Sizes are in MiB.
parse_attachments(vars) ==
    positive(vars, "ATTACHMENT_MAX_DOWNLOAD_BYTES")
    \o positive(vars, "ATTACHMENT_STORE_MAX_BYTES")
    \o Conflict("ATTACHMENT_STORE_MAX_BYTES",
                ValueOr(vars, "ATTACHMENT_STORE_MAX_BYTES", 2048)
                    < ValueOr(vars, "ATTACHMENT_MAX_DOWNLOAD_BYTES", 200))
    \o positive(vars, "CLEANUP_INTERVAL_MINUTES")
    \o positive(vars, "ATTACHMENT_EXPIRES_MINUTES")
    \o optional_bool(vars, "AUTO_CLEANUP_ENABLED")
    \o parse_csv(vars, "REDMINE_MCP_UPLOAD_FILE_ROOTS")
    \o Invalid("REDMINE_MCP_UPLOAD_FILE_ROOTS",
               "relative" \in Entries(vars, "REDMINE_MCP_UPLOAD_FILE_ROOTS"))
    \o optional_bool(vars, "REDMINE_MCP_EXPOSE_ADMIN_TOOLS")
    \o parse_url(vars, "REDMINE_PUBLIC_URL")

AttachmentConfig(vars) ==
    [max_download |-> ValueOr(vars, "ATTACHMENT_MAX_DOWNLOAD_BYTES", 200),
     store_max    |-> ValueOr(vars, "ATTACHMENT_STORE_MAX_BYTES", 2048),
     auto_cleanup |-> Enabled(vars, "AUTO_CLEANUP_ENABLED", TRUE),
     interval     |-> ValueOr(vars, "CLEANUP_INTERVAL_MINUTES", 15),
     expires      |-> ValueOr(vars, "ATTACHMENT_EXPIRES_MINUTES", 60)]

\* A JSON object from field names to strings or lists of strings, never empty.
parse_custom_field_defaults(vars) ==
    OneOf(vars, "REDMINE_REQUIRED_CUSTOM_FIELD_DEFAULTS", {"object"})
parse_custom_fields(vars) ==
    optional_bool(vars, "REDMINE_AUTOFILL_REQUIRED_CUSTOM_FIELDS")
    \o parse_custom_field_defaults(vars)

parse_schema_dialect(vars) == OneOf(vars, "REDMINE_MCP_SCHEMA_DIALECT", {"strict", "portable"})
parse_log_format(vars) == OneOf(vars, "REDMINE_MCP_LOG_FORMAT", {"text", "json"})

\* The shared key on a network address, and the risk not accepted.
SharedKeyOnNetwork(vars, transport) ==
    /\ transport = "http"
    /\ Mode(vars) = "legacy"
    /\ ~IsLoopback(Bind(vars))
    /\ ValueOr(vars, "REDMINE_MCP_ALLOW_UNAUTHENTICATED_NETWORK", "") # "true"

from_map(vars, transport) ==
    parse_redmine(vars)
    \o optional_bool(vars, "REDMINE_MCP_READ_ONLY")
    \o parse_plugins(vars)
    \o parse_auth(vars, transport)
    \o (IF transport = "http" THEN parse_http(vars) ELSE <<>>)
    \o Fails("Missing", "REDMINE_MCP_ALLOW_UNAUTHENTICATED_NETWORK",
             SharedKeyOnNetwork(vars, transport))
    \o parse_attachments(vars)
    \o positive(vars, "REDMINE_MCP_MAX_RESPONSE_ITEMS")
    \o positive(vars, "REDMINE_MCP_MAX_RESPONSE_BYTES")
    \o parse_schema_dialect(vars)
    \o parse_custom_fields(vars)
    \o parse_log_format(vars)

ConfigOf(vars, transport) ==
    [transport   |-> transport,
     mode        |-> Mode(vars),
     read_only   |-> ReadOnly(vars),
     plugins     |-> PluginFlags(vars),
     admin_tools |-> Enabled(vars, "REDMINE_MCP_EXPOSE_ADMIN_TOOLS", FALSE),
     http        |-> IF transport = "http" THEN HttpConfig(vars) ELSE NoHttp,
     oauth       |-> IF Mode(vars) \in BearerModes THEN OAuthConfig(vars) ELSE NoOAuth,
     attachments |-> AttachmentConfig(vars)]
=============================================================================
