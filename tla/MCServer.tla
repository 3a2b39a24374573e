------------------------------ MODULE MCServer ------------------------------
EXTENDS Server

CONSTANTS c1, c2, c3

HttpsUrl == [scheme |-> "https", userinfo |-> FALSE, query |-> FALSE]
List(entries) == [entries |-> entries, exact |-> TRUE]
Public == At("mcp", 0)

Redmine == "REDMINE_URL" :> HttpsUrl
Legacy == Redmine @@ "REDMINE_API_KEY" :> "key"
PerUser == Redmine @@ "REDMINE_AUTH_MODE" :> "legacy-per-user"
           @@ "REDMINE_PER_USER_TRUST_PROXY" :> "true"
OAuth == Redmine @@ "REDMINE_AUTH_MODE" :> "oauth" @@ "REDMINE_MCP_BASE_URL" :> HttpsUrl
         @@ "REDMINE_INTROSPECT_CLIENT_ID" :> "id"
         @@ "REDMINE_INTROSPECT_CLIENT_SECRET" :> "key"
Proxy == "REDMINE_AUTH_MODE" :> "oauth-proxy" @@ OAuth
Network == "SERVER_HOST" :> "0.0.0.0" @@ "PUBLIC_HOST" :> Public

Deploy(kind, environment, who) == [transport |-> kind, vars |-> environment, users |-> who]

MCDeployments ==
    {Deploy("stdio", Legacy, {"calls"}),
     Deploy("http", Legacy @@ "HEALTH_INTROSPECTION_TTL_SECONDS" :> 6, {"polls"}),
     Deploy("http", Legacy @@ Network @@ "PUBLIC_PORT" :> 443
                    @@ "REDMINE_MCP_ALLOW_UNAUTHENTICATED_NETWORK" :> "true", {"calls"}),
     Deploy("http", PerUser @@ Network @@ "REDMINE_MCP_ALLOWED_HOSTS" :> List(<<At("*", 0)>>)
                    @@ "REDMINE_MCP_RATE_LIMIT_ENABLED" :> "false", {"calls"}),
     Deploy("http", PerUser @@ Network @@ "HEALTH_INTROSPECTION_TTL_SECONDS" :> 0, {"polls"}),
     Deploy("http", OAuth, {"calls"}),
     Deploy("http", Proxy @@ "AUTO_CLEANUP_ENABLED" :> "false", {"calls"})}

MCHosts == {At("localhost", 8000), At("mcp", 0), At("mcp", 443), At("evil", 0), At("", 0)}

Setting(var, values) == {var :> v : v \in values}
Switches == {"REDMINE_SSL_VERIFY", "REDMINE_MCP_READ_ONLY", "REDMINE_PER_USER_AUDIT_IDENTITY",
             "REDMINE_MCP_EXPOSE_ADMIN_TOOLS", "REDMINE_AUTOFILL_REQUIRED_CUSTOM_FIELDS"}
            \cup {PluginVar[p] : p \in Plugins}
Counts == {"REDMINE_MCP_RATE_LIMIT_MAX_KEYS", "CLEANUP_INTERVAL_MINUTES",
           "ATTACHMENT_EXPIRES_MINUTES", "REDMINE_MCP_MAX_RESPONSE_ITEMS",
           "REDMINE_MCP_MAX_RESPONSE_BYTES"}
Urls == {HttpsUrl, [HttpsUrl EXCEPT !.userinfo = TRUE], [HttpsUrl EXCEPT !.query = TRUE],
         [HttpsUrl EXCEPT !.scheme = "file"]}

MCSettings ==
    UNION {Setting(v, {"true", "maybe"}) : v \in Switches}
    \cup UNION {Setting(v, {0, 1}) : v \in Counts}
    \cup Setting("REDMINE_URL", Urls) \cup Setting("REDMINE_MCP_BASE_URL", Urls)
    \cup Setting("REDMINE_PUBLIC_URL", Urls)
    \cup Setting("REDMINE_VERSION", {"bad"})
    \cup Setting("REDMINE_API_KEY", {"key"})
    \cup Setting("REDMINE_API_KEY_FILE", {"key", "empty", "unreadable"})
    \cup Setting("REDMINE_AUTH_MODE", AuthModes \cup {"basic"})
    \cup Setting("REDMINE_PER_USER_TRUST_PROXY", {"true", "1"})
    \cup Setting("REDMINE_MCP_ALLOW_UNAUTHENTICATED_NETWORK", {"true", "1"})
    \cup Setting("SERVER_HOST", LoopbackIps \cup {"0.0.0.0", "hostname"})
    \cup Setting("SERVER_PORT", {0, 80, 65535, 65536})
    \cup Setting("PUBLIC_HOST", {Public, At("mcp", 80), At("mcp", 8000), At("", 0), At("::1", 0)})
    \cup Setting("PUBLIC_PORT", {-1, 0, 443, 8443})
    \cup Setting("PUBLIC_SCHEME", {"http", "https", "ftp"})
    \cup Setting("REDMINE_MCP_ALLOWED_HOSTS",
           {List(<<>>), List(<<At("*", 0)>>), [entries |-> <<At("*", 0)>>, exact |-> FALSE],
            List(<<Public, At("*", 0)>>), List(<<Public>>), List(<<At("", 0)>>)})
    \cup Setting("REDMINE_MCP_ALLOWED_ORIGINS",
           {List(<<"https://app">>), List(<<"*">>), List(<<"null">>), List(<<"schemeless">>)})
    \cup Setting("FASTMCP_STREAMABLE_HTTP_PATH", {"/rpc/mcp", "/", "relative", "/{x}"})
    \cup Setting("REDMINE_MCP_MAX_REQUEST_BODY_BYTES", {1023, 1024, 67108864, 67108865})
    \cup Setting("HEALTH_INTROSPECTION_TTL_SECONDS", {-1, 0, 3600, 3601})
    \cup Setting("REDMINE_MCP_RATE_LIMIT_ENABLED", {"false", "maybe"})
    \cup Setting("REDMINE_MCP_RATE_LIMIT_RPS", {0, 10, 41})
    \cup Setting("REDMINE_MCP_RATE_LIMIT_BURST", {9, 41})
    \cup Setting("REDMINE_MCP_RATE_LIMIT_AUTH_RPS", {0, 11})
    \cup Setting("REDMINE_MCP_RATE_LIMIT_AUTH_BURST", {1, 11})
    \cup Setting("REDMINE_OAUTH_TOKEN_CACHE_TTL_SECONDS", {0, 3600, 3601})
    \cup Setting("REDMINE_OAUTH_SCOPE_ENFORCEMENT", {"off", "no"})
    \cup Setting("REDMINE_OAUTH_DISCOVERY_AS", {"redmine", "self", "both"})
    \cup Setting("REDMINE_MCP_SCOPES",
           {{}, {"view_issues"}, {"edit_issues"}, {"view_agile_queries"}, {"admin"}})
    \cup Setting("REDMINE_INTROSPECT_CLIENT_SECRET_FILE", {"key", "unreadable"})
    \cup Setting("REDMINE_OAUTH_CLIENT_ID", {"id"})
    \cup Setting("REDMINE_OAUTH_CLIENT_SECRET", {"key"})
    \cup Setting("REDMINE_OAUTH_CLIENT_SECRET_FILE", {"key"})
    \cup Setting("REDMINE_MCP_ALLOWED_CLIENT_REDIRECT_URIS",
           {List(<<"*">>), List(<<>>), List(<<"not-a-pattern">>), List(<<"https://app/*">>)})
    \cup Setting("ATTACHMENT_MAX_DOWNLOAD_BYTES", {0, 2048, 2049})
    \cup Setting("ATTACHMENT_STORE_MAX_BYTES", {199, 200})
    \cup Setting("AUTO_CLEANUP_ENABLED", {"false", "maybe"})
    \cup Setting("REDMINE_MCP_UPLOAD_FILE_ROOTS", {List(<<"/srv">>), List(<<"relative">>)})
    \cup Setting("REDMINE_REQUIRED_CUSTOM_FIELD_DEFAULTS", {"object", "empty", "not-json"})
    \cup Setting("REDMINE_MCP_SCHEMA_DIALECT", {"portable", "loose"})
    \cup Setting("REDMINE_MCP_LOG_FORMAT", {"json", "xml"})
=============================================================================
