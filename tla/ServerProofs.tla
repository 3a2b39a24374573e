---------------------------- MODULE ServerProofs ----------------------------
(***************************************************************************)
(* Theorems about Server, for every environment (whatever its variables    *)
(* hold, as long as the numeric ones hold numbers), any Host headers, any  *)
(* number of readiness checks and any timeouts that fall on ticks.  The    *)
(* parsers of Config are read as what they let pass (ConfigAccepted); the  *)
(* invariant of the server has a part for its life, for the request on its *)
(* way in, for the readiness checks and for the shutdown.                  *)
(***************************************************************************)
EXTENDS Server, SequenceTheorems, TLAPS

------------------------------------------------------------------------------
(* What Config accepts *)

\* Every parser answers a sequence, of the errors it meets.
Errors(s) == \E S : s \in Seq(S)

\* No error, and one.
LEMMA OneError == Errors(<<>>) /\ \A x : Errors(<<x>>) /\ <<x>> # <<>>
<1>1. Errors(<<>>)
  <2>1. <<>> \in Seq({})
    OBVIOUS
  <2> QED BY <2>1 DEF Errors
<1>2. ASSUME NEW x PROVE Errors(<<x>>) /\ <<x>> # <<>>
  <2>1. <<x>> \in Seq({x}) /\ <<x>> # <<>>
    OBVIOUS
  <2> QED BY <2>1 DEF Errors
<1> QED BY <1>1, <1>2

\* Errors in sequence: there are none exactly when no part has any.
LEMMA InSequence ==
    ASSUME NEW s, NEW t, Errors(s), Errors(t)
    PROVE  Errors(s \o t) /\ (s \o t = <<>> => s = <<>> /\ t = <<>>)
<1>0. PICK S, T : s \in Seq(S) /\ t \in Seq(T)
  BY DEF Errors
<1>1. s \in Seq(S \cup T) /\ t \in Seq(S \cup T)
  BY <1>0
<1>2. s \o t \in Seq(S \cup T) /\ Len(s \o t) = Len(s) + Len(t)
      /\ Len(s) \in Nat /\ Len(t) \in Nat
  BY <1>1
<1>3. ASSUME s \o t = <<>> PROVE s = <<>> /\ t = <<>>
  <2>1. Len(s) + Len(t) = 0
    BY <1>2, <1>3
  <2>2. Len(s) = 0 /\ Len(t) = 0
    BY <1>2, <2>1
  <2> QED BY <1>1, <2>2
<1>4. Errors(s \o t)
  BY <1>2 DEF Errors
<1> QED BY <1>3, <1>4

\* The parsers of one variable.
LEMMA VariableParsers ==
    ASSUME NEW e, NEW x, NEW y, NEW z
    PROVE  /\ Errors(positive(e, x)) /\ Errors(optional_bool(e, x)) /\ Errors(InRange(e, x, y, z))
           /\ Errors(OneOf(e, x, y)) /\ Errors(parse_csv(e, x)) /\ Errors(parse_url(e, x))
           /\ Errors(required(e, x)) /\ Errors(validate_authority(x, y)) /\ Errors(secret(e, x, y))
<1>1. /\ Errors(positive(e, x)) /\ Errors(optional_bool(e, x)) /\ Errors(InRange(e, x, y, z))
      /\ Errors(OneOf(e, x, y)) /\ Errors(parse_csv(e, x)) /\ Errors(parse_url(e, x))
      /\ Errors(required(e, x)) /\ Errors(validate_authority(x, y))
  BY OneError, Zenon
  DEF positive, optional_bool, InRange, OneOf, parse_csv, parse_url, required,
      validate_authority, Invalid, Fails
<1>2. /\ Errors(Conflict(x, optional(e, x) /\ optional(e, y)))
      /\ Errors(Invalid(x, ValueOr(e, y, "") = "unreadable"))
  BY OneError, Zenon DEF Invalid, Conflict, Fails
<1>3. Errors(secret(e, x, y))
  BY <1>2, InSequence, Zenon DEF secret
<1> QED BY <1>1, <1>3

\* A number that is accepted is in its range, given or by default.
LEMMA AcceptedNumbers ==
    ASSUME NEW e, IsEnvironment(e), NEW x \in Numbers
    PROVE  /\ \A d \in Int : positive(e, x) = <<>> /\ d >= 1 =>
                ValueOr(e, x, d) \in Int /\ ValueOr(e, x, d) >= 1
           /\ \A d, lo, hi \in Int : InRange(e, x, lo, hi) = <<>> /\ d \in lo..hi =>
                ValueOr(e, x, d) \in lo..hi
<1>1. positive(e, x) = <<>> => ~(ValueOr(e, x, 1) < 1)
  BY OneError, Zenon DEF positive, Invalid, Fails
<1>2. \A lo, hi : InRange(e, x, lo, hi) = <<>> => ~(optional(e, x) /\ (e[x] < lo \/ e[x] > hi))
  BY OneError, Zenon DEF InRange, Invalid, Fails
<1>3. optional(e, x) => e[x] \in Int
  BY DEF IsEnvironment, optional
<1> QED BY <1>1, <1>2, <1>3 DEF ValueOr

\* The limits of the rate limiter.
LEMMA RateLimitAccepted ==
    ASSUME NEW e, IsEnvironment(e)
    PROVE  /\ Errors(parse_rate_limit(e))
           /\ parse_rate_limit(e) = <<>> =>
                /\ RateLimit(e).standard_burst >= RateLimit(e).standard_rps
                /\ RateLimit(e).standard_rps >= 1
                /\ RateLimit(e).strict_burst >= RateLimit(e).strict_rps
                /\ RateLimit(e).strict_rps >= 1 /\ RateLimit(e).max_keys >= 1
<1> DEFINE a == Invalid("REDMINE_MCP_RATE_LIMIT_BURST",
                        RateLimit(e).standard_burst < RateLimit(e).standard_rps)
           b == Invalid("REDMINE_MCP_RATE_LIMIT_AUTH_BURST",
                        RateLimit(e).strict_burst < RateLimit(e).strict_rps)
<1>1. /\ Errors(a) /\ (a = <<>> => ~(RateLimit(e).standard_burst < RateLimit(e).standard_rps))
      /\ Errors(b) /\ (b = <<>> => ~(RateLimit(e).strict_burst < RateLimit(e).strict_rps))
  BY OneError, Zenon DEF Invalid, Fails
<1>2. /\ Errors(RateLimitNumbers(e))
      /\ RateLimitNumbers(e) = <<>> =>
           /\ positive(e, "REDMINE_MCP_RATE_LIMIT_RPS") = <<>>
           /\ positive(e, "REDMINE_MCP_RATE_LIMIT_BURST") = <<>>
           /\ positive(e, "REDMINE_MCP_RATE_LIMIT_AUTH_RPS") = <<>>
           /\ positive(e, "REDMINE_MCP_RATE_LIMIT_AUTH_BURST") = <<>>
           /\ positive(e, "REDMINE_MCP_RATE_LIMIT_MAX_KEYS") = <<>>
  BY VariableParsers, InSequence DEF RateLimitNumbers
<1>3. parse_rate_limit(e) = RateLimitNumbers(e) \o a \o b
  BY DEF parse_rate_limit
<1> HIDE DEF a, b
<1>4. /\ Errors(parse_rate_limit(e))
      /\ parse_rate_limit(e) = <<>> => RateLimitNumbers(e) = <<>> /\ a = <<>> /\ b = <<>>
  BY <1>1, <1>2, <1>3, InSequence
<1>5. /\ "REDMINE_MCP_RATE_LIMIT_RPS" \in Numbers /\ "REDMINE_MCP_RATE_LIMIT_BURST" \in Numbers
      /\ "REDMINE_MCP_RATE_LIMIT_AUTH_RPS" \in Numbers
      /\ "REDMINE_MCP_RATE_LIMIT_AUTH_BURST" \in Numbers
      /\ "REDMINE_MCP_RATE_LIMIT_MAX_KEYS" \in Numbers
  BY DEF Numbers
<1>6. ASSUME parse_rate_limit(e) = <<>>
      PROVE  LET r == RateLimit(e) IN
             /\ r.standard_rps \in Int /\ r.standard_rps >= 1 /\ r.standard_burst \in Int
             /\ r.strict_rps \in Int /\ r.strict_rps >= 1 /\ r.strict_burst \in Int
             /\ r.max_keys >= 1
  BY <1>2, <1>4, <1>5, <1>6, AcceptedNumbers DEF RateLimit
<1> QED BY <1>1, <1>4, <1>6

\* The bind address.
LEMMA BindAccepted ==
    ASSUME NEW e, IsEnvironment(e)
    PROVE  Errors(parse_bind(e)) /\ (parse_bind(e) = <<>> => Bind(e).port \in 1..MAX_PORT)
<1> DEFINE a == Invalid("SERVER_HOST", ValueOr(e, "SERVER_HOST", "127.0.0.1") = "hostname")
<1>1. Errors(a)
  BY OneError, Zenon DEF Invalid, Fails
<1>2. parse_bind(e) = a \o InRange(e, "SERVER_PORT", 1, MAX_PORT)
  BY DEF parse_bind, parse_port
<1> HIDE DEF a
<1>3. /\ Errors(parse_bind(e))
      /\ parse_bind(e) = <<>> => InRange(e, "SERVER_PORT", 1, MAX_PORT) = <<>>
  BY <1>1, <1>2, VariableParsers, InSequence
<1>4. "SERVER_PORT" \in Numbers /\ 8000 \in 1..MAX_PORT /\ MAX_PORT \in Int
  BY DEF Numbers, MAX_PORT
<1> QED BY <1>3, <1>4, AcceptedNumbers DEF Bind, At

\* The derived allowlist: a PUBLIC_HOST there is reads as an authority, and a
\* PUBLIC_PORT comes with one.
LEMMA HostsAccepted ==
    ASSUME NEW e
    PROVE  /\ Errors(parse_allowed_hosts(e))
           /\ /\ parse_allowed_hosts(e) = <<>>
              /\ "REDMINE_MCP_ALLOWED_HOSTS" \notin DOMAIN e
              /\ "PUBLIC_HOST" \in DOMAIN e
              => ParsesAsAuthority(e["PUBLIC_HOST"])
<1> DEFINE VAR == "REDMINE_MCP_ALLOWED_HOSTS"
           a == Invalid(VAR, AllowsAny(e) /\ Len(e[VAR].entries) > 1)
           b == Invalid(VAR, ~AllowsAny(e) /\ \E h \in Entries(e, VAR) : ~ParsesAsAuthority(h))
           c == Conflict("PUBLIC_PORT", ~optional(e, "PUBLIC_HOST") /\ optional(e, "PUBLIC_PORT"))
           d == Fails("Missing", "PUBLIC_HOST",
                      ~optional(e, "PUBLIC_HOST") /\ ~IsLoopback(Bind(e)))
           f == validate_authority("PUBLIC_HOST", ValueOr(e, "PUBLIC_HOST", At("none", 0)))
<1>1. Errors(a) /\ Errors(b) /\ Errors(c) /\ Errors(d)
  BY OneError, Zenon DEF Invalid, Conflict, Fails
<1>2. Errors(f) /\ (f = <<>> => ParsesAsAuthority(ValueOr(e, "PUBLIC_HOST", At("none", 0))))
  BY OneError, Zenon DEF validate_authority, Invalid, Fails
<1>3. Errors(parse_csv(e, VAR)) /\ Errors(parse_port(e, "PUBLIC_PORT"))
  BY VariableParsers DEF parse_port
<1>4. parse_allowed_hosts(e) = IF optional(e, VAR) THEN parse_csv(e, VAR) \o a \o b
                               ELSE parse_port(e, "PUBLIC_PORT") \o c \o d \o f
  BY Zenon DEF parse_allowed_hosts
<1> HIDE DEF a, b, c, d, f
<1>5. CASE optional(e, VAR)
  BY <1>1, <1>3, <1>4, <1>5, InSequence DEF optional
<1>6. CASE ~optional(e, VAR)
  <2>1. /\ Errors(parse_allowed_hosts(e))
        /\ parse_allowed_hosts(e) = <<>> => f = <<>>
    BY <1>1, <1>2, <1>3, <1>4, <1>6, InSequence
  <2> QED BY <1>2, <2>1 DEF ValueOr, optional
<1> QED BY <1>5, <1>6

LEMMA PublicBaseAccepted == ASSUME NEW e PROVE Errors(parse_public_base(e))
<1> DEFINE a == Fails("Missing", "PUBLIC_HOST",
                      ~optional(e, "PUBLIC_HOST") /\ ~IsLoopback(Bind(e)))
           b == Invalid("PUBLIC_HOST",
                        /\ optional(e, "PUBLIC_HOST")
                        /\ \/ ~ParsesAsAuthority(e["PUBLIC_HOST"])
                           \/ e["PUBLIC_HOST"].port # 0 /\ optional(e, "PUBLIC_PORT"))
<1>1. Errors(a) /\ Errors(b)
  BY OneError, Zenon DEF Invalid, Fails
<1>2. Errors(parse_port(e, "PUBLIC_PORT")) /\ Errors(parse_public_scheme(e))
  BY VariableParsers DEF parse_port, parse_public_scheme
<1>3. parse_public_base(e) = parse_port(e, "PUBLIC_PORT") \o parse_public_scheme(e) \o a \o b
  BY Zenon DEF parse_public_base
<1> HIDE DEF a, b
<1> QED BY <1>1, <1>2, <1>3, InSequence

\* What an HTTP server is configured with.
HttpFacts(e) ==
    /\ RateLimit(e).standard_burst >= RateLimit(e).standard_rps
    /\ RateLimit(e).standard_rps >= 1
    /\ RateLimit(e).strict_burst >= RateLimit(e).strict_rps
    /\ RateLimit(e).strict_rps >= 1 /\ RateLimit(e).max_keys >= 1
    /\ HttpConfig(e).health_ttl \in 0..MAX_HEALTH_TTL_SECONDS
    /\ Bind(e).port \in 1..MAX_PORT
    /\ "REDMINE_MCP_ALLOWED_HOSTS" \notin DOMAIN e /\ "PUBLIC_HOST" \in DOMAIN e =>
         ParsesAsAuthority(e["PUBLIC_HOST"])

LEMMA HttpAccepted ==
    ASSUME NEW e, IsEnvironment(e)
    PROVE  Errors(parse_http(e)) /\ (parse_http(e) = <<>> => HttpFacts(e))
<1> DEFINE a == Invalid("REDMINE_MCP_ALLOWED_HOSTS",
                        /\ optional(e, "REDMINE_MCP_ALLOWED_HOSTS")
                        /\ AllowedHosts(e) = {}
                        /\ ~e["REDMINE_MCP_ALLOWED_HOSTS"].exact)
           b == InRange(e, "REDMINE_MCP_MAX_REQUEST_BODY_BYTES",
                        MIN_MAX_REQUEST_BODY_BYTES, MAX_MAX_REQUEST_BODY_BYTES)
           c == InRange(e, "HEALTH_INTROSPECTION_TTL_SECONDS", 0, MAX_HEALTH_TTL_SECONDS)
           d == Invalid("REDMINE_MCP_ALLOWED_ORIGINS",
                        Entries(e, "REDMINE_MCP_ALLOWED_ORIGINS")
                            \cap {"*", "null", "schemeless", "not-a-header"} # {})
<1>1. Errors(a) /\ Errors(d)
  BY OneError, Zenon DEF Invalid, Fails
<1>2. /\ Errors(b) /\ Errors(c) /\ Errors(parse_mcp_path(e))
      /\ Errors(parse_csv(e, "REDMINE_MCP_ALLOWED_ORIGINS"))
  BY VariableParsers DEF parse_mcp_path
<1>3. parse_allowed_origins(e) = parse_csv(e, "REDMINE_MCP_ALLOWED_ORIGINS") \o d
  BY Zenon DEF parse_allowed_origins
<1>4. parse_http(e) = parse_bind(e) \o parse_allowed_hosts(e) \o a \o b \o c \o parse_mcp_path(e)
                      \o parse_allowed_origins(e) \o parse_public_base(e) \o parse_rate_limit(e)
  BY Zenon DEF parse_http
<1>5. c = <<>> => HttpConfig(e).health_ttl \in 0..MAX_HEALTH_TTL_SECONDS
  <2>1. /\ "HEALTH_INTROSPECTION_TTL_SECONDS" \in Numbers /\ 30 \in 0..MAX_HEALTH_TTL_SECONDS
        /\ MAX_HEALTH_TTL_SECONDS \in Int
    BY DEF Numbers, MAX_HEALTH_TTL_SECONDS
  <2> QED BY <2>1, AcceptedNumbers DEF HttpConfig
<1> HIDE DEF a, b, c, d
<1>6. Errors(parse_allowed_origins(e))
  BY <1>1, <1>2, <1>3, InSequence
<1>7. /\ Errors(parse_http(e))
      /\ parse_http(e) = <<>> => /\ parse_bind(e) = <<>> /\ parse_allowed_hosts(e) = <<>>
                                 /\ c = <<>> /\ parse_rate_limit(e) = <<>>
  BY <1>1, <1>2, <1>4, <1>6, InSequence, BindAccepted, HostsAccepted, PublicBaseAccepted,
     RateLimitAccepted
<1> QED BY <1>5, <1>7, BindAccepted, HostsAccepted, RateLimitAccepted DEF HttpFacts

\* The attachment store has room for a download.
LEMMA AttachmentsAccepted ==
    ASSUME NEW e, IsEnvironment(e)
    PROVE  /\ Errors(parse_attachments(e))
           /\ parse_attachments(e) = <<>> =>
                /\ AttachmentConfig(e).store_max >= AttachmentConfig(e).max_download
                /\ AttachmentConfig(e).max_download >= 1
<1> DEFINE down == ValueOr(e, "ATTACHMENT_MAX_DOWNLOAD_BYTES", 200)
           store == ValueOr(e, "ATTACHMENT_STORE_MAX_BYTES", 2048)
           a == Conflict("ATTACHMENT_STORE_MAX_BYTES", store < down)
           b == Invalid("REDMINE_MCP_UPLOAD_FILE_ROOTS",
                        "relative" \in Entries(e, "REDMINE_MCP_UPLOAD_FILE_ROOTS"))
<1> DEFINE u == positive(e, "ATTACHMENT_MAX_DOWNLOAD_BYTES")
                \o positive(e, "ATTACHMENT_STORE_MAX_BYTES") \o a
                \o positive(e, "CLEANUP_INTERVAL_MINUTES")
           v == u \o positive(e, "ATTACHMENT_EXPIRES_MINUTES")
                \o optional_bool(e, "AUTO_CLEANUP_ENABLED")
                \o parse_csv(e, "REDMINE_MCP_UPLOAD_FILE_ROOTS")
<1>0. Errors(b)
  BY OneError, Zenon DEF Invalid, Fails
<1>2. parse_attachments(e) =
        v \o b \o optional_bool(e, "REDMINE_MCP_EXPOSE_ADMIN_TOOLS")
        \o parse_url(e, "REDMINE_PUBLIC_URL")
  BY Zenon DEF parse_attachments
<1>3. AttachmentConfig(e).store_max = store /\ AttachmentConfig(e).max_download = down
  BY DEF AttachmentConfig
<1>4. /\ positive(e, "ATTACHMENT_MAX_DOWNLOAD_BYTES") = <<>> => down \in Int /\ down >= 1
      /\ positive(e, "ATTACHMENT_STORE_MAX_BYTES") = <<>> => store \in Int
  <2>1. /\ "ATTACHMENT_MAX_DOWNLOAD_BYTES" \in Numbers /\ "ATTACHMENT_STORE_MAX_BYTES" \in Numbers
        /\ 200 \in Int /\ 2048 \in Int /\ 200 >= 1 /\ 2048 >= 1
    BY DEF Numbers
  <2> QED BY <2>1, AcceptedNumbers
<1> HIDE DEF down, store
<1>1. Errors(a) /\ (a = <<>> => ~(store < down))
  BY OneError, Zenon DEF Conflict, Fails
<1> HIDE DEF a, b
<1>u. /\ Errors(u)
      /\ u = <<>> => /\ positive(e, "ATTACHMENT_MAX_DOWNLOAD_BYTES") = <<>>
                     /\ positive(e, "ATTACHMENT_STORE_MAX_BYTES") = <<>>
                     /\ a = <<>>
  BY <1>1, InSequence, VariableParsers
<1> HIDE DEF u
<1>v. Errors(v) /\ (v = <<>> => u = <<>>)
  BY <1>u, InSequence, VariableParsers
<1> HIDE DEF v
<1> DEFINE w == v \o b
           x == w \o optional_bool(e, "REDMINE_MCP_EXPOSE_ADMIN_TOOLS")
<1>w. Errors(w) /\ (w = <<>> => v = <<>>)
  BY <1>0, <1>v, InSequence
<1>x. parse_attachments(e) = x \o parse_url(e, "REDMINE_PUBLIC_URL")
  BY <1>2
<1> HIDE DEF w
<1>y. Errors(x) /\ (x = <<>> => w = <<>>)
  BY <1>w, InSequence, VariableParsers
<1> HIDE DEF x
<1>5. Errors(parse_attachments(e)) /\ (parse_attachments(e) = <<>> => x = <<>>)
  BY <1>x, <1>y, InSequence, VariableParsers
<1> QED BY <1>1, <1>3, <1>4, <1>5, <1>u, <1>v, <1>w, <1>y

\* A resource server: over HTTP, with a token cache within its bound.
LEMMA ResourceAccepted ==
    ASSUME NEW e, IsEnvironment(e), NEW transport
    PROVE  /\ Errors(parse_oauth_resource(e, transport))
           /\ parse_oauth_resource(e, transport) = <<>> =>
                /\ transport # "stdio"
                /\ OAuthConfig(e).token_cache_ttl \in 0..MAX_OAUTH_TOKEN_CACHE_TTL_SECONDS
<1> DEFINE VAR == "REDMINE_MCP_BASE_URL"
           a == Invalid(VAR, optional(e, VAR) /\ (e[VAR].userinfo \/ e[VAR].query))
           b == Fails("Missing", "REDMINE_INTROSPECT_CLIENT_SECRET",
                      ~HasSecret(e, "REDMINE_INTROSPECT_CLIENT_SECRET",
                                 "REDMINE_INTROSPECT_CLIENT_SECRET_FILE"))
           c == Conflict("transport", transport = "stdio")
           d == InRange(e, "REDMINE_OAUTH_TOKEN_CACHE_TTL_SECONDS", 0,
                        MAX_OAUTH_TOKEN_CACHE_TTL_SECONDS)
           f == secret(e, "REDMINE_INTROSPECT_CLIENT_SECRET",
                       "REDMINE_INTROSPECT_CLIENT_SECRET_FILE")
<1>1. /\ Errors(a) /\ Errors(b) /\ Errors(c) /\ (c = <<>> => transport # "stdio")
      /\ Errors(parse_scopes(e))
  BY OneError, Zenon DEF Invalid, Conflict, Fails, parse_scopes
<1>2. /\ Errors(d) /\ Errors(f) /\ Errors(parse_discovery_as(e))
      /\ Errors(parse_scope_enforcement(e)) /\ Errors(required(e, "REDMINE_INTROSPECT_CLIENT_ID"))
      /\ Errors(required(e, VAR)) /\ Errors(parse_url(e, VAR))
  BY VariableParsers DEF parse_discovery_as, parse_scope_enforcement
<1>3. parse_oauth_base_url(e) = required(e, VAR) \o parse_url(e, VAR) \o a
  BY Zenon DEF parse_oauth_base_url
<1>4. parse_oauth_resource(e, transport) =
        parse_oauth_base_url(e) \o required(e, "REDMINE_INTROSPECT_CLIENT_ID") \o f \o b \o c \o d
        \o parse_discovery_as(e) \o parse_scopes(e) \o parse_scope_enforcement(e)
  BY Zenon DEF parse_oauth_resource, parse_token_cache_ttl
<1>5. d = <<>> => OAuthConfig(e).token_cache_ttl \in 0..MAX_OAUTH_TOKEN_CACHE_TTL_SECONDS
  <2>1. /\ "REDMINE_OAUTH_TOKEN_CACHE_TTL_SECONDS" \in Numbers
        /\ 60 \in 0..MAX_OAUTH_TOKEN_CACHE_TTL_SECONDS /\ MAX_OAUTH_TOKEN_CACHE_TTL_SECONDS \in Int
    BY DEF Numbers, MAX_OAUTH_TOKEN_CACHE_TTL_SECONDS
  <2>2. OAuthConfig(e).token_cache_ttl = ValueOr(e, "REDMINE_OAUTH_TOKEN_CACHE_TTL_SECONDS", 60)
    BY DEF OAuthConfig
  <2> QED BY <2>1, <2>2, AcceptedNumbers
<1> HIDE DEF a, b, c, d, f
<1>6. Errors(parse_oauth_base_url(e))
  BY <1>1, <1>2, <1>3, InSequence
<1>7. /\ Errors(parse_oauth_resource(e, transport))
      /\ parse_oauth_resource(e, transport) = <<>> => c = <<>> /\ d = <<>>
  BY <1>1, <1>2, <1>4, <1>6, InSequence
<1> QED BY <1>1, <1>5, <1>7

\* The four modes, three of which need HTTP.
AuthFacts(e, transport) ==
    /\ Mode(e) \in AuthModes
    /\ Mode(e) # "legacy" => transport # "stdio"
    /\ Mode(e) \in BearerModes =>
         OAuthConfig(e).token_cache_ttl \in 0..MAX_OAUTH_TOKEN_CACHE_TTL_SECONDS

LEMMA AuthAccepted ==
    ASSUME NEW e, IsEnvironment(e), NEW transport
    PROVE  /\ Errors(parse_auth(e, transport))
           /\ parse_auth(e, transport) = <<>> => AuthFacts(e, transport)
<1>1. CASE Mode(e) = "legacy"
  <2> DEFINE a == Fails("Missing", "REDMINE_API_KEY",
                        ~HasSecret(e, "REDMINE_API_KEY", "REDMINE_API_KEY_FILE"))
             b == secret(e, "REDMINE_API_KEY", "REDMINE_API_KEY_FILE")
  <2>1. parse_auth(e, transport) = b \o a
    BY <1>1 DEF parse_auth
  <2>2. Errors(a)
    BY OneError, Zenon DEF Fails
  <2>3. Errors(b)
    BY VariableParsers
  <2> HIDE DEF a, b
  <2>4. Errors(parse_auth(e, transport))
    BY <2>1, <2>2, <2>3, InSequence
  <2> QED BY <1>1, <2>4 DEF AuthFacts, AuthModes, BearerModes
<1>2. CASE Mode(e) = "legacy-per-user"
  <2> DEFINE a == Fails("Missing", "REDMINE_PER_USER_TRUST_PROXY",
                        ValueOr(e, "REDMINE_PER_USER_TRUST_PROXY", "") # "true")
             b == Conflict("transport", transport = "stdio")
             c == optional_bool(e, "REDMINE_PER_USER_AUDIT_IDENTITY")
  <2>1. parse_auth(e, transport) = a \o b \o c
    BY <1>2 DEF parse_auth
  <2>2. Errors(a) /\ Errors(b) /\ (b = <<>> => transport # "stdio")
    BY OneError, Zenon DEF Fails, Conflict
  <2>3. Errors(c)
    BY VariableParsers
  <2> HIDE DEF a, b, c
  <2>4. Errors(parse_auth(e, transport)) /\ (parse_auth(e, transport) = <<>> => b = <<>>)
    BY <2>1, <2>2, <2>3, InSequence
  <2> QED BY <1>2, <2>2, <2>4 DEF AuthFacts, AuthModes, BearerModes
<1>3. CASE Mode(e) = "oauth"
  <2>1. parse_auth(e, transport) = parse_oauth_resource(e, transport)
    BY <1>3 DEF parse_auth
  <2> QED BY <1>3, <2>1, ResourceAccepted DEF AuthFacts, AuthModes, BearerModes
<1>4. CASE Mode(e) = "oauth-proxy"
  <2> DEFINE a == Conflict("REDMINE_OAUTH_DISCOVERY_AS",
                           ValueOr(e, "REDMINE_OAUTH_DISCOVERY_AS", "self") = "redmine")
             b == secret(e, "REDMINE_OAUTH_CLIENT_SECRET", "REDMINE_OAUTH_CLIENT_SECRET_FILE")
             c == Conflict("REDMINE_OAUTH_CLIENT_ID",
                           optional(e, "REDMINE_OAUTH_CLIENT_ID") #
                             HasSecret(e, "REDMINE_OAUTH_CLIENT_SECRET",
                                       "REDMINE_OAUTH_CLIENT_SECRET_FILE"))
             d == Invalid("REDMINE_MCP_ALLOWED_CLIENT_REDIRECT_URIS",
                          "not-a-pattern" \in
                              Entries(e, "REDMINE_MCP_ALLOWED_CLIENT_REDIRECT_URIS"))
             f == parse_csv(e, "REDMINE_MCP_ALLOWED_CLIENT_REDIRECT_URIS")
  <2>1. parse_auth(e, transport) =
          parse_oauth_resource(e, transport) \o a \o parse_upstream_client(e)
          \o parse_redirect_policy(e)
    BY <1>4 DEF parse_auth
  <2>2. parse_upstream_client(e) = b \o c /\ parse_redirect_policy(e) = f \o d
    BY Zenon DEF parse_upstream_client, parse_redirect_policy
  <2>3. Errors(a) /\ Errors(c) /\ Errors(d)
    BY OneError, Zenon DEF Fails, Conflict, Invalid
  <2>4. Errors(b) /\ Errors(f)
    BY VariableParsers
  <2> HIDE DEF a, b, c, d, f
  <2>5. Errors(parse_upstream_client(e)) /\ Errors(parse_redirect_policy(e))
    BY <2>2, <2>3, <2>4, InSequence
  <2>6. /\ Errors(parse_auth(e, transport))
        /\ parse_auth(e, transport) = <<>> => parse_oauth_resource(e, transport) = <<>>
    BY <2>1, <2>3, <2>5, ResourceAccepted, InSequence
  <2> QED BY <1>4, <2>6, ResourceAccepted DEF AuthFacts, AuthModes, BearerModes
<1>5. CASE Mode(e) \notin AuthModes
  <2>1. parse_auth(e, transport) = Invalid("REDMINE_AUTH_MODE", TRUE)
    BY <1>5 DEF parse_auth, AuthModes
  <2>2. Invalid("REDMINE_AUTH_MODE", TRUE) = <<[kind |-> "Invalid", var |-> "REDMINE_AUTH_MODE"]>>
    BY DEF Invalid, Fails
  <2> QED BY <2>1, <2>2, OneError
<1> QED BY <1>1, <1>2, <1>3, <1>4, <1>5 DEF AuthModes

\* What from_map lets pass, for every environment.
LEMMA ConfigAccepted ==
    ASSUME NEW e, IsEnvironment(e), NEW transport, from_map(e, transport) = <<>>
    PROVE  /\ AuthFacts(e, transport)
           /\ transport = "http" => HttpFacts(e)
           /\ ~SharedKeyOnNetwork(e, transport)
           /\ AttachmentConfig(e).store_max >= AttachmentConfig(e).max_download
           /\ AttachmentConfig(e).max_download >= 1
<1> DEFINE a == Invalid("REDMINE_URL", optional(e, "REDMINE_URL") /\ e["REDMINE_URL"].userinfo)
           b == Invalid("REDMINE_VERSION", ValueOr(e, "REDMINE_VERSION", "7.0.3") = "bad")
           c == Fails("Missing", "REDMINE_MCP_ALLOW_UNAUTHENTICATED_NETWORK",
                      SharedKeyOnNetwork(e, transport))
           http == IF transport = "http" THEN parse_http(e) ELSE <<>>
<1>1. /\ Errors(a) /\ Errors(b) /\ Errors(c) /\ (c = <<>> => ~SharedKeyOnNetwork(e, transport))
  BY OneError, Zenon DEF Invalid, Fails
<1>2. Errors(http) /\ (http = <<>> /\ transport = "http" => HttpFacts(e))
  BY OneError, HttpAccepted
<1>3. parse_redmine(e) = required(e, "REDMINE_URL") \o parse_url(e, "REDMINE_URL") \o a
                         \o optional_bool(e, "REDMINE_SSL_VERIFY") \o b
  BY Zenon DEF parse_redmine
<1>4. Errors(parse_plugins(e))
  BY VariableParsers, InSequence, SMTT(30) DEF parse_plugins
<1>5. parse_custom_fields(e) = optional_bool(e, "REDMINE_AUTOFILL_REQUIRED_CUSTOM_FIELDS")
                               \o parse_custom_field_defaults(e)
  BY DEF parse_custom_fields
<1>6. /\ Errors(parse_schema_dialect(e)) /\ Errors(parse_log_format(e))
      /\ Errors(parse_custom_field_defaults(e))
  BY VariableParsers DEF parse_schema_dialect, parse_log_format, parse_custom_field_defaults
<1> DEFINE u == parse_redmine(e) \o optional_bool(e, "REDMINE_MCP_READ_ONLY") \o parse_plugins(e)
                \o parse_auth(e, transport)
           v == u \o http \o c \o parse_attachments(e)
<1>7. from_map(e, transport) =
        v \o positive(e, "REDMINE_MCP_MAX_RESPONSE_ITEMS")
        \o positive(e, "REDMINE_MCP_MAX_RESPONSE_BYTES") \o parse_schema_dialect(e)
        \o parse_custom_fields(e) \o parse_log_format(e)
  BY Zenon DEF from_map
<1> HIDE DEF a, b, c, http
<1> DEFINE w == required(e, "REDMINE_URL") \o parse_url(e, "REDMINE_URL") \o a
<1>w. Errors(w)
  BY <1>1, VariableParsers, InSequence
<1>r. parse_redmine(e) = w \o optional_bool(e, "REDMINE_SSL_VERIFY") \o b
  BY <1>3
<1> HIDE DEF w
<1>8. Errors(parse_redmine(e))
  BY <1>1, <1>r, <1>w, VariableParsers, InSequence
<1>c. Errors(parse_custom_fields(e))
  BY <1>5, <1>6, VariableParsers, InSequence
<1>u. Errors(u) /\ (u = <<>> => parse_auth(e, transport) = <<>>)
  BY <1>4, <1>8, VariableParsers, InSequence, AuthAccepted
<1> HIDE DEF u
<1>v. Errors(v) /\ (v = <<>> => u = <<>> /\ http = <<>> /\ c = <<>> /\ parse_attachments(e) = <<>>)
  BY <1>1, <1>2, <1>u, InSequence, AttachmentsAccepted
<1> HIDE DEF v
<1>9. v = <<>>
  BY <1>6, <1>7, <1>c, <1>v, VariableParsers, InSequence
<1> QED BY <1>1, <1>2, <1>9, <1>u, <1>v, AuthAccepted, AttachmentsAccepted
------------------------------------------------------------------------------
(* The inductive invariant *)

\* The phases before anything is served, while it is, and after.
Live == {"serving", "draining", "stopping"}
Over == {"exited"}
Early == {"down", "refused", "printed", "starting"}

\* A configuration is what from_map made of the environment, without an error.
Resolved(e, cfg) ==
    /\ IsEnvironment(e)
    /\ cfg.transport \in {"stdio", "http"}
    /\ from_map(e, cfg.transport) = <<>>
    /\ cfg = ConfigOf(e, cfg.transport)

LifeInv ==
    /\ phase \in Early \cup Live \cup Over
    /\ phase \in {"down", "refused"} \/ Resolved(vars, config)
    /\ sweeper \in {"none", "waiting", "sweeping"}

\* What may be left of the layers, and of those of the MCP route whose bearer layer
\* a request has passed or that has none.
PastBearer == {<<"credential">>, <<"host", "credential">>, <<"standard", "host", "credential">>}
LeftOver ==
    {<<>>, <<"strict">>, <<"host">>, <<"standard", "host">>,
     <<"bearer", "host", "credential">>, <<"standard", "bearer", "host", "credential">>}
    \cup PastBearer

RequestRecord ==
    [at : {"idle", "layers", "handler", "done", "cut"}, route : Routes \cup {"none"},
     host : Hosts \cup {At("none", 0)}, credential : Credentials, left : LeftOver,
     acts : SUBSET {"introspect", "as_server", "as_caller"},
     answer : {"none", "200", "400", "401", "403", "404", "429", "503", "refused"}]

\* A request past the bearer layer was verified, whatever layers are left.
Verified == req.credential = "good" /\ "introspect" \in req.acts
RequestInv ==
    /\ req \in RequestRecord
    /\ phase \in Early => req = IdleRequest
    /\ req.at \in {"layers", "handler"} => phase \in Live
    /\ req.left \in PastBearer /\ HasVerifier(config) => Verified
    /\ "as_server" \in req.acts => config.mode = "legacy"
    /\ "as_caller" \in req.acts =>
         /\ config.mode # "legacy"
         /\ req.credential \in {"good", "bad"}
         /\ HasVerifier(config) => Verified

CheckRecord ==
    [at : {"idle", "queued", "probing", "done", "cut"}, age : Nat, probe : Nat,
     overtaken : BOOLEAN, answer : {"none", "up", "down", "not_probed", "504"}]

\* The queue is what waits for the lock, once each.
QueueInv ==
    /\ check \in [Checks -> CheckRecord]
    /\ queue \in Seq(Checks)
    /\ cache \in [result : {"none", "up", "down", "not_probed"}, age : Nat]
    /\ \A i, j \in DOMAIN queue : queue[i] = queue[j] => i = j
    /\ \A c \in Checks : check[c].at = "queued" <=> \E i \in DOMAIN queue : queue[i] = c

\* Checks wait while an HTTP server lives, in a queue only where there is a cache,
\* and then one of them probes at a time.
LockInv ==
    /\ \A c \in Checks : Waiting(c) => phase \in Live /\ config.transport = "http"
    /\ \A c \in Checks : check[c].at = "queued" => ttl > 0
    /\ \A c, d \in Checks :
         check[c].at = "probing" /\ check[d].at = "probing" /\ c # d => ~(ttl > 0)

\* The ticks that fit into a timeout.
ProbeTicks == PROBE_TIMEOUT \div TICK
DrainTicks == HTTP_DRAIN_TIMEOUT \div TICK

\* Nobody waits longer than the probe ahead of him has taken, unless the one that
\* probed was dropped; and when a probe ends, those behind it find its result.
AgeInv ==
    \A c \in Checks :
        /\ check[c].at = "probing" => check[c].probe <= ProbeTicks
        /\ check[c].at = "queued" => check[c].probe = 0
        /\ check[c].at = "probing" /\ ~check[c].overtaken => check[c].age = check[c].probe
        /\ check[c].at = "queued" /\ ~check[c].overtaken =>
             /\ check[c].age <= ProbeTicks
             /\ \A p \in Checks : check[p].at = "probing" => check[c].age <= check[p].probe
             /\ LockFree => check[c].age = 0 \/ CacheValid(ttl)
        /\ check[c].answer = "504" => check[c].overtaken

HealthInv == QueueInv /\ LockInv /\ AgeInv

ShutdownInv ==
    /\ since \in Nat /\ stopping \in Nat
    /\ phase \in Early \cup {"serving"} => since = 0 /\ stopping = 0
    /\ phase = "draining" => since <= DrainTicks /\ stopping = 0
    /\ phase = "stopping" => stopping <= DrainTicks /\ since <= DrainTicks + stopping
    /\ since <= DrainTicks + DrainTicks
    /\ config.transport = "http" /\ phase = "stopping" /\ InFlight => since >= DrainTicks
    /\ config.transport = "http" /\ (req.at = "cut" \/ \E c \in Checks : check[c].at = "cut")
         => since >= DrainTicks
    /\ phase \in Early => \A c \in Checks : check[c].at = "idle"

------------------------------------------------------------------------------
(* The life of the process *)

\* What --print-config changes is still an environment.
LEMMA EnvironmentsMerge ==
    /\ \A e, f : IsEnvironment(e) /\ IsEnvironment(f) => IsEnvironment(With(e, f))
    /\ \A e, S : IsEnvironment(e) => IsEnvironment(Without(e, S))
<1>1. ASSUME NEW e, NEW f, IsEnvironment(e), IsEnvironment(f)
      PROVE  IsEnvironment(With(e, f))
  <2> SUFFICES ASSUME NEW v \in Numbers \cap DOMAIN With(e, f) PROVE With(e, f)[v] \in Int
    BY DEF IsEnvironment
  <2>1. v \in DOMAIN e \cup DOMAIN f
        /\ With(e, f)[v] = IF v \in DOMAIN e THEN e[v] ELSE f[v]
    BY DEF With
  <2> QED BY <1>1, <2>1 DEF IsEnvironment
<1>2. ASSUME NEW e, NEW S, IsEnvironment(e)
      PROVE  IsEnvironment(Without(e, S))
  BY <1>2 DEF IsEnvironment, Without
<1> QED BY <1>1, <1>2

\* A step changes the environment or the configuration only as it leaves the state
\* in which nothing runs, or enters it.
Resolution ==
    /\ phase = "down"
    /\ \E e, transport, next :
         /\ IsEnvironment(e) /\ transport \in {"stdio", "http"} /\ next \in {"printed", "starting"}
         /\ Resolve(e, transport, next)

LEMMA Resolutions == (PrintConfig \/ Launch) => Resolution
<1>1. ASSUME PrintConfig PROVE Resolution
  <2>1. PICK d \in Deployments, transport \in {"stdio", "http"}, s \in Settings :
          \/ \E t \in Settings : Resolve(With(t, With(s, d.vars)), transport, "printed")
          \/ \E v \in DOMAIN d.vars : Resolve(With(s, Without(d.vars, {v})), transport, "printed")
    BY <1>1 DEF PrintConfig
  <2>2. phase = "down" /\ IsEnvironment(d.vars) /\ IsEnvironment(s)
    BY <1>1, ServerAssumption DEF PrintConfig
  <2>3. ASSUME NEW e, IsEnvironment(e), Resolve(e, transport, "printed") PROVE Resolution
    BY <2>2, <2>3 DEF Resolution
  <2>4. CASE \E t \in Settings : Resolve(With(t, With(s, d.vars)), transport, "printed")
    <3>1. PICK t \in Settings : Resolve(With(t, With(s, d.vars)), transport, "printed")
      BY <2>4
    <3>2. IsEnvironment(With(t, With(s, d.vars)))
      BY <2>2, ServerAssumption, EnvironmentsMerge
    <3> QED BY <2>3, <3>1, <3>2
  <2>5. CASE \E v \in DOMAIN d.vars : Resolve(With(s, Without(d.vars, {v})), transport, "printed")
    <3>1. PICK v \in DOMAIN d.vars : Resolve(With(s, Without(d.vars, {v})), transport, "printed")
      BY <2>5
    <3>2. IsEnvironment(With(s, Without(d.vars, {v})))
      BY <2>2, EnvironmentsMerge
    <3> QED BY <2>3, <3>1, <3>2
  <2> QED BY <2>1, <2>4, <2>5
<1>2. ASSUME Launch PROVE Resolution
  <2>1. PICK d \in Deployments : Resolve(d.vars, d.transport, "starting")
    BY <1>2 DEF Launch
  <2>2. IsEnvironment(d.vars) /\ d.transport \in {"stdio", "http"}
    BY ServerAssumption
  <2> QED BY <1>2, <2>1, <2>2 DEF Launch, Resolution
<1> QED BY <1>1, <1>2

LEMMA ResolutionResolves ==
    ASSUME Resolution
    PROVE  /\ phase = "down" /\ phase' \in {"printed", "starting", "refused"}
           /\ phase' = "refused" \/ Resolved(vars, config)'
           /\ UNCHANGED <<req, sweeper, since, stopping, healthVars>>
<1>1. PICK e, transport, next :
        /\ IsEnvironment(e) /\ transport \in {"stdio", "http"} /\ next \in {"printed", "starting"}
        /\ Resolve(e, transport, next)
  BY DEF Resolution
<1>2. ConfigOf(e, transport).transport = transport
  BY DEF ConfigOf
<1>3. CASE from_map(e, transport) = <<>>
  <2>1. vars' = e /\ config' = ConfigOf(e, transport) /\ phase' = next
    BY <1>1, <1>3 DEF Resolve
  <2>2. config'.transport = transport
    BY <1>2, <2>1
  <2>3. Resolved(vars, config)'
    BY <1>1, <1>3, <2>1, <2>2 DEF Resolved
  <2> QED BY <1>1, <2>1, <2>3 DEF Resolve, Resolution
<1>4. CASE from_map(e, transport) # <<>>
  BY <1>1, <1>4 DEF Resolve, Resolution
<1> QED BY <1>3, <1>4

\* Everything else leaves the configuration alone.
Serves ==
    \/ Start
    \/ \E route \in Routes, host \in Hosts, credential \in Credentials :
         Arrive(route, host, credential)
    \/ RateLimitLayer \/ BearerLayer \/ HostLayer \/ CredentialLayer \/ ReachHandler
    \/ HandlerEnds \/ CallerGone
    \/ \E c \in Checks : Readyz(c) \/ Grant(c) \/ Probe(c) \/ Expire(c) \/ Leave(c)
    \/ SweepStarts \/ SweepEnds
    \/ Signal \/ StdinCloses \/ DrainEnds \/ Exit
    \/ Tick

LEMMA ServesKeeps ==
    ASSUME LifeInv, Serves
    PROVE  /\ UNCHANGED <<vars, config>>
           /\ \/ phase' = phase
              \/ phase = "starting" /\ phase' \in {"serving", "stopping", "exited"}
              \/ phase = "serving" /\ phase' = "draining" /\ config.transport = "http"
              \/ phase = "serving" /\ phase' \in {"exited", "stopping"} /\ config.transport # "http"
              \/ phase = "draining" /\ phase' = "stopping"
              \/ phase = "stopping" /\ phase' = "exited"
           /\ sweeper' \in {"none", "waiting", "sweeping"}
<1> USE DEF LifeInv
<1>1. CASE Start
  BY <1>1 DEF Start
<1>2. ASSUME NEW route \in Routes, NEW host \in Hosts, NEW credential \in Credentials,
             Arrive(route, host, credential)
      PROVE  UNCHANGED <<lifeVars, sweeper>>
  BY <1>2, Zenon DEF Arrive, RequestStep
<1>3. CASE \/ RateLimitLayer \/ BearerLayer \/ HostLayer \/ CredentialLayer \/ ReachHandler
           \/ HandlerEnds \/ CallerGone
  <2>1. UNCHANGED <<lifeVars, sweeper>>
    BY <1>3, Zenon DEF RateLimitLayer, BearerLayer, HostLayer, CredentialLayer, ReachHandler,
                HandlerEnds, CallerGone, RequestStep
  <2> QED BY <2>1 DEF lifeVars
<1>4. ASSUME NEW c \in Checks, Readyz(c) \/ Grant(c) \/ Probe(c) \/ Expire(c) \/ Leave(c)
      PROVE  UNCHANGED <<lifeVars, sweeper>>
  BY <1>4, Zenon DEF Readyz, Grant, Probe, Expire, Leave, HealthStep
<1>5. CASE SweepStarts \/ SweepEnds
  BY <1>5 DEF SweepStarts, SweepEnds, lifeVars
<1>6. CASE Signal
  BY <1>6 DEF Signal
<1>7. CASE StdinCloses
  BY <1>7 DEF StdinCloses
<1>8. CASE DrainEnds
  BY <1>8 DEF DrainEnds
<1>9. CASE Exit
  BY <1>9 DEF Exit
<1>10. CASE Tick
  BY <1>10 DEF Tick
<1> QED BY <1>1, <1>2, <1>3, <1>4, <1>5, <1>6, <1>7, <1>8, <1>9, <1>10 DEF Serves, lifeVars

LEMMA NextCases == Next <=> Serves \/ PrintConfig \/ Launch \/ Restart
  BY Zenon DEF Next, Serves

LEMMA LifeStep == LifeInv /\ [Next]_serverVars => LifeInv'
<1> SUFFICES ASSUME LifeInv, [Next]_serverVars PROVE LifeInv'
  OBVIOUS
<1>1. CASE Serves
  <2>1. Resolved(vars, config)' <=> Resolved(vars, config)
    BY <1>1, ServesKeeps DEF Resolved
  <2> QED BY <1>1, <2>1, ServesKeeps DEF LifeInv, Early, Live, Over
<1>2. CASE PrintConfig \/ Launch
  BY <1>2, Resolutions, ResolutionResolves DEF LifeInv, Early
<1>3. CASE Restart
  BY <1>3 DEF Restart, LifeInv, Early
<1>4. CASE UNCHANGED serverVars
  <2>1. UNCHANGED <<phase, vars, config, sweeper>>
    BY <1>4 DEF serverVars, lifeVars
  <2>2. Resolved(vars, config)' <=> Resolved(vars, config)
    BY <2>1 DEF Resolved
  <2> QED BY <2>1, <2>2 DEF LifeInv
<1> QED BY <1>1, <1>2, <1>3, <1>4, NextCases

------------------------------------------------------------------------------
(* What a running server is configured with *)

LEMMA ResolvedFacts ==
    ASSUME NEW e, NEW cfg, Resolved(e, cfg)
    PROVE  /\ cfg.transport \in {"stdio", "http"}
           /\ cfg.mode = Mode(e) /\ cfg.mode \in AuthModes
           /\ cfg.mode # "legacy" => cfg.transport = "http"
           /\ cfg.attachments = AttachmentConfig(e)
           /\ cfg.attachments.store_max >= cfg.attachments.max_download
           /\ cfg.attachments.max_download >= 1
           /\ cfg.mode \in BearerModes =>
                /\ cfg.oauth = OAuthConfig(e)
                /\ cfg.oauth.token_cache_ttl \in 0..MAX_OAUTH_TOKEN_CACHE_TTL_SECONDS
           /\ cfg.transport = "http" => cfg.http = HttpConfig(e) /\ HttpFacts(e)
           /\ ~SharedKeyOnNetwork(e, cfg.transport)
<1> DEFINE t == cfg.transport
<1>1. /\ AuthFacts(e, t) /\ (t = "http" => HttpFacts(e)) /\ ~SharedKeyOnNetwork(e, t)
      /\ AttachmentConfig(e).store_max >= AttachmentConfig(e).max_download
      /\ AttachmentConfig(e).max_download >= 1
  BY ConfigAccepted DEF Resolved
<1>2. /\ ConfigOf(e, t).mode = Mode(e) /\ ConfigOf(e, t).attachments = AttachmentConfig(e)
      /\ ConfigOf(e, t).http = IF t = "http" THEN HttpConfig(e) ELSE NoHttp
      /\ ConfigOf(e, t).oauth = IF Mode(e) \in BearerModes THEN OAuthConfig(e) ELSE NoOAuth
  BY DEF ConfigOf
<1>3. cfg = ConfigOf(e, t) /\ t \in {"stdio", "http"}
  BY DEF Resolved
<1>4. cfg.mode = Mode(e) /\ cfg.attachments = AttachmentConfig(e)
      /\ cfg.http = (IF t = "http" THEN HttpConfig(e) ELSE NoHttp)
      /\ cfg.oauth = IF Mode(e) \in BearerModes THEN OAuthConfig(e) ELSE NoOAuth
  BY <1>2, <1>3, Zenon
<1> HIDE DEF t
<1>5. t = cfg.transport
  BY DEF t
<1> QED BY <1>1, <1>3, <1>4, <1>5 DEF AuthFacts

LEMMA AcceptedIsResolved ==
    ASSUME LifeInv, Accepted
    PROVE  Resolved(vars, config)
  BY DEF LifeInv, Accepted

\* The link of an accepted configuration is one its allowlist has.
LEMMA LinksHold == LifeInv => LinksAreServed
<1> SUFFICES ASSUME LifeInv, AcceptedHttp,
                    "REDMINE_MCP_ALLOWED_HOSTS" \notin DOMAIN vars,
                    "PUBLIC_HOST" \in DOMAIN vars \/ config.http.bind.host = "127.0.0.1",
                    "PUBLIC_HOST" \in DOMAIN vars =>
                        PublicPort(vars) # DefaultPort(PublicScheme(vars))
             PROVE  validate_files_host(config.http.public_base.at,
                                        config.http.allowed_hosts) = "pass"
  BY DEF LinksAreServed
<1>1. config.http = HttpConfig(vars) /\ HttpFacts(vars)
  BY AcceptedIsResolved, ResolvedFacts DEF AcceptedHttp
<1>2. /\ config.http.public_base = PublicBase(vars) /\ config.http.bind = Bind(vars)
      /\ config.http.allowed_hosts = AllowedHosts(vars)
  BY <1>1 DEF HttpConfig
<1>3. ASSUME NEW a, NEW raw \in AllowedHosts(vars), ParsesAsAuthority(a), ParsesAsAuthority(raw),
             raw.host = a.host, raw.port = 0 \/ raw.port = a.port
      PROVE  validate_files_host(a, AllowedHosts(vars)) = "pass"
  BY <1>3 DEF validate_files_host, host_is_allowed, parse_authority, At
<1>4. CASE "PUBLIC_HOST" \in DOMAIN vars
  <2> DEFINE raw == At(vars["PUBLIC_HOST"].host, PublicPort(vars))
  <2>1. raw \in AllowedHosts(vars)
    BY <1>4 DEF AllowedHosts, optional
  <2>2. PublicBase(vars).at = raw
    BY <1>4 DEF PublicBase, optional, Url
  <2>3. ParsesAsAuthority(vars["PUBLIC_HOST"])
    BY <1>1, <1>4 DEF HttpFacts
  <2>4. ParsesAsAuthority(raw)
    BY <2>3 DEF ParsesAsAuthority, At
  <2> HIDE DEF raw
  <2> QED BY <1>2, <1>3, <2>1, <2>2, <2>4
<1>5. CASE "PUBLIC_HOST" \notin DOMAIN vars
  <2>1. Bind(vars).host = "127.0.0.1"
    BY <1>2, <1>5
  <2>2. PublicBase(vars).at.host = "127.0.0.1"
    BY <1>5, <2>1 DEF PublicBase, optional, public_base_from_loopback_bind, Url, At
  <2>3. At("127.0.0.1", 0) \in AllowedHosts(vars)
    BY <1>5 DEF AllowedHosts, optional, LOOPBACK_HOSTS
  <2>4. /\ ParsesAsAuthority(PublicBase(vars).at) /\ ParsesAsAuthority(At("127.0.0.1", 0))
        /\ At("127.0.0.1", 0).host = PublicBase(vars).at.host /\ At("127.0.0.1", 0).port = 0
    BY <2>2 DEF ParsesAsAuthority, At
  <2> QED BY <1>2, <1>3, <2>3, <2>4
<1> QED BY <1>4, <1>5

\* What the discovery documents name is mounted.
LEMMA DocumentsHold == LifeInv => DocumentsAreServed
<1> SUFFICES ASSUME LifeInv, AcceptedHttp, config.mode \in BearerModes
             PROVE  LET document == authorization_server(config) IN
                    /\ well_known_routes(config) \subseteq Mounted(config)
                    /\ document.host = "self" =>
                         document.issuer = "self" /\ document.endpoints \subseteq Mounted(config)
                    /\ protected_resource(config).authorization_servers = {document.issuer}
  BY DEF DocumentsAreServed
<1>1. config.oauth = OAuthConfig(vars) /\ config.mode = Mode(vars)
  BY AcceptedIsResolved, ResolvedFacts DEF AcceptedHttp
<1>2. config.mode = "oauth-proxy" => config.oauth.discovery_as = "self"
  BY <1>1 DEF OAuthConfig, DiscoveryAs
<1>3. well_known_routes(config) \subseteq Mounted(config)
  BY DEF Mounted
<1>4. config.mode = "oauth-proxy" =>
        authorization_server(config).endpoints \subseteq Mounted(config)
  BY DEF Mounted, authorization_server, FlowRoutes
<1>5. authorization_server(config).issuer = issuer(config)
      /\ authorization_server(config).host =
           IF config.mode = "oauth-proxy" THEN "self" ELSE "redmine"
  BY DEF authorization_server
<1>6. protected_resource(config).authorization_servers = {issuer(config)}
  BY DEF protected_resource
<1> QED BY <1>2, <1>3, <1>4, <1>5, <1>6 DEF issuer

\* The table of scopes and the catalogue that is advertised name the same ones: a tool
\* that only reads needs read scopes, the others no more than the write scopes.
LEMMA FixedInCatalogue ==
    \A t \in FixedTools :
        /\ FixedScopes[t] \subseteq READ_SCOPES \cup WRITE_SCOPES
        /\ t \notin WriteTools => FixedScopes[t] \subseteq READ_SCOPES
<1> SUFFICES ASSUME NEW t \in FixedTools
             PROVE  /\ FixedScopes[t] \subseteq READ_SCOPES \cup WRITE_SCOPES
                    /\ t \notin WriteTools => FixedScopes[t] \subseteq READ_SCOPES
  OBVIOUS
<1> DEFINE reads == {{}, {"view_project"}, {"view_issues"}, {"view_files"},
                     {"view_project", "view_issues"}, {"view_members"},
                     {"search_project", "view_issues"}, {"view_issues", "view_private_notes"},
                     {"view_time_entries"}, {"search_project"}}
           writes == {{}, {"manage_files"}, {"manage_versions"}, {"manage_members"}, {"log_time"},
                      {"add_issues"}, {"edit_issues"}, {"delete_issues"},
                      {"view_issues", "add_issues"}}
<1>1. FixedScopes[t] \in reads \/ (t \in WriteTools /\ FixedScopes[t] \in writes)
  BY SMTT(60) DEF FixedScopes, FixedTools, UnscopedTools, WriteTools
<1>2. \A s \in reads : s \subseteq READ_SCOPES
  BY DEF READ_SCOPES
<1>3. \A s \in writes : s \subseteq READ_SCOPES \cup WRITE_SCOPES
  BY DEF READ_SCOPES, WRITE_SCOPES
<1> HIDE DEF reads, writes
<1> QED BY <1>1, <1>2, <1>3

LEMMA ActionsInCatalogue ==
    \A t \in ActionTools : \A a \in DOMAIN ActionScopes[t] :
        /\ ActionScopes[t][a] \subseteq READ_SCOPES \cup WRITE_SCOPES
        /\ a \in ReadActions => ActionScopes[t][a] \subseteq READ_SCOPES
        /\ t \in WriteTools => a \notin ReadActions
<1> SUFFICES ASSUME NEW t \in ActionTools, NEW a \in DOMAIN ActionScopes[t]
             PROVE  /\ ActionScopes[t][a] \subseteq READ_SCOPES \cup WRITE_SCOPES
                    /\ a \in ReadActions => ActionScopes[t][a] \subseteq READ_SCOPES
                    /\ t \in WriteTools => a \notin ReadActions
  OBVIOUS
<1>1. CASE t = "manage_time_entry"
  BY <1>1, SMTT(30) DEF ActionScopes, ReadActions, READ_SCOPES, WRITE_SCOPES
<1>2. CASE t = "manage_issue_relation"
  BY <1>2, SMTT(30) DEF ActionScopes, ReadActions, READ_SCOPES, WRITE_SCOPES, WriteTools
<1>3. CASE t = "manage_issue_watcher"
  BY <1>3, SMTT(30) DEF ActionScopes, ReadActions, READ_SCOPES, WRITE_SCOPES
<1>4. CASE t = "manage_issue_note"
  BY <1>4, SMTT(30) DEF ActionScopes, ReadActions, READ_SCOPES, WRITE_SCOPES
<1>5. CASE t = "manage_issue_category"
  BY <1>5, SMTT(30) DEF ActionScopes, ReadActions, READ_SCOPES, WRITE_SCOPES, WriteTools
<1>6. CASE t = "manage_redmine_wiki_page"
  BY <1>6, SMTT(30) DEF ActionScopes, ReadActions, READ_SCOPES, WRITE_SCOPES, WriteTools
<1>7. CASE t = "manage_document"
  BY <1>7, SMTT(30) DEF ActionScopes, ReadActions, READ_SCOPES, WRITE_SCOPES, WriteTools
<1> QED BY <1>1, <1>2, <1>3, <1>4, <1>5, <1>6, <1>7 DEF ActionTools

\* What the gate asks of a call, by the kind of its tool.
LEMMA RequiredByKind ==
    ASSUME NEW c
    PROVE  /\ c.tool = "update_redmine_issue" =>
                required_for_call(c) = update_redmine_issue_requirement(c.keys)
           /\ c.tool = "create_redmine_issue" =>
                required_for_call(c) = create_redmine_issue_requirement(c.keys)
           /\ c.tool \in ActionTools /\ c.action \in DOMAIN ActionScopes[c.tool] =>
                required_for_call(c) = Requirement(ActionScopes[c.tool][c.action], {})
           /\ c.tool \in FixedTools \ {"create_redmine_issue", "update_redmine_issue"} =>
                required_for_call(c) = Requirement(FixedScopes[c.tool], {})
<1>1. DOMAIN ActionScopes = ActionTools
  BY DEF ActionScopes
<1>2. ActionTools \cap FixedTools = {}
  BY DEF ActionTools, FixedTools, UnscopedTools
<1>3. {"update_redmine_issue", "create_redmine_issue"} \subseteq FixedTools
  BY DEF FixedTools
<1> QED BY <1>1, <1>2, <1>3 DEF required_for_call

\* A requirement that is met.
LEMMA Met ==
    ASSUME NEW all, NEW any, NEW held, all \subseteq held, any # {} => any \cap held # {}
    PROVE  Satisfies(Requirement(all, any), held)
  BY DEF Satisfies, Requirement

LEMMA AdvertisedHold == LifeInv => AdvertisedSuffices
<1> SUFFICES ASSUME LifeInv, AcceptedHttp, config.mode \in BearerModes,
                    "REDMINE_MCP_SCOPES" \notin DOMAIN vars,
                    NEW tool \in FixedTools \cup ActionTools, Routed(tool, config),
                    NEW c \in Calls(tool),
                    config.read_only /\ tool \in ActionTools => c.action \in ReadActions
             PROVE  Satisfies(required_for_call(c), config.oauth.scopes)
  BY DEF AdvertisedSuffices, FixedScopes, ActionScopes
<1> DEFINE full == config.oauth.scopes
<1>1. full = advertised(config.read_only, config.plugins)
  <2>1. config.oauth = OAuthConfig(vars) /\ config = ConfigOf(vars, config.transport)
    BY AcceptedIsResolved, ResolvedFacts DEF AcceptedHttp, Resolved
  <2>2. config.read_only = ReadOnly(vars) /\ config.plugins = PluginFlags(vars)
    BY <2>1 DEF ConfigOf
  <2> QED BY <2>1, <2>2 DEF OAuthConfig, Scopes, FullScopes, optional
<1>2. /\ READ_SCOPES \subseteq full
      /\ ~config.read_only => WRITE_SCOPES \subseteq full
      /\ "agile" \in config.plugins => "view_agile_queries" \in full
      /\ "tags" \in config.plugins /\ ~config.read_only => TAG_LIST_SCOPES \subseteq full
  BY <1>1 DEF advertised, AGILE_READ_SCOPES, TAGS_WRITE_SCOPES, TAG_LIST_SCOPES
<1>3. config.read_only => tool \notin WriteTools
  BY DEF Routed
<1>4. PICK a \in IF tool \in ActionTools THEN DOMAIN ActionScopes[tool] ELSE {"none"},
           k \in {{}, {"notes"}, {"parent_issue_id"}} \cup
                 (IF "agile" \in config.plugins THEN {{"story_points"}} ELSE {}) \cup
                 (IF "tags" \in config.plugins THEN {{"tag_list"}} ELSE {}) :
        c = [tool |-> tool, action |-> a, keys |-> k]
  <2>1. DOMAIN ActionScopes = ActionTools
    BY DEF ActionScopes
  <2>2. c \in {[tool |-> tool, action |-> a, keys |-> k] :
               a \in IF tool \in ActionTools THEN DOMAIN ActionScopes[tool] ELSE {"none"},
               k \in {{}, {"notes"}, {"parent_issue_id"}} \cup
                     (IF "agile" \in config.plugins THEN {{"story_points"}} ELSE {}) \cup
                     (IF "tags" \in config.plugins THEN {{"tag_list"}} ELSE {})}
    BY <2>1 DEF Calls
  <2> QED BY <2>2
<1>5. c.tool = tool /\ c.action = a /\ c.keys = k
  BY <1>4
<1> SUFFICES Satisfies(required_for_call(c), full)
  OBVIOUS
<1> HIDE DEF full
<1>6. CASE tool \in {"create_redmine_issue", "update_redmine_issue"}
  <2>1. ~config.read_only
    BY <1>3, <1>6 DEF WriteTools
  <2>2. {"add_issues", "edit_issues", "manage_subtasks", "add_issue_notes"} \subseteq full
    BY <1>2, <2>1 DEF WRITE_SCOPES
  <2>3. /\ "story_points" \in k => "view_agile_queries" \in full
        /\ "tag_list" \in k => TAG_LIST_SCOPES \cap full # {}
    BY <1>2, <1>4, <2>1 DEF TAG_LIST_SCOPES
  <2>4. CASE tool = "create_redmine_issue"
    <3> DEFINE any == IF "tag_list" \in k THEN TAG_LIST_SCOPES ELSE {}
    <3>1. required_for_call(c) = Requirement({"add_issues"}, any)
      BY <1>5, <2>4, RequiredByKind DEF create_redmine_issue_requirement
    <3>2. any # {} => any \cap full # {}
      BY <2>3
    <3> HIDE DEF any
    <3> QED BY <3>1, <3>2, <2>2, Met
  <2>5. CASE tool = "update_redmine_issue"
    <3> DEFINE any == IF "tag_list" \in k THEN TAG_LIST_SCOPES ELSE {}
               all == {"edit_issues"}
                      \cup (IF k \cap {"parent_issue_id", "clear_parent"} # {}
                            THEN {"manage_subtasks"} ELSE {})
                      \cup (IF "story_points" \in k THEN {"view_agile_queries"} ELSE {})
    <3>1. \/ required_for_call(c) = Requirement({"add_issue_notes"}, {})
          \/ required_for_call(c) = Requirement(all, any)
      BY <1>5, <2>5, RequiredByKind, Zenon DEF update_redmine_issue_requirement
    <3>2. (any # {} => any \cap full # {}) /\ all \subseteq full
      BY <2>2, <2>3
    <3> HIDE DEF any, all
    <3> QED BY <3>1, <3>2, <2>2, Met
  <2> QED BY <1>6, <2>4, <2>5
<1>7. CASE tool \in ActionTools
  <2>1. a \in DOMAIN ActionScopes[tool]
    BY <1>4, <1>7
  <2>2. required_for_call(c) = Requirement(ActionScopes[tool][a], {})
    BY <1>5, <1>7, <2>1, RequiredByKind
  <2>3. ActionScopes[tool][a] \subseteq full
    BY <1>2, <1>5, <1>7, <2>1, ActionsInCatalogue
  <2> QED BY <2>2, <2>3, Met
<1>8. CASE tool \in FixedTools \ {"create_redmine_issue", "update_redmine_issue"}
  <2>1. required_for_call(c) = Requirement(FixedScopes[tool], {})
    BY <1>5, <1>8, RequiredByKind
  <2>2. FixedScopes[tool] \subseteq full
    BY <1>2, <1>3, <1>8, FixedInCatalogue
  <2> QED BY <2>1, <2>2, Met
<1> QED BY <1>6, <1>7, <1>8

------------------------------------------------------------------------------
(* A request *)

LEMMA SameSequence ==
    ASSUME NEW S, NEW s \in Seq(S), NEW t \in Seq(S), Len(s) = Len(t),
           \A i \in 1..Len(s) : s[i] = t[i]
    PROVE  s = t
  OBVIOUS

\* Short sequences, put together.
LEMMA Joined ==
    ASSUME NEW S
    PROVE  /\ \A s \in Seq(S) : <<>> \o s = s /\ s \o <<>> = s
           /\ \A a, b \in S : <<a>> \o <<b>> = <<a, b>>
           /\ \A a, b, c \in S : <<a>> \o <<b, c>> = <<a, b, c>>
           /\ \A a, b, c, d \in S : <<a, b>> \o <<c, d>> = <<a, b, c, d>>
<1>1. \A s \in Seq(S) : <<>> \o s = s /\ s \o <<>> = s
  OBVIOUS
<1>2. ASSUME NEW a \in S, NEW b \in S PROVE <<a>> \o <<b>> = <<a, b>>
  <2> DEFINE u == <<a>> \o <<b>>
             w == <<a, b>>
  <2>1. /\ <<a>> \in Seq(S) /\ <<b>> \in Seq(S) /\ w \in Seq(S)
        /\ Len(<<a>>) = 1 /\ Len(<<b>>) = 1 /\ Len(w) = 2
    OBVIOUS
  <2>2. u \in Seq(S) /\ Len(u) = 2
    BY <2>1
  <2>3. u[1] = a /\ u[2] = b
    BY <2>1
  <2>4. w[1] = a /\ w[2] = b
    OBVIOUS
  <2> HIDE DEF u, w
  <2>5. \A i \in 1..2 : i = 1 \/ i = 2
    OBVIOUS
  <2>6. u = w
    BY <2>1, <2>2, <2>3, <2>4, <2>5, SameSequence
  <2> QED BY <2>6 DEF u, w
<1>3. ASSUME NEW a \in S, NEW b \in S, NEW c \in S PROVE <<a>> \o <<b, c>> = <<a, b, c>>
  <2> DEFINE u == <<a>> \o <<b, c>>
             w == <<a, b, c>>
  <2>1. /\ <<a>> \in Seq(S) /\ <<b, c>> \in Seq(S) /\ w \in Seq(S)
        /\ Len(<<a>>) = 1 /\ Len(<<b, c>>) = 2 /\ Len(w) = 3
    OBVIOUS
  <2>2. u \in Seq(S) /\ Len(u) = 3
    BY <2>1
  <2>3. u[1] = a /\ u[2] = b /\ u[3] = c
    BY <2>1
  <2>4. w[1] = a /\ w[2] = b /\ w[3] = c
    OBVIOUS
  <2> HIDE DEF u, w
  <2>5. \A i \in 1..3 : i = 1 \/ i = 2 \/ i = 3
    OBVIOUS
  <2>6. u = w
    BY <2>1, <2>2, <2>3, <2>4, <2>5, SameSequence
  <2> QED BY <2>6 DEF u, w
<1>4. ASSUME NEW a \in S, NEW b \in S, NEW c \in S, NEW d \in S
      PROVE  <<a, b>> \o <<c, d>> = <<a, b, c, d>>
  <2> DEFINE u == <<a, b>> \o <<c, d>>
             w == <<a, b, c, d>>
  <2>1. /\ <<a, b>> \in Seq(S) /\ <<c, d>> \in Seq(S) /\ w \in Seq(S)
        /\ Len(<<a, b>>) = 2 /\ Len(<<c, d>>) = 2 /\ Len(w) = 4
    OBVIOUS
  <2>2. u \in Seq(S) /\ Len(u) = 4
    BY <2>1
  <2>3. u[1] = a /\ u[2] = b
    BY <2>1
  <2>4. u[3] = c /\ u[4] = d
    BY <2>1
  <2>5. w[1] = a /\ w[2] = b /\ w[3] = c /\ w[4] = d
    OBVIOUS
  <2> HIDE DEF u, w
  <2>6. \A i \in 1..4 : i = 1 \/ i = 2 \/ i = 3 \/ i = 4
    OBVIOUS
  <2>7. u = w
    BY <2>1, <2>2, <2>3, <2>4, <2>5, <2>6, SameSequence
  <2> QED BY <2>7 DEF u, w
<1> QED BY <1>1, <1>2, <1>3, <1>4

\* A route's layers, and in a bearer mode none that ends at the tools without the
\* bearer layer.
LEMMA LayersFit ==
    ASSUME NEW cfg, NEW route
    PROVE  /\ Layers(cfg, route) \in LeftOver
           /\ HasVerifier(cfg) => Layers(cfg, route) \notin PastBearer
<1> DEFINE S == {"standard", "strict", "bearer", "host", "credential"}
<1>1. /\ "standard" \in S /\ "bearer" \in S /\ "host" \in S /\ "credential" \in S
      /\ <<"host", "credential">> \in Seq(S) /\ <<"host">> \in Seq(S) /\ <<"bearer">> \in Seq(S)
      /\ <<"standard">> \in Seq(S) /\ <<>> \in Seq(S)
  OBVIOUS
<1> HIDE DEF S
<1>2. /\ <<"standard">> \o <<"bearer">> = <<"standard", "bearer">>
      /\ <<"standard", "bearer">> \o <<"host", "credential">>
           = <<"standard", "bearer", "host", "credential">>
      /\ <<"standard">> \o <<"host", "credential">> = <<"standard", "host", "credential">>
      /\ <<"bearer">> \o <<"host", "credential">> = <<"bearer", "host", "credential">>
      /\ <<>> \o <<"host", "credential">> = <<"host", "credential">>
      /\ <<"standard">> \o <<"host">> = <<"standard", "host">>
      /\ <<>> \o <<"host">> = <<"host">> /\ <<>> \o <<"bearer">> = <<"bearer">>
      /\ <<"standard">> \o <<>> = <<"standard">> /\ <<>> \o <<>> = <<>>
  BY <1>1, Joined
<1>3. CASE route = "mcp"
  <2>1. Layers(cfg, route) = Limiter(cfg, "standard") \o Bearer(cfg) \o <<"host", "credential">>
    BY <1>3 DEF Layers, FlowRoutes
  <2>2. CASE HasVerifier(cfg)
    <3>1. Layers(cfg, route) \in {<<"bearer", "host", "credential">>,
                                  <<"standard", "bearer", "host", "credential">>}
      BY <1>2, <2>1, <2>2 DEF Limiter, Bearer
    <3> QED BY <3>1 DEF LeftOver, PastBearer
  <2>3. CASE ~HasVerifier(cfg)
    <3>1. Layers(cfg, route) \in {<<"host", "credential">>, <<"standard", "host", "credential">>}
      BY <1>2, <2>1, <2>3 DEF Limiter, Bearer
    <3> QED BY <2>3, <3>1 DEF LeftOver, PastBearer
  <2> QED BY <2>2, <2>3
<1>4. CASE route = "files"
  <2>1. Layers(cfg, route) \in {<<"host">>, <<"standard", "host">>}
    BY <1>2, <1>4 DEF Layers, Limiter, FlowRoutes
  <2> QED BY <2>1 DEF LeftOver, PastBearer
<1>5. CASE route \notin {"mcp", "files"}
  <2>1. Layers(cfg, route) \in {<<>>, <<"strict">>}
    BY <1>5 DEF Layers, Limiter
  <2> QED BY <2>1 DEF LeftOver, PastBearer
<1> QED BY <1>3, <1>4, <1>5

\* A layer passed: what is left stays within the layers, and the bearer layer is the
\* only way to those behind it.
LEMMA LayerPassed ==
    ASSUME NEW l \in LeftOver, l # <<>>
    PROVE  /\ Tail(l) \in LeftOver
           /\ Tail(l) \in PastBearer => l \in PastBearer \/ Head(l) = "bearer"
           /\ Head(l) = "credential" => l \in PastBearer
<1>1. /\ Tail(<<"strict">>) = <<>> /\ Tail(<<"host">>) = <<>> /\ Tail(<<"credential">>) = <<>>
      /\ Tail(<<"standard", "host">>) = <<"host">>
      /\ Tail(<<"host", "credential">>) = <<"credential">>
      /\ Tail(<<"bearer", "host", "credential">>) = <<"host", "credential">>
      /\ Tail(<<"standard", "host", "credential">>) = <<"host", "credential">>
      /\ Tail(<<"standard", "bearer", "host", "credential">>) = <<"bearer", "host", "credential">>
  OBVIOUS
<1>2. /\ Head(<<"strict">>) = "strict" /\ Head(<<"host">>) = "host"
      /\ Head(<<"standard", "host">>) = "standard"
      /\ Head(<<"bearer", "host", "credential">>) = "bearer"
      /\ Head(<<"standard", "bearer", "host", "credential">>) = "standard"
  OBVIOUS
<1>3. Tail(l) \in LeftOver
  BY <1>1 DEF LeftOver, PastBearer
<1>4. Tail(l) \in PastBearer => l \in PastBearer \/ Head(l) = "bearer"
  <2>1. <<>> \notin PastBearer /\ <<"host">> \notin PastBearer
        /\ <<"bearer", "host", "credential">> \notin PastBearer
    BY DEF PastBearer
  <2> QED BY <1>1, <1>2, <2>1 DEF LeftOver
<1>5. Head(l) = "credential" => l \in PastBearer
  BY <1>2 DEF LeftOver
<1> QED BY <1>3, <1>4, <1>5

\* What a step may make of a request: a new one, or the same one further on.
LEMMA RequestMoves ==
    ASSUME LifeInv, RequestInv, Serves
    PROVE  RequestInv'
<1> DEFINE Kept == \/ req' = req
                   \/ req.at \in {"layers", "handler"} /\ req' = [req EXCEPT !.at = "cut"]
<1>0. /\ UNCHANGED <<vars, config>> /\ (phase \notin Early => phase' \notin Early)
      /\ (HasVerifier(config)' <=> HasVerifier(config))
      /\ phase' \in Early => phase' = phase
      /\ phase \in Live => phase' \in Live \/ phase' = "exited"
  BY ServesKeeps DEF LifeInv, Early, Live, Over, HasVerifier
<1>r. req \in RequestRecord /\ IdleRequest \in RequestRecord
  <2>1. IdleRequest \in RequestRecord
    BY DEF IdleRequest, RequestRecord, LeftOver, Credentials
  <2> QED BY <2>1 DEF RequestInv
<1>a. ASSUME req.at \in {"layers", "handler"} PROVE phase \in Live /\ phase \notin Early
  BY <1>a DEF RequestInv, Live, Early
<1>b. ASSUME NEW code \in {"200", "400", "401", "403", "404", "429", "503", "refused"},
             phase' = phase, phase \notin Early, Reply(code)
      PROVE  RequestInv'
  <2>1. /\ req' \in RequestRecord /\ req'.at = "done" /\ req'.left = <<>>
        /\ req'.acts = req.acts /\ req'.credential = req.credential
    BY <1>b, <1>r DEF Reply, RequestRecord, LeftOver
  <2>2. req'.left \notin PastBearer
    BY <2>1 DEF PastBearer
  <2> QED BY <1>0, <1>b, <2>1, <2>2 DEF RequestInv, Verified
<1>c. ASSUME req.at = "layers", req.left # <<>>, Head(req.left) # "bearer", phase' = phase, Passes
      PROVE  RequestInv'
  <2>0. req.left \in LeftOver
    BY <1>r DEF RequestRecord
  <2>1. /\ Tail(req.left) \in LeftOver
        /\ Tail(req.left) \in PastBearer => req.left \in PastBearer
    BY <1>c, <2>0, LayerPassed
  <2>2. /\ req' \in RequestRecord /\ req'.at = "layers" /\ req'.left = Tail(req.left)
        /\ req'.acts = req.acts /\ req'.credential = req.credential
    BY <1>c, <1>r, <2>1 DEF Passes, RequestRecord
  <2> QED BY <1>0, <1>a, <1>c, <2>1, <2>2 DEF RequestInv, Verified
<1>d. ASSUME req' = IdleRequest
      PROVE  RequestInv'
  <2>1. /\ IdleRequest.acts = {} /\ IdleRequest.left = <<>> /\ IdleRequest.at = "idle"
    BY DEF IdleRequest
  <2>2. <<>> \notin PastBearer
    BY DEF PastBearer
  <2> QED BY <1>d, <1>r, <2>1, <2>2 DEF RequestInv
<1>e. ASSUME Kept, phase' # phase => req'.at \notin {"layers", "handler"} \/ phase' \in Live
      PROVE  RequestInv'
  <2>1. /\ req' \in RequestRecord /\ req'.left = req.left
        /\ req'.acts = req.acts /\ req'.credential = req.credential
        /\ req' = req \/ req'.at = "cut"
    BY <1>e, <1>r DEF RequestRecord
  <2>2. phase' \in Early => req' = req
    BY <1>0, <1>a, <1>e
  <2>3. req'.at \in {"layers", "handler"} => phase' \in Live
    BY <1>e, <2>1 DEF RequestInv
  <2> QED BY <1>0, <2>1, <2>2, <2>3 DEF RequestInv, Verified
<1>1. CASE Start
  <2>1. req' = req /\ phase = "starting"
    BY <1>1 DEF Start
  <2>2. req = IdleRequest
    BY <2>1 DEF RequestInv, Early
  <2> QED BY <1>d, <2>1, <2>2
<1>2. ASSUME NEW route \in Routes, NEW host \in Hosts, NEW credential \in Credentials,
             Arrive(route, host, credential)
      PROVE  RequestInv'
  <2> DEFINE arrived == [IdleRequest EXCEPT !.route = route, !.host = host,
                                            !.credential = credential]
             started(l) == [arrived EXCEPT !.at = "layers", !.left = l]
             missed == [arrived EXCEPT !.at = "done", !.answer = "404"]
  <2>0. phase = "serving" /\ phase' = "serving"
    BY <1>2, Zenon DEF Arrive, RequestStep, lifeVars
  <2>1. \/ config.transport = "stdio" /\ req' = started(<<"credential">>)
        \/ req' = missed
        \/ req' = started(Layers(config, route))
    BY <1>2, Zenon DEF Arrive
  <2>2. arrived \in RequestRecord /\ arrived.acts = {} /\ arrived.left = <<>>
    BY <1>r DEF IdleRequest, RequestRecord
  <2>3. missed \in RequestRecord /\ missed.acts = {} /\ missed.left = <<>>
    BY <2>2 DEF RequestRecord, LeftOver
  <2>4. ASSUME NEW l \in LeftOver
        PROVE  started(l) \in RequestRecord /\ started(l).acts = {} /\ started(l).left = l
    BY <2>2 DEF RequestRecord
  <2> HIDE DEF started, missed
  <2>5. config.transport = "stdio" => ~HasVerifier(config)
    <3>1. Resolved(vars, config)
      BY <2>0 DEF LifeInv
    <3> QED BY <3>1, ResolvedFacts DEF HasVerifier, BearerModes
  <2>6. <<>> \notin PastBearer /\ <<"credential">> \in LeftOver
    BY DEF PastBearer, LeftOver
  <2>7. /\ req' \in RequestRecord /\ req'.acts = {}
        /\ HasVerifier(config) => req'.left \notin PastBearer
    BY <2>1, <2>3, <2>4, <2>5, <2>6, LayersFit
  <2> QED BY <1>0, <2>0, <2>7 DEF RequestInv, Early, Live
<1>3. CASE RateLimitLayer
  <2>1. /\ req.at = "layers" /\ req.left # <<>> /\ Head(req.left) \in {"standard", "strict"}
        /\ Passes \/ Reply("429")
        /\ phase' = phase
    BY <1>3 DEF RateLimitLayer, AtLayer, RequestStep, lifeVars
  <2> QED BY <1>a, <1>b, <1>c, <2>1
<1>4. CASE BearerLayer
  <2>1. req.at = "layers" /\ req.left # <<>> /\ Head(req.left) = "bearer" /\ phase' = phase
    BY <1>4 DEF BearerLayer, AtLayer, RequestStep, lifeVars
  <2>2. CASE ~Introspects(config, req.credential)
    <3>1. Reply("401")
      BY <1>4, <2>2, Zenon DEF BearerLayer
    <3> QED BY <1>a, <1>b, <2>1, <3>1
  <2>3. CASE Introspects(config, req.credential)
    <3>1. PICK verdict \in {"503", IF req.credential = "good" THEN "pass" ELSE "401"} :
            req' = [req EXCEPT !.acts = @ \cup {"introspect"},
                               !.at = IF verdict = "pass" THEN @ ELSE "done",
                               !.answer = IF verdict = "pass" THEN @ ELSE verdict,
                               !.left = IF verdict = "pass" THEN Tail(@) ELSE <<>>]
      BY <1>4, <2>3, Zenon DEF BearerLayer
    <3>2. req.left \in LeftOver /\ Tail(req.left) \in LeftOver /\ <<>> \in LeftOver
          /\ <<>> \notin PastBearer
      BY <1>r, <2>1, LayerPassed DEF RequestRecord, LeftOver, PastBearer
    <3>3. /\ req' \in RequestRecord /\ req'.acts = req.acts \cup {"introspect"}
          /\ req'.credential = req.credential
          /\ verdict = "pass" => req'.at = "layers" /\ req.credential = "good"
          /\ verdict # "pass" => req'.at = "done" /\ req'.left = <<>>
      <4>1. CASE verdict = "pass"
        <5>1. req' = [req EXCEPT !.acts = @ \cup {"introspect"}, !.at = @, !.answer = @,
                                 !.left = Tail(@)]
          BY <3>1, <4>1
        <5>2. req.credential = "good"
          BY <4>1
        <5>3. req.acts \cup {"introspect"} \subseteq {"introspect", "as_server", "as_caller"}
          BY <1>r DEF RequestRecord
        <5>4. /\ req'.acts = req.acts \cup {"introspect"} /\ req'.credential = req.credential
              /\ req'.at = req.at
          BY <1>r, <5>1 DEF RequestRecord
        <5>5. req' \in RequestRecord
          BY <1>r, <3>2, <5>1, <5>3 DEF RequestRecord
        <5> QED BY <2>1, <4>1, <5>2, <5>4, <5>5
      <4>2. CASE verdict # "pass"
        <5>1. req' = [req EXCEPT !.acts = @ \cup {"introspect"}, !.at = "done",
                                 !.answer = verdict, !.left = <<>>]
          BY <3>1, <4>2
        <5>2. verdict \in {"503", "401"}
          BY <4>2
        <5> QED BY <1>r, <3>2, <4>2, <5>1, <5>2 DEF RequestRecord
      <4> QED BY <4>1, <4>2
    <3> QED BY <1>0, <1>a, <2>1, <3>2, <3>3 DEF RequestInv, Verified
  <2> QED BY <2>2, <2>3
<1>5. CASE HostLayer
  <2>1. req.at = "layers" /\ req.left # <<>> /\ Head(req.left) = "host" /\ phase' = phase
    BY <1>5 DEF HostLayer, AtLayer, RequestStep, lifeVars
  <2>2. Passes \/ Reply("400") \/ Reply("403")
    BY <1>5, Zenon DEF HostLayer, validate_files_host
  <2> QED BY <1>a, <1>b, <1>c, <2>1, <2>2
<1>6. CASE CredentialLayer
  <2>1. req.at = "layers" /\ req.left # <<>> /\ Head(req.left) = "credential" /\ phase' = phase
    BY <1>6 DEF CredentialLayer, AtLayer, RequestStep, lifeVars
  <2>2. CASE scoped(config, req.credential) = {}
    <3>1. Reply("refused")
      BY <1>6, <2>2 DEF CredentialLayer
    <3> QED BY <1>a, <1>b, <2>1, <3>1
  <2>3. CASE scoped(config, req.credential) # {}
    <3>1. req' = [req EXCEPT !.left = Tail(@), !.acts = @ \cup scoped(config, req.credential)]
      BY <1>6, <2>3 DEF CredentialLayer
    <3>2. /\ req.left \in PastBearer /\ Tail(req.left) \in LeftOver
          /\ HasVerifier(config) => Verified
      BY <1>r, <2>1, LayerPassed DEF RequestRecord, RequestInv
    <3>3. \/ config.mode = "legacy" /\ scoped(config, req.credential) = {"as_server"}
          \/ /\ config.mode # "legacy" /\ scoped(config, req.credential) = {"as_caller"}
             /\ HasVerifier(config) \/ req.credential \in {"good", "bad"}
      <4>1. Resolved(vars, config)
        BY <1>a, <2>1 DEF LifeInv, Early
      <4>2. config.mode \in AuthModes
        BY <4>1, ResolvedFacts
      <4> QED BY <2>3, <4>2
                 DEF scoped, credential_from_parts, AuthModes, HasVerifier, BearerModes
    <3>4. /\ req' \in RequestRecord /\ req'.acts = req.acts \cup scoped(config, req.credential)
          /\ req'.credential = req.credential /\ req'.at = req.at
      BY <1>r, <3>1, <3>2, <3>3 DEF RequestRecord
    <3> QED BY <1>0, <1>a, <2>1, <3>2, <3>3, <3>4 DEF RequestInv, Verified
  <2> QED BY <2>2, <2>3
<1>7. CASE ReachHandler
  <2>1. /\ req.at = "layers" /\ req.left = <<>> /\ phase' = phase
        /\ req' = [req EXCEPT !.at = "handler"]
    BY <1>7 DEF ReachHandler, RequestStep, lifeVars
  <2>2. /\ req' \in RequestRecord /\ req'.left = req.left /\ req'.acts = req.acts
        /\ req'.credential = req.credential
    BY <1>r, <2>1 DEF RequestRecord
  <2> QED BY <1>0, <1>a, <2>1, <2>2 DEF RequestInv, Verified
<1>8. CASE HandlerEnds
  <2>1. req.at = "handler" /\ Reply("200") /\ phase' = phase
    BY <1>8 DEF HandlerEnds, RequestStep, lifeVars
  <2> QED BY <1>a, <1>b, <2>1
<1>9. CASE CallerGone
  BY <1>9, <1>d DEF CallerGone
<1>10. ASSUME NEW c \in Checks, Readyz(c) \/ Grant(c) \/ Probe(c) \/ Expire(c) \/ Leave(c)
       PROVE  RequestInv'
  <2>1. req' = req /\ phase' = phase
    BY <1>10, Zenon DEF Readyz, Grant, Probe, Expire, Leave, HealthStep, lifeVars
  <2> QED BY <1>e, <2>1
<1>11. CASE SweepStarts \/ SweepEnds \/ Tick
  <2>1. req' = req /\ phase' = phase
    BY <1>11 DEF SweepStarts, SweepEnds, Tick, lifeVars
  <2> QED BY <1>e, <2>1
<1>12. CASE DrainEnds
  <2>1. req' = req /\ phase' \in Live
    BY <1>12 DEF DrainEnds, Live
  <2> QED BY <1>e, <2>1
<1>13. ASSUME Cut PROVE Kept /\ req'.at \notin {"layers", "handler"}
  <2>1. req.at \in {"layers", "handler"} => [req EXCEPT !.at = "cut"].at = "cut"
    BY <1>r DEF RequestRecord
  <2> QED BY <1>13, <2>1 DEF Cut
<1>14. CASE Signal
  <2>1. \/ phase' = "draining" /\ req' = req
        \/ phase' = "exited" /\ Cut
    BY <1>14 DEF Signal
  <2> QED BY <1>e, <1>13, <2>1 DEF Live
<1>15. CASE StdinCloses \/ Exit
  <2>1. Cut
    BY <1>15 DEF StdinCloses, Exit
  <2> QED BY <1>e, <1>13, <2>1
<1> QED BY <1>1, <1>2, <1>3, <1>4, <1>5, <1>6, <1>7, <1>8, <1>9, <1>10, <1>11, <1>12, <1>14,
           <1>15
        DEF Serves

LEMMA RequestStays == LifeInv /\ RequestInv /\ [Next]_serverVars => RequestInv'
<1> SUFFICES ASSUME LifeInv, RequestInv, [Next]_serverVars PROVE RequestInv'
  OBVIOUS
<1>i. ASSUME req' = IdleRequest PROVE RequestInv'
  <2>1. /\ IdleRequest.acts = {} /\ IdleRequest.left = <<>> /\ IdleRequest.at = "idle"
    BY DEF IdleRequest
  <2>2. IdleRequest \in RequestRecord
    BY DEF IdleRequest, RequestRecord, LeftOver, Credentials
  <2>3. <<>> \notin PastBearer
    BY DEF PastBearer
  <2> QED BY <1>i, <2>1, <2>2, <2>3 DEF RequestInv
<1>1. CASE PrintConfig \/ Launch
  <2>1. phase = "down" /\ req' = req
    BY <1>1, Resolutions, ResolutionResolves
  <2> QED BY <1>i, <2>1 DEF RequestInv, Early
<1>2. CASE Restart
  BY <1>i, <1>2 DEF Restart
<1>3. CASE UNCHANGED serverVars
  <2>1. req' = req /\ phase' = phase /\ config' = config
    BY <1>3 DEF serverVars, lifeVars
  <2> QED BY <2>1 DEF RequestInv, Verified, HasVerifier
<1> QED BY <1>1, <1>2, <1>3, RequestMoves, NextCases

\* Whom a request acts as, from the layers it has passed.
LEMMA ActsHold == LifeInv /\ RequestInv => ActsAsIntended
<1> SUFFICES ASSUME LifeInv, RequestInv PROVE ActsAsIntended
  OBVIOUS
<1>1. ASSUME req.acts # {} PROVE Resolved(vars, config)
  <2>1. IdleRequest.acts = {}
    BY DEF IdleRequest
  <2> QED BY <1>1, <2>1 DEF LifeInv, RequestInv, Early
<1>2. ASSUME Resolved(vars, config), config.mode = "legacy"
      PROVE  \/ config.transport = "stdio" \/ IsLoopback(config.http.bind)
             \/ ValueOr(vars, "REDMINE_MCP_ALLOW_UNAUTHENTICATED_NETWORK", "") = "true"
  <2>1. /\ ~SharedKeyOnNetwork(vars, config.transport) /\ Mode(vars) = "legacy"
        /\ config.transport \in {"stdio", "http"}
        /\ config.transport = "http" => config.http = HttpConfig(vars)
    BY <1>2, ResolvedFacts
  <2>2. HttpConfig(vars).bind = Bind(vars)
    BY DEF HttpConfig
  <2> QED BY <2>1, <2>2 DEF SharedKeyOnNetwork
<1>3. AcceptedHttp => Resolved(vars, config)
  BY AcceptedIsResolved DEF AcceptedHttp
<1>4. ASSUME "as_server" \in req.acts PROVE Resolved(vars, config) /\ config.mode = "legacy"
  BY <1>1, <1>4 DEF RequestInv
<1>5. ASSUME "as_caller" \in req.acts
      PROVE  /\ config.transport = "http" /\ req.credential \in {"good", "bad"}
             /\ config.mode \in BearerModes => req.credential = "good" /\ "introspect" \in req.acts
  <2>1. Resolved(vars, config)
    BY <1>1, <1>5
  <2> QED BY <1>5, <2>1, ResolvedFacts DEF RequestInv, HasVerifier, Verified
<1> QED BY <1>2, <1>3, <1>4, <1>5 DEF ActsAsIntended

------------------------------------------------------------------------------
(* Readiness checks *)

\* Multiples of a tick keep the order of their numbers.
LEMMA Ordered ==
    ASSUME NEW t \in Nat \ {0}, NEW a \in Int, NEW b \in Int
    PROVE  a < b <=> a * t < b * t
<1>1. ASSUME a < b PROVE a * t < b * t
  <2>1. (b - a) * t >= t
    BY <1>1
  <2> QED BY <2>1
<1>2. ASSUME a >= b PROVE a * t >= b * t
  <2>1. (a - b) * t >= 0
    BY <1>2
  <2> QED BY <2>1
<1> QED BY <1>1, <1>2

LEMMA Multiples ==
    ASSUME NEW t \in Nat \ {0}, NEW T \in Nat, T % t = 0
    PROVE  T \div t \in Nat /\ T = (T \div t) * t
  OBVIOUS

\* The timeouts in ticks: the deadlines fall on ticks.
LEMMA Ticks ==
    /\ ProbeTicks \in Nat /\ DrainTicks \in Nat
    /\ \A n \in Nat : /\ n * TICK >= PROBE_TIMEOUT <=> n >= ProbeTicks
                      /\ n * TICK >= HTTP_DRAIN_TIMEOUT <=> n >= DrainTicks
                      /\ n <= ProbeTicks => ~(n * TICK >= REQUEST_TIMEOUT)
                      /\ n <= DrainTicks + DrainTicks => n * TICK <= 2 * HTTP_DRAIN_TIMEOUT
<1> DEFINE P == ProbeTicks
           D == DrainTicks
<1>0. /\ TICK \in Nat \ {0} /\ PROBE_TIMEOUT \in Nat /\ REQUEST_TIMEOUT \in Nat
      /\ HTTP_DRAIN_TIMEOUT \in Nat /\ PROBE_TIMEOUT < REQUEST_TIMEOUT
      /\ PROBE_TIMEOUT % TICK = 0 /\ HTTP_DRAIN_TIMEOUT % TICK = 0
  BY HealthAssumption, ServerAssumption
<1>1. P \in Nat /\ PROBE_TIMEOUT = P * TICK /\ D \in Nat /\ HTTP_DRAIN_TIMEOUT = D * TICK
  BY <1>0, Multiples DEF ProbeTicks, DrainTicks
<1> HIDE DEF P, D
<1>2. ASSUME NEW n \in Nat
      PROVE  /\ n * TICK >= P * TICK <=> n >= P
             /\ n * TICK >= D * TICK <=> n >= D
             /\ n <= P => n * TICK <= P * TICK
             /\ n <= D + D => n * TICK <= (D + D) * TICK
  <2>1. /\ n < P <=> n * TICK < P * TICK
        /\ n < D <=> n * TICK < D * TICK
        /\ P < n <=> P * TICK < n * TICK
        /\ D + D < n <=> (D + D) * TICK < n * TICK
    BY <1>0, <1>1, Ordered
  <2>2. n * TICK \in Int /\ P * TICK \in Int /\ D * TICK \in Int /\ (D + D) * TICK \in Int
    BY <1>0, <1>1
  <2> QED BY <1>1, <2>1, <2>2
<1>3. (D + D) * TICK = 2 * (D * TICK)
  BY <1>0, <1>1
<1>4. ASSUME NEW n \in Nat PROVE n * TICK \in Int
  BY <1>0
<1>5. /\ P \in Nat /\ D \in Nat
      /\ \A n \in Nat : /\ n * TICK >= PROBE_TIMEOUT <=> n >= P
                        /\ n * TICK >= HTTP_DRAIN_TIMEOUT <=> n >= D
                        /\ n <= P => ~(n * TICK >= REQUEST_TIMEOUT)
                        /\ n <= D + D => n * TICK <= 2 * HTTP_DRAIN_TIMEOUT
  BY <1>0, <1>1, <1>2, <1>3, <1>4
<1> QED BY <1>5 DEF P, D

\* A sequence of distinct elements without the i-th.
LEMMA Removed ==
    ASSUME NEW S, NEW s \in Seq(S), NEW i \in DOMAIN s,
           \A j, k \in DOMAIN s : s[j] = s[k] => j = k
    PROVE  /\ RemoveAt(s, i) \in Seq(S)
           /\ \A j, k \in DOMAIN RemoveAt(s, i) :
                RemoveAt(s, i)[j] = RemoveAt(s, i)[k] => j = k
           /\ \A x : (\E j \in DOMAIN RemoveAt(s, i) : RemoveAt(s, i)[j] = x)
                       <=> (\E j \in DOMAIN s : s[j] = x /\ j # i)
<1> DEFINE u == SubSeq(s, 1, i - 1)
           v == SubSeq(s, i + 1, Len(s))
           t == RemoveAt(s, i)
<1>0. Len(s) \in Nat /\ i \in 1..Len(s) /\ DOMAIN s = 1..Len(s)
  OBVIOUS
<1>1. /\ u \in Seq(S) /\ Len(u) = i - 1 /\ \A j \in 1..(i - 1) : u[j] = s[j]
  BY <1>0
<1>2. /\ v \in Seq(S) /\ Len(v) = Len(s) - i /\ \A j \in 1..(Len(s) - i) : v[j] = s[j + i]
  BY <1>0
<1>3. t = u \o v
  BY DEF RemoveAt
<1> HIDE DEF u, v, t
<1>s. u \in Seq(S) /\ v \in Seq(S)
  BY <1>1, <1>2
<1>c. /\ t \in Seq(S) /\ Len(t) = Len(u) + Len(v)
      /\ \A j \in 1..(Len(u) + Len(v)) : t[j] = IF j <= Len(u) THEN u[j] ELSE v[j - Len(u)]
  BY <1>3, <1>s, ConcatProperties, ZenonT(60)
<1>a. t \in Seq(S) /\ Len(t) = Len(u) + Len(v) /\ DOMAIN t = 1..Len(t)
  BY <1>c
<1>4. t \in Seq(S) /\ Len(t) = Len(s) - 1 /\ DOMAIN t = 1..(Len(s) - 1)
  <2>1. Len(t) = Len(s) - 1
    BY <1>0, <1>1, <1>2, <1>a
  <2> QED BY <1>a, <2>1
<1>5. ASSUME NEW j \in 1..(Len(s) - 1)
      PROVE  t[j] = IF j < i THEN s[j] ELSE s[j + 1]
  <2>1. CASE j < i
    <3>1. j \in 1..Len(u) /\ j \in 1..(i - 1)
      BY <1>0, <1>1, <2>1
    <3>2. t[j] = u[j]
      BY <1>0, <1>1, <1>2, <1>c, <2>1, <3>1
    <3> QED BY <1>1, <2>1, <3>1, <3>2
  <2>2. CASE j >= i
    <3>1. j - Len(u) \in 1..Len(v) /\ j - Len(u) = j - i + 1 /\ j - i + 1 \in 1..(Len(s) - i)
          /\ j > Len(u) /\ j \in 1..(Len(u) + Len(v))
      BY <1>0, <1>1, <1>2, <2>2
    <3>2. t[j] = v[j - Len(u)]
      BY <1>1, <1>c, <3>1
    <3>3. v[j - i + 1] = s[j + 1]
      <4>1. (j - i + 1) + i = j + 1
        BY <1>0
      <4> QED BY <1>2, <3>1, <4>1
    <3> QED BY <1>0, <2>2, <3>1, <3>2, <3>3
  <2> QED BY <1>0, <2>1, <2>2
<1>6. ASSUME NEW j \in DOMAIN t, NEW k \in DOMAIN t, t[j] = t[k] PROVE j = k
  <2>1. /\ j \in 1..(Len(s) - 1) /\ k \in 1..(Len(s) - 1)
        /\ j \in DOMAIN s /\ j + 1 \in DOMAIN s /\ k \in DOMAIN s /\ k + 1 \in DOMAIN s
    BY <1>0, <1>4
  <2>2. t[j] = (IF j < i THEN s[j] ELSE s[j + 1]) /\ t[k] = IF k < i THEN s[k] ELSE s[k + 1]
    BY <1>5, <2>1
  <2>3. CASE j < i /\ k < i
    BY <1>6, <2>1, <2>2, <2>3
  <2>4. CASE ~(j < i) /\ ~(k < i)
    <3>1. j + 1 = k + 1
      BY <1>6, <2>1, <2>2, <2>4
    <3> QED BY <2>1, <3>1
  <2>5. CASE j < i /\ ~(k < i)
    <3>1. j = k + 1
      BY <1>6, <2>1, <2>2, <2>5
    <3> QED BY <1>0, <2>1, <2>5, <3>1
  <2>6. CASE ~(j < i) /\ k < i
    <3>1. j + 1 = k
      BY <1>6, <2>1, <2>2, <2>6
    <3> QED BY <1>0, <2>1, <2>6, <3>1
  <2> QED BY <2>3, <2>4, <2>5, <2>6
<1>7. ASSUME NEW x, NEW j \in DOMAIN t, t[j] = x PROVE \E k \in DOMAIN s : s[k] = x /\ k # i
  BY <1>0, <1>4, <1>5, <1>7
<1>8. ASSUME NEW x, NEW j \in DOMAIN s, s[j] = x, j # i PROVE \E k \in DOMAIN t : t[k] = x
  <2>1. CASE j < i
    BY <1>0, <1>4, <1>5, <1>8, <2>1
  <2>2. CASE j > i
    <3>1. j - 1 \in DOMAIN t /\ t[j - 1] = x
      BY <1>0, <1>4, <1>5, <1>8, <2>2
    <3> QED BY <3>1
  <2> QED BY <1>0, <1>8, <2>1, <2>2
<1>9. /\ t \in Seq(S)
      /\ \A j, k \in DOMAIN t : t[j] = t[k] => j = k
      /\ \A x : (\E j \in DOMAIN t : t[j] = x) <=> (\E j \in DOMAIN s : s[j] = x /\ j # i)
  BY <1>4, <1>6, <1>7, <1>8
<1> QED BY <1>9 DEF t

\* Whoever waits is served by an HTTP server with a cache lifetime.
LEMMA WaitingHasTtl ==
    ASSUME LifeInv, phase \in Live, config.transport = "http"
    PROVE  ttl \in Nat
<1>1. Resolved(vars, config)
  BY DEF LifeInv, Live
<1>2. config.http = HttpConfig(vars) /\ HttpFacts(vars)
  BY <1>1, ResolvedFacts
<1>3. HttpConfig(vars).health_ttl \in 0..MAX_HEALTH_TTL_SECONDS
  BY <1>2 DEF HttpFacts
<1>4. ttl = HttpConfig(vars).health_ttl
  BY <1>2, Zenon DEF ttl
<1>5. \A n \in 0..MAX_HEALTH_TTL_SECONDS : n \in Nat
  BY DEF MAX_HEALTH_TTL_SECONDS
<1> QED BY <1>3, <1>4, <1>5

LEMMA IdleFacts ==
    /\ IdleCheck \in CheckRecord
    /\ IdleCheck.at = "idle" /\ IdleCheck.answer = "none"
    /\ IdleCheck.age = 0 /\ IdleCheck.probe = 0
  BY DEF IdleCheck, CheckRecord

LEMMA FreshFacts ==
    ASSUME NEW at \in {"queued", "probing"}
    PROVE  LET fresh == [IdleCheck EXCEPT !.at = at] IN
           /\ fresh \in CheckRecord /\ fresh.at = at /\ fresh.answer = "none"
           /\ fresh.age = 0 /\ fresh.probe = 0
  BY DEF IdleCheck, CheckRecord

\* A check that arrives.
LEMMA ReadyzKeeps == ASSUME LifeInv, HealthInv, NEW c \in Checks, Readyz(c) PROVE HealthInv'
<1>1. /\ phase = "serving" /\ config.transport = "http"
      /\ UNCHANGED <<phase, config, cache>> /\ ~Waiting(c)
  BY DEF Readyz, Serving, readyz, HealthStep, lifeVars
<1>2. ttl \in Nat
  BY <1>1, WaitingHasTtl DEF Live
<1>3. ttl' = ttl /\ (CacheValid(ttl)' <=> CacheValid(ttl))
  BY <1>1 DEF ttl, CacheValid
<1>t. /\ check \in [Checks -> CheckRecord] /\ queue \in Seq(Checks)
      /\ cache \in [result : {"none", "up", "down", "not_probed"}, age : Nat]
  BY DEF HealthInv, QueueInv
<1>4. CASE ttl = 0
  <2> DEFINE fresh == [IdleCheck EXCEPT !.at = "probing"]
  <2>1. check' = [check EXCEPT ![c] = fresh] /\ queue' = queue
    BY <1>4 DEF Readyz, readyz
  <2>2. /\ fresh \in CheckRecord /\ fresh.at = "probing" /\ fresh.answer = "none"
        /\ fresh.age = 0 /\ fresh.probe = 0
    BY FreshFacts
  <2> HIDE DEF fresh
  <2>3. /\ check' \in [Checks -> CheckRecord] /\ check'[c] = fresh
        /\ \A d \in Checks : d # c => check'[d] = check[d]
    BY <1>t, <2>1, <2>2
  <2>4. \A d \in Checks : check[d].at # "queued"
    BY <1>4 DEF HealthInv, LockInv
  <2>5. \A d \in Checks : check'[d].at # "queued"
    BY <2>2, <2>3, <2>4
  <2>6. QueueInv'
    BY <1>1, <1>t, <2>1, <2>3, <2>4, <2>5 DEF HealthInv, QueueInv
  <2>7. LockInv'
    BY <1>1, <1>3, <1>4, <2>2, <2>3, <2>5 DEF HealthInv, LockInv, Waiting, Live
  <2>8. AgeInv'
    BY <2>2, <2>3, <2>5, Ticks DEF HealthInv, AgeInv
  <2> QED BY <2>6, <2>7, <2>8 DEF HealthInv
<1>5. CASE ttl > 0
  <2> DEFINE fresh == [IdleCheck EXCEPT !.at = "queued"]
  <2>0. ~(ttl = 0)
    BY <1>2, <1>5
  <2>1. check' = [check EXCEPT ![c] = fresh] /\ queue' = Append(queue, c)
    BY <2>0 DEF Readyz, readyz
  <2>2. /\ fresh \in CheckRecord /\ fresh.at = "queued" /\ fresh.answer = "none"
        /\ fresh.age = 0 /\ fresh.probe = 0
    BY FreshFacts
  <2> HIDE DEF fresh
  <2>3. /\ check' \in [Checks -> CheckRecord] /\ check'[c] = fresh
        /\ \A d \in Checks : d # c => check'[d] = check[d]
    BY <1>t, <2>1, <2>2
  <2>4. /\ queue' \in Seq(Checks) /\ DOMAIN queue' = 1..(Len(queue) + 1)
        /\ DOMAIN queue = 1..Len(queue)
        /\ Len(queue) \in Nat /\ queue'[Len(queue) + 1] = c
        /\ \A i \in 1..Len(queue) : queue'[i] = queue[i]
    BY <1>t, <2>1
  <2>5. \A i \in DOMAIN queue : queue[i] # c
    BY <1>1 DEF HealthInv, QueueInv, Waiting
  <2>6. \A i, j \in DOMAIN queue' : queue'[i] = queue'[j] => i = j
    <3> SUFFICES ASSUME NEW i \in DOMAIN queue', NEW j \in DOMAIN queue', queue'[i] = queue'[j]
                 PROVE  i = j
      OBVIOUS
    <3>1. i \in DOMAIN queue \/ i = Len(queue) + 1
      BY <2>4
    <3>2. j \in DOMAIN queue \/ j = Len(queue) + 1
      BY <2>4
    <3> QED BY <2>4, <2>5, <3>1, <3>2 DEF HealthInv, QueueInv
  <2>7. ASSUME NEW d \in Checks
        PROVE  check'[d].at = "queued" <=> \E i \in DOMAIN queue' : queue'[i] = d
    <3>1. CASE d = c
      <4>1. Len(queue) + 1 \in DOMAIN queue'
        BY <2>4
      <4> QED BY <2>2, <2>3, <2>4, <3>1, <4>1
    <3>2. CASE d # c
      <4>1. (\E i \in DOMAIN queue' : queue'[i] = d) <=> (\E i \in DOMAIN queue : queue[i] = d)
        BY <2>4, <3>2
      <4> QED BY <2>3, <3>2, <4>1 DEF HealthInv, QueueInv
    <3> QED BY <3>1, <3>2
  <2>8. QueueInv'
    BY <1>1, <1>t, <2>3, <2>4, <2>6, <2>7 DEF QueueInv
  <2>9. LockInv'
    BY <1>1, <1>3, <1>5, <2>2, <2>3 DEF HealthInv, LockInv, Waiting, Live
  <2>10. AgeInv'
    <3>1. \A p \in Checks : check'[p].at = "probing" => p # c /\ check[p].at = "probing"
      BY <2>2, <2>3
    <3>2. LockFree' => LockFree
      BY <1>1, <2>2, <2>3 DEF LockFree, Waiting
    <3> SUFFICES ASSUME NEW d \in Checks
                 PROVE  AgeInv!(d)'
      BY DEF AgeInv
    <3>3. CASE d = c
      <4>1. \A p \in Checks : check'[p].at = "probing" => 0 <= check'[p].probe
        BY <2>3 DEF CheckRecord
      <4> QED BY <2>2, <2>3, <3>3, <4>1, Ticks
    <3>4. CASE d # c
      BY <1>3, <2>3, <3>1, <3>2, <3>4 DEF HealthInv, AgeInv
    <3> QED BY <3>3, <3>4
  <2> QED BY <2>8, <2>9, <2>10 DEF HealthInv
<1> QED BY <1>2, <1>4, <1>5

\* The lock goes to the first in the queue, who finds a result or probes.
LEMMA GrantKeeps == ASSUME LifeInv, HealthInv, NEW c \in Checks, Grant(c) PROVE HealthInv'
<1>1. /\ UNCHANGED <<phase, config, cache>> /\ queue # <<>> /\ c = Head(queue) /\ LockFree
      /\ queue' = Tail(queue) /\ WithLock(c, ttl)
  BY DEF Grant, LockGranted, HealthStep, lifeVars
<1>3. ttl' = ttl /\ (CacheValid(ttl)' <=> CacheValid(ttl))
  BY <1>1 DEF ttl, CacheValid
<1>t. /\ check \in [Checks -> CheckRecord] /\ queue \in Seq(Checks)
      /\ cache \in [result : {"none", "up", "down", "not_probed"}, age : Nat]
  BY DEF HealthInv, QueueInv
<1>4. /\ DOMAIN queue = 1..Len(queue) /\ Len(queue) \in Nat /\ Len(queue) >= 1 /\ queue[1] = c
      /\ queue' \in Seq(Checks) /\ DOMAIN queue' = 1..(Len(queue) - 1)
      /\ \A i \in 1..(Len(queue) - 1) : queue'[i] = queue[i + 1]
  BY <1>1, <1>t
<1>5. check[c].at = "queued"
  BY <1>4 DEF HealthInv, QueueInv
<1>6. \A i, j \in DOMAIN queue' : queue'[i] = queue'[j] => i = j
  <2> SUFFICES ASSUME NEW i \in DOMAIN queue', NEW j \in DOMAIN queue', queue'[i] = queue'[j]
               PROVE  i = j
    OBVIOUS
  <2>1. i \in Nat /\ j \in Nat /\ i + 1 \in DOMAIN queue /\ j + 1 \in DOMAIN queue
        /\ queue[i + 1] = queue[j + 1]
    BY <1>4
  <2>2. i + 1 = j + 1
    BY <2>1 DEF HealthInv, QueueInv
  <2> QED BY <2>1, <2>2
<1>7. ASSUME NEW d \in Checks
      PROVE  (\E i \in DOMAIN queue' : queue'[i] = d) <=> check[d].at = "queued" /\ d # c
  <2>1. ASSUME NEW i \in DOMAIN queue', queue'[i] = d PROVE check[d].at = "queued" /\ d # c
    <3>1. i + 1 \in DOMAIN queue /\ queue[i + 1] = d /\ i + 1 # 1 /\ 1 \in DOMAIN queue
      BY <1>4, <2>1
    <3> QED BY <1>4, <3>1 DEF HealthInv, QueueInv
  <2>2. ASSUME check[d].at = "queued", d # c PROVE \E i \in DOMAIN queue' : queue'[i] = d
    <3>1. PICK i \in DOMAIN queue : queue[i] = d
      BY <2>2 DEF HealthInv, QueueInv
    <3>2. i # 1
      BY <1>4, <2>2, <3>1
    <3>3. i - 1 \in DOMAIN queue' /\ queue'[i - 1] = d
      BY <1>4, <3>1, <3>2
    <3> QED BY <3>3
  <2> QED BY <2>1, <2>2
<1>8. CASE CacheValid(ttl)
  <2> DEFINE done == [IdleCheck EXCEPT !.at = "done", !.answer = cache.result,
                                       !.overtaken = check[c].overtaken]
  <2>1. check' = [check EXCEPT ![c] = done]
    BY <1>1, <1>8 DEF WithLock, Answered
  <2>2. done \in CheckRecord /\ done.at = "done" /\ done.answer = cache.result
    <3>1. cache.result \in {"none", "up", "down", "not_probed"} /\ check[c] \in CheckRecord
      BY <1>t
    <3> QED BY <3>1 DEF IdleCheck, CheckRecord
  <2>3. done.answer # "504"
    BY <1>t, <2>2
  <2> HIDE DEF done
  <2>4. /\ check' \in [Checks -> CheckRecord] /\ check'[c] = done
        /\ \A d \in Checks : d # c => check'[d] = check[d]
    BY <1>t, <2>1, <2>2
  <2>5. QueueInv'
    BY <1>1, <1>4, <1>6, <1>7, <1>t, <2>2, <2>4 DEF QueueInv
  <2>6. LockInv'
    BY <1>1, <1>3, <2>2, <2>4 DEF HealthInv, LockInv, Waiting
  <2>7. \A p \in Checks :
          check'[p].at = "probing" => check[p].at = "probing" /\ check'[p] = check[p]
    BY <2>2, <2>4
  <2>8. AgeInv'
    <3> SUFFICES ASSUME NEW d \in Checks
                 PROVE  AgeInv!(d)'
      BY DEF AgeInv
    <3>1. CASE d = c
      BY <2>2, <2>3, <2>4, <3>1
    <3>2. CASE d # c
      BY <1>3, <1>8, <2>4, <2>7, <3>2 DEF HealthInv, AgeInv
    <3> QED BY <3>1, <3>2
  <2> QED BY <2>5, <2>6, <2>8 DEF HealthInv
<1>9. CASE ~CacheValid(ttl)
  <2>1. check' = [check EXCEPT ![c].at = "probing"]
    BY <1>1, <1>9 DEF WithLock
  <2>2. /\ check' \in [Checks -> CheckRecord] /\ check'[c].at = "probing"
        /\ check'[c].age = check[c].age /\ check'[c].probe = check[c].probe
        /\ check'[c].overtaken = check[c].overtaken /\ check'[c].answer = check[c].answer
        /\ \A d \in Checks : d # c => check'[d] = check[d]
    BY <1>t, <2>1 DEF CheckRecord
  <2>3. QueueInv'
    BY <1>1, <1>4, <1>6, <1>7, <1>t, <2>2 DEF QueueInv
  <2>4. \A d \in Checks : d # c => check'[d].at # "probing"
    BY <1>1, <2>2 DEF LockFree
  <2>5. LockInv'
    BY <1>1, <1>3, <1>5, <2>2, <2>4 DEF HealthInv, LockInv, Waiting
  <2>6. \A d \in Checks : check[d].at = "queued" /\ ~check[d].overtaken => check[d].age = 0
    BY <1>1, <1>9 DEF HealthInv, AgeInv
  <2>7. check[c].probe = 0
    BY <1>5 DEF HealthInv, AgeInv
  <2>8. AgeInv'
    <3> SUFFICES ASSUME NEW d \in Checks
                 PROVE  AgeInv!(d)'
      BY DEF AgeInv
    <3>1. CASE d = c
      <4>1. check[c].answer = "504" => check[c].overtaken
        BY DEF HealthInv, AgeInv
      <4> QED BY <1>5, <2>2, <2>6, <2>7, <3>1, <4>1, Ticks
    <3>2. CASE d # c
      <4>0. ~LockFree'
        BY <2>2 DEF LockFree
      <4>1. /\ check[d].at = "queued" => check[d].probe = 0
            /\ check[d].at = "queued" /\ ~check[d].overtaken => check[d].age = 0
            /\ check[d].answer = "504" => check[d].overtaken
        BY <2>6 DEF HealthInv, AgeInv
      <4>2. check'[d] = check[d] /\ check'[d].at # "probing"
        BY <2>2, <2>4, <3>2
      <4>3. \A p \in Checks : check'[p].at = "probing" => check'[p].probe = 0
        BY <2>2, <2>4, <2>7
      <4> QED BY <4>0, <4>1, <4>2, <4>3, Ticks
    <3> QED BY <3>1, <3>2
  <2> QED BY <2>3, <2>5, <2>8 DEF HealthInv
<1> QED BY <1>8, <1>9

\* A probe ends, and with a cache those who waited for it will find its result.
LEMMA ProbeKeeps == ASSUME LifeInv, HealthInv, NEW c \in Checks, Probe(c) PROVE HealthInv'
<1>1. /\ UNCHANGED <<phase, config, queue>> /\ check[c].at = "probing"
  BY DEF Probe, run_probe, HealthStep, lifeVars
<1>t. /\ check \in [Checks -> CheckRecord] /\ queue \in Seq(Checks)
      /\ cache \in [result : {"none", "up", "down", "not_probed"}, age : Nat]
  BY DEF HealthInv, QueueInv
<1>2. PICK result \in ProbeResults(ProbeTarget(config)) :
        /\ check' = Answered(c, result)
        /\ cache' = IF ttl = 0 THEN cache ELSE [result |-> result, age |-> 0]
  BY DEF Probe, run_probe
<1>3. result \in {"up", "down", "not_probed"}
  BY DEF ProbeResults
<1>4. ttl' = ttl
  BY <1>1 DEF ttl
<1>5. phase \in Live /\ config.transport = "http" /\ ttl \in Nat
  <2>1. phase \in Live /\ config.transport = "http"
    BY <1>1 DEF HealthInv, LockInv, Waiting
  <2> QED BY <2>1, WaitingHasTtl
<1>6. ttl > 0 => CacheValid(ttl)'
  <2> SUFFICES ASSUME ttl > 0 PROVE CacheValid(ttl)'
    OBVIOUS
  <2>1. cache' = [result |-> result, age |-> 0]
    BY <1>2, <1>5
  <2>2. cache'.result # "none" /\ cache'.age = 0
    BY <1>3, <2>1
  <2>3. 0 * TICK = 0
    BY HealthAssumption
  <2>4. cache'.age * TICK < ttl'
    BY <1>4, <2>2, <2>3
  <2> QED BY <2>2, <2>4 DEF CacheValid
<1> DEFINE done == [IdleCheck EXCEPT !.at = "done", !.answer = result,
                                     !.overtaken = check[c].overtaken]
<1>7. done \in CheckRecord /\ done.at = "done" /\ done.answer # "504"
  <2>1. check[c] \in CheckRecord
    BY <1>t
  <2>2. done \in CheckRecord /\ done.at = "done" /\ done.answer = result
    BY <1>3, <2>1 DEF IdleCheck, CheckRecord
  <2> HIDE DEF done
  <2> QED BY <1>3, <2>2
<1>8. check' = [check EXCEPT ![c] = done]
  BY <1>2 DEF Answered
<1> HIDE DEF done
<1>9. /\ check' \in [Checks -> CheckRecord] /\ check'[c] = done
      /\ \A d \in Checks : d # c => check'[d] = check[d]
  BY <1>t, <1>7, <1>8
<1>10. QueueInv'
  <2>1. cache' \in [result : {"none", "up", "down", "not_probed"}, age : Nat]
    BY <1>2, <1>3, <1>t
  <2>2. \A d \in Checks : check'[d].at = "queued" <=> check[d].at = "queued"
    BY <1>1, <1>7, <1>9
  <2> QED BY <1>1, <1>9, <2>1, <2>2 DEF HealthInv, QueueInv
<1>11. LockInv'
  BY <1>1, <1>4, <1>7, <1>9 DEF HealthInv, LockInv, Waiting
<1>12. \A p \in Checks :
         check'[p].at = "probing" => check[p].at = "probing" /\ check'[p] = check[p]
  BY <1>7, <1>9
<1>13. AgeInv'
  <2> SUFFICES ASSUME NEW d \in Checks
               PROVE  AgeInv!(d)'
    BY DEF AgeInv
  <2>1. CASE d = c
    BY <1>7, <1>9, <2>1
  <2>2. CASE d # c
    <3>1. check'[d] = check[d]
      BY <1>9, <2>2
    <3>2. check[d].at = "queued" => CacheValid(ttl)'
      BY <1>6 DEF HealthInv, LockInv
    <3> QED BY <1>12, <3>1, <3>2 DEF HealthInv, AgeInv
  <2> QED BY <2>1, <2>2
<1> QED BY <1>10, <1>11, <1>13 DEF HealthInv

\* A check is dropped where it waits: whoever waited for its probe is overtaken.
LEMMA DropKeeps ==
    ASSUME LifeInv, HealthInv, NEW c \in Checks, Waiting(c), UNCHANGED <<phase, config, cache>>,
           NEW r \in CheckRecord, r.at \notin {"queued", "probing"},
           r.answer = "504" => r.overtaken,
           check' = [Overtaken(c) EXCEPT ![c] = r], queue' = Unqueued(c)
    PROVE  HealthInv'
<1>3. ttl' = ttl /\ (CacheValid(ttl)' <=> CacheValid(ttl))
  BY DEF ttl, CacheValid
<1>t. /\ check \in [Checks -> CheckRecord] /\ queue \in Seq(Checks)
      /\ cache \in [result : {"none", "up", "down", "not_probed"}, age : Nat]
      /\ \A i, j \in DOMAIN queue : queue[i] = queue[j] => i = j
  BY DEF HealthInv, QueueInv
<1>4. ASSUME NEW d \in Checks
      PROVE  /\ Overtaken(c)[d] \in CheckRecord
             /\ Overtaken(c)[d].at = check[d].at /\ Overtaken(c)[d].age = check[d].age
             /\ Overtaken(c)[d].probe = check[d].probe /\ Overtaken(c)[d].answer = check[d].answer
             /\ check[d].overtaken => Overtaken(c)[d].overtaken
             /\ check[c].at = "probing" /\ check[d].at = "queued" => Overtaken(c)[d].overtaken
             /\ ~(check[c].at = "probing" /\ check[d].at = "queued") =>
                  (Overtaken(c)[d].overtaken <=> check[d].overtaken)
  <2> DEFINE over == check[d].overtaken \/ (check[c].at = "probing" /\ check[d].at = "queued")
             new == [check[d] EXCEPT !.overtaken = over]
  <2>1. Overtaken(c)[d] = new
    BY Zenon DEF Overtaken
  <2>2. check[d] \in CheckRecord /\ over \in BOOLEAN
    BY <1>t, Zenon
  <2>3. /\ new \in CheckRecord /\ new.at = check[d].at /\ new.age = check[d].age
        /\ new.probe = check[d].probe /\ new.answer = check[d].answer
        /\ new.overtaken <=> over
    BY <2>2 DEF CheckRecord
  <2> QED BY <2>1, <2>3
<1>5. /\ check' \in [Checks -> CheckRecord] /\ check'[c] = r
      /\ \A d \in Checks : d # c => check'[d] = Overtaken(c)[d]
  <2>1. Overtaken(c) \in [Checks -> CheckRecord]
    BY <1>4 DEF Overtaken
  <2> QED BY <2>1
<1>6. /\ queue' \in Seq(Checks)
      /\ \A i, j \in DOMAIN queue' : queue'[i] = queue'[j] => i = j
      /\ \A d \in Checks :
           (\E i \in DOMAIN queue' : queue'[i] = d) <=> check[d].at = "queued" /\ d # c
  <2>1. CASE check[c].at = "queued"
    <3> DEFINE k == CHOOSE i \in DOMAIN queue : queue[i] = c
    <3>1. \E i \in DOMAIN queue : queue[i] = c
      BY <2>1 DEF HealthInv, QueueInv
    <3>2. k \in DOMAIN queue /\ queue[k] = c
      BY <3>1
    <3>3. queue' = RemoveAt(queue, k)
      BY <2>1 DEF Unqueued
    <3> HIDE DEF k
    <3>4. /\ queue' \in Seq(Checks)
          /\ \A i, j \in DOMAIN queue' : queue'[i] = queue'[j] => i = j
          /\ \A x : (\E j \in DOMAIN queue' : queue'[j] = x)
                      <=> (\E j \in DOMAIN queue : queue[j] = x /\ j # k)
      <4>1. /\ queue \in Seq(Checks) /\ k \in DOMAIN queue
            /\ \A i, j \in DOMAIN queue : queue[i] = queue[j] => i = j
        BY <1>t, <3>2
      <4>2. /\ RemoveAt(queue, k) \in Seq(Checks)
            /\ \A i, j \in DOMAIN RemoveAt(queue, k) :
                 RemoveAt(queue, k)[i] = RemoveAt(queue, k)[j] => i = j
            /\ \A x : (\E j \in DOMAIN RemoveAt(queue, k) : RemoveAt(queue, k)[j] = x)
                        <=> (\E j \in DOMAIN queue : queue[j] = x /\ j # k)
        BY <4>1, Removed, Zenon
      <4> QED BY <3>3, <4>2, Zenon
    <3>5. ASSUME NEW d \in Checks
          PROVE  (\E j \in DOMAIN queue : queue[j] = d /\ j # k) <=> check[d].at = "queued" /\ d # c
      BY <1>t, <3>2 DEF HealthInv, QueueInv
    <3> QED BY <3>4, <3>5
  <2>2. CASE check[c].at # "queued"
    BY <2>2 DEF Unqueued, HealthInv, QueueInv
  <2> QED BY <2>1, <2>2
<1>7. QueueInv'
  <2>1. \A d \in Checks : check'[d].at = "queued" <=> check[d].at = "queued" /\ d # c
    BY <1>4, <1>5
  <2> QED BY <1>5, <1>6, <1>t, <2>1 DEF QueueInv
<1>8. LockInv'
  <2>1. \A d \in Checks :
          check'[d].at \in {"queued", "probing"} => d # c /\ check'[d].at = check[d].at
    BY <1>4, <1>5
  <2> QED BY <1>3, <2>1 DEF HealthInv, LockInv, Waiting
<1>9. AgeInv'
  <2> SUFFICES ASSUME NEW d \in Checks
               PROVE  AgeInv!(d)'
    BY DEF AgeInv
  <2>1. CASE d = c
    BY <1>5, <2>1
  <2>2. CASE d # c
    <3>1. \A p \in Checks : check'[p].at = "probing" =>
            check[p].at = "probing" /\ check'[p].probe = check[p].probe
      BY <1>4, <1>5
    <3>2. CASE check[c].at = "probing" /\ check[d].at = "queued"
      <4>1. check'[d].at = "queued" /\ check'[d].probe = check[d].probe /\ check'[d].overtaken
        BY <1>4, <1>5, <2>2, <3>2
      <4>2. check[d].probe = 0
        BY <3>2 DEF HealthInv, AgeInv
      <4> QED BY <4>1, <4>2
    <3>3. CASE ~(check[c].at = "probing" /\ check[d].at = "queued")
      <4>1. /\ check'[d].at = check[d].at /\ check'[d].age = check[d].age
            /\ check'[d].probe = check[d].probe /\ check'[d].answer = check[d].answer
            /\ check'[d].overtaken <=> check[d].overtaken
        BY <1>4, <1>5, <2>2, <3>3
      <4>2. check[d].at = "queued" => (LockFree' => LockFree)
        <5>1. ASSUME check[d].at = "queued", ~LockFree PROVE ~LockFree'
          <6>1. PICK p \in Checks : check[p].at = "probing"
            BY <5>1 DEF LockFree
          <6>2. p # c
            BY <3>3, <5>1, <6>1
          <6>3. check'[p].at = "probing"
            BY <1>4, <1>5, <6>1, <6>2
          <6> QED BY <6>3 DEF LockFree
        <5> QED BY <5>1
      <4> QED BY <1>3, <3>1, <4>1, <4>2 DEF HealthInv, AgeInv
    <3> QED BY <3>2, <3>3
  <2> QED BY <2>1, <2>2
<1> QED BY <1>7, <1>8, <1>9 DEF HealthInv

LEMMA LeaveKeeps == ASSUME LifeInv, HealthInv, NEW c \in Checks, Leave(c) PROVE HealthInv'
<1>1. /\ Waiting(c) /\ UNCHANGED <<phase, config, cache>>
      /\ check' = [Overtaken(c) EXCEPT ![c] = IdleCheck] /\ queue' = Unqueued(c)
  BY DEF Leave, ClientGone, HealthStep, lifeVars
<1>2. IdleCheck \in CheckRecord /\ IdleCheck.at \notin {"queued", "probing"}
      /\ IdleCheck.answer # "504"
  BY IdleFacts
<1> QED BY <1>1, <1>2, DropKeeps

\* A deadline is reached only by a check that was overtaken.
LEMMA ExpireKeeps == ASSUME LifeInv, HealthInv, NEW c \in Checks, Expire(c) PROVE HealthInv'
<1> DEFINE r == [IdleCheck EXCEPT !.at = "done", !.answer = "504",
                                  !.overtaken = check[c].overtaken]
<1>1. /\ Waiting(c) /\ UNCHANGED <<phase, config, cache>> /\ check[c].age * TICK >= REQUEST_TIMEOUT
      /\ check' = [Overtaken(c) EXCEPT ![c] = r] /\ queue' = Unqueued(c)
  BY DEF Expire, RequestTimesOut, HealthStep, lifeVars
<1>2. check[c] \in CheckRecord
  BY DEF HealthInv, QueueInv
<1>3. check[c].overtaken
  <2>1. check[c].age \in Nat /\ check[c].probe \in Nat
    BY <1>2 DEF CheckRecord
  <2>2. ~check[c].overtaken => check[c].age <= ProbeTicks
    BY <1>1 DEF HealthInv, AgeInv, Waiting
  <2> QED BY <1>1, <2>1, <2>2, Ticks
<1>4. r \in CheckRecord /\ r.at = "done" /\ (r.overtaken <=> check[c].overtaken)
  BY <1>2 DEF IdleCheck, CheckRecord
<1> HIDE DEF r
<1> QED BY <1>1, <1>3, <1>4, DropKeeps

\* Time passes: nothing due means that whoever waits has a probe ahead of him that
\* still has time.
LEMMA TickKeeps == ASSUME LifeInv, HealthInv, Tick PROVE HealthInv'
<1>1. /\ UNCHANGED <<phase, config, queue>> /\ HealthTick(ttl)
      /\ ~HealthDue(ttl, ProbeTarget(config))
  BY DEF Tick, HealthTick
<1>t. /\ check \in [Checks -> CheckRecord] /\ queue \in Seq(Checks)
      /\ cache \in [result : {"none", "up", "down", "not_probed"}, age : Nat]
  BY DEF HealthInv, QueueInv
<1>2. ttl' = ttl
  BY <1>1 DEF ttl
<1>3. ASSUME NEW d \in Checks
      PROVE  /\ check'[d] \in CheckRecord
             /\ check'[d].at = check[d].at /\ check'[d].answer = check[d].answer
             /\ check'[d].overtaken <=> check[d].overtaken
             /\ check[d].age \in Nat /\ check[d].probe \in Nat
             /\ check[d].at = "queued" =>
                  check'[d].age = check[d].age + 1 /\ check'[d].probe = check[d].probe
             /\ check[d].at = "probing" =>
                  check'[d].age = check[d].age + 1 /\ check'[d].probe = check[d].probe + 1
  <2>1. check'[d] = IF ~Waiting(d) THEN check[d]
                    ELSE [check[d] EXCEPT !.age = @ + 1,
                            !.probe = IF check[d].at = "probing" THEN @ + 1 ELSE @]
    BY <1>1 DEF HealthTick
  <2>2. check[d] \in CheckRecord
    BY <1>t
  <2>3. CASE ~Waiting(d)
    BY <2>1, <2>2, <2>3 DEF Waiting, CheckRecord
  <2>4. CASE check[d].at = "queued"
    <3>1. check'[d] = [check[d] EXCEPT !.age = @ + 1, !.probe = @]
      BY <2>1, <2>4 DEF Waiting
    <3>2. check[d].age + 1 \in Nat /\ check[d].probe \in Nat /\ check[d].probe + 1 \in Nat
      BY <2>2 DEF CheckRecord
    <3>3. check'[d].overtaken = check[d].overtaken
      BY <2>2, <3>1 DEF CheckRecord
    <3>4. check'[d].age = check[d].age + 1 /\ check'[d].at = check[d].at
          /\ check'[d].answer = check[d].answer
      BY <2>2, <3>1 DEF CheckRecord
    <3>5. check'[d].probe = check[d].probe
      BY <2>2, <3>1 DEF CheckRecord
    <3>6. check'[d] \in CheckRecord
      BY <2>2, <3>1, <3>2 DEF CheckRecord
    <3> QED BY <2>2, <2>4, <3>2, <3>3, <3>4, <3>5, <3>6 DEF CheckRecord
  <2>5. CASE check[d].at = "probing"
    <3>1. check'[d] = [check[d] EXCEPT !.age = @ + 1, !.probe = @ + 1]
      BY <2>1, <2>5 DEF Waiting
    <3>2. check[d].age + 1 \in Nat /\ check[d].probe \in Nat /\ check[d].probe + 1 \in Nat
      BY <2>2 DEF CheckRecord
    <3>3. check'[d].overtaken = check[d].overtaken
      BY <2>2, <3>1 DEF CheckRecord
    <3>4. check'[d].age = check[d].age + 1 /\ check'[d].at = check[d].at
          /\ check'[d].answer = check[d].answer
      BY <2>2, <3>1 DEF CheckRecord
    <3>5. check'[d].probe = check[d].probe + 1
      BY <2>2, <3>1 DEF CheckRecord
    <3>6. check'[d] \in CheckRecord
      BY <2>2, <3>1, <3>2 DEF CheckRecord
    <3> QED BY <2>2, <2>5, <3>2, <3>3, <3>4, <3>5, <3>6 DEF CheckRecord
  <2> QED BY <2>3, <2>4, <2>5 DEF Waiting
<1>4. cache' \in [result : {"none", "up", "down", "not_probed"}, age : Nat]
  <2>1. cache' = cache \/ cache' = [cache EXCEPT !.age = @ + 1]
    BY <1>1 DEF HealthTick
  <2>2. cache.age + 1 \in Nat
    BY <1>t
  <2> QED BY <1>t, <2>1, <2>2
<1>5. QueueInv'
  <2>1. check' \in [Checks -> CheckRecord]
    <3>1. check' = [c \in Checks |-> check'[c]]
      BY <1>1 DEF HealthTick
    <3> QED BY <1>3, <3>1
  <2> QED BY <1>1, <1>3, <1>4, <2>1 DEF HealthInv, QueueInv
<1>6. LockInv'
  BY <1>1, <1>2, <1>3 DEF HealthInv, LockInv, Waiting
<1>7. \A p \in Checks : check[p].at = "probing" => check[p].probe < ProbeTicks
  <2> SUFFICES ASSUME NEW p \in Checks, check[p].at = "probing" PROVE check[p].probe < ProbeTicks
    OBVIOUS
  <2>1. ~(check[p].probe * TICK >= PROBE_TIMEOUT)
    BY <1>1 DEF HealthDue
  <2> QED BY <1>3, <2>1, Ticks
<1>8. ASSUME NEW d \in Checks, check[d].at = "queued"
      PROVE  \E p \in Checks : check[p].at = "probing"
  <2>1. queue # <<>>
    BY <1>8 DEF HealthInv, QueueInv
  <2>2. ~LockFree
    BY <1>1, <2>1 DEF HealthDue
  <2> QED BY <2>2 DEF LockFree
<1>9. AgeInv'
  <2> SUFFICES ASSUME NEW d \in Checks
               PROVE  AgeInv!(d)'
    BY DEF AgeInv
  <2>1. CASE check[d].at = "probing"
    <3>1. /\ ~check[d].overtaken => check[d].age = check[d].probe
          /\ check[d].answer = "504" => check[d].overtaken
      BY <2>1 DEF HealthInv, AgeInv
    <3> QED BY <1>3, <1>7, <2>1, <3>1, Ticks
  <2>2. CASE check[d].at = "queued"
    <3>1. PICK p \in Checks : check[p].at = "probing"
      BY <1>8, <2>2
    <3>2. ~LockFree'
      BY <1>3, <3>1 DEF LockFree
    <3>3. /\ check[d].probe = 0
          /\ ~check[d].overtaken =>
               \A q \in Checks : check[q].at = "probing" => check[d].age <= check[q].probe
          /\ check[d].answer = "504" => check[d].overtaken
      BY <2>2 DEF HealthInv, AgeInv
    <3>4. ~check[d].overtaken => check'[d].age <= ProbeTicks
      BY <1>3, <1>7, <2>2, <3>1, <3>3, Ticks
    <3>5. ~check[d].overtaken =>
            \A q \in Checks : check'[q].at = "probing" => check'[d].age <= check'[q].probe
      BY <1>3, <2>2, <3>3
    <3> QED BY <1>3, <2>2, <3>2, <3>3, <3>4, <3>5
  <2>3. CASE check[d].at \notin {"probing", "queued"}
    <3>1. check[d].answer = "504" => check[d].overtaken
      BY DEF HealthInv, AgeInv
    <3> QED BY <1>3, <2>3, <3>1
  <2> QED BY <2>1, <2>2, <2>3
<1> QED BY <1>5, <1>6, <1>9 DEF HealthInv

\* With the process ends every wait.
LEMMA CutKeeps ==
    ASSUME HealthInv, Cut
    PROVE  /\ HealthInv'
           /\ \A c \in Checks :
                ~Waiting(c)' /\ (check'[c].at = "cut" => check[c].at = "cut" \/ Waiting(c))
<1>t. /\ check \in [Checks -> CheckRecord] /\ cache' = cache /\ queue' = <<>>
  BY DEF HealthInv, QueueInv, Cut
<1>1. ASSUME NEW d \in Checks
      PROVE  /\ check'[d] \in CheckRecord /\ check'[d].at \notin {"queued", "probing"}
             /\ check'[d].answer = check[d].answer
             /\ check'[d].overtaken <=> check[d].overtaken
             /\ check'[d].at = "cut" => check[d].at = "cut" \/ Waiting(d)
  <2>1. check'[d] = IF Waiting(d) THEN [check[d] EXCEPT !.at = "cut"] ELSE check[d]
    BY DEF Cut
  <2>2. check[d] \in CheckRecord
    BY <1>t
  <2>3. CASE Waiting(d)
    <3>1. check'[d] = [check[d] EXCEPT !.at = "cut"]
      BY <2>1, <2>3
    <3> QED BY <2>2, <2>3, <3>1 DEF CheckRecord
  <2>4. CASE ~Waiting(d)
    BY <2>1, <2>2, <2>4 DEF Waiting
  <2> QED BY <2>3, <2>4
<1>2. check' \in [Checks -> CheckRecord]
  <2>1. check' = [c \in Checks |-> check'[c]]
    BY DEF Cut
  <2> QED BY <1>1, <2>1
<1>3. /\ <<>> \in Seq(Checks) /\ DOMAIN <<>> = {}
  OBVIOUS
<1>4. QueueInv'
  BY <1>1, <1>2, <1>3, <1>t DEF HealthInv, QueueInv
<1>5. LockInv'
  BY <1>1 DEF LockInv, Waiting
<1>6. AgeInv'
  BY <1>1 DEF HealthInv, AgeInv
<1> QED BY <1>1, <1>4, <1>5, <1>6 DEF HealthInv, Waiting

LEMMA HealthStays == LifeInv /\ HealthInv /\ [Next]_serverVars => HealthInv'
<1> SUFFICES ASSUME LifeInv, HealthInv, [Next]_serverVars PROVE HealthInv'
  OBVIOUS
<1>k. ASSUME UNCHANGED <<healthVars, config>>, phase \in Live => phase' \in Live
      PROVE  HealthInv'
  <2>1. UNCHANGED <<check, queue, cache, config>>
    BY <1>k DEF healthVars
  <2>2. ttl' = ttl /\ (CacheValid(ttl)' <=> CacheValid(ttl)) /\ (LockFree' <=> LockFree)
    BY <2>1 DEF ttl, CacheValid, LockFree
  <2>3. QueueInv'
    BY <2>1 DEF HealthInv, QueueInv
  <2>4. LockInv'
    BY <1>k, <2>1, <2>2 DEF HealthInv, LockInv, Waiting
  <2>5. AgeInv'
    BY <2>1, <2>2 DEF HealthInv, AgeInv
  <2> QED BY <2>3, <2>4, <2>5 DEF HealthInv
<1>1. CASE PrintConfig \/ Launch
  <2>1. phase = "down" /\ UNCHANGED <<check, queue, cache>>
    BY <1>1, Resolutions, ResolutionResolves DEF healthVars
  <2>2. \A c \in Checks : check[c].at \notin {"queued", "probing"}
    BY <2>1 DEF HealthInv, LockInv, Waiting, Live
  <2>3. QueueInv'
    BY <2>1 DEF HealthInv, QueueInv
  <2>4. LockInv'
    BY <2>1, <2>2 DEF LockInv, Waiting
  <2>5. AgeInv'
    BY <2>1, <2>2 DEF HealthInv, AgeInv
  <2> QED BY <2>3, <2>4, <2>5 DEF HealthInv
<1>2. CASE Restart
  <2>1. /\ check' = [c \in Checks |-> IdleCheck] /\ queue' = <<>> /\ cache' = EmptyCache
    BY <1>2 DEF Restart
  <2>2. /\ check' \in [Checks -> CheckRecord]
        /\ \A c \in Checks : check'[c].at = "idle" /\ check'[c].answer = "none"
    BY <2>1, IdleFacts
  <2>3. <<>> \in Seq(Checks) /\ DOMAIN <<>> = {}
        /\ cache' \in [result : {"none", "up", "down", "not_probed"}, age : Nat]
    BY <2>1 DEF EmptyCache
  <2>4. QueueInv'
    BY <2>1, <2>2, <2>3 DEF QueueInv
  <2>5. LockInv'
    BY <2>2 DEF LockInv, Waiting
  <2>6. AgeInv'
    BY <2>2 DEF AgeInv
  <2> QED BY <2>4, <2>5, <2>6 DEF HealthInv
<1>3. CASE UNCHANGED serverVars
  BY <1>3, <1>k DEF serverVars, lifeVars
<1>4. ASSUME NEW c \in Checks, Readyz(c) \/ Grant(c) \/ Probe(c) \/ Expire(c) \/ Leave(c)
      PROVE  HealthInv'
  BY <1>4, ReadyzKeeps, GrantKeeps, ProbeKeeps, ExpireKeeps, LeaveKeeps
<1>5. ASSUME NEW route \in Routes, NEW host \in Hosts, NEW credential \in Credentials,
             Arrive(route, host, credential)
      PROVE  HealthInv'
  <2>1. UNCHANGED <<healthVars, config, phase>>
    BY <1>5, Zenon DEF Arrive, RequestStep, lifeVars
  <2> QED BY <1>k, <2>1
<1>6. CASE \/ RateLimitLayer \/ BearerLayer \/ HostLayer \/ CredentialLayer \/ ReachHandler
           \/ HandlerEnds \/ CallerGone
  <2>1. UNCHANGED <<healthVars, config, phase>>
    BY <1>6, Zenon DEF RateLimitLayer, BearerLayer, HostLayer, CredentialLayer, ReachHandler,
                       HandlerEnds, CallerGone, RequestStep, lifeVars
  <2> QED BY <1>k, <2>1
<1>7. CASE SweepStarts \/ SweepEnds
  <2>1. UNCHANGED <<healthVars, config, phase>>
    BY <1>7, Zenon DEF SweepStarts, SweepEnds, lifeVars
  <2> QED BY <1>k, <2>1
<1>8. CASE Start \/ DrainEnds
  <2>1. UNCHANGED <<healthVars, config>> /\ (phase \in Live => phase' \in Live)
    BY <1>8 DEF Start, DrainEnds, Live
  <2> QED BY <1>k, <2>1
<1>9. CASE Signal
  <2>1. \/ UNCHANGED <<healthVars, config>> /\ phase' = "draining"
        \/ Cut
    BY <1>9 DEF Signal
  <2> QED BY <1>k, <2>1, CutKeeps DEF Live
<1>10. CASE StdinCloses \/ Exit
  BY <1>10, CutKeeps DEF StdinCloses, Exit
<1>11. CASE Tick
  BY <1>11, TickKeeps
<1> QED BY <1>1, <1>2, <1>3, <1>4, <1>5, <1>6, <1>7, <1>8, <1>9, <1>10, <1>11, NextCases
           DEF Serves

------------------------------------------------------------------------------
(* Shutting down *)

\* What may still be in flight while the process stops, and what its end cuts off.
LEMMA CutsOnlyFlights ==
    ASSUME RequestInv, HealthInv, Cut
    PROVE  /\ req'.at \notin {"layers", "handler"} /\ ~InFlight'
           /\ req'.at = "cut" => req.at = "cut" \/ InFlight
           /\ (\E c \in Checks : check'[c].at = "cut")
                => InFlight \/ \E c \in Checks : check[c].at = "cut"
<1>1. /\ req'.at \notin {"layers", "handler"}
      /\ req'.at = "cut" => req.at = "cut" \/ req.at \in {"layers", "handler"}
  <2>1. [req EXCEPT !.at = "cut"].at = "cut"
    BY DEF RequestInv, RequestRecord
  <2> QED BY <2>1 DEF Cut
<1>2. \A c \in Checks : ~Waiting(c)' /\ (check'[c].at = "cut" => check[c].at = "cut" \/ Waiting(c))
  BY CutKeeps
<1> QED BY <1>1, <1>2 DEF InFlight

LEMMA ShutdownStays ==
    LifeInv /\ RequestInv /\ HealthInv /\ ShutdownInv /\ [Next]_serverVars => ShutdownInv'
<1> SUFFICES ASSUME LifeInv, RequestInv, HealthInv, ShutdownInv, [Next]_serverVars
             PROVE  ShutdownInv'
  OBVIOUS
<1>s. since \in Nat /\ stopping \in Nat /\ DrainTicks \in Nat
  BY Ticks DEF ShutdownInv
<1>k. ASSUME UNCHANGED <<phase, config, since, stopping>>, phase \notin Early,
             phase = "stopping" => (InFlight' => InFlight),
             req'.at = "cut" => req.at = "cut",
             \A c \in Checks : check'[c].at = "cut" => check[c].at = "cut"
      PROVE  ShutdownInv'
  BY <1>k DEF ShutdownInv
<1>1. CASE PrintConfig \/ Launch
  <2>1. /\ phase = "down" /\ UNCHANGED <<req, since, stopping, check>>
        /\ phase' \in {"printed", "starting", "refused"}
    BY <1>1, Resolutions, ResolutionResolves DEF healthVars
  <2>2. phase \in Early /\ phase' \in Early
    BY <2>1 DEF Early
  <2>3. IdleRequest.at = "idle"
    BY DEF IdleRequest
  <2>4. req'.at # "cut" /\ \A c \in Checks : check'[c].at = "idle"
    BY <2>1, <2>2, <2>3 DEF RequestInv, ShutdownInv
  <2>5. since = 0 /\ stopping = 0
    BY <2>2 DEF ShutdownInv
  <2> QED BY <1>s, <2>1, <2>2, <2>4, <2>5 DEF ShutdownInv
<1>2. CASE Restart
  <2>1. /\ phase' = "down" /\ since' = 0 /\ stopping' = 0 /\ req' = IdleRequest
        /\ check' = [c \in Checks |-> IdleCheck]
    BY <1>2 DEF Restart
  <2>2. req'.at = "idle" /\ \A c \in Checks : check'[c].at = "idle"
    BY <2>1, IdleFacts DEF IdleRequest
  <2> QED BY <1>s, <2>1, <2>2 DEF ShutdownInv
<1>3. CASE UNCHANGED serverVars
  <2>1. UNCHANGED <<phase, config, since, stopping, req, check>>
    BY <1>3 DEF serverVars, lifeVars, healthVars
  <2>2. InFlight' <=> InFlight
    BY <2>1 DEF InFlight, Waiting
  <2> QED BY <2>1, <2>2 DEF ShutdownInv
<1>4. CASE Start
  <2>1. /\ phase = "starting" /\ phase' \in {"exited", "serving", "stopping"}
        /\ UNCHANGED <<config, since, stopping, req, check>>
    BY <1>4 DEF Start, healthVars
  <2>2. phase \in Early
    BY <2>1 DEF Early
  <2>3. IdleRequest.at = "idle"
    BY DEF IdleRequest
  <2>4. req'.at = "idle" /\ \A c \in Checks : check'[c].at = "idle"
    BY <2>1, <2>2, <2>3 DEF RequestInv, ShutdownInv
  <2>5. since = 0 /\ stopping = 0 /\ ~InFlight'
    BY <2>2, <2>4 DEF ShutdownInv, InFlight, Waiting
  <2>6. phase' \notin Early
    BY <2>1 DEF Early
  <2> QED BY <1>s, <2>1, <2>4, <2>5, <2>6 DEF ShutdownInv
<1>5. ASSUME NEW route \in Routes, NEW host \in Hosts, NEW credential \in Credentials,
             Arrive(route, host, credential)
      PROVE  ShutdownInv'
  <2>1. UNCHANGED <<phase, config, since, stopping, check>> /\ phase = "serving"
    BY <1>5, Zenon DEF Arrive, RequestStep, lifeVars, healthVars
  <2>2. req'.at # "cut"
    <3> DEFINE arrived == [IdleRequest EXCEPT !.route = route, !.host = host,
                                              !.credential = credential]
    <3>1. \/ req' = [arrived EXCEPT !.at = "layers", !.left = <<"credential">>]
          \/ req' = [arrived EXCEPT !.at = "done", !.answer = "404"]
          \/ req' = [arrived EXCEPT !.at = "layers", !.left = Layers(config, route)]
      BY <1>5, Zenon DEF Arrive
    <3>2. DOMAIN arrived = {"at", "route", "host", "credential", "left", "acts", "answer"}
      BY DEF IdleRequest
    <3> HIDE DEF arrived
    <3> QED BY <3>1, <3>2
  <2>3. phase \notin Early
    BY <2>1 DEF Early
  <2> QED BY <1>k, <2>1, <2>2, <2>3
<1>6. CASE \/ RateLimitLayer \/ BearerLayer \/ HostLayer \/ CredentialLayer \/ ReachHandler
           \/ HandlerEnds \/ CallerGone
  <2>1. UNCHANGED <<phase, config, since, stopping, check>>
    BY <1>6, Zenon DEF RateLimitLayer, BearerLayer, HostLayer, CredentialLayer, ReachHandler,
                       HandlerEnds, CallerGone, RequestStep, lifeVars, healthVars
  <2>2. req.at \in {"layers", "handler"}
    BY <1>6 DEF RateLimitLayer, BearerLayer, HostLayer, CredentialLayer, ReachHandler,
                HandlerEnds, CallerGone, AtLayer
  <2>3. req \in RequestRecord
    BY DEF RequestInv
  <2>4. req'.at # "cut"
    <3>1. ASSUME NEW code, Reply(code) PROVE req'.at # "cut"
      BY <2>3, <3>1 DEF Reply, RequestRecord
    <3>2. ASSUME Passes PROVE req'.at # "cut"
      BY <2>2, <2>3, <3>2 DEF Passes, RequestRecord
    <3>3. CASE RateLimitLayer
      BY <3>1, <3>2, <3>3 DEF RateLimitLayer
    <3>4. CASE BearerLayer
      <4>1. Reply("401") \/ \E verdict :
              req' = [req EXCEPT !.acts = @ \cup {"introspect"},
                                 !.at = IF verdict = "pass" THEN @ ELSE "done",
                                 !.answer = IF verdict = "pass" THEN @ ELSE verdict,
                                 !.left = IF verdict = "pass" THEN Tail(@) ELSE <<>>]
        BY <3>4, Zenon DEF BearerLayer
      <4> QED BY <2>2, <2>3, <3>1, <4>1 DEF RequestRecord
    <3>5. CASE HostLayer
      <4>1. Passes \/ \E code : Reply(code)
        BY <3>5, Zenon DEF HostLayer
      <4> QED BY <3>1, <3>2, <4>1
    <3>6. CASE CredentialLayer
      <4>1. Reply("refused")
            \/ req' = [req EXCEPT !.left = Tail(@), !.acts = @ \cup scoped(config, req.credential)]
        BY <3>6, Zenon DEF CredentialLayer
      <4> QED BY <2>2, <2>3, <3>1, <4>1 DEF RequestRecord
    <3>7. CASE ReachHandler
      BY <2>3, <3>7 DEF ReachHandler, RequestRecord
    <3>8. CASE HandlerEnds
      BY <3>1, <3>8 DEF HandlerEnds
    <3>9. CASE CallerGone
      BY <3>9 DEF CallerGone, IdleRequest
    <3> QED BY <1>6, <3>3, <3>4, <3>5, <3>6, <3>7, <3>8, <3>9
  <2>5. InFlight
    BY <2>2 DEF InFlight
  <2>6. phase \notin Early
    BY <2>2 DEF RequestInv, Live, Early
  <2> QED BY <1>k, <2>1, <2>4, <2>5, <2>6
<1>7. ASSUME NEW c \in Checks, Readyz(c) \/ Grant(c) \/ Probe(c) \/ Expire(c) \/ Leave(c)
      PROVE  ShutdownInv'
  <2>1. UNCHANGED <<phase, config, since, stopping, req>>
    BY <1>7, Zenon DEF Readyz, Grant, Probe, Expire, Leave, HealthStep, lifeVars
  <2>2. \/ Serving
        \/ Waiting(c) /\ (Grant(c) \/ Probe(c) \/ Expire(c) \/ Leave(c))
    <3>1. Grant(c) => Waiting(c)
      <4> SUFFICES ASSUME Grant(c) PROVE Waiting(c)
        OBVIOUS
      <4>1. queue # <<>> /\ c = Head(queue) /\ queue \in Seq(Checks)
        BY DEF Grant, LockGranted, HealthInv, QueueInv
      <4>2. 1 \in DOMAIN queue /\ queue[1] = c
        BY <4>1
      <4> QED BY <4>2 DEF HealthInv, QueueInv, Waiting
    <3>2. Probe(c) \/ Expire(c) \/ Leave(c) => Waiting(c)
      BY DEF Probe, run_probe, Expire, RequestTimesOut, Leave, ClientGone, Waiting
    <3>3. Readyz(c) => Serving
      BY DEF Readyz
    <3> QED BY <1>7, <3>1, <3>2, <3>3
  <2>3. phase \notin Early
    BY <2>2 DEF Serving, HealthInv, LockInv, Live, Early
  <2>4. phase = "stopping" => InFlight
    BY <2>2 DEF Serving, InFlight
  <2>5. \A d \in Checks : check'[d].at = "cut" => check[d].at = "cut"
    <3>t. check \in [Checks -> CheckRecord] /\ IdleCheck \in CheckRecord /\ IdleCheck.at = "idle"
      BY IdleFacts DEF HealthInv, QueueInv
    <3>1. CASE Readyz(c)
      <4>1. PICK at \in {"queued", "probing"} :
              check' = [check EXCEPT ![c] = [IdleCheck EXCEPT !.at = at]]
        BY <3>1 DEF Readyz, readyz
      <4> QED BY <3>t, <4>1 DEF CheckRecord
    <3>2. ASSUME NEW result, check' = Answered(c, result)
          PROVE  \A d \in Checks : check'[d].at = "cut" => check[d].at = "cut"
      BY <3>2, <3>t DEF Answered, CheckRecord
    <3>3. CASE Grant(c)
      <4>1. \/ \E result : check' = Answered(c, result)
            \/ check' = [check EXCEPT ![c].at = "probing"]
        BY <3>3, Zenon DEF Grant, LockGranted, WithLock
      <4> QED BY <3>2, <3>t, <4>1 DEF CheckRecord
    <3>4. CASE Probe(c)
      <4>1. \E result : check' = Answered(c, result)
        BY <3>4, Zenon DEF Probe, run_probe
      <4> QED BY <3>2, <4>1
    <3>5. CASE Expire(c) \/ Leave(c)
      <4>1. PICK r : check' = [Overtaken(c) EXCEPT ![c] = r] /\ r.at # "cut"
        <5>1. /\ IdleCheck.at # "cut"
              /\ [IdleCheck EXCEPT !.at = "done", !.answer = "504",
                                   !.overtaken = check[c].overtaken].at # "cut"
          BY DEF IdleCheck
        <5> QED BY <3>5, <5>1, Zenon DEF Expire, RequestTimesOut, Leave, ClientGone
      <4>2. ASSUME NEW d \in Checks PROVE Overtaken(c)[d].at = check[d].at
        <5> DEFINE over == check[d].overtaken \/ (check[c].at = "probing" /\ check[d].at = "queued")
        <5>1. Overtaken(c)[d] = [check[d] EXCEPT !.overtaken = over]
          BY Zenon DEF Overtaken
        <5> HIDE DEF over
        <5> QED BY <3>t, <5>1 DEF CheckRecord
      <4>3. DOMAIN Overtaken(c) = Checks
        BY DEF Overtaken
      <4> QED BY <4>1, <4>2, <4>3
    <3> QED BY <1>7, <3>1, <3>3, <3>4, <3>5
  <2> QED BY <1>k, <2>1, <2>3, <2>4, <2>5
<1>8. CASE SweepStarts \/ SweepEnds
  <2>1. UNCHANGED <<phase, config, since, stopping, req, check>>
    BY <1>8, Zenon DEF SweepStarts, SweepEnds, lifeVars, healthVars
  <2>2. InFlight' <=> InFlight
    BY <2>1 DEF InFlight, Waiting
  <2> QED BY <2>1, <2>2 DEF ShutdownInv
<1>9. CASE Signal
  <2>1. phase = "serving" /\ UNCHANGED <<config, since, stopping>>
    BY <1>9 DEF Signal
  <2>2. since = 0 /\ stopping = 0
    BY <2>1 DEF ShutdownInv
  <2>3. CASE config.transport = "http"
    <3>1. phase' = "draining" /\ UNCHANGED <<req, check>>
      BY <1>9, <2>3 DEF Signal, healthVars
    <3>2. phase' \notin Early \cup {"serving"}
      BY <3>1 DEF Early
    <3> QED BY <1>s, <2>1, <2>2, <3>1, <3>2 DEF ShutdownInv
  <2>4. CASE config.transport # "http"
    <3>1. phase' = "exited"
      BY <1>9, <2>4 DEF Signal
    <3>2. phase' \notin Early \cup {"serving"}
      BY <3>1 DEF Early
    <3> QED BY <1>s, <2>1, <2>2, <2>4, <3>1, <3>2 DEF ShutdownInv
  <2> QED BY <2>3, <2>4
<1>10. CASE StdinCloses
  <2>1. /\ phase = "serving" /\ config.transport = "stdio" /\ phase' = "stopping"
        /\ UNCHANGED <<config, since, stopping>>
    BY <1>10 DEF StdinCloses
  <2>2. since = 0 /\ stopping = 0
    BY <2>1 DEF ShutdownInv
  <2>3. phase' \notin Early \cup {"serving"}
    BY <2>1 DEF Early
  <2> QED BY <1>s, <2>1, <2>2, <2>3 DEF ShutdownInv
<1>11. CASE DrainEnds
  <2>1. /\ phase = "draining" /\ phase' = "stopping" /\ (~InFlight \/ DrainDue)
        /\ UNCHANGED <<config, since, stopping, req, check>>
    BY <1>11 DEF DrainEnds, healthVars
  <2>2. since <= DrainTicks /\ stopping = 0
    BY <2>1 DEF ShutdownInv
  <2>3. InFlight' => since >= DrainTicks
    <3>1. InFlight' => InFlight
      BY <2>1 DEF InFlight, Waiting
    <3>2. DrainDue => since >= DrainTicks
      BY <1>s, Ticks DEF DrainDue
    <3> QED BY <2>1, <3>1, <3>2
  <2>4. phase' \notin Early \cup {"serving"}
    BY <2>1 DEF Early
  <2> QED BY <1>s, <2>1, <2>2, <2>3, <2>4 DEF ShutdownInv
<1>12. CASE Exit
  <2>1. /\ phase = "stopping" /\ phase' = "exited" /\ Cut
        /\ UNCHANGED <<config, since, stopping>>
    BY <1>12 DEF Exit
  <2>2. config.transport = "http" /\ (req'.at = "cut" \/ \E c \in Checks : check'[c].at = "cut")
          => since >= DrainTicks
    BY <2>1, CutsOnlyFlights DEF ShutdownInv
  <2>3. phase' \notin Early \cup {"serving"}
    BY <2>1 DEF Early
  <2> QED BY <1>s, <2>1, <2>2, <2>3 DEF ShutdownInv
<1>13. CASE Tick
  <2>1. /\ phase \in {"serving", "draining", "stopping"} /\ ~DrainDue /\ ~StopDue
        /\ since' = (IF phase \in {"draining", "stopping"} THEN since + 1 ELSE since)
        /\ stopping' = (IF phase = "stopping" THEN stopping + 1 ELSE stopping)
        /\ UNCHANGED <<phase, config, req>> /\ HealthTick(ttl)
    BY <1>13 DEF Tick
  <2>2. /\ phase = "draining" => since < DrainTicks
        /\ phase = "stopping" => stopping < DrainTicks
    BY <1>s, <2>1, Ticks DEF DrainDue, StopDue
  <2>3. ASSUME NEW c \in Checks PROVE check'[c].at = check[c].at
    <3>1. check[c] \in CheckRecord
      BY DEF HealthInv, QueueInv
    <3>2. PICK n : check'[c] = check[c] \/ check'[c] = [check[c] EXCEPT !.age = @ + 1, !.probe = n]
      BY <2>1 DEF HealthTick
    <3> QED BY <3>1, <3>2 DEF CheckRecord
  <2>4. InFlight' <=> InFlight
    BY <2>1, <2>3 DEF InFlight, Waiting
  <2>5. phase \notin Early
    BY <2>1 DEF Early
  <2> QED BY <1>s, <2>1, <2>2, <2>3, <2>4, <2>5 DEF ShutdownInv
<1> QED BY <1>1, <1>2, <1>3, <1>4, <1>5, <1>6, <1>7, <1>8, <1>9, <1>10, <1>11, <1>12, <1>13,
           NextCases
        DEF Serves

------------------------------------------------------------------------------
(* Theorems *)

ServerInv == LifeInv /\ RequestInv /\ HealthInv /\ ShutdownInv

LEMMA ServerInit == Init => ServerInv
<1> SUFFICES ASSUME Init PROVE ServerInv
  OBVIOUS
<1>1. /\ phase = "down" /\ req = IdleRequest /\ sweeper = "none" /\ since = 0 /\ stopping = 0
      /\ check = [c \in Checks |-> IdleCheck] /\ queue = <<>> /\ cache = EmptyCache
  BY DEF Init, HealthInit
<1>2. LifeInv
  BY <1>1 DEF LifeInv, Early
<1>3. RequestInv
  <2>1. /\ IdleRequest.acts = {} /\ IdleRequest.left = <<>> /\ IdleRequest.at = "idle"
    BY DEF IdleRequest
  <2>2. IdleRequest \in RequestRecord
    BY DEF IdleRequest, RequestRecord, LeftOver, Credentials
  <2>3. <<>> \notin PastBearer
    BY DEF PastBearer
  <2> QED BY <1>1, <2>1, <2>2, <2>3 DEF RequestInv
<1>4. /\ check \in [Checks -> CheckRecord]
      /\ \A c \in Checks : check[c].at = "idle" /\ check[c].answer = "none"
  BY <1>1, IdleFacts
<1>5. HealthInv
  <2>1. <<>> \in Seq(Checks) /\ DOMAIN <<>> = {}
        /\ cache \in [result : {"none", "up", "down", "not_probed"}, age : Nat]
    BY <1>1 DEF EmptyCache
  <2>2. QueueInv
    BY <1>1, <1>4, <2>1 DEF QueueInv
  <2>3. LockInv
    BY <1>4 DEF LockInv, Waiting
  <2>4. AgeInv
    BY <1>4 DEF AgeInv
  <2> QED BY <2>2, <2>3, <2>4 DEF HealthInv
<1>6. ShutdownInv
  <2>1. IdleRequest.at = "idle"
    BY DEF IdleRequest
  <2> QED BY <1>1, <1>4, <2>1, Ticks DEF ShutdownInv
<1> QED BY <1>2, <1>3, <1>5, <1>6 DEF ServerInv

LEMMA ServerInvariant == Spec => []ServerInv
<1>1. ServerInv /\ [Next]_serverVars => ServerInv'
  BY LifeStep, RequestStays, HealthStays, ShutdownStays DEF ServerInv
<1> QED BY <1>1, ServerInit, PTL DEF Spec

\* The process and its configuration are well formed: whatever environment it is
\* given, what from_map lets pass has the numbers the other modules assume.
THEOREM ServerTypes == Spec => []TypeOK
<1>1. ServerInv => TypeOK
  <2> SUFFICES ASSUME ServerInv PROVE TypeOK
    OBVIOUS
  <2>1. /\ phase \in {"down", "printed", "refused", "starting", "serving", "draining",
                      "stopping", "exited"}
        /\ sweeper \in {"none", "waiting", "sweeping"}
    BY DEF ServerInv, LifeInv, Early, Live, Over
  <2>2. req.at \in {"idle", "layers", "handler", "done", "cut"}
    BY DEF ServerInv, RequestInv, RequestRecord
  <2>3. since \in Nat /\ stopping \in Nat
    BY DEF ServerInv, ShutdownInv
  <2>4. HealthTypeOK
    <3>1. ToSet(queue) = {c \in Checks : check[c].at = "queued"}
      <4>1. \A c : c \in ToSet(queue) <=> \E i \in DOMAIN queue : queue[i] = c
        BY DEF ToSet
      <4>2. \A i \in DOMAIN queue : queue[i] \in Checks
        BY DEF ServerInv, HealthInv, QueueInv
      <4> QED BY <4>1, <4>2 DEF ServerInv, HealthInv, QueueInv
    <3> QED BY <3>1 DEF ServerInv, HealthInv, QueueInv, HealthTypeOK, CheckRecord
  <2>5. ASSUME Accepted
        PROVE  /\ config.mode \in AuthModes
               /\ config.attachments.store_max >= config.attachments.max_download
               /\ config.attachments.max_download >= 1
               /\ config.mode \in BearerModes =>
                    config.oauth.token_cache_ttl \in 0..MAX_OAUTH_TOKEN_CACHE_TTL_SECONDS
    <3>1. Resolved(vars, config)
      BY <2>5, AcceptedIsResolved DEF ServerInv
    <3> QED BY <3>1, ResolvedFacts
  <2>6. ASSUME AcceptedHttp
        PROVE  LET limit == config.http.rate_limit IN
               /\ limit.standard_burst >= limit.standard_rps /\ limit.standard_rps >= 1
               /\ limit.strict_burst >= limit.strict_rps /\ limit.strict_rps >= 1
               /\ limit.max_keys >= 1
               /\ config.http.health_ttl \in 0..MAX_HEALTH_TTL_SECONDS
               /\ config.http.bind.port \in 1..MAX_PORT
    <3>1. Resolved(vars, config) /\ config.transport = "http"
      BY <2>6, AcceptedIsResolved DEF ServerInv, AcceptedHttp
    <3>2. config.http = HttpConfig(vars) /\ HttpFacts(vars)
      BY <3>1, ResolvedFacts
    <3>3. HttpConfig(vars).rate_limit = RateLimit(vars) /\ HttpConfig(vars).bind = Bind(vars)
      BY DEF HttpConfig
    <3>4. config.http.rate_limit = RateLimit(vars) /\ config.http.bind = Bind(vars)
          /\ config.http.health_ttl = HttpConfig(vars).health_ttl
      BY <3>2, <3>3
    <3> QED BY <3>2, <3>4 DEF HttpFacts
  <2> QED BY <2>1, <2>2, <2>3, <2>4, <2>5, <2>6 DEF TypeOK
<1> QED BY <1>1, ServerInvariant, PTL

\* A tool call acts as whom the operator meant, whatever the environment, the hosts
\* and the credentials: the server's key only in legacy mode and on a network only
\* where that was accepted, and a caller's token only after it was verified.
THEOREM CallsActAsIntended == Spec => []ActsAsIntended
<1>1. ServerInv => ActsAsIntended
  BY ActsHold DEF ServerInv
<1> QED BY <1>1, ServerInvariant, PTL

\* A link of a server with a derived allowlist passes its own Host check.
THEOREM LinksWork == Spec => []LinksAreServed
<1>1. ServerInv => LinksAreServed
  BY LinksHold DEF ServerInv
<1> QED BY <1>1, ServerInvariant, PTL

\* The discovery documents of every accepted configuration tell the truth.
THEOREM DocumentsAreTrue == Spec => []DocumentsAreServed
<1>1. ServerInv => DocumentsAreServed
  BY DocumentsHold DEF ServerInv
<1> QED BY <1>1, ServerInvariant, PTL

\* A token with every advertised scope may make every call the server serves, for every
\* accepted configuration that does not narrow the catalogue.
THEOREM AdvertisingSuffices == Spec => []AdvertisedSuffices
<1>1. ServerInv => AdvertisedSuffices
  BY AdvertisedHold DEF ServerInv
<1> QED BY <1>1, ServerInvariant, PTL

\* However many checks arrive and leave, one is turned away with 504 only if one that
\* probed ahead of it was dropped.
THEOREM ChecksAreExplained == Spec => []TimeoutsExplained
<1>1. ServerInv => TimeoutsExplained
  BY DEF ServerInv, HealthInv, AgeInv, TimeoutsExplained
<1> QED BY <1>1, ServerInvariant, PTL

\* Requests over HTTP have the whole drain timeout, and the process ends within twice
\* that time after the signal.
THEOREM ShutdownIsTimely == Spec => []ShutdownKeepsItsTimes
<1>1. ServerInv => ShutdownKeepsItsTimes
  <2> SUFFICES ASSUME ServerInv PROVE ShutdownKeepsItsTimes
    OBVIOUS
  <2>1. /\ since \in Nat /\ since <= DrainTicks + DrainTicks
        /\ config.transport = "http" /\ (req.at = "cut" \/ \E c \in Checks : check[c].at = "cut")
             => since >= DrainTicks
    BY DEF ServerInv, ShutdownInv
  <2> QED BY <2>1, Ticks DEF ShutdownKeepsItsTimes
<1> QED BY <1>1, ServerInvariant, PTL

=============================================================================
