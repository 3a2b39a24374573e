------------------------------- MODULE Server -------------------------------
(***************************************************************************)
(* main.rs: a process from its command line to its exit.  It reads its     *)
(* configuration (Config), prints it or serves with it, lets requests in   *)
(* through the layers of the router (HttpEdge), answers readiness checks   *)
(* (Health), and on a signal drains what is in flight, stops the           *)
(* attachment sweeper and exits.  A tool call in flight is one step here:  *)
(* what it does is ToolCall's.                                             *)
(***************************************************************************)
EXTENDS HttpEdge, Health

CONSTANTS
    Deployments,       \* [transport, vars, users]: environments a server is run with
    Settings,          \* one-variable changes to them, for --print-config
    Hosts,             \* Host headers that requests carry
    HTTP_DRAIN_TIMEOUT \* seconds

ASSUME ServerAssumption ==
    /\ HTTP_DRAIN_TIMEOUT \in Nat \ {0} /\ HTTP_DRAIN_TIMEOUT % TICK = 0
    /\ \A d \in Deployments : /\ d.users \subseteq {"calls", "polls"}
                               /\ d.transport \in {"stdio", "http"}
                               /\ IsEnvironment(d.vars)
    /\ \A s \in Settings : IsEnvironment(s)

VARIABLES
    phase,     \* of the process
    vars,      \* the environment it was started with
    config,    \* what it made of it
    users,     \* who uses this deployment: tool and file clients, readiness pollers
    req,       \* a request, its layers still to pass and whom it reached
    sweeper,   \* the attachment sweeper's task
    since,     \* ticks since the signal
    stopping   \* ticks in stop_sweeper

lifeVars == <<phase, vars, config, users, since, stopping>>
serverVars == <<lifeVars, req, sweeper, healthVars>>

NoConfig == [transport |-> "none", http |-> NoHttp]
IdleRequest ==
    [at |-> "idle", route |-> "none", host |-> At("none", 0), credential |-> "none",
     left |-> <<>>, acts |-> {}, answer |-> "none"]
NoVars == <<>>

Init ==
    /\ phase = "down" /\ vars = NoVars /\ config = NoConfig /\ users = {}
    /\ req = IdleRequest /\ sweeper = "none" /\ since = 0 /\ stopping = 0
    /\ HealthInit

ttl == config.http.health_ttl
Serving == phase = "serving" /\ config.transport = "http"
InFlight == req.at \in {"layers", "handler"} \/ \E c \in Checks : Waiting(c)

(***************************************************************************)
(* Starting.                                                               *)
(***************************************************************************)
\* Config::from_map: the first error ends the process.
Resolve(environment, transport, next) ==
    /\ vars' = environment
    /\ IF from_map(environment, transport) = <<>>
       THEN phase' = next /\ config' = ConfigOf(environment, transport)
       ELSE phase' = "refused" /\ UNCHANGED config
    /\ UNCHANGED <<req, sweeper, since, stopping, healthVars>>

With(changes, environment) ==
    [v \in DOMAIN changes \cup DOMAIN environment |->
        IF v \in DOMAIN changes THEN changes[v] ELSE environment[v]]
Without(environment, dropped) == [v \in DOMAIN environment \ dropped |-> environment[v]]

\* --print-config, with up to two variables changed or one unset.
PrintConfig ==
    /\ phase = "down"
    /\ \E d \in Deployments, transport \in {"stdio", "http"}, s \in Settings :
         \/ \E t \in Settings : Resolve(With(t, With(s, d.vars)), transport, "printed")
         \/ \E v \in DOMAIN d.vars : Resolve(With(s, Without(d.vars, {v})), transport, "printed")
    /\ UNCHANGED users

Launch ==
    /\ phase = "down"
    /\ \E d \in Deployments :
      Resolve(d.vars, d.transport, "starting") /\ users' = d.users

\* AttachmentStore::init fails and main returns, or the sweeper is spawned and
\* the transport starts; a bind that fails still stops the sweeper.
Start ==
    /\ phase = "starting"
    /\ \/ phase' = "exited" /\ UNCHANGED sweeper
       \/ /\ sweeper' = IF config.attachments.auto_cleanup THEN "waiting" ELSE "none"
          /\ phase' \in IF config.transport = "http" THEN {"serving", "stopping"} ELSE {"serving"}
    /\ UNCHANGED <<vars, config, users, req, since, stopping, healthVars>>

\* The supervisor starts the process again; nothing of the last one is left.
Restart ==
    /\ phase \in {"printed", "refused", "exited"}
    /\ phase' = "down" /\ vars' = NoVars /\ config' = NoConfig /\ users' = {}
    /\ req' = IdleRequest /\ sweeper' = "none" /\ since' = 0 /\ stopping' = 0
    /\ check' = [c \in Checks |-> IdleCheck] /\ queue' = <<>> /\ cache' = EmptyCache

(***************************************************************************)
(* Requests.                                                               *)
(***************************************************************************)
RequestStep == UNCHANGED <<lifeVars, sweeper, healthVars>>
Reply(code) == req' = [req EXCEPT !.at = "done", !.answer = code, !.left = <<>>]
Passes == req' = [req EXCEPT !.left = Tail(@)]

Arrive(route, host, credential) ==
    /\ phase = "serving" /\ "calls" \in users
    /\ req.at \in {"idle", "done"}
    /\ LET arrived == [IdleRequest EXCEPT !.route = route, !.host = host,
                                          !.credential = credential]
       IN  IF config.transport = "stdio"
           THEN /\ route = "mcp"
                /\ req' = [arrived EXCEPT !.at = "layers", !.left = <<"credential">>]
           ELSE IF route \notin Mounted(config)
                THEN req' = [arrived EXCEPT !.at = "done", !.answer = "404"]
                ELSE req' = [arrived EXCEPT !.at = "layers", !.left = Layers(config, route)]
    /\ RequestStep

AtLayer(layers) == req.at = "layers" /\ req.left # <<>> /\ Head(req.left) \in layers

\* rate_limit_standard and rate_limit_strict: RateLimiter decides.
RateLimitLayer ==
    /\ AtLayer({"standard", "strict"})
    /\ Passes \/ Reply("429")
    /\ RequestStep

\* require_bearer and require_proxy_bearer.
BearerLayer ==
    /\ AtLayer({"bearer"})
    /\ IF Introspects(config, req.credential)
       THEN \E verdict \in {"503", IF req.credential = "good" THEN "pass" ELSE "401"} :
              req' = [req EXCEPT !.acts = @ \cup {"introspect"},
                                 !.at = IF verdict = "pass" THEN @ ELSE "done",
                                 !.answer = IF verdict = "pass" THEN @ ELSE verdict,
                                 !.left = IF verdict = "pass" THEN Tail(@) ELSE <<>>]
       ELSE Reply("401")
    /\ RequestStep

HostLayer ==
    /\ AtLayer({"host"})
    /\ LET verdict == IF req.route = "files"
                      THEN validate_files_host(req.host, config.http.allowed_hosts)
                      ELSE IF rmcp_host_is_allowed(req.host, config.http.allowed_hosts)
                           THEN "pass" ELSE "403"
       IN  IF verdict = "pass" THEN Passes ELSE Reply(verdict)
    /\ RequestStep

\* RedmineMcp::scoped, the first thing every tool does.
CredentialLayer ==
    /\ AtLayer({"credential"})
    /\ LET who == scoped(config, req.credential)
       IN  IF who = {} THEN Reply("refused")
           ELSE req' = [req EXCEPT !.left = Tail(@), !.acts = @ \cup who]
    /\ RequestStep

ReachHandler ==
    /\ req.at = "layers" /\ req.left = <<>>
    /\ req' = [req EXCEPT !.at = "handler"]
    /\ RequestStep

HandlerEnds == req.at = "handler" /\ Reply("200") /\ RequestStep
CallerGone == req.at \in {"layers", "handler"} /\ req' = IdleRequest /\ RequestStep

(***************************************************************************)
(* Readiness checks.                                                       *)
(***************************************************************************)
HealthStep == UNCHANGED <<lifeVars, req, sweeper>>

Readyz(c) == Serving /\ "polls" \in users /\ readyz(c, ttl) /\ HealthStep
Grant(c)  == LockGranted(c, ttl) /\ HealthStep
Probe(c)  == run_probe(c, ttl, ProbeTarget(config)) /\ HealthStep
Expire(c) == RequestTimesOut(c) /\ HealthStep
Leave(c)  == ClientGone(c) /\ HealthStep

(***************************************************************************)
(* The sweeper, and shutting down.                                         *)
(***************************************************************************)
SweepStarts ==
    /\ sweeper = "waiting" /\ phase \in {"serving", "draining"}
    /\ sweeper' = "sweeping"
    /\ UNCHANGED <<lifeVars, req, healthVars>>
SweepEnds ==
    /\ sweeper = "sweeping"
    /\ sweeper' = "waiting"
    /\ UNCHANGED <<lifeVars, req, healthVars>>

\* What the end of the process does to requests in flight.
Cut ==
    /\ req' = IF req.at \in {"layers", "handler"} THEN [req EXCEPT !.at = "cut"] ELSE req
    /\ check' = [c \in Checks |-> IF Waiting(c) THEN [check[c] EXCEPT !.at = "cut"] ELSE check[c]]
    /\ queue' = <<>>
    /\ UNCHANGED cache

\* Mutant: the drain's token is also the one that aborts tool calls.
SignalAborts ==
    /\ Serving
    /\ phase' = "draining"
    /\ Cut
    /\ UNCHANGED <<vars, config, users, since, stopping, sweeper>>

\* SIGTERM or SIGINT: run_http cancels and drains, run_stdio exits at once.
Signal ==
    /\ phase = "serving"
    /\ IF config.transport = "http"
       THEN phase' = "draining" /\ UNCHANGED <<req, healthVars>>
       ELSE phase' = "exited" /\ Cut
    /\ UNCHANGED <<vars, config, users, since, stopping, sweeper>>

\* The client of a stdio server closes its end.
StdinCloses ==
    /\ phase = "serving" /\ config.transport = "stdio"
    /\ phase' = "stopping" /\ Cut
    /\ UNCHANGED <<vars, config, users, since, stopping, sweeper>>

DrainDue == phase = "draining" /\ since * TICK >= HTTP_DRAIN_TIMEOUT

\* axum has nothing left to serve, or the timeout passed: then the task is left
\* behind and its requests run on until the process ends.
DrainEnds ==
    /\ phase = "draining"
    /\ ~InFlight \/ DrainDue
    /\ phase' = "stopping"
    /\ UNCHANGED <<vars, config, users, since, stopping, req, sweeper, healthVars>>

StopDue == phase = "stopping" /\ stopping * TICK >= HTTP_DRAIN_TIMEOUT

\* stop_sweeper waits for a sweep to end, with a timeout of its own; main returns.
Exit ==
    /\ phase = "stopping"
    /\ sweeper # "sweeping" \/ StopDue
    /\ phase' = "exited"
    /\ Cut
    /\ sweeper' = "none"
    /\ UNCHANGED <<vars, config, users, since, stopping>>

\* Time passes when no deadline is due.
Tick ==
    /\ phase \in {"serving", "draining", "stopping"} /\ config.transport = "http"
    /\ ~DrainDue /\ ~StopDue /\ ~HealthDue(ttl, ProbeTarget(config))
    /\ HealthTick(ttl)
    /\ since' = IF phase \in {"draining", "stopping"} THEN since + 1 ELSE since
    /\ stopping' = IF phase = "stopping" THEN stopping + 1 ELSE stopping
    /\ UNCHANGED <<phase, vars, config, users, req, sweeper>>

-----------------------------------------------------------------------------
Next ==
    \/ PrintConfig \/ Launch \/ Start \/ Restart
    \/ \E route \in Routes, host \in Hosts, credential \in Credentials :
         Arrive(route, host, credential)
    \/ RateLimitLayer \/ BearerLayer \/ HostLayer \/ CredentialLayer \/ ReachHandler
    \/ HandlerEnds \/ CallerGone
    \/ \E c \in Checks : Readyz(c) \/ Grant(c) \/ Probe(c) \/ Expire(c) \/ Leave(c)
    \/ SweepStarts \/ SweepEnds
    \/ Signal \/ StdinCloses \/ DrainEnds \/ Exit
    \/ Tick

\* The runtime runs what is ready and its timers fire (a probe ends at its
\* timeout at the latest); clients, handlers and the file system owe nothing.
Fairness ==
    /\ \A c \in Checks : WF_serverVars(Grant(c)) /\ WF_serverVars(Probe(c))
                         /\ WF_serverVars(Expire(c))
    /\ WF_serverVars(DrainEnds) /\ WF_serverVars(Exit) /\ WF_serverVars(Tick)

Spec == Init /\ [][Next]_serverVars /\ Fairness

(***************************************************************************)
(* Properties.                                                             *)
(***************************************************************************)
Accepted == phase \in {"printed", "starting"}
AcceptedHttp == Accepted /\ config.transport = "http"

\* A process is in one phase with a request and checks to match, and the numbers
\* it serves with are those the other modules assume: a limiter whose burst covers
\* its rate, a store with room for one download, lifetimes within their bounds.
TypeOK ==
    /\ phase \in {"down", "printed", "refused", "starting", "serving", "draining",
                  "stopping", "exited"}
    /\ req.at \in {"idle", "layers", "handler", "done", "cut"}
    /\ sweeper \in {"none", "waiting", "sweeping"}
    /\ since \in Nat /\ stopping \in Nat
    /\ HealthTypeOK
    /\ Accepted =>
         /\ config.mode \in AuthModes
         /\ config.attachments.store_max >= config.attachments.max_download
         /\ config.attachments.max_download >= 1
         /\ config.mode \in BearerModes =>
              config.oauth.token_cache_ttl \in 0..MAX_OAUTH_TOKEN_CACHE_TTL_SECONDS
    /\ AcceptedHttp =>
         LET limit == config.http.rate_limit IN
         /\ limit.standard_burst >= limit.standard_rps /\ limit.standard_rps >= 1
         /\ limit.strict_burst >= limit.strict_rps /\ limit.strict_rps >= 1
         /\ limit.max_keys >= 1
         /\ config.http.health_ttl \in 0..MAX_HEALTH_TTL_SECONDS
         /\ config.http.bind.port \in 1..MAX_PORT

\* A tool call acts as whom the operator meant. It uses the server's own key only
\* in legacy mode, and over a network address only where the operator accepted that
\* anyone may act as that account; in every other mode it carries one readable
\* credential of its caller, in a bearer mode one that was verified first.
ActsAsIntended ==
    /\ "as_server" \in req.acts \/ (AcceptedHttp /\ config.mode = "legacy") =>
         /\ config.mode = "legacy"
         /\ config.transport = "stdio" \/ IsLoopback(config.http.bind)
            \/ ValueOr(vars, "REDMINE_MCP_ALLOW_UNAUTHENTICATED_NETWORK", "") = "true"
    /\ "as_caller" \in req.acts =>
         /\ config.transport = "http"
         /\ req.credential \in {"good", "bad"}
         /\ config.mode \in BearerModes => req.credential = "good" /\ "introspect" \in req.acts

\* A link this server hands out passes its own Host check, where the allowlist is
\* derived, the bind is 127.0.0.1 or PUBLIC_HOST is set, and its port is not the one
\* the scheme implies (the README says what happens where it is not so).
LinksAreServed ==
    /\ AcceptedHttp
    /\ "REDMINE_MCP_ALLOWED_HOSTS" \notin DOMAIN vars
    /\ "PUBLIC_HOST" \in DOMAIN vars \/ config.http.bind.host = "127.0.0.1"
    /\ "PUBLIC_HOST" \in DOMAIN vars => PublicPort(vars) # DefaultPort(PublicScheme(vars))
    => validate_files_host(config.http.public_base.at, config.http.allowed_hosts) = "pass"

\* The discovery documents tell the truth about this server: where it names itself
\* as the authorization server it is the issuer and has every endpoint named.
DocumentsAreServed ==
    AcceptedHttp /\ config.mode \in BearerModes =>
        LET document == authorization_server(config) IN
        /\ well_known_routes(config) \subseteq Mounted(config)
        /\ document.host = "self" =>
             document.issuer = "self" /\ document.endpoints \subseteq Mounted(config)
        /\ protected_resource(config).authorization_servers = {document.issuer}

\* Calls that only read are all a read-only server's partial tools allow.
ReadActions == {"list", "get"}
Calls(tool) ==
    {[tool |-> tool, action |-> a, keys |-> k] :
        a \in IF tool \in DOMAIN ActionScopes THEN DOMAIN ActionScopes[tool] ELSE {"none"},
        k \in {{}, {"notes"}, {"parent_issue_id"}} \cup
              (IF "agile" \in config.plugins THEN {{"story_points"}} ELSE {}) \cup
              (IF "tags" \in config.plugins THEN {{"tag_list"}} ELSE {})}

\* A token with every scope that is advertised may make every call this server
\* serves: the catalogue of oauth/scopes.rs covers the table of auth/scope.rs.
AdvertisedSuffices ==
    AcceptedHttp /\ config.mode \in BearerModes /\ "REDMINE_MCP_SCOPES" \notin DOMAIN vars =>
        \A tool \in DOMAIN FixedScopes \cup DOMAIN ActionScopes :
            Routed(tool, config) =>
                \A c \in Calls(tool) :
                    (config.read_only /\ tool \in DOMAIN ActionScopes => c.action \in ReadActions)
                        => Satisfies(required_for_call(c), config.oauth.scopes)

\* A shutdown keeps its times: a request over HTTP is cut off only after it had the
\* whole drain timeout to finish, and whatever requests and the sweeper do, the
\* process ends within the drain timeout and the sweeper's (run_http, stop_sweeper).
ShutdownKeepsItsTimes ==
    /\ config.transport = "http" /\ (req.at = "cut" \/ \E c \in Checks : check[c].at = "cut")
         => since * TICK >= HTTP_DRAIN_TIMEOUT
    /\ since * TICK <= 2 * HTTP_DRAIN_TIMEOUT

\* Every readiness check gets an answer, or its end with the process.
ChecksAnswered == \A c \in Checks : check[c].at = "queued" ~> ~Waiting(c)

=============================================================================
