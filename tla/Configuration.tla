--------------------------- MODULE Configuration ---------------------------
(***************************************************************************)
(* The configuration of a process and what Validate accepts of it.         *)
(*                                                                         *)
(* A configuration is a record: production, the profile; on, the switches  *)
(* that are set; upstreams, the names under outbound.grpc (outbound.http   *)
(* is checked alike and has no name the service asks for); bad, the        *)
(* sections whose own values are unusable (a missing address, a duration   *)
(* that is not positive, a pattern that does not parse).  Validate looks   *)
(* at the values of most sections only when their switch is set, and at    *)
(* some settings never.                                                    *)
(***************************************************************************)
EXTENDS FiniteSets

\* Switches with values of their own.
Switches == { "grpc", "grpc_tls", "database", "auto_up", "redis", "rate_limit",
              "cors", "tracing", "pprof", "client_auth", "psk", "idempotency",
              "event_bus", "object_storage", "presign", "breaker" }

\* Switches that are only switches.  jwks: jwks_url, issuer and audience are set;
\* credentials: an upstream has auth.type.
Flags == { "reflection", "migration_url", "create_schema", "swagger", "swagger_auth",
           "jwks", "authorization", "storage_tls", "presign_tls", "cron", "credentials",
           "client_tls" }

\* Sections that are always looked at.
Always == { "file", "names", "http", "timeouts", "sample_ratio", "routes", "user",
            "upstream", "retry" }

\* Settings whose values only the constructors look at.  specs: the cron
\* expressions; proxies: http.trusted_proxies; endpoint: the host names of the object
\* storage; target: where an upstream is, when it is set; verifier: jwks_url with its
\* issuer and audience.
Unchecked == { "log_level", "dsn", "timezone", "specs", "proxies", "endpoint",
               "target", "verifier" }

Upstreams == { "application", "authorization" }

IsConfig(c) ==
  /\ c.production \in BOOLEAN
  /\ c.on \subseteq Switches \cup Flags
  /\ c.upstreams \subseteq Upstreams
  /\ c.bad \subseteq Always \cup Switches \cup Unchecked

\* None of these sections is looked at and found unusable.
Usable(c, sections) == sections \cap c.bad \cap (Always \cup c.on) = {}

-----------------------------------------------------------------------------
\* Names, listeners and what production demands of gRPC.
ValidTransport(c) ==
  /\ Usable(c, {"names", "http", "grpc", "grpc_tls"})
  /\ c.production /\ "grpc" \in c.on => "grpc_tls" \in c.on
  /\ c.production => "reflection" \notin c.on

\* Fault: the rate limiter is accepted without Redis.
ValidStores_NoRedis(c) ==
  /\ Usable(c, {"database", "auto_up", "redis", "timeouts", "rate_limit", "cors"})
  /\ "database" \in c.on => "application" \in c.upstreams
  /\ "auto_up" \in c.on => {"database", "migration_url"} \subseteq c.on

\* Database, migration, Redis, rate limiter, CORS.
ValidStores(c) ==
  /\ Usable(c, {"database", "auto_up", "redis", "timeouts", "rate_limit", "cors"})
  /\ "database" \in c.on => "application" \in c.upstreams
  /\ "auto_up" \in c.on => {"database", "migration_url"} \subseteq c.on
  /\ "rate_limit" \in c.on => "redis" \in c.on

\* Observability, authentication and authorization.
ValidAccess(c) ==
  /\ Usable(c, {"sample_ratio", "tracing", "pprof", "client_auth", "routes", "psk"})
  /\ c.production /\ "swagger" \in c.on => "swagger_auth" \in c.on
  /\ c.production => {"jwks", "authorization"} \subseteq c.on
  /\ "authorization" \in c.on => "authorization" \in c.upstreams

\* Locks of users, idempotency and event bus.
ValidDelivery(c) ==
  /\ Usable(c, {"user", "idempotency", "routes", "event_bus"})
  /\ "idempotency" \in c.on => "redis" \in c.on

validateObjectStoragePolicy(c) ==
  "object_storage" \in c.on =>
    /\ Usable(c, {"object_storage", "presign"})
    /\ c.production => /\ "storage_tls" \in c.on
                       /\ "presign" \in c.on => "presign_tls" \in c.on

validateClientPolicy(c) ==
  c.upstreams # {} =>
    /\ Usable(c, {"upstream", "retry", "breaker"})
    /\ "credentials" \in c.on => "client_tls" \in c.on

Validate(c) ==
  /\ ValidTransport(c)
  /\ ValidStores(c)
  /\ ValidAccess(c)
  /\ ValidDelivery(c)
  /\ validateObjectStoragePolicy(c)
  /\ validateClientPolicy(c)

\* The file and the profile are read and decoded before Validate.
LoadWithProfile(c) == "file" \notin c.bad /\ Validate(c)

=============================================================================
