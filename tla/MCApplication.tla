---------------------------- MODULE MCApplication ----------------------------
(***************************************************************************)
(* Application under configurations that are accepted and ones that are    *)
(* one setting away.                                                       *)
(***************************************************************************)
EXTENDS Application

Small == [ production |-> FALSE, on |-> {"cron"}, upstreams |-> {}, bad |-> {"redis"} ]

Full == [ production |-> TRUE,
          on |-> { "grpc", "grpc_tls", "database", "auto_up", "migration_url",
                   "create_schema", "redis", "rate_limit", "idempotency", "jwks", "authorization",
                   "event_bus", "object_storage", "storage_tls", "cron", "credentials", "client_tls" },
          upstreams |-> {"application", "authorization"},
          bad |-> {"presign", "psk"} ]

Without(c, f) == [c EXCEPT !.on = @ \ {f}]

MCConfigs ==
  { Small, Full, [Full EXCEPT !.bad = {"retry"}],
    [Small EXCEPT !.bad = {"timezone"}], [Small EXCEPT !.bad = {"log_level"}],
    [Full EXCEPT !.bad = {"dsn"}],
    [Small EXCEPT !.on = {"redis"}],
    [Small EXCEPT !.on = {"tracing"}],
    [Small EXCEPT !.on = {"event_bus"}],
    [Small EXCEPT !.on = {"database", "grpc"}, !.upstreams = {"application"}],
    Without(Without(Full, "redis"), "idempotency"), Without(Full, "grpc_tls"),
    Without(Full, "storage_tls"), Without(Full, "client_tls"), Without(Full, "authorization"), Without(Full, "database"),
    [Full EXCEPT !.upstreams = {"application"}],
    [Full EXCEPT !.upstreams = {"authorization"}] }

=============================================================================
