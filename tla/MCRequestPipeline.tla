-------------------------- MODULE MCRequestPipeline --------------------------
(***************************************************************************)
(* RequestPipeline with the requests of two users, a service account and   *)
(* callers that are refused on the way.                                    *)
(***************************************************************************)
EXTENDS RequestPipeline

CONSTANT k1

\* A good request to start an upload under the key.
Upload == [transport |-> "http", op |-> "initiate", cred |-> "alice", key |-> k1,
           origin |-> "none", json |-> TRUE, tenant |-> "own", body |-> "a"]

MCInputs == {
  Upload,
  [Upload EXCEPT !.body = "malformed"],
  [Upload EXCEPT !.cred = "bob"],
  [Upload EXCEPT !.transport = "grpc"],
  [Upload EXCEPT !.op = "get", !.key = NoKey, !.tenant = "other"],
  [Upload EXCEPT !.op = "list", !.key = NoKey, !.cred = "none"],
  [Upload EXCEPT !.op = "report", !.key = NoKey, !.cred = "psk", !.transport = "grpc"],
  [Upload EXCEPT !.op = "version", !.key = NoKey, !.cred = "forged", !.origin = "other"],
  [Upload EXCEPT !.op = "watch", !.key = NoKey, !.transport = "stream"] }

MCPermissions == {<<"alice", "upload">>, <<"bob", "upload">>, <<"psk", "report">>}

\* The user whose permission comes and goes.
MCRevocable == {<<"alice", "upload">>}

=============================================================================
