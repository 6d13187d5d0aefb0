---------------------------- MODULE MCOutboundCall ----------------------------
(***************************************************************************)
(* OutboundCall with one kind of call for every answer of the retry        *)
(* policies.                                                               *)
(***************************************************************************)
EXTENDS OutboundCall

Kind(t, repeatable, key, header) ==
  [t |-> t, repeatable |-> repeatable, key |-> key, header |-> header]

MCKinds == {
  Kind("http", TRUE, FALSE, FALSE),   \* GET
  Kind("http", FALSE, FALSE, FALSE),  \* POST
  Kind("http", FALSE, TRUE, FALSE),   \* POST under a key
  Kind("http", FALSE, TRUE, TRUE),    \* POST under a key that its caller sends
  Kind("grpc", FALSE, FALSE, FALSE),
  Kind("grpc", TRUE, TRUE, FALSE) }

=============================================================================
