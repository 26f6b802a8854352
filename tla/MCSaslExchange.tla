---------------------------- MODULE MCSaslExchange ----------------------------
(* The client and the server on one connection.                             *)
EXTENDS SaslExchange, MCSasl
==============================================================================
