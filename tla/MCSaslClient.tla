----------------------------- MODULE MCSaslClient -----------------------------
(* The client alone: whatever a server sends it, and an allocator with      *)
(* room for two prompt arrays.                                              *)
EXTENDS SaslClient, MCSasl
==============================================================================
