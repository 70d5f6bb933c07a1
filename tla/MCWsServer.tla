----------------------------- MODULE MCWsServer -----------------------------
(* Two connections, each with few reads and messages. *)
EXTENDS WsServer
==============================================================================
