------------------------------ MODULE MCWsInput ------------------------------
(* Two values of a chunk, so that a reordering shows, and up to four reads. *)
EXTENDS WsInput
==============================================================================
