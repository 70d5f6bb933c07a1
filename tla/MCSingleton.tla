----------------------------- MODULE MCSingleton -----------------------------
(* Three threads, which may all find the pointer NULL before one locks. *)
EXTENDS Singleton
==============================================================================
