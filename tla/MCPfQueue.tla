----------------------------- MODULE MCPfQueue -----------------------------
(* Small instances of the broadcast queue.                                 *)
EXTENDS PfQueue

\* Two of the tags share the default category of 0: the removal of one of them
\* takes the older packet of the two; that of the third looks past both.
SomeTags == {[killKey |-> "a", category |-> 0], [killKey |-> "b", category |-> 0],
             [killKey |-> "c", category |-> 1]}
=============================================================================
