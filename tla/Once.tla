-------------------------------- MODULE Once --------------------------------
(***************************************************************************)
(* What a lazily created object promises to the threads that ask for it:   *)
(* it is created once, before the first of them gets it, and all of them   *)
(* get that one.                                                           *)
(***************************************************************************)
CONSTANTS Thread, Object, None

VARIABLES object,       \* the object, or None
          got           \* what each thread was given last, or None

vars == <<object, got>>

Init == object = None /\ got = [t \in Thread |-> None]

Create == /\ object = None
          /\ object' \in Object
          /\ UNCHANGED got

Get(t) == /\ object # None
          /\ got' = [got EXCEPT ![t] = object]
          /\ UNCHANGED object

Next == Create \/ \E t \in Thread : Get(t)

Spec == Init /\ [][Next]_vars
==============================================================================
