------------------------------ MODULE ChunkPipe ------------------------------
(***************************************************************************)
(* What the receive path of one connection promises: the chunks that the   *)
(* event loop reads from the socket reach the parser in the order they     *)
(* were read, each exactly once.  WsInput is shown to implement it.        *)
(***************************************************************************)
EXTENDS Naturals, Sequences

CONSTANT Chunk          \* the values a read callback can carry

VARIABLES received,     \* every chunk the socket delivered, in order
          seen,         \* every chunk the parser was given, in order
          shut          \* the connection was closed

vars == <<received, seen, shut>>

Init == /\ received = <<>>
        /\ seen = <<>>
        /\ shut = FALSE

\* The socket delivers one more chunk.
Arrive == /\ ~shut
          /\ \E c \in Chunk : received' = Append(received, c)
          /\ UNCHANGED <<seen, shut>>

\* The parser is given the next chunks, one or several at once.
Hand == /\ \E n \in (Len(seen) + 1) .. Len(received) :
              seen' = SubSeq(received, 1, n)
        /\ UNCHANGED <<received, shut>>

Shut == /\ ~shut
        /\ shut' = TRUE
        /\ UNCHANGED <<received, seen>>

Next == Arrive \/ Hand \/ Shut

Spec == Init /\ [][Next]_vars
==============================================================================
