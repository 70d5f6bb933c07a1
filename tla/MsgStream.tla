------------------------------ MODULE MsgStream ------------------------------
(***************************************************************************)
(* What the frame decoder promises: whatever the pieces the bytes of a     *)
(* stream arrive in, its messages are handed over whole, unmasked, in      *)
(* order, each once, and none before its last byte arrived.                *)
(***************************************************************************)
EXTENDS WsStream

VARIABLES stream,       \* the frames the client sends
          arrived,      \* how many bytes of the stream arrived
          delivered     \* the messages handed over

vars == <<stream, arrived, delivered>>

Init == /\ stream \in Seq(Frame)
        /\ arrived = 0
        /\ delivered = <<>>

Arrive == /\ \E n \in arrived + 1 .. EndOf(stream, Len(stream)) : arrived' = n
          /\ UNCHANGED <<stream, delivered>>

Deliver ==
    LET next == Len(delivered) + 1
    IN /\ next <= Len(FinalFrames(stream))
       /\ MessageEnd(stream, next) <= arrived
       /\ delivered' = Append(delivered, Message(stream, next))
       /\ UNCHANGED <<stream, arrived>>

Next == Arrive \/ Deliver

Spec == Init /\ [][Next]_vars
==============================================================================
