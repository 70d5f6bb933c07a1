------------------------------ MODULE MCPfSend ------------------------------
(* Four packets: two of services, two of the streamer.                     *)
EXTENDS PfSend

FourPackets == 1 .. 4
Sizes == [p \in FourPackets |-> IF p = 1 THEN 3 ELSE IF p = 4 THEN 1 ELSE 2]
=============================================================================
