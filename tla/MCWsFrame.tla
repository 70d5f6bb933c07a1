------------------------------ MODULE MCWsFrame ------------------------------
(* Lengths around every boundary of the three forms, up to the largest number *)
(* TLC computes with.                                                        *)
EXTENDS WsFrame

BoundaryLens ==
    {0, 1, 2, 124, 125, 126, 127, 128, 255, 256, 257, 65534, 65535, 65536, 65537,
     16777215, 16777216, 16777217, 305419896, 2147483500}
==============================================================================
