------------------------------ MODULE MCPfQos ------------------------------
(* Four queues in two groups; in one of them a queue's quota is 3.         *)
EXTENDS PfQos

FourQueues == {"in", "out", "news", "stats"}
TwoGroups == [q \in FourQueues |-> IF q \in {"stats", "news"} THEN 2 ELSE 1]
Quotas == [q \in FourQueues |-> IF q = "news" THEN 3 ELSE 2]
=============================================================================
