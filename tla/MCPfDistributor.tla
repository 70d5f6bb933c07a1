-------------------------- MODULE MCPfDistributor --------------------------
EXTENDS PfDistributor
=============================================================================
