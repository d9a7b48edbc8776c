---------------------------- MODULE MCPrepareJobs ----------------------------
EXTENDS PrepareJobs

CONSTANTS a, b

MCSignature == [j \in Jobs |-> "same"]
=============================================================================
