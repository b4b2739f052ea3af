----------------------------- MODULE MCDistVec -----------------------------
\* DistVec on every graph of up to four nodes below MAX_NODE.
EXTENDS DistVec

MCPairs == {e \in (Ids \ {MAX_NODE}) \X (Ids \ {MAX_NODE}) : e[1] < e[2]}

============================================================================
