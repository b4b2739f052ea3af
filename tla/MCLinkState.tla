---------------------------- MODULE MCLinkState ----------------------------
\* LinkState on every graph of four nodes below MAX_NODE, or with MAX_NODE itself.
EXTENDS LinkState

MCPairs == {e \in (Ids \ {MAX_NODE}) \X (Ids \ {MAX_NODE}) : e[1] < e[2]}
MCAllPairs == {e \in Ids \X Ids : e[1] < e[2]}

============================================================================
