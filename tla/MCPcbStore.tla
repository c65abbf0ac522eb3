----------------------------- MODULE MCPcbStore -----------------------------
EXTENDS PcbStoreRefinement
MCFormat == [U |-> 2, L |-> 1, T |-> 3]
=============================================================================
