------------------------------- MODULE MCLeaf -------------------------------
EXTENDS Leaf, TLC

\* Keys 1 and 2 share an ikey, key 3 does not.
MCIkeyOf == [k \in Key |-> IF k = 3 THEN 2 ELSE 1]

\* Every value tells the key that it belongs to; key 1 may be updated to another.
MCVal == {"v1", "w1", "v2", "v3"}
MCPutVal == [k \in Key |-> CASE k = 1 -> {"v1"} [] k = 2 -> {"v2"} [] k = 3 -> {"v3"}]
MCPutVals == [k \in Key |-> IF k = 1 THEN {"v1", "w1"} ELSE MCPutVal[k]]

Symmetry == Permutations(Reader) \cup Permutations(Writer) \cup Permutations(LayerLeaf)
=============================================================================
