--------------------------- MODULE MCPolicyEngine ---------------------------
(* Three policy ids over two names and two documents: a name can be in use *)
(* or free again, and an edit can bring a former document back.            *)
EXTENDS PolicyEngine, TLC

CONSTANTS n1, n2, d1, d2

MCPolicyNames == {n1, n2}
MCDocs        == {d1, d2}
MCSymmetry    == Permutations(MCPolicyNames) \cup Permutations(MCDocs)
=============================================================================
