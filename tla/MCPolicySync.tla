---------------------------- MODULE MCPolicySync ----------------------------
(* Two policies over two documents, so that two versions can share a       *)
(* number or a document; two sessions on one host.                         *)
EXTENDS PolicySync, TLC

CONSTANTS n1, n2, d1, d2, a1, a2, h1

MCPolicyNames == {n1, n2}
MCDocs        == {d1, d2}
MCAgents      == {a1, a2}
MCHosts       == {h1}
MCHost        == [a \in MCAgents |-> h1]

\* Names and documents are interchangeable: let the first policy be n1 and hold d1.
MCFirst == audit.rows = 0 /\ audit'.rows = 1 => row'[1].name = n1 /\ row'[1].checksum = d1
=============================================================================
