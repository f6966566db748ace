---------------------------- MODULE MCPortalFiles ----------------------------
EXTENDS PortalFiles, TLC

CONSTANTS q1, q2, q3, q4, c1, c2

MCThree == {q1, q2, q3}
MCFour  == {q1, q2, q3, q4}
MCOneCandidate  == {c1}
MCTwoCandidates == {c1, c2}
MCSymmetry3 == Permutations(MCThree)
MCSymmetry4 == Permutations(MCFour) \cup Permutations(MCTwoCandidates)
=============================================================================
