---------------------------- MODULE MCRuntimeState ----------------------------
(* Instances of RuntimeState for TLC.                                          *)
EXTENDS RuntimeState, TLC

CONSTANTS p1, p2, root, specialist, s1, s2

MCProcs == {p1, p2}
MCAgents == {root, specialist}
MCSessionIds == {s1, s2}
Callers == Permutations(MCProcs)
===============================================================================
