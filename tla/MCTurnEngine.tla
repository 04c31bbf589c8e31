----------------------------- MODULE MCTurnEngine -----------------------------
(* Instances of TurnEngine for TLC: a root agent that may hand over to a       *)
(* specialist, which has no subagents of its own but may hand back.            *)
EXTENDS TurnEngine

CONSTANTS root, specialist

MCAgents == {root, specialist}
MCSubagents == [a \in MCAgents |-> IF a = root THEN {specialist} ELSE {}]
MCResolvable == {specialist}

\* The root has a budget of two tokens, the specialist of one.
MCMaxTokens == [a \in MCAgents |-> IF a = root THEN 2 ELSE 1]
\* A response uses two tokens, or reports no usage.
MCUsages == {0, 2}
===============================================================================
