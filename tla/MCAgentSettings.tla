-------------------------- MODULE MCAgentSettings --------------------------
(* AgentSettings for TLC: calls are interchangeable; m2 has an effort. *)
EXTENDS AgentSettings, TLC

CONSTANTS m2, e1

MCRequested == {NoSettings, [model |-> m2, effort |-> None],
                [model |-> m2, effort |-> e1], [model |-> None, effort |-> e1]}

CallSymmetry == Permutations(Calls)
=============================================================================
