--------------------------- MODULE UnitExecutorMC ---------------------------
(* Instances of UnitExecutor for TLC.                                      *)
EXTENDS UnitExecutor

\* A command of three phases, the second of them already at its target.
MCPlan ==
  [c \in {"legs"} |-> <<[moves |-> TRUE, ticks |-> 2],
                       [moves |-> FALSE, ticks |-> 0],
                       [moves |-> TRUE, ticks |-> 1]>>]
=============================================================================
