-------------------------- MODULE ControlServerMC --------------------------
(* Instances of ControlServer for TLC.                                     *)
EXTENDS ControlServer

CONSTANTS tab1, tab2, tab3, home, away

\* Two tabs of one browser share a token, the third has its own.
Homes == [c \in Client |-> IF c = tab3 THEN away ELSE home]
=============================================================================
