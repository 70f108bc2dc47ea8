---------------------------- MODULE OverridingMC ----------------------------
(* An instance of Overriding for TLC.                                      *)
EXTENDS Overriding

Settings == [r \in Robot |-> Setting]
=============================================================================
