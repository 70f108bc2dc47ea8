----------------------------- MODULE DriveHubMC -----------------------------
(* Instances of DriveHub for TLC.                                          *)
EXTENDS DriveHub, TLC

CONSTANTS robot1, robot2, robot3

\* Robots the registry lists are alike.
Symmetry == Permutations(Trusted)
=============================================================================
