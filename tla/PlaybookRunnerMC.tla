-------------------------- MODULE PlaybookRunnerMC --------------------------
(* Instances of PlaybookRunner for TLC.                                    *)
EXTENDS PlaybookRunner

\* Each queued entry is one command; the sweep, seven in the code, is two.
MCParts == [e \in Entry |-> 1]

\* The preset is a file with one step.
MCPreset == {[entry |-> "transit", detected |-> {}]}
=============================================================================
