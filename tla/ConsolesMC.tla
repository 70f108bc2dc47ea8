----------------------------- MODULE ConsolesMC -----------------------------
(* An instance of Consoles for TLC.                                        *)
EXTENDS Consoles

\* The registry leaves the scout some settings open.
Settings == [r \in Robot |-> IF r = "rover" THEN Setting ELSE {"linear", "arc_ratio"}]

\* Two processes: the other one tests wheels or sets up a camera.
ProgramsOf == [t \in Tool |-> IF t = "first" THEN {"sync", "configure", "flip"}
                                             ELSE {"wheels", "camera"}]
=============================================================================
