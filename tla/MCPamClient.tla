---------------------------- MODULE MCPamClient ----------------------------
(* Instances of PamClient for TLC.                                         *)
EXTENDS PamClient

CONSTANTS s1, s2

\* Two sessions let a second broker selection follow a failed first one.
TwoSessions == {s1, s2}
\* A locale name besides "C" tells the environment variables apart.
TwoNames == {"C", "fr_FR"}

=============================================================================
