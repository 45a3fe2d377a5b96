----------------------------- MODULE UpstreamMCPMC -----------------------------
(***************************************************************************)
(* Instances of UpstreamMCP for TLC.                                       *)
(***************************************************************************)
EXTENDS UpstreamMCP

CONSTANTS c1, c2, s1, s2

TwoCallers  == {c1, c2}
TwoStoppers == {s1, s2}
AllModes    == {"never", "on-failure", "always"}

=============================================================================
