------------------------ MODULE InteractiveSessionsMC ------------------------
(***************************************************************************)
(* Instances of InteractiveSessions for TLC.                               *)
(***************************************************************************)
EXTENDS InteractiveSessions

CONSTANTS c1, c2

OneCaller  == {c1}
TwoCallers == {c1, c2}

=============================================================================
