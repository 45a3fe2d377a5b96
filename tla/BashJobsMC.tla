------------------------------ MODULE BashJobsMC ------------------------------
(***************************************************************************)
(* An instance of BashJobs for TLC.                                        *)
(***************************************************************************)
EXTENDS BashJobs

CONSTANTS c1, c2

TwoCallers == {c1, c2}
ThreePids  == {1, 2, 3}

=============================================================================
