----------------------------- MODULE SupervisorMC -----------------------------
(***************************************************************************)
(* Instances of Supervisor for TLC.                                        *)
(***************************************************************************)
EXTENDS Supervisor, TLC

CONSTANTS r1, r2, t1, u1, j1, j2

OneRequest  == {r1}
TwoRequests == {r1, r2}
OneTool     == {t1}
OneUpstream == {u1}
Everything  == {{t1, u1}}
TwoJobs     == {j1, j2}
Symmetry    == Permutations(TwoRequests) \cup Permutations(TwoJobs)

=============================================================================
