--------------------------- MODULE ManagedProcessMC ---------------------------
(***************************************************************************)
(* Instances of ManagedProcess for TLC.                                    *)
(***************************************************************************)
EXTENDS ManagedProcess, TLC

CONSTANTS c1, c2

OneClient  == {c1}
TwoClients == {c1, c2}
Symmetry   == Permutations(TwoClients)

AllModes  == {"never", "on-failure", "always"}
OnFailure == {"on-failure"}

Nobody   == {}
Chatty   == {1, 2}

=============================================================================
