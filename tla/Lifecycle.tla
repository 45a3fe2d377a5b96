------------------------------- MODULE Lifecycle -------------------------------
(***************************************************************************)
(* The life of a supervised process as the documentation draws it          *)
(* (README.md:184-194, "Restart policy state machine"): starting, running, *)
(* the end of a run, and what the restart policy makes of it.  start       *)
(* clears the counter, stop keeps the process down until the next start.   *)
(*                                                                         *)
(* How many restarts the rolling window still holds is left open here:     *)
(* backoff takes more than MaxRestarts of them.  Module CrashLoop has the  *)
(* rule with its clock.                                                    *)
(***************************************************************************)
EXTENDS Integers

CONSTANTS
  Modes,         \* restart_policy.mode values considered
  MaxRestarts    \* restart_policy.max_restarts

VARIABLES
  mode,      \* restart_policy.mode
  phase,     \* the node of the drawing; "sleeping" is sleep(backoff)
  restarts,  \* the counter
  stopping   \* a stop was asked for after the last start
vars == <<mode, phase, restarts, stopping>>

Resting == {"stopped", "crashed", "backoff"}

Init ==
  /\ mode \in Modes
  /\ phase = "stopped" /\ restarts = 0 /\ stopping = FALSE

Start ==
  /\ phase \in Resting
  /\ phase' = "starting" /\ restarts' = 0 /\ stopping' = FALSE
  /\ UNCHANGED mode

SpawnOk ==
  /\ phase = "starting" /\ phase' = "running"
  /\ UNCHANGED <<mode, restarts, stopping>>

\* mode=never, mode=on-failure and rc==0, or a stop: the process stays down.
Stays(code) == stopping \/ mode = "never" \/ (mode = "on-failure" /\ code = 0)

\* A run is over, or an attempt to start one has failed: at once, perhaps,
\* when the sleep is over.
End(code) ==
  /\ phase \in {"starting", "running"} \/ (phase = "sleeping" /\ code # 0)
  /\ IF Stays(code)
       THEN /\ phase' = IF code = 0 THEN "stopped" ELSE "crashed"
            /\ UNCHANGED restarts
       ELSE /\ restarts' = restarts + 1
            /\ \/ phase' = "sleeping"
               \/ phase' = "backoff" /\ restarts' > MaxRestarts
  /\ UNCHANGED <<mode, stopping>>

Restart ==
  /\ phase = "sleeping" /\ phase' = "starting"
  /\ UNCHANGED <<mode, restarts, stopping>>

Stop == stopping' = TRUE /\ UNCHANGED <<mode, phase, restarts>>

Stopped ==
  /\ stopping /\ phase' = "stopped"
  /\ UNCHANGED <<mode, restarts, stopping>>

Next ==
  \/ Start \/ SpawnOk \/ End(0) \/ End(1) \/ Restart \/ Stop \/ Stopped

Spec == Init /\ [][Next]_vars

=============================================================================
