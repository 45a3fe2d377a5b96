------------------------------- MODULE CrashLoop -------------------------------
(***************************************************************************)
(* What the documentation promises about a crash loop (README.md:82): if   *)
(* more than max_restarts exit-triggered restarts happen within a rolling  *)
(* window_seconds, the tool moves to "backoff" and is left alone until the *)
(* next start.  The rule is stated over the whole history of exits; module *)
(* RestartWindow shows that the bounded deque of the code implements it.   *)
(***************************************************************************)
EXTENDS Integers, Sequences

CONSTANTS
  MaxRestarts,     \* restart_policy.max_restarts
  WindowSeconds    \* restart_policy.window_seconds

VARIABLES now, phase, exits
vars == <<now, phase, exits>>

Init ==
  /\ now = 0
  /\ phase = "stopped"
  /\ exits = <<>>

\* More than MaxRestarts exits, the last one included, within the window.
Tripped(es) ==
  /\ Len(es) > MaxRestarts
  /\ es[Len(es)] - es[Len(es) - MaxRestarts] <= WindowSeconds

Start ==
  /\ phase \in {"stopped", "backoff"}
  /\ phase' = "running"
  /\ exits' = <<>>
  /\ UNCHANGED now

\* An exit after which the policy asks for a restart.
Exit ==
  /\ phase = "running"
  /\ exits' = Append(exits, now)
  /\ phase' = IF Tripped(exits') THEN "backoff" ELSE "sleeping"
  /\ UNCHANGED now

Restart ==
  /\ phase = "sleeping"
  /\ phase' = "running"
  /\ UNCHANGED <<now, exits>>

Stop ==
  /\ phase # "stopped"
  /\ phase' = "stopped"
  /\ UNCHANGED <<now, exits>>

Tick == now' > now /\ UNCHANGED <<phase, exits>>

Next == Start \/ Exit \/ Restart \/ Stop \/ Tick

Spec == Init /\ [][Next]_vars

=============================================================================
