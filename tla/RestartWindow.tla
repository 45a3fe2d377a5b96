----------------------------- MODULE RestartWindow -----------------------------
(***************************************************************************)
(* The crash-loop bookkeeping of a supervised process, with its clock: the *)
(* deque of restart times, the drain that drops what has left the rolling  *)
(* window, the pause before a restart (process.py:180-194; proxy.py:183-191 *)
(* is the same code for an upstream).                                      *)
(*                                                                         *)
(* The exits of this module are the ones after which the policy asks for a *)
(* restart; module ManagedProcess decides which ones these are, and lets   *)
(* its window forget any of its oldest entries because it has no clock.    *)
(* One supervisor task is at work.                                         *)
(***************************************************************************)
EXTENDS Integers, Sequences

\* A definition whose name starts with "Bug" is a mutated form of the one that
\* follows it; nothing uses it but PROJECT.json.

CONSTANTS
  MaxRestarts,     \* restart_policy.max_restarts
  WindowSeconds,   \* restart_policy.window_seconds
  BackoffSeconds,  \* restart_policy.backoff_seconds
  MaxTime,         \* bound on the clock
  MaxExits         \* bound on the exits between two starts

ASSUME WindowAssumption ==
  /\ MaxRestarts \in Nat /\ WindowSeconds \in Nat /\ BackoffSeconds \in Nat
  /\ MaxTime \in Nat /\ MaxExits \in Nat

VARIABLES
  now,           \* the loop's monotonic clock
  phase,         \* where the supervisor task is, or how it ended
  window,        \* _restart_window
  restartCount,  \* restart_count
  wakeAt,        \* when the backoff sleep ends
  exits          \* history: the restarted exits since the last start()

vars == <<now, phase, window, restartCount, wakeAt, exits>>

Init ==
  /\ now = 0
  /\ phase = "stopped"
  /\ window = <<>>
  /\ restartCount = 0
  /\ wakeAt = 0
  /\ exits = <<>>

\* start() after a stop or in backoff.
ClearWindow == restartCount' = 0 /\ window' = <<>>

Start ==
  /\ phase \in {"stopped", "backoff"}
  /\ phase' = "running"
  /\ ClearWindow
  /\ exits' = <<>>
  /\ UNCHANGED <<now, wakeAt>>

\* Longer ago than the window is long.
BugStale(t) == now - t >= WindowSeconds
Stale(t) == now - t > WindowSeconds

\* The while loop pops from the left up to the first entry still inside.
Drained(k) ==
  /\ \A i \in 1..k : Stale(window[i])
  /\ k < Len(window) => ~Stale(window[k + 1])

BugAsMany(w) == Len(w) >= MaxRestarts
BugOneMore(w) == Len(w) > MaxRestarts + 1
TooMany(w) == Len(w) > MaxRestarts

Exit ==
  /\ phase = "running"
  /\ Len(exits) < MaxExits                              \* bound
  /\ \E k \in 0..Len(window) :
       /\ Drained(k)
       /\ window' = Append(SubSeq(window, k + 1, Len(window)), now)
  /\ restartCount' = restartCount + 1
  /\ IF TooMany(window')
       THEN phase' = "backoff" /\ UNCHANGED wakeAt
       ELSE phase' = "sleeping" /\ wakeAt' = now + BackoffSeconds
  /\ exits' = Append(exits, now)
  /\ UNCHANGED now

SleepOver == phase = "sleeping" /\ now >= wakeAt

Restart ==
  /\ SleepOver
  /\ phase' = "running"
  /\ UNCHANGED <<now, window, restartCount, wakeAt, exits>>

\* An exit that is not restarted, a stop() or the cancellation it ends with.
Stop ==
  /\ phase # "stopped"
  /\ phase' = "stopped"
  /\ UNCHANGED <<now, window, restartCount, wakeAt, exits>>

Tick ==
  /\ now < MaxTime                                      \* bound
  /\ now' = now + 1
  /\ UNCHANGED <<phase, window, restartCount, wakeAt, exits>>

Next == Start \/ Exit \/ Restart \/ Stop \/ Tick

Spec == Init /\ [][Next]_vars

-----------------------------------------------------------------------------

\* Every variable keeps to its values (process.py:59-60).
TypeOK ==
  /\ now \in 0..MaxTime
  /\ phase \in {"stopped", "running", "sleeping", "backoff"}
  /\ window \in Seq(0..MaxTime) /\ exits \in Seq(0..MaxTime)
  /\ restartCount \in Nat /\ wakeAt \in Nat

\* restart_count counts the restarts since the last start, all of them, and
\* the deque holds the last ones: the drain loses no entry that is still in
\* the window and keeps none that has left it (process.py:183-187).
WindowIsRecent ==
  LET dropped == Len(exits) - Len(window) IN
  /\ restartCount = Len(exits)
  /\ dropped >= 0
  /\ \A i \in 1..Len(window) : window[i] = exits[dropped + i]
  /\ \A i \in 1..Len(exits) :
       i <= dropped <=> exits[Len(exits)] - exits[i] > WindowSeconds

\* Every two consecutive restarts are backoff_seconds apart (process.py:192).
RestartsArePaced ==
  \A i \in 1..(Len(exits) - 1) : exits[i + 1] - exits[i] >= BackoffSeconds

\* In no window_seconds, wherever it begins, is the tool restarted more than
\* max_restarts times; the exit that led to backoff or a stop is not followed
\* by a restart (README.md:82, process.py:188-190).
RateIsLimited ==
  \A i \in 1..Len(exits) :
    LET j == i + MaxRestarts IN
      j < Len(exits) \/ (j = Len(exits) /\ phase \in {"running", "sleeping"})
        => exits[j] - exits[i] > WindowSeconds

\* The deque implements the rule the documentation states over all exits.
Rule == INSTANCE CrashLoop
CrashLoopRule == Rule!Spec

=============================================================================
