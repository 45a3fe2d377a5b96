------------------------------- MODULE BashJobs -------------------------------
(***************************************************************************)
(* Ad-hoc shell commands: bash, wait and kill of the ProcessManager and    *)
(* the registry of their pids (manager.py:114-187), with the pumps that    *)
(* copy their output (logbuf.py:46-68).                                    *)
(*                                                                         *)
(* A job is one shell process.  The operating system gives a pid to a new  *)
(* job as soon as the loop has reaped the one that had it.  A job may      *)
(* close its output before it exits, and a process it leaves behind may    *)
(* keep it open after, for ever if it likes.  proc.wait() returns at any   *)
(* moment after the exit: CPython 3.11 wakes who was asleep in it only     *)
(* when the output is closed too, later versions at once.  The calls that  *)
(* create processes complete in the order in which they began.  Output is  *)
(* counted in lines; what an answer shows of it, the last entries of a     *)
(* bounded log, is left out.                                               *)
(***************************************************************************)
EXTENDS Integers, Sequences, FiniteSets

\* A definition whose name starts with "Bug" is a mutated form of the one that
\* follows it; nothing uses it but PROJECT.json.

CONSTANTS
  Callers,    \* tool calls that may be in progress together
  Pids,       \* the pids the system hands out
  Capacity,   \* BASH_PID_LRU
  MaxJobs,    \* bound: jobs
  MaxLines    \* bound: lines a job prints

ASSUME BashAssumption ==
  /\ Capacity \in Nat \ {0}
  /\ Pids \subseteq Nat \ {0}
  /\ MaxJobs \in Nat /\ MaxLines \in Nat

Job  == 1..MaxJobs
None == 0

VARIABLES
  proc, open,      \* each job: its process, and whether its output is open
  pid,             \* the pid it was given
  printed, logged, \* lines it has printed, and those its pumps have logged
  registry,        \* bash_pids: the tracked jobs, the oldest entry first
  nJobs,
  tracked,         \* history: the jobs that have been entered there
  callPc, callJob, \* each call, and the job it is about
  strayed          \* history: jobs hit by a signal that was meant for another

jobVars  == <<proc, open, pid, printed, nJobs>>
callVars == <<callPc, callJob>>
vars == <<jobVars, logged, registry, tracked, callVars, strayed>>

Init ==
  /\ proc = [j \in Job |-> "none"]
  /\ open = [j \in Job |-> FALSE]
  /\ pid = [j \in Job |-> None]
  /\ printed = [j \in Job |-> 0] /\ logged = [j \in Job |-> 0]
  /\ registry = <<>> /\ tracked = {}
  /\ nJobs = 0
  /\ callPc = [c \in Callers |-> "idle"]
  /\ callJob = [c \in Callers |-> None]
  /\ strayed = {}

(***************************************************************************)
(* The jobs.                                                               *)
(***************************************************************************)

\* proc.returncode is not None.
Returncode(j) == proc[j] = "exited"

Write(j) ==
  /\ open[j] /\ printed[j] < MaxLines                   \* bound
  /\ printed' = [printed EXCEPT ![j] = @ + 1]
  /\ UNCHANGED <<proc, open, pid, nJobs, logged, registry, tracked, callVars,
                 strayed>>

CloseOutput(j) ==
  /\ open[j]
  /\ open' = [open EXCEPT ![j] = FALSE]
  /\ UNCHANGED <<proc, pid, printed, nJobs, logged, registry, tracked,
                 callVars, strayed>>

Exit(j) ==
  /\ proc[j] = "running"
  /\ proc' = [proc EXCEPT ![j] = "exited"]
  /\ UNCHANGED <<open, pid, printed, nJobs, logged, registry, tracked,
                 callVars, strayed>>

InRegistry(j) == \E i \in 1..Len(registry) : registry[i] = j

\* pump_stream: started with the entry, ends at the end of the output.
PumpsDone(j) == ~open[j] /\ logged[j] = printed[j]

BugPumpTracked(j) ==
  /\ InRegistry(j) /\ logged[j] < printed[j]
  /\ logged' = [logged EXCEPT ![j] = @ + 1]
  /\ UNCHANGED <<jobVars, registry, tracked, callVars, strayed>>
Pump(j) ==
  /\ j \in tracked /\ logged[j] < printed[j]
  /\ logged' = [logged EXCEPT ![j] = @ + 1]
  /\ UNCHANGED <<jobVars, registry, tracked, callVars, strayed>>

(***************************************************************************)
(* bash()                                                                  *)
(***************************************************************************)

\* The pids no process has.  Those that were never used are interchangeable:
\* the lowest of them stands for all.
FreePids ==
  LET used == {pid[k] : k \in Job} IN
  {p \in Pids :
    /\ \A k \in Job : proc[k] = "running" => pid[k] # p
    /\ \A q \in Pids : q < p => q \in used}

Bash(c) ==
  /\ callPc[c] = "idle"
  /\ nJobs < MaxJobs                                    \* bound
  /\ nJobs' = nJobs + 1
  /\ \E p \in FreePids : pid' = [pid EXCEPT ![nJobs'] = p]
  /\ proc' = [proc EXCEPT ![nJobs'] = "running"]
  /\ open' = [open EXCEPT ![nJobs'] = TRUE]
  /\ callPc' = [callPc EXCEPT ![c] = "spawning"]
  /\ callJob' = [callJob EXCEPT ![c] = nJobs']
  /\ UNCHANGED <<printed, logged, registry, tracked, strayed>>

\* An entry for the same pid is replaced, and the new one is the last.
BugKeepEntry(j) == Append(registry, j)
Entered(j) ==
  LET same == {i \in 1..Len(registry) : pid[registry[i]] = pid[j]}
      at   == CHOOSE i \in same : TRUE
  IN  Append(IF same = {} THEN registry
             ELSE SubSeq(registry, 1, at - 1) \o SubSeq(registry, at + 1, Len(registry)),
             j)

\* The oldest entries are dropped while there are more than the capacity.
BugEvictEarly(reg) ==
  IF Len(reg) >= Capacity THEN Tail(reg) ELSE reg
Evicted(reg) ==
  IF Len(reg) > Capacity THEN SubSeq(reg, Len(reg) - Capacity + 1, Len(reg)) ELSE reg

Track(c) ==
  LET j == callJob[c] IN
  /\ callPc[c] = "spawning"
  /\ \A d \in Callers : callPc[d] = "spawning" => j <= callJob[d]
  /\ registry' = Evicted(Entered(j))
  /\ tracked' = tracked \cup {j}
  /\ callPc' = [callPc EXCEPT ![c] = "bash"]
  /\ UNCHANGED <<jobVars, logged, callJob, strayed>>

Return(c) ==
  /\ callPc' = [callPc EXCEPT ![c] = "idle"]
  /\ callJob' = [callJob EXCEPT ![c] = None]

\* proc.wait() returned in time; the pumps are awaited next, without a timeout.
BashExited(c) ==
  /\ callPc[c] = "bash" /\ Returncode(callJob[c])
  /\ callPc' = [callPc EXCEPT ![c] = "gathering"]
  /\ UNCHANGED <<jobVars, logged, registry, tracked, callJob, strayed>>

Gathered(c) ==
  /\ callPc[c] = "gathering" /\ PumpsDone(callJob[c])
  /\ Return(c)
  /\ UNCHANGED <<jobVars, logged, registry, tracked, strayed>>

\* The job keeps running under its pid.
BashTimeout(c) ==
  /\ callPc[c] = "bash"
  /\ Return(c)
  /\ UNCHANGED <<jobVars, logged, registry, tracked, strayed>>

(***************************************************************************)
(* wait() and kill()                                                       *)
(***************************************************************************)

\* The entry is looked up once, and kept while the call waits.
Wait(c) ==
  /\ callPc[c] = "idle"
  /\ \E j \in Job :
       /\ InRegistry(j)
       /\ callPc' = [callPc EXCEPT ![c] = "wait"]
       /\ callJob' = [callJob EXCEPT ![c] = j]
  /\ UNCHANGED <<jobVars, logged, registry, tracked, strayed>>

\* The job exited, or the timeout expired.
WaitReturn(c) ==
  /\ callPc[c] = "wait"
  /\ Return(c)
  /\ UNCHANGED <<jobVars, logged, registry, tracked, strayed>>

\* The signal goes to whoever has the pid.
BugKillable(j) == TRUE
Killable(j) == ~Returncode(j)

Kill(c) ==
  /\ callPc[c] = "idle"
  /\ \E j \in Job :
       /\ InRegistry(j) /\ Killable(j)
       /\ strayed' = strayed \cup
            {k \in Job \ {j} : proc[k] = "running" /\ pid[k] = pid[j]}
  /\ UNCHANGED <<jobVars, logged, registry, tracked, callVars>>

-----------------------------------------------------------------------------

Next ==
  \/ \E c \in Callers :
       \/ Bash(c) \/ Track(c) \/ BashExited(c) \/ Gathered(c) \/ BashTimeout(c)
       \/ Wait(c) \/ WaitReturn(c) \/ Kill(c)
  \/ \E j \in Job : Write(j) \/ CloseOutput(j) \/ Exit(j) \/ Pump(j)

Spec == Init /\ [][Next]_vars

(***************************************************************************)
(* Fairness: the loop resumes the pumps and the calls that are ready.  A   *)
(* job may run, print nothing and hold its output for ever.                *)
(***************************************************************************)
FairSpec ==
  /\ Spec
  /\ \A j \in Job : WF_vars(Pump(j))
  /\ \A c \in Callers : WF_vars(Gathered(c)) /\ WF_vars(Track(c))

-----------------------------------------------------------------------------

\* Every variable keeps to its values, and a pid has one entry
\* (manager.py:20-28, 35).
TypeOK ==
  /\ proc \in [Job -> {"none", "running", "exited"}]
  /\ open \in [Job -> BOOLEAN]
  /\ pid \in [Job -> Pids \cup {None}]
  /\ printed \in [Job -> 0..MaxLines] /\ logged \in [Job -> 0..MaxLines]
  /\ registry \in Seq(Job) /\ Len(registry) <= Capacity
  /\ \A i, k \in 1..Len(registry) :
       i # k => pid[registry[i]] # pid[registry[k]]
  /\ nJobs \in 0..MaxJobs /\ tracked \subseteq Job
  /\ callPc \in [Callers -> {"idle", "spawning", "bash", "gathering", "wait"}]
  /\ callJob \in [Callers -> 0..MaxJobs]
  /\ strayed \subseteq Job

\* A running job loses its entry, and with it wait, kill and logs, only to as
\* many newer ones as the registry holds: not to a pid that is used again, nor
\* to an eviction that takes too many or the wrong ones (manager.py:161-165).
RunningIsTracked ==
  \A j \in tracked :
    proc[j] = "running" /\ ~InRegistry(j)
      => Cardinality({k \in tracked : k > j}) >= Capacity

\* kill never hits another job, though pids are used again while entries of
\* exited jobs stay in the registry (manager.py:178-187).
KillHitsItsJob == strayed = {}

\* Awaiting the pumps has no timeout: bash returns unless somebody keeps the
\* output of the exited job open for ever, also when the job was pushed out of
\* the registry meanwhile (manager.py:146).
HeldOpen(c) == callPc[c] = "gathering" /\ open[callJob[c]]

BashReturns ==
  \A c \in Callers :
    callPc[c] = "gathering" ~> (callPc[c] = "idle" \/ []HeldOpen(c))

=============================================================================
