---------------------------- MODULE ManagedProcess ----------------------------
(***************************************************************************)
(* One named tool of the supervisor: a ManagedProcess object               *)
(* (src/mcp_supervisord/process.py) under the start/stop calls of the      *)
(* ProcessManager (manager.py), together with what asyncio gives it:       *)
(* supervisor tasks, events, cancellation, and children that exit when     *)
(* they please.                                                            *)
(*                                                                         *)
(* The event loop is single threaded, so an action is what one coroutine   *)
(* does between two suspensions; actions of different tasks and clients    *)
(* interleave.  create_task only schedules: a new task is "created" until  *)
(* its first step.  Popen runs inside the step that calls                  *)
(* create_subprocess_exec, so a child lives from then on although the      *)
(* object learns its pid one step later.                                   *)
(*                                                                         *)
(* Time is abstracted: any timeout may expire at any moment, and the       *)
(* rolling restart window may forget any of its oldest entries (module     *)
(* RestartWindow has the clock).                                           *)
(***************************************************************************)
EXTENDS Integers, FiniteSets

\* A definition whose name starts with "Bug" is a mutated form of the one that
\* follows it, with a mistake the code could contain.  Nothing uses it but
\* PROJECT.json, which pairs it with a property that must then fail.

CONSTANTS
  Clients,      \* tool calls that may be in progress at the same time
  Modes,        \* restart_policy.mode values considered
  MaxRestarts,  \* restart_policy.max_restarts
  MaxStarts,    \* bound: supervisor tasks created by start()
  MaxSpawns,    \* bound: spawn attempts
  Writers       \* the runs that print something, the others are silent

ASSUME ConstantsAssumption ==
  /\ Modes \subseteq {"never", "on-failure", "always"}
  /\ MaxRestarts \in Nat
  /\ MaxStarts \in Nat
  /\ MaxSpawns \in Nat
  /\ Writers \subseteq 1..MaxSpawns

Task == 1..MaxStarts
Run  == 1..MaxSpawns     \* a spawn attempt, and the child it creates
None == 0                \* Python's None where a task, a run or a pid may be
NoLog == -1              \* previous_log before the first rotation

ExitCode == {"zero", "nonzero"}

VARIABLES
  mode,             \* policy.mode, fixed
  state, pid, lastExitCode,            \* what status() reports ...
  restartCount, window,                \* ... and len(_restart_window)
  stopRequested,
  proc,             \* _proc: the last run whose Process object came back
  exited,           \* _exited: events are named after the run that made them
  firstSpawnDone,   \* _first_spawn_done: named after the task of its start()
  supervisorTask,   \* _supervisor_task
  log, previousLog, \* buffers are named after the run that rotated them in
  exitedSet, firstSet,                 \* the events of each kind that are set
  taskPc, taskRun,  \* where each supervisor task is, and the run it handles
  runStatus, exitCode,                 \* the children
  held,             \* exited children whose pipes a descendant keeps open,
                    \* if a task waited for them
  sink, lines,      \* the buffer a run's pumps write, the runs in a buffer
  clientPc, clientRef,                 \* each call, and what it waits for
  wanted,           \* history: what the last call asked for
  nTasks, nRuns

statusVars == <<state, pid, lastExitCode>>
policyVars == <<restartCount, window>>
logVars    == <<log, previousLog, sink, lines>>
childVars  == <<runStatus, exitCode, held>>
taskVars   == <<taskPc, taskRun>>
clientVars == <<clientPc, clientRef>>
objectVars == <<stopRequested, proc, exited, firstSpawnDone, supervisorTask>>
countVars  == <<nTasks, nRuns>>
vars == <<mode, statusVars, policyVars, objectVars, logVars, exitedSet,
          firstSet, taskVars, childVars, clientVars, wanted, countVars>>

State == {"stopped", "starting", "running", "crashed", "backoff"}

TaskPc == {"none", "created", "spawning", "waiting", "sleeping", "aborting",
           "cancelling", "cancelled", "done"}

ClientPc == {"idle", "starting", "stopWaitExit", "stopWaitKilled",
             "stopWaitTask", "stopCancelling"}

(***************************************************************************)
(* What asyncio and the operating system tell.                             *)
(***************************************************************************)

\* proc.returncode is None: no exit of the child has been noticed.
Alive(r) == runStatus[r] \in {"alive", "killed"}

Live == {r \in Run : Alive(r)}

BugExitSeenOnKill(r) == runStatus[r] \in {"killed", "exited"}
ExitSeen(r) == runStatus[r] = "exited"

\* A task that was asleep in proc.wait() is woken: CPython 3.11 also waits for
\* the end of the pipes, later versions do not (held stays empty with them).
WaitEnds(r) == ExitSeen(r) /\ r \notin held

Finished(t) == taskPc[t] \in {"done", "cancelled"}

\* self._proc and self._proc.returncode is None
BugProcDead == proc # None /\ ~Alive(proc)
ProcAlive == proc # None /\ Alive(proc)

Init ==
  /\ mode \in Modes
  /\ state = "stopped" /\ pid = None /\ lastExitCode = "none"
  /\ restartCount = 0 /\ window = 0
  /\ stopRequested = FALSE
  /\ proc = None /\ exited = 0 /\ firstSpawnDone = 0 /\ supervisorTask = None
  /\ log = 0 /\ previousLog = NoLog
  /\ exitedSet = {} /\ firstSet = {}
  /\ taskPc = [t \in Task |-> "none"] /\ taskRun = [t \in Task |-> None]
  /\ runStatus = [r \in Run |-> "none"] /\ exitCode = [r \in Run |-> "none"]
  /\ held = {}
  /\ sink = [r \in Run |-> NoLog] /\ lines = [b \in 0..MaxSpawns |-> {}]
  /\ clientPc = [c \in Clients |-> "idle"]
  /\ clientRef = [c \in Clients |-> None]
  /\ wanted = "down"
  /\ nTasks = 0 /\ nRuns = 0

(***************************************************************************)
(* start(): ProcessManager.start and ManagedProcess.start.                 *)
(***************************************************************************)

BugCanRestart == state # "starting"
CanStart == state \notin {"running", "starting"}

\* Already running or starting: the call returns at once.
StartNoop(c) ==
  /\ clientPc[c] = "idle"
  /\ ~CanStart
  /\ wanted' = "up"
  /\ UNCHANGED <<mode, statusVars, policyVars, objectVars, logVars, exitedSet,
                 firstSet, taskVars, childVars, clientVars, countVars>>

\* Otherwise a fresh supervisor task is scheduled and its first spawn awaited.
Start(c) ==
  /\ clientPc[c] = "idle"
  /\ CanStart
  /\ nTasks < MaxStarts /\ nRuns < MaxSpawns            \* bounds
  /\ LET t == nTasks + 1 IN
       /\ nTasks' = t
       /\ firstSpawnDone' = t
       /\ supervisorTask' = t
       /\ taskPc' = [taskPc EXCEPT ![t] = "created"]
       /\ clientRef' = [clientRef EXCEPT ![c] = t]
  /\ clientPc' = [clientPc EXCEPT ![c] = "starting"]
  /\ stopRequested' = FALSE
  /\ restartCount' = 0 /\ window' = 0
  /\ wanted' = "up"
  /\ UNCHANGED <<mode, statusVars, logVars, exitedSet, firstSet, taskRun,
                 childVars, proc, exited, nRuns>>

StartReturn(c) ==
  /\ clientPc[c] = "starting"
  /\ clientRef[c] \in firstSet
  /\ clientPc' = [clientPc EXCEPT ![c] = "idle"]
  /\ UNCHANGED <<mode, statusVars, policyVars, objectVars, logVars, exitedSet,
                 firstSet, taskVars, childVars, clientRef, wanted, countVars>>

(***************************************************************************)
(* _supervise() and _spawn(): the steps of a supervisor task.              *)
(***************************************************************************)

\* Policy after an exit or a failed spawn: return, go to backoff, or sleep.
BugForgetStop(code) == mode = "never" \/ (mode = "on-failure" /\ code = "zero")
NoRestart(code) ==
  \/ stopRequested
  \/ mode = "never"
  \/ mode = "on-failure" /\ code = "zero"

BugAsMany(n) == n >= MaxRestarts
TooMany(n) == n > MaxRestarts

AfterExit(t, ended, code) ==
  /\ lastExitCode' = code
  /\ \/ /\ NoRestart(code)
        /\ state' = ended
        /\ taskPc' = [taskPc EXCEPT ![t] = "done"]
        /\ UNCHANGED policyVars
     \/ /\ ~NoRestart(code)
        /\ \E kept \in 0..window : window' = kept + 1
        /\ restartCount' = restartCount + 1
        /\ IF TooMany(window')
             THEN /\ state' = "backoff"
                  /\ taskPc' = [taskPc EXCEPT ![t] = "done"]
             ELSE /\ state' = ended
                  /\ taskPc' = [taskPc EXCEPT ![t] = "sleeping"]

\* A non-empty buffer becomes previous_log; an empty one is used again.
BugRotateSwapped(r) ==
  IF lines[log] # {}
    THEN previousLog' = log /\ log' = previousLog
    ELSE UNCHANGED <<log, previousLog>>
BugRotateRecycled(r) ==
  IF lines[log] # {}
    THEN previousLog' = log /\ log' = (IF previousLog = NoLog THEN r ELSE previousLog)
    ELSE UNCHANGED <<log, previousLog>>
RotateLog(r) ==
  IF lines[log] # {}
    THEN previousLog' = log /\ log' = r
    ELSE UNCHANGED <<log, previousLog>>

SetFirstSpawnDone == firstSet' = firstSet \cup {firstSpawnDone}

SpawnStarted(t, r) ==
  /\ runStatus' = [runStatus EXCEPT ![r] = "alive"]
  /\ taskPc' = [taskPc EXCEPT ![t] = "spawning"]
  /\ state' = "starting"
  /\ UNCHANGED <<lastExitCode, policyVars, firstSet, exitCode, lines>>

SpawnFailed(t, r) ==
  /\ runStatus' = [runStatus EXCEPT ![r] = "failed"]
  /\ exitCode' = [exitCode EXCEPT ![r] = "nonzero"]
  /\ lines' = [lines EXCEPT ![log'] = @ \cup {r}]
  /\ SetFirstSpawnDone
  /\ AfterExit(t, "crashed", "nonzero")

BeginSpawn(t) ==
  /\ nRuns < MaxSpawns                                  \* bound
  /\ LET r == nRuns + 1 IN
       /\ nRuns' = r
       /\ exited' = r
       /\ taskRun' = [taskRun EXCEPT ![t] = r]
       /\ RotateLog(r)
       /\ SpawnStarted(t, r) \/ SpawnFailed(t, r)
  /\ UNCHANGED <<mode, pid, proc, stopRequested, firstSpawnDone,
                 supervisorTask, exitedSet, held, sink, clientVars, wanted,
                 nTasks>>

FirstStep(t) == taskPc[t] = "created" /\ BeginSpawn(t)

\* The backoff sleep is over.
BugRespawnIfStopped(t) == taskPc[t] = "sleeping" /\ stopRequested /\ BeginSpawn(t)
Respawn(t) == taskPc[t] = "sleeping" /\ ~stopRequested /\ BeginSpawn(t)

GiveUp(t) ==
  /\ taskPc[t] = "sleeping" /\ stopRequested
  /\ taskPc' = [taskPc EXCEPT ![t] = "done"]
  /\ UNCHANGED <<mode, statusVars, policyVars, objectVars, logVars, exitedSet,
                 firstSet, taskRun, childVars, clientVars, wanted, countVars>>

\* create_subprocess_exec returned and the child is still there.
Spawned(t) ==
  LET r == taskRun[t] IN
  /\ taskPc[t] = "spawning" /\ Alive(r)
  /\ taskPc' = [taskPc EXCEPT ![t] = "waiting"]
  /\ proc' = r /\ pid' = r
  /\ state' = "running"
  /\ sink' = [sink EXCEPT ![r] = log]
  /\ SetFirstSpawnDone
  /\ UNCHANGED <<mode, lastExitCode, policyVars, stopRequested, exited,
                 firstSpawnDone, supervisorTask, log, previousLog, lines,
                 exitedSet, taskRun, childVars, clientVars, wanted, countVars>>

BugExitedUnset == UNCHANGED exitedSet
SetExited == exitedSet' = exitedSet \cup {exited}

RecordExit(t) ==
  LET code == exitCode[taskRun[t]] IN
  /\ pid' = None
  /\ SetExited
  /\ AfterExit(t, IF code = "zero" THEN "stopped" ELSE "crashed", code)

\* The child is gone already: proc.wait() returns without suspending, whoever
\* holds the pipes.
SpawnedExited(t) ==
  LET r == taskRun[t] IN
  /\ taskPc[t] = "spawning" /\ ExitSeen(r)
  /\ proc' = r
  /\ sink' = [sink EXCEPT ![r] = log]
  /\ SetFirstSpawnDone
  /\ RecordExit(t)
  /\ UNCHANGED <<mode, stopRequested, exited, firstSpawnDone, supervisorTask,
                 log, previousLog, lines, taskRun, childVars, clientVars,
                 wanted, countVars>>

ObserveExit(t) ==
  /\ taskPc[t] = "waiting" /\ WaitEnds(taskRun[t])
  /\ RecordExit(t)
  /\ UNCHANGED <<mode, objectVars, logVars, firstSet, taskRun, childVars,
                 clientVars, wanted, countVars>>

\* CancelledError leaves _supervise: nothing is recorded of a living child,
\* one that was still being spawned is first killed and awaited, with our ends
\* of its pipes closed.
TaskCancelled(t) ==
  /\ \/ taskPc[t] = "cancelling"
     \/ taskPc[t] = "aborting" /\ ExitSeen(taskRun[t])
  /\ taskPc' = [taskPc EXCEPT ![t] = "cancelled"]
  /\ UNCHANGED <<mode, statusVars, policyVars, objectVars, logVars, exitedSet,
                 firstSet, taskRun, childVars, clientVars, wanted, countVars>>

\* task.cancel()
Cancel(t) ==
  /\ taskPc' = CASE taskPc[t] = "spawning" -> [taskPc EXCEPT ![t] = "aborting"]
                 [] taskPc[t] \in {"created", "waiting", "sleeping", "aborting"}
                      -> [taskPc EXCEPT ![t] = "cancelling"]
                 [] OTHER -> taskPc
  /\ runStatus' = IF taskPc[t] = "spawning" /\ Alive(taskRun[t])
                    THEN [runStatus EXCEPT ![taskRun[t]] = "killed"]
                    ELSE runStatus

(***************************************************************************)
(* Children, and the processes they leave behind with their pipes.         *)
(***************************************************************************)

\* Only who is asleep in proc.wait() when the child exits minds its pipes.
Awaited(r) == \E t \in Task : taskPc[t] = "waiting" /\ taskRun[t] = r

ChildExit(r, code) ==
  /\ \/ runStatus[r] = "alive"
     \/ runStatus[r] = "killed" /\ code = "nonzero"
  /\ runStatus' = [runStatus EXCEPT ![r] = "exited"]
  /\ exitCode' = [exitCode EXCEPT ![r] = code]
  /\ \/ UNCHANGED held
     \/ Awaited(r) /\ held' = held \cup {r}
  /\ UNCHANGED <<mode, statusVars, policyVars, objectVars, logVars, exitedSet,
                 firstSet, taskVars, clientVars, wanted, countVars>>

PipesClose(r) ==
  /\ r \in held
  /\ held' = held \ {r}
  /\ UNCHANGED <<mode, statusVars, policyVars, objectVars, logVars, exitedSet,
                 firstSet, taskVars, runStatus, exitCode, clientVars, wanted,
                 countVars>>

\* A pump task appends a line, perhaps after the exit was recorded.
Output(r) ==
  /\ r \in Writers
  /\ sink[r] # NoLog
  /\ lines' = [lines EXCEPT ![sink[r]] = @ \cup {r}]
  /\ UNCHANGED <<mode, statusVars, policyVars, objectVars, log, previousLog,
                 sink, exitedSet, firstSet, taskVars, childVars, clientVars,
                 wanted, countVars>>

(***************************************************************************)
(* stop(): ProcessManager.stop and ManagedProcess.stop.                    *)
(***************************************************************************)

\* The manager answers {stopped: false} from the status alone.
StopNoop(c) ==
  /\ clientPc[c] = "idle"
  /\ state = "stopped"
  /\ wanted' = "refused"
  /\ UNCHANGED <<mode, statusVars, policyVars, objectVars, logVars, exitedSet,
                 firstSet, taskVars, childVars, clientVars, countVars>>

WaitFor(c, pc, ref) ==
  /\ clientPc' = [clientPc EXCEPT ![c] = pc]
  /\ clientRef' = [clientRef EXCEPT ![c] = ref]

\* The signal is sent (it may be ignored, so it has no effect of its own).
Stop(c) ==
  /\ clientPc[c] = "idle"
  /\ state # "stopped"
  /\ stopRequested' = TRUE
  /\ wanted' = "down"
  /\ IF ProcAlive THEN WaitFor(c, "stopWaitExit", exited)
                  ELSE WaitFor(c, "stopWaitTask", supervisorTask)
  /\ UNCHANGED <<mode, statusVars, policyVars, proc, exited, firstSpawnDone,
                 supervisorTask, logVars, exitedSet, firstSet, taskVars,
                 childVars, countVars>>

StopExited(c) ==
  /\ clientPc[c] \in {"stopWaitExit", "stopWaitKilled"}
  /\ clientRef[c] \in exitedSet
  /\ WaitFor(c, "stopWaitTask", supervisorTask)
  /\ UNCHANGED <<mode, statusVars, policyVars, objectVars, logVars, exitedSet,
                 firstSet, taskVars, childVars, wanted, countVars>>

\* The grace period is over: SIGKILL, then wait for as long as it takes.
StopGrace(c) ==
  /\ clientPc[c] = "stopWaitExit"
  /\ IF ProcAlive
       THEN /\ runStatus' = [runStatus EXCEPT ![proc] = "killed"]
            /\ IF exited \in exitedSet
                 THEN WaitFor(c, "stopWaitTask", supervisorTask)
                 ELSE WaitFor(c, "stopWaitKilled", exited)
       ELSE /\ UNCHANGED runStatus
            /\ WaitFor(c, "stopWaitTask", supervisorTask)
  /\ UNCHANGED <<mode, statusVars, policyVars, objectVars, logVars, exitedSet,
                 firstSet, taskVars, exitCode, held, wanted, countVars>>

BugReportNothing == UNCHANGED state
ReportStopped == state' = "stopped"

\* The supervisor task returned in time.
StopJoined(c) ==
  /\ clientPc[c] = "stopWaitTask"
  /\ taskPc[clientRef[c]] = "done"
  /\ WaitFor(c, "idle", None)
  /\ ReportStopped
  /\ UNCHANGED <<mode, pid, lastExitCode, policyVars, objectVars, logVars,
                 exitedSet, firstSet, taskVars, childVars, wanted, countVars>>

\* Another stop cancelled it: its CancelledError leaves this stop as well.
StopJoinCancelled(c) ==
  /\ clientPc[c] = "stopWaitTask"
  /\ taskPc[clientRef[c]] = "cancelled"
  /\ WaitFor(c, "idle", None)
  /\ UNCHANGED <<mode, statusVars, policyVars, objectVars, logVars, exitedSet,
                 firstSet, taskVars, childVars, wanted, countVars>>

\* wait_for gives up: it cancels the task and waits for it to be cancelled.
StopJoinTimeout(c) ==
  /\ clientPc[c] = "stopWaitTask"
  /\ ~Finished(clientRef[c])
  /\ clientPc' = [clientPc EXCEPT ![c] = "stopCancelling"]
  /\ Cancel(clientRef[c])
  /\ UNCHANGED <<mode, statusVars, policyVars, objectVars, logVars, exitedSet,
                 firstSet, taskRun, exitCode, held, clientRef, wanted,
                 countVars>>

\* TimeoutError arrives: whatever is _supervisor_task by now is cancelled.
StopCancelled(c) ==
  /\ clientPc[c] = "stopCancelling"
  /\ Finished(clientRef[c])
  /\ Cancel(supervisorTask)
  /\ WaitFor(c, "idle", None)
  /\ ReportStopped
  /\ UNCHANGED <<mode, pid, lastExitCode, policyVars, objectVars, logVars,
                 exitedSet, firstSet, taskRun, exitCode, held, wanted,
                 countVars>>

-----------------------------------------------------------------------------

Call(c) == StartNoop(c) \/ Start(c) \/ StopNoop(c) \/ Stop(c)

ClientStep(c) ==
  \/ StartReturn(c) \/ StopExited(c) \/ StopGrace(c) \/ StopJoined(c)
  \/ StopJoinCancelled(c) \/ StopJoinTimeout(c) \/ StopCancelled(c)

TaskStep(t) ==
  \/ FirstStep(t) \/ Respawn(t) \/ GiveUp(t) \/ Spawned(t)
  \/ SpawnedExited(t) \/ ObserveExit(t) \/ TaskCancelled(t)

ChildStep(r) ==
  Output(r) \/ PipesClose(r) \/ \E code \in ExitCode : ChildExit(r, code)

Next ==
  \/ \E c \in Clients : Call(c) \/ ClientStep(c)
  \/ \E t \in Task : TaskStep(t)
  \/ \E r \in Run : ChildStep(r)

Spec == Init /\ [][Next]_vars

(***************************************************************************)
(* A patient environment: one call at a time, and none while a (re)spawn   *)
(* is pending.  What the code promises holds there; the runs without it    *)
(* show which promises depend on it.                                       *)
(***************************************************************************)
Idle == \A c \in Clients : clientPc[c] = "idle"

Quiet ==
  /\ Idle
  /\ \A t \in Task : taskPc[t] \notin {"created", "spawning", "sleeping"}

PatientNext ==
  \/ \E c \in Clients : (Quiet /\ Call(c)) \/ ClientStep(c)
  \/ \E t \in Task : TaskStep(t)
  \/ \E r \in Run : ChildStep(r)

PatientSpec == Init /\ [][PatientNext]_vars

(***************************************************************************)
(* Fairness: the loop resumes every coroutine that is ready and every      *)
(* timer expires; a killed child exits.  A child that was not killed may   *)
(* run for ever, a descendant may hold the pipes for ever, and nobody has  *)
(* to call.  As long as calls are patient one task at most is at work and  *)
(* one child at most lives, so that one condition serves all of them.      *)
(***************************************************************************)
SomeTaskStep  == \E t \in Task : TaskStep(t)
KilledExit(r) == runStatus[r] = "killed" /\ ChildExit(r, "nonzero")
SomeKilledExit == \E r \in Run : KilledExit(r)

CallGoesOn(c) == WF_vars(ClientStep(c))
TasksGoOn     == WF_vars(SomeTaskStep)
KilledExits   == WF_vars(SomeKilledExit)

FairPatientSpec ==
  /\ PatientSpec
  /\ \A c \in Clients : CallGoesOn(c)
  /\ TasksGoOn /\ KilledExits

\* Where its guard holds a fair action can be taken: all that the proof of
\* CallsReturn asks of ENABLED.
CallReady(c) ==
  \/ clientPc[c] = "starting" /\ clientRef[c] \in firstSet
  \/ clientPc[c] \in {"stopWaitExit", "stopWaitTask"}
  \/ clientPc[c] = "stopWaitKilled" /\ clientRef[c] \in exitedSet
  \/ clientPc[c] = "stopCancelling" /\ Finished(clientRef[c])

TaskReady(t) ==
  \/ taskPc[t] = "created" /\ nRuns < MaxSpawns
  \/ taskPc[t] = "spawning" /\ (Alive(taskRun[t]) \/ ExitSeen(taskRun[t]))
  \/ taskPc[t] = "waiting" /\ WaitEnds(taskRun[t])
  \/ taskPc[t] = "cancelling"

Unblocked ==
  /\ \A c \in Clients : CallReady(c) => ENABLED <<ClientStep(c)>>_vars
  /\ \A t \in Task : TaskReady(t) => ENABLED <<SomeTaskStep>>_vars
  /\ \A r \in Run : runStatus[r] = "killed" => ENABLED <<SomeKilledExit>>_vars

-----------------------------------------------------------------------------
(***************************************************************************)
(* Properties of every execution.                                          *)
(***************************************************************************)

\* Every variable keeps to its values, and a task that handles a child knows
\* which one (ManagedProcess.__init__, process.py:48-64).
ObjectTypeOK ==
  /\ mode \in Modes
  /\ state \in State /\ pid \in 0..MaxSpawns
  /\ lastExitCode \in ExitCode \cup {"none"}
  /\ restartCount \in Nat /\ window \in Nat
  /\ proc \in 0..MaxSpawns /\ exited \in 0..MaxSpawns
  /\ firstSpawnDone \in 0..MaxStarts /\ supervisorTask \in 0..MaxStarts
  /\ exitedSet \subseteq 0..MaxSpawns /\ firstSet \subseteq 0..MaxStarts
  /\ nTasks \in 0..MaxStarts /\ nRuns \in 0..MaxSpawns

LogTypeOK ==
  /\ log \in 0..MaxSpawns /\ previousLog \in NoLog..MaxSpawns
  /\ sink \in [Run -> NoLog..MaxSpawns]
  /\ lines \in [0..MaxSpawns -> SUBSET Run]

TaskTypeOK ==
  /\ taskPc \in [Task -> TaskPc] /\ taskRun \in [Task -> 0..MaxSpawns]
  /\ \A t \in Task :
       taskPc[t] \in {"spawning", "waiting", "aborting"} => taskRun[t] # None

ChildTypeOK ==
  /\ runStatus \in [Run -> {"none", "alive", "killed", "exited", "failed"}]
  /\ exitCode \in [Run -> ExitCode \cup {"none"}]
  /\ held \subseteq Run

ClientTypeOK ==
  /\ clientPc \in [Clients -> ClientPc]
  /\ clientRef \in [Clients -> Nat]
  /\ wanted \in {"up", "down", "refused"}

FlagTypeOK == stopRequested \in BOOLEAN

TypeOK ==
  FlagTypeOK /\ ObjectTypeOK /\ LogTypeOK /\ TaskTypeOK /\ ChildTypeOK /\ ClientTypeOK

Minding(t) == taskPc[t] \in {"spawning", "waiting", "aborting", "cancelling"}

\* A supervisor never returns, sleeps or respawns while its child lives: a
\* living child has its task on it, or lost that task to a cancellation
\* (_supervise, process.py:152-194).
ChildrenAreMinded ==
  \A r \in Live : \E t \in Task :
     taskRun[t] = r /\ (Minding(t) \/ taskPc[t] = "cancelled")

Overwriting == \E c \in Clients : clientPc[c] = "stopCancelling"

\* status() is never stuck: "running" and "starting" are backed by the task
\* that will replace them, or by a stop about to write "stopped".  start()
\* relies on it: it does nothing in these states (process.py:69, 90-99, 122).
StatusIsBacked ==
  /\ state = "running" =>
       Overwriting \/ \E t \in Task : taskPc[t] = "waiting" /\ taskRun[t] = pid
  /\ state = "starting" =>
       Overwriting \/ \E t \in Task : taskPc[t] = "spawning"

\* "backoff" is reported only after more than max_restarts restarts in the
\* window, until a start() or a stop() takes over (process.py:180-190).
BackoffIsEarned ==
  state = "backoff" =>
    \/ window > MaxRestarts /\ restartCount > MaxRestarts
    \/ \E t \in Task : taskPc[t] = "created"
    \/ Overwriting

(***************************************************************************)
(* What the documentation promises.                                        *)
(***************************************************************************)

At(pcs) == \E t \in Task : taskPc[t] \in pcs

\* "Single supervised process" (process.py:28).
SingleChild == \A r, s \in Live : r = s

\* A stop that returned leaves no child behind and reports it; one that was
\* answered {stopped: false} found the tool down, and down it stays until the
\* next start (server.py:73-77).
StopLeavesNothing ==
  Idle =>
    /\ wanted = "down" => Live = {} /\ state = "stopped"
    /\ wanted = "refused" => Live = {} /\ ~At({"created", "spawning", "sleeping"})

\* What previous_log holds is older than what log holds (process.py:135-137).
LogsInOrder ==
  previousLog # NoLog =>
    \A r \in lines[previousLog], s \in lines[log] : r < s

\* stop() waits, without a timeout, for the end of the pipes of a child it has
\* killed (process.py:93, 164).
WaitsForPipes(c) == clientPc[c] = "stopWaitKilled" /\ clientRef[c] \in held

\* A call hangs in one way only: stop() killed the child and a descendant keeps
\* the pipes open for ever.  Any other call returns, start when its first spawn
\* attempt is over (server.py:53), stop because it kills after the grace period
\* (server.py:73-74), although the exit, the timers and the steps of the
\* supervisor come in any order.
CallsReturn ==
  \A c \in Clients :
    clientPc[c] # "idle" ~> (clientPc[c] = "idle" \/ []WaitsForPipes(c))

\* A crash is followed by another run, by backoff or by a stop, unless the
\* policy lets the tool rest (README.md:184-192).
CrashIsHandled ==
  state = "crashed" ~>
    \/ state \in {"running", "backoff", "stopped"}
    \/ NoRestart(lastExitCode)
    \/ nRuns = MaxSpawns

(***************************************************************************)
(* The state machine the documentation draws (README.md:184-194).          *)
(***************************************************************************)

\* A task that start() has only scheduled is starting already, and the status
\* does not tell a sleep from a rest.
Phase ==
  CASE At({"created", "spawning"}) -> "starting"
    [] At({"sleeping"})            -> "sleeping"
    [] OTHER                       -> state

Drawn == INSTANCE Lifecycle WITH phase <- Phase, restarts <- restartCount,
                                 stopping <- stopRequested

\* A patiently used tool goes through the drawing and no other way: restarts
\* and the counter follow the policy, backoff is earned, nothing but start()
\* leads out of a rest, a stop ends in "stopped" (process.py:152-194).
FollowsTheDrawing == Drawn!Spec

=============================================================================
