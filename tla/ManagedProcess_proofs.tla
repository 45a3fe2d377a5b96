------------------------ MODULE ManagedProcess_proofs ------------------------
(***************************************************************************)
(* Proofs about ManagedProcess, for any clients, policies and bounds.      *)
(***************************************************************************)
EXTENDS ManagedProcess, TLAPS

\* What the policy step after an exit writes, whichever way it goes.
LEMMA AfterExitType ==
  ASSUME TypeOK, NEW t \in Task, NEW ended \in State,
         NEW code \in ExitCode \cup {"none"}, AfterExit(t, ended, code)
  PROVE  /\ lastExitCode' = code
         /\ state' \in State
         /\ window' \in Nat /\ restartCount' \in Nat
         /\ \E pc \in {"done", "sleeping"} : taskPc' = [taskPc EXCEPT ![t] = pc]
BY DEF AfterExit, TypeOK, ObjectTypeOK, State, policyVars

\* Type correctness: the fields of the object, its tasks, children and calls
\* keep to their values (process.py:48-64).
THEOREM TypeCorrect == Spec => []TypeOK
<1>1. Init => TypeOK
  <2> USE ConstantsAssumption
      DEF Init, State, ExitCode, TaskPc, ClientPc, Task, Run, None, NoLog
  <2>0. Init => FlagTypeOK
    BY DEF FlagTypeOK
  <2>1. Init => ObjectTypeOK
    BY DEF ObjectTypeOK
  <2>2. Init => LogTypeOK
    BY DEF LogTypeOK
  <2>3. Init => TaskTypeOK
    BY DEF TaskTypeOK
  <2>4. Init => ChildTypeOK
    BY DEF ChildTypeOK
  <2>5. Init => ClientTypeOK
    BY DEF ClientTypeOK
  <2>6. QED
    BY <2>0, <2>1, <2>2, <2>3, <2>4, <2>5 DEF TypeOK
<1>2. TypeOK /\ [Next]_vars => TypeOK'
  <2> SUFFICES ASSUME TypeOK, [Next]_vars
               PROVE  TypeOK'
    OBVIOUS
  <2> USE ConstantsAssumption
      DEF TypeOK, ObjectTypeOK, LogTypeOK, TaskTypeOK, ChildTypeOK, ClientTypeOK,
          State, ExitCode, TaskPc, ClientPc, Task, Run, None, NoLog,
          statusVars, policyVars, logVars, childVars, taskVars, clientVars,
          objectVars, countVars
  <2>0. exited \in Nat /\ supervisorTask \in Nat
    OBVIOUS
  <2>1. CASE UNCHANGED vars
    BY <2>1 DEF FlagTypeOK, vars
  <2>2. ASSUME NEW c \in Clients, Call(c)
        PROVE  TypeOK'
    <3>1. CASE StartNoop(c)
      BY <3>1 DEF FlagTypeOK, StartNoop
    <3>2. CASE Start(c)
      <4>0. FlagTypeOK'
        BY <3>2 DEF FlagTypeOK, Start
      <4>1. ObjectTypeOK'
        BY <3>2 DEF Start
      <4>2. LogTypeOK'
        BY <3>2 DEF Start
      <4>3. TaskTypeOK'
        BY <3>2 DEF Start
      <4>4. ChildTypeOK'
        BY <3>2 DEF Start
      <4>5. ClientTypeOK'
        BY <3>2 DEF Start
      <4>6. QED
        BY <4>0, <4>1, <4>2, <4>3, <4>4, <4>5 DEF TypeOK
    <3>3. CASE StopNoop(c)
      BY <3>3 DEF FlagTypeOK, StopNoop
    <3>4. CASE Stop(c)
      <4>0. FlagTypeOK'
        BY <3>4 DEF FlagTypeOK, Stop, WaitFor
      <4>1. ObjectTypeOK'
        BY <3>4 DEF Stop, WaitFor
      <4>2. LogTypeOK'
        BY <3>4 DEF Stop, WaitFor
      <4>3. TaskTypeOK'
        BY <3>4 DEF Stop, WaitFor
      <4>4. ChildTypeOK'
        BY <3>4 DEF Stop, WaitFor
      <4>5. ClientTypeOK'
        <5>1. /\ wanted' = "down"
              /\ \/ WaitFor(c, "stopWaitTask", supervisorTask)
                 \/ WaitFor(c, "stopWaitExit", exited)
          BY <3>4 DEF Stop
        <5>2. clientPc' \in [Clients -> ClientPc] /\ clientRef' \in [Clients -> Nat]
          <6>1. CASE WaitFor(c, "stopWaitTask", supervisorTask)
            BY <6>1, <2>0 DEF WaitFor
          <6>2. CASE WaitFor(c, "stopWaitExit", exited)
            BY <6>2, <2>0 DEF WaitFor
          <6>3. QED
            BY <5>1, <6>1, <6>2
        <5>3. QED
          BY <5>1, <5>2
      <4>6. QED
        BY <4>0, <4>1, <4>2, <4>3, <4>4, <4>5 DEF TypeOK
    <3>5. QED
      BY <2>2, <3>1, <3>2, <3>3, <3>4 DEF Call
  <2>3. ASSUME NEW c \in Clients, ClientStep(c)
        PROVE  TypeOK'
    <3>1. CASE StartReturn(c)
      BY <3>1 DEF FlagTypeOK, StartReturn
    <3>2. CASE StopExited(c)
      <4>1. /\ UNCHANGED <<mode, statusVars, policyVars, objectVars, logVars, exitedSet,
                           firstSet, taskVars, childVars, wanted, countVars>>
            /\ clientPc' = [clientPc EXCEPT ![c] = "stopWaitTask"]
            /\ clientRef' = [clientRef EXCEPT ![c] = supervisorTask]
        BY <3>2 DEF StopExited, WaitFor
      <4>2. FlagTypeOK' /\ ObjectTypeOK' /\ LogTypeOK' /\ TaskTypeOK' /\ ChildTypeOK'
        BY <4>1 DEF FlagTypeOK
      <4>3. ClientTypeOK'
        BY <4>1, <2>0
      <4>4. QED
        BY <4>2, <4>3 DEF TypeOK
    <3>3. CASE StopGrace(c)
      <4>0. FlagTypeOK'
        BY <3>3 DEF FlagTypeOK, StopGrace, WaitFor, ProcAlive
      <4>1. ObjectTypeOK'
        BY <3>3 DEF StopGrace, WaitFor, ProcAlive
      <4>2. LogTypeOK'
        BY <3>3 DEF StopGrace, WaitFor, ProcAlive
      <4>3. TaskTypeOK'
        BY <3>3 DEF StopGrace, WaitFor, ProcAlive
      <4>4. ChildTypeOK'
        BY <3>3 DEF StopGrace, WaitFor, ProcAlive
      <4>5. ClientTypeOK'
        <5>1. /\ wanted' = wanted
              /\ \/ WaitFor(c, "stopWaitTask", supervisorTask)
                 \/ WaitFor(c, "stopWaitKilled", exited)
          BY <3>3 DEF StopGrace
        <5>2. clientPc' \in [Clients -> ClientPc] /\ clientRef' \in [Clients -> Nat]
          <6>1. CASE WaitFor(c, "stopWaitTask", supervisorTask)
            BY <6>1, <2>0 DEF WaitFor
          <6>2. CASE WaitFor(c, "stopWaitKilled", exited)
            BY <6>2, <2>0 DEF WaitFor
          <6>3. QED
            BY <5>1, <6>1, <6>2
        <5>3. QED
          BY <5>1, <5>2
      <4>6. QED
        BY <4>0, <4>1, <4>2, <4>3, <4>4, <4>5 DEF TypeOK
    <3>4. CASE StopJoined(c)
      BY <3>4 DEF FlagTypeOK, StopJoined, WaitFor, ReportStopped
    <3>5. CASE StopJoinCancelled(c)
      BY <3>5 DEF FlagTypeOK, StopJoinCancelled, WaitFor
    <3>6. CASE StopJoinTimeout(c)
      <4>0. FlagTypeOK'
        BY <3>6 DEF FlagTypeOK, StopJoinTimeout, Cancel
      <4>1. ObjectTypeOK'
        BY <3>6 DEF StopJoinTimeout, Cancel
      <4>2. LogTypeOK'
        BY <3>6 DEF StopJoinTimeout, Cancel
      <4>3. TaskTypeOK'
        BY <3>6 DEF StopJoinTimeout, Cancel
      <4>4. ChildTypeOK'
        BY <3>6 DEF StopJoinTimeout, Cancel
      <4>5. ClientTypeOK'
        BY <3>6 DEF StopJoinTimeout, Cancel
      <4>6. QED
        BY <4>0, <4>1, <4>2, <4>3, <4>4, <4>5 DEF TypeOK
    <3>7. CASE StopCancelled(c)
      <4>0. FlagTypeOK'
        BY <3>7 DEF FlagTypeOK, StopCancelled, Cancel, WaitFor, ReportStopped
      <4>1. ObjectTypeOK'
        BY <3>7 DEF StopCancelled, Cancel, WaitFor, ReportStopped
      <4>2. LogTypeOK'
        BY <3>7 DEF StopCancelled, Cancel, WaitFor, ReportStopped
      <4>3. TaskTypeOK'
        BY <3>7 DEF StopCancelled, Cancel, WaitFor, ReportStopped
      <4>4. ChildTypeOK'
        BY <3>7 DEF StopCancelled, Cancel, WaitFor, ReportStopped
      <4>5. ClientTypeOK'
        BY <3>7 DEF StopCancelled, Cancel, WaitFor, ReportStopped
      <4>6. QED
        BY <4>0, <4>1, <4>2, <4>3, <4>4, <4>5 DEF TypeOK
    <3>8. QED
      BY <2>3, <3>1, <3>2, <3>3, <3>4, <3>5, <3>6, <3>7 DEF ClientStep
  <2>4. ASSUME NEW t \in Task, BeginSpawn(t)
        PROVE  TypeOK'
    <3> USE DEF BeginSpawn
    <3>0. log' \in 0..MaxSpawns /\ previousLog' \in NoLog..MaxSpawns
      <4>1. RotateLog(nRuns + 1) /\ nRuns + 1 \in 0..MaxSpawns
        BY <2>4
      <4>2. CASE UNCHANGED <<log, previousLog>>
        BY <4>2
      <4>3. CASE previousLog' = log /\ log' = nRuns + 1
        BY <4>1, <4>3
      <4>4. QED
        BY <4>1, <4>2, <4>3 DEF RotateLog
    <3>1. CASE SpawnStarted(t, nRuns + 1)
      <4>0. FlagTypeOK'
        BY <2>4, <3>1 DEF FlagTypeOK, SpawnStarted, RotateLog
      <4>1. ObjectTypeOK'
        BY <2>4, <3>1 DEF SpawnStarted, RotateLog
      <4>2. LogTypeOK'
        <5>1. UNCHANGED <<sink, lines>>
          BY <2>4, <3>1 DEF SpawnStarted
        <5>2. sink' \in [Run -> NoLog..MaxSpawns] /\ lines' \in [0..MaxSpawns -> SUBSET Run]
          BY <5>1
        <5>3. QED
          BY <3>0, <5>2
      <4>3. TaskTypeOK'
        <5>1. /\ taskPc' = [taskPc EXCEPT ![t] = "spawning"]
              /\ taskRun' = [taskRun EXCEPT ![t] = nRuns + 1]
              /\ nRuns + 1 \in 0..MaxSpawns /\ nRuns + 1 # None
          BY <2>4, <3>1 DEF SpawnStarted
        <5>2. taskPc' \in [Task -> TaskPc] /\ taskRun' \in [Task -> 0..MaxSpawns]
          BY <5>1
        <5>3. QED
          BY <5>1, <5>2
      <4>4. ChildTypeOK'
        BY <2>4, <3>1 DEF SpawnStarted, RotateLog
      <4>5. ClientTypeOK'
        BY <2>4, <3>1 DEF SpawnStarted, RotateLog
      <4>6. QED
        BY <4>0, <4>1, <4>2, <4>3, <4>4, <4>5 DEF TypeOK
    <3>2. CASE SpawnFailed(t, nRuns + 1)
      <4> USE DEF SpawnFailed
      <4>a. AfterExit(t, "crashed", "nonzero")
        BY <3>2
      <4>b. /\ lastExitCode' = "nonzero" /\ state' \in State
            /\ window' \in Nat /\ restartCount' \in Nat
            /\ \E pc \in {"done", "sleeping"} : taskPc' = [taskPc EXCEPT ![t] = pc]
        BY <4>a, AfterExitType
      <4>0. FlagTypeOK'
        BY <2>4 DEF FlagTypeOK
      <4>1. ObjectTypeOK'
        BY <2>4, <3>2, <4>b DEF SetFirstSpawnDone
      <4>2. LogTypeOK'
        <5>1. UNCHANGED sink /\ lines' = [lines EXCEPT ![log'] = @ \cup {nRuns + 1}]
          BY <2>4, <3>2
        <5>2. nRuns + 1 \in Run
          BY <2>4
        <5>3. QED
          BY <3>0, <5>1, <5>2
      <4>3. TaskTypeOK'
        <5>1. PICK pc \in {"done", "sleeping"} : taskPc' = [taskPc EXCEPT ![t] = pc]
          BY <4>b
        <5>2. /\ taskRun' = [taskRun EXCEPT ![t] = nRuns + 1]
              /\ nRuns + 1 \in 0..MaxSpawns /\ nRuns + 1 # None
          BY <2>4
        <5>3. taskPc' \in [Task -> TaskPc] /\ taskRun' \in [Task -> 0..MaxSpawns]
          BY <5>1, <5>2
        <5>4. QED
          BY <5>1, <5>2, <5>3
      <4>4. ChildTypeOK'
        <5>1. /\ UNCHANGED held
              /\ runStatus' = [runStatus EXCEPT ![nRuns + 1] = "failed"]
              /\ exitCode' = [exitCode EXCEPT ![nRuns + 1] = "nonzero"]
          BY <2>4, <3>2
        <5>2. QED
          BY <5>1
      <4>5. ClientTypeOK'
        BY <2>4
      <4>6. QED
        BY <4>0, <4>1, <4>2, <4>3, <4>4, <4>5 DEF TypeOK
    <3>3. QED
      BY <2>4, <3>1, <3>2
  <2>5. ASSUME NEW t \in Task, TaskStep(t)
        PROVE  TypeOK'
    <3>1. CASE GiveUp(t)
      BY <3>1 DEF FlagTypeOK, GiveUp
    <3>2. CASE Spawned(t)
      <4>0. FlagTypeOK'
        BY <3>2 DEF FlagTypeOK, Spawned, SetFirstSpawnDone
      <4>1. ObjectTypeOK'
        BY <3>2 DEF Spawned, SetFirstSpawnDone
      <4>2. LogTypeOK'
        BY <3>2 DEF Spawned, SetFirstSpawnDone
      <4>3. TaskTypeOK'
        BY <3>2 DEF Spawned, SetFirstSpawnDone
      <4>4. ChildTypeOK'
        BY <3>2 DEF Spawned, SetFirstSpawnDone
      <4>5. ClientTypeOK'
        BY <3>2 DEF Spawned, SetFirstSpawnDone
      <4>6. QED
        BY <4>0, <4>1, <4>2, <4>3, <4>4, <4>5 DEF TypeOK
    <3>3. CASE SpawnedExited(t)
      <4> DEFINE code == exitCode[taskRun[t]]
      <4>a. /\ code \in ExitCode \cup {"none"}
            /\ RecordExit(t)
        BY <3>3 DEF SpawnedExited
      <4>b. /\ lastExitCode' = code /\ state' \in State
            /\ window' \in Nat /\ restartCount' \in Nat
            /\ \E pc \in {"done", "sleeping"} : taskPc' = [taskPc EXCEPT ![t] = pc]
        <5> HIDE DEF code
        <5> AfterExit(t, IF code = "zero" THEN "stopped" ELSE "crashed", code)
          BY <4>a DEF RecordExit, code
        <5> QED
          BY <4>a, AfterExitType
      <4>c. pid' = None /\ exitedSet' \subseteq 0..MaxSpawns
        BY <4>a DEF RecordExit, SetExited
      <4>0. FlagTypeOK'
        BY <3>3 DEF FlagTypeOK, SpawnedExited
      <4>1. ObjectTypeOK'
        BY <3>3, <4>a, <4>b, <4>c DEF SpawnedExited, SetFirstSpawnDone
      <4>2. LogTypeOK'
        BY <3>3 DEF SpawnedExited
      <4>3. TaskTypeOK'
        <5>1. UNCHANGED taskRun
          BY <3>3 DEF SpawnedExited
        <5>2. QED
          BY <4>b, <5>1
      <4>4. ChildTypeOK'
        BY <3>3 DEF SpawnedExited
      <4>5. ClientTypeOK'
        BY <3>3 DEF SpawnedExited
      <4>6. QED
        BY <4>0, <4>1, <4>2, <4>3, <4>4, <4>5 DEF TypeOK
    <3>4. CASE ObserveExit(t)
      <4> DEFINE code == exitCode[taskRun[t]]
      <4>a. /\ code \in ExitCode \cup {"none"}
            /\ RecordExit(t)
        BY <3>4 DEF ObserveExit
      <4>b. /\ lastExitCode' = code /\ state' \in State
            /\ window' \in Nat /\ restartCount' \in Nat
            /\ \E pc \in {"done", "sleeping"} : taskPc' = [taskPc EXCEPT ![t] = pc]
        <5> HIDE DEF code
        <5> AfterExit(t, IF code = "zero" THEN "stopped" ELSE "crashed", code)
          BY <4>a DEF RecordExit, code
        <5> QED
          BY <4>a, AfterExitType
      <4>c. pid' = None /\ exitedSet' \subseteq 0..MaxSpawns
        BY <4>a DEF RecordExit, SetExited
      <4>0. FlagTypeOK'
        BY <3>4 DEF FlagTypeOK, ObserveExit
      <4>1. ObjectTypeOK'
        BY <3>4, <4>a, <4>b, <4>c DEF ObserveExit, SetFirstSpawnDone
      <4>2. LogTypeOK'
        BY <3>4 DEF ObserveExit
      <4>3. TaskTypeOK'
        BY <3>4, <4>b DEF ObserveExit
      <4>4. ChildTypeOK'
        BY <3>4 DEF ObserveExit
      <4>5. ClientTypeOK'
        BY <3>4 DEF ObserveExit
      <4>6. QED
        BY <4>0, <4>1, <4>2, <4>3, <4>4, <4>5 DEF TypeOK
    <3>5. CASE TaskCancelled(t)
      BY <3>5 DEF FlagTypeOK, TaskCancelled
    <3>6. QED
      BY <2>4, <2>5, <3>1, <3>2, <3>3, <3>4, <3>5 DEF TaskStep, FirstStep, Respawn
  <2>6. ASSUME NEW r \in Run, ChildStep(r)
        PROVE  TypeOK'
    <3>1. CASE Output(r)
      BY <3>1 DEF FlagTypeOK, Output
    <3>2. ASSUME NEW code \in ExitCode, ChildExit(r, code)
          PROVE  TypeOK'
      BY <3>2 DEF FlagTypeOK, ChildExit, Awaited
    <3>3. CASE PipesClose(r)
      BY <3>3 DEF FlagTypeOK, PipesClose
    <3>4. QED
      BY <2>6, <3>1, <3>2, <3>3 DEF ChildStep
  <2>7. QED
    BY <2>1, <2>2, <2>3, <2>5, <2>6 DEF Next
<1>3. QED
  BY <1>1, <1>2, PTL DEF Spec


\* Ids are handed out in order: what has not been handed out is untouched.
FreshIds ==
  /\ \A t \in Task : t > nTasks => taskPc[t] = "none"
  /\ \A r \in Run : r > nRuns => runStatus[r] = "none"
  /\ \A t \in Task : taskRun[t] <= nRuns

LEMMA FreshIdsInvariant == Spec => []FreshIds
<1>1. Init => FreshIds
  BY ConstantsAssumption DEF Init, FreshIds, Task, Run, None
<1>2. TypeOK /\ FreshIds /\ [Next]_vars => FreshIds'
  <2> SUFFICES ASSUME TypeOK, FreshIds, [Next]_vars
               PROVE  FreshIds'
    OBVIOUS
  <2> USE ConstantsAssumption
      DEF FreshIds, Task, Run, TypeOK, ObjectTypeOK, TaskTypeOK, ChildTypeOK,
          childVars, taskVars, countVars
  <2>1. CASE UNCHANGED vars
    BY <2>1 DEF vars
  <2>2. ASSUME NEW c \in Clients, Call(c)
        PROVE  FreshIds'
    <3>1. CASE StartNoop(c) \/ StopNoop(c) \/ Stop(c)
      BY <3>1 DEF StartNoop, StopNoop, Stop
    <3>2. CASE Start(c)
      BY <3>2 DEF Start
    <3>3. QED
      BY <2>2, <3>1, <3>2 DEF Call
  <2>3. ASSUME NEW c \in Clients, ClientStep(c)
        PROVE  FreshIds'
    <3>1. CASE StartReturn(c) \/ StopExited(c) \/ StopJoined(c) \/ StopJoinCancelled(c)
      <4>1. UNCHANGED <<taskVars, childVars, countVars>>
        BY <3>1 DEF StartReturn, StopExited, StopJoined, StopJoinCancelled
      <4>2. QED
        BY <4>1
    <3>2. CASE StopGrace(c)
      <4>1. UNCHANGED <<taskPc, taskRun, nTasks, nRuns>>
        BY <3>2 DEF StopGrace
      <4>2. \A r \in Run : runStatus'[r] = runStatus[r] \/ runStatus[r] # "none"
        BY <3>2 DEF StopGrace, ProcAlive, Alive
      <4>3. QED
        BY <4>1, <4>2
    <3>3. CASE StopJoinTimeout(c)
      BY <3>3 DEF StopJoinTimeout, Cancel, Alive
    <3>4. CASE StopCancelled(c)
      BY <3>4 DEF StopCancelled, Cancel, Alive
    <3>5. QED
      BY <2>3, <3>1, <3>2, <3>3, <3>4 DEF ClientStep
  <2>4. ASSUME NEW t \in Task, TaskStep(t)
        PROVE  FreshIds'
    <3>1. CASE BeginSpawn(t) /\ taskPc[t] \in {"created", "sleeping"}
      <4>1. /\ nRuns' = nRuns + 1 /\ UNCHANGED nTasks
            /\ taskRun' = [taskRun EXCEPT ![t] = nRuns + 1]
            /\ SpawnStarted(t, nRuns + 1) \/ SpawnFailed(t, nRuns + 1)
        BY <3>1 DEF BeginSpawn
      <4>2. \E pc : taskPc' = [taskPc EXCEPT ![t] = pc]
        BY <4>1 DEF SpawnStarted, SpawnFailed, AfterExit
      <4>3. \E st : runStatus' = [runStatus EXCEPT ![nRuns + 1] = st]
        BY <4>1 DEF SpawnStarted, SpawnFailed
      <4>4. QED
        BY <3>1, <4>1, <4>2, <4>3
    <3>2. CASE GiveUp(t) \/ Spawned(t) \/ TaskCancelled(t)
      BY <3>2 DEF GiveUp, Spawned, TaskCancelled
    <3>3. CASE SpawnedExited(t) \/ ObserveExit(t)
      <4>1. /\ taskPc[t] \in {"spawning", "waiting"}
            /\ UNCHANGED <<nTasks, nRuns, runStatus, taskRun>>
            /\ \E code, ended : AfterExit(t, ended, code)
        BY <3>3 DEF SpawnedExited, ObserveExit, RecordExit
      <4>2. PICK pc : taskPc' = [taskPc EXCEPT ![t] = pc]
        BY <4>1 DEF AfterExit
      <4>3. QED
        BY <4>1, <4>2
    <3>4. QED
      BY <2>4, <3>1, <3>2, <3>3 DEF TaskStep, FirstStep, Respawn
  <2>5. ASSUME NEW r \in Run, ChildStep(r)
        PROVE  FreshIds'
    BY <2>5 DEF ChildStep, Output, PipesClose, ChildExit
  <2>6. QED
    BY <2>1, <2>2, <2>3, <2>4, <2>5 DEF Next
<1>3. QED
  BY <1>1, <1>2, TypeCorrect, PTL DEF Spec

\* A supervisor never returns, sleeps or respawns over a living child; only a
\* cancellation separates the two (_supervise, process.py:152-194).
THEOREM ChildrenMinded == Spec => []ChildrenAreMinded
<1>1. Init => ChildrenAreMinded
  BY DEF Init, ChildrenAreMinded, Live, Alive
<1>2. TypeOK /\ FreshIds /\ ChildrenAreMinded /\ [Next]_vars => ChildrenAreMinded'
  <2> SUFFICES ASSUME TypeOK, FreshIds, ChildrenAreMinded, [Next]_vars,
                      NEW r \in Live'
               PROVE  \E t \in Task : /\ taskRun'[t] = r
                                      /\ Minding(t)' \/ taskPc'[t] = "cancelled"
    BY DEF ChildrenAreMinded, Live
  <2> DEFINE Watched == \E t \in Task : /\ taskRun[t] = r
                                        /\ Minding(t) \/ taskPc[t] = "cancelled"
  <2> USE DEF Live, Alive, Minding, taskVars, childVars
  <2>0. r \in Run
    OBVIOUS
  <2>a. r \in Live => Watched
    BY DEF ChildrenAreMinded
  <2>1. CASE UNCHANGED vars
    BY <2>1, <2>a DEF vars
  <2>2. ASSUME NEW c \in Clients, Call(c)
        PROVE  Watched'
    <3>1. CASE StartNoop(c) \/ StopNoop(c) \/ Stop(c)
      BY <2>a, <3>1 DEF StartNoop, StopNoop, Stop
    <3>2. CASE Start(c)
      BY <2>a, <3>2, ConstantsAssumption
      DEF Start, TypeOK, TaskTypeOK, ObjectTypeOK, FreshIds, Task
    <3>3. QED
      BY <2>2, <3>1, <3>2 DEF Call
  <2>3. ASSUME NEW c \in Clients, ClientStep(c)
        PROVE  Watched'
    <3>1. CASE StartReturn(c) \/ StopExited(c) \/ StopJoined(c) \/ StopJoinCancelled(c)
      BY <2>a, <3>1 DEF StartReturn, StopExited, StopJoined, StopJoinCancelled
    <3>2. CASE StopGrace(c)
      BY <2>a, <3>2 DEF StopGrace, ProcAlive, TypeOK, ChildTypeOK
    <3>3. CASE StopJoinTimeout(c)
      BY <2>a, <3>3 DEF StopJoinTimeout, Cancel, TypeOK, ChildTypeOK, TaskTypeOK
    <3>4. CASE StopCancelled(c)
      BY <2>a, <3>4 DEF StopCancelled, Cancel, TypeOK, ChildTypeOK, TaskTypeOK
    <3>5. QED
      BY <2>3, <3>1, <3>2, <3>3, <3>4 DEF ClientStep
  <2>4. ASSUME NEW t \in Task, TaskStep(t)
        PROVE  Watched'
    <3> USE DEF TypeOK, ChildTypeOK, TaskTypeOK
    <3>1. CASE BeginSpawn(t) /\ taskPc[t] \in {"created", "sleeping"}
      BY <2>a, <3>1 DEF BeginSpawn, SpawnStarted, SpawnFailed, AfterExit
    <3>2. CASE GiveUp(t) \/ Spawned(t) \/ TaskCancelled(t)
      BY <2>a, <3>2 DEF GiveUp, Spawned, TaskCancelled
    <3>3. CASE SpawnedExited(t) \/ ObserveExit(t)
      BY <2>a, <3>3 DEF SpawnedExited, ObserveExit, RecordExit, AfterExit, WaitEnds, ExitSeen
    <3>4. QED
      BY <2>4, <3>1, <3>2, <3>3 DEF TaskStep, FirstStep, Respawn
  <2>5. ASSUME NEW s \in Run, ChildStep(s)
        PROVE  Watched'
    BY <2>a, <2>5 DEF ChildStep, Output, PipesClose, ChildExit, TypeOK, ChildTypeOK
  <2>6. QED
    BY <2>1, <2>2, <2>3, <2>4, <2>5 DEF Next
<1>3. QED
  BY <1>1, <1>2, TypeCorrect, FreshIdsInvariant, PTL DEF Spec

\* "running" and "starting" are never stale (process.py:69, 90-99, 122).
THEOREM StatusBacked == Spec => []StatusIsBacked
<1>1. Init => StatusIsBacked
  BY DEF Init, StatusIsBacked
<1>2. TypeOK /\ StatusIsBacked /\ [Next]_vars => StatusIsBacked'
  <2> SUFFICES ASSUME TypeOK, StatusIsBacked, [Next]_vars
               PROVE  StatusIsBacked'
    OBVIOUS
  <2> USE DEF StatusIsBacked, Overwriting, TypeOK, TaskTypeOK, ClientTypeOK,
              taskVars, clientVars, statusVars
  <2>1. CASE UNCHANGED vars
    BY <2>1 DEF vars
  <2>2. ASSUME NEW c \in Clients, Call(c)
        PROVE  StatusIsBacked'
    <3>1. CASE StartNoop(c) \/ StopNoop(c)
      BY <3>1 DEF StartNoop, StopNoop
    <3>2. CASE Stop(c)
      BY <3>2 DEF Stop, WaitFor
    <3>3. CASE Start(c)
      BY <3>3 DEF Start, CanStart
    <3>4. QED
      BY <2>2, <3>1, <3>2, <3>3 DEF Call
  <2>3. ASSUME NEW c \in Clients, ClientStep(c)
        PROVE  StatusIsBacked'
    <3>1. CASE StartReturn(c) \/ StopExited(c) \/ StopJoinCancelled(c)
      BY <3>1 DEF StartReturn, StopExited, StopJoinCancelled, WaitFor
    <3>2. CASE StopGrace(c)
      BY <3>2 DEF StopGrace, WaitFor
    <3>3. CASE StopJoined(c) \/ StopCancelled(c)
      BY <3>3 DEF StopJoined, StopCancelled, ReportStopped
    <3>4. CASE StopJoinTimeout(c)
      BY <3>4 DEF StopJoinTimeout
    <3>5. QED
      BY <2>3, <3>1, <3>2, <3>3, <3>4 DEF ClientStep
  <2>4. ASSUME NEW t \in Task, TaskStep(t)
        PROVE  StatusIsBacked'
    <3>1. CASE BeginSpawn(t) /\ taskPc[t] \in {"created", "sleeping"}
      BY <3>1 DEF BeginSpawn, SpawnStarted, SpawnFailed, AfterExit
    <3>2. CASE GiveUp(t) \/ TaskCancelled(t)
      BY <3>2 DEF GiveUp, TaskCancelled
    <3>3. CASE Spawned(t)
      BY <3>3 DEF Spawned
    <3>4. CASE SpawnedExited(t) \/ ObserveExit(t)
      BY <3>4 DEF SpawnedExited, ObserveExit, RecordExit, AfterExit
    <3>5. QED
      BY <2>4, <3>1, <3>2, <3>3, <3>4 DEF TaskStep, FirstStep, Respawn
  <2>5. ASSUME NEW r \in Run, ChildStep(r)
        PROVE  StatusIsBacked'
    BY <2>5 DEF ChildStep, Output, PipesClose, ChildExit
  <2>6. QED
    BY <2>1, <2>2, <2>3, <2>4, <2>5 DEF Next
<1>3. QED
  BY <1>1, <1>2, TypeCorrect, PTL DEF Spec

\* What is in the window was counted.
Counted == window <= restartCount

LEMMA WindowCounted == Spec => []Counted
<1>1. Init => Counted
  BY DEF Init, Counted
<1>2. TypeOK /\ Counted /\ [Next]_vars => Counted'
  <2> SUFFICES ASSUME TypeOK, Counted, [Next]_vars
               PROVE  window' <= restartCount'
    BY DEF Counted
  <2> USE DEF Counted
  <2> USE DEF TypeOK, ObjectTypeOK, policyVars
  <2>1. CASE policyVars' = policyVars
    BY <2>1
  <2>2. ASSUME NEW t, NEW ended, NEW code, AfterExit(t, ended, code)
        PROVE  window' <= restartCount'
    BY <2>2 DEF AfterExit
  <2>3. ASSUME NEW c \in Clients, Call(c)
        PROVE  window' <= restartCount'
    BY <2>1, <2>3 DEF Call, StartNoop, Start, StopNoop, Stop
  <2>4. ASSUME NEW c \in Clients, ClientStep(c)
        PROVE  policyVars' = policyVars
    BY <2>4 DEF ClientStep, StartReturn, StopExited, StopGrace, StopJoined,
                StopJoinCancelled, StopJoinTimeout, StopCancelled
  <2>5. ASSUME NEW t \in Task, TaskStep(t)
        PROVE  window' <= restartCount'
    BY <2>1, <2>2, <2>5
    DEF TaskStep, FirstStep, Respawn, BeginSpawn, SpawnStarted, SpawnFailed, GiveUp,
        Spawned, SpawnedExited, ObserveExit, RecordExit, TaskCancelled
  <2>6. ASSUME NEW r \in Run, ChildStep(r)
        PROVE  policyVars' = policyVars
    BY <2>6 DEF ChildStep, Output, PipesClose, ChildExit
  <2>7. QED
    BY <2>1, <2>3, <2>4, <2>5, <2>6 DEF Next, vars
<1>3. QED
  BY <1>1, <1>2, TypeCorrect, PTL DEF Spec

\* "backoff" is never reported early (process.py:180-190).
THEOREM BackoffEarned == Spec => []BackoffIsEarned
<1>1. Init => BackoffIsEarned
  BY DEF Init, BackoffIsEarned
<1>2. TypeOK /\ Counted /\ BackoffIsEarned /\ [Next]_vars => BackoffIsEarned'
  <2> SUFFICES ASSUME TypeOK, Counted, BackoffIsEarned, [Next]_vars
               PROVE  BackoffIsEarned'
    OBVIOUS
  <2> USE DEF BackoffIsEarned, Counted, Overwriting, TypeOK, TaskTypeOK, ClientTypeOK,
              taskVars, clientVars, statusVars, policyVars
  <2>1. CASE UNCHANGED vars
    BY <2>1 DEF vars
  <2>2. ASSUME NEW c \in Clients, Call(c)
        PROVE  BackoffIsEarned'
    <3>1. CASE StartNoop(c) \/ StopNoop(c)
      BY <3>1 DEF StartNoop, StopNoop
    <3>2. CASE Stop(c)
      BY <3>2 DEF Stop, WaitFor
    <3>3. CASE Start(c)
      BY <3>3, ConstantsAssumption DEF Start, CanStart, Task, ObjectTypeOK
    <3>4. QED
      BY <2>2, <3>1, <3>2, <3>3 DEF Call
  <2>3. ASSUME NEW c \in Clients, ClientStep(c)
        PROVE  BackoffIsEarned'
    <3>1. CASE StartReturn(c) \/ StopExited(c) \/ StopJoinCancelled(c)
      BY <3>1 DEF StartReturn, StopExited, StopJoinCancelled, WaitFor
    <3>2. CASE StopGrace(c)
      BY <3>2 DEF StopGrace, WaitFor
    <3>3. CASE StopJoined(c) \/ StopCancelled(c)
      BY <3>3 DEF StopJoined, StopCancelled, ReportStopped
    <3>4. CASE StopJoinTimeout(c)
      BY <3>4 DEF StopJoinTimeout
    <3>5. QED
      BY <2>3, <3>1, <3>2, <3>3, <3>4 DEF ClientStep
  <2>4. ASSUME NEW t \in Task, TaskStep(t)
        PROVE  BackoffIsEarned'
    <3>1. ASSUME NEW code, NEW ended \in {"stopped", "crashed"}, AfterExit(t, ended, code),
                 UNCHANGED clientPc
          PROVE  BackoffIsEarned'
      BY <3>1, ConstantsAssumption DEF AfterExit, TooMany, ObjectTypeOK
    <3>2. CASE BeginSpawn(t) /\ taskPc[t] \in {"created", "sleeping"}
      BY <3>1, <3>2 DEF BeginSpawn, SpawnStarted, SpawnFailed
    <3>3. CASE GiveUp(t) \/ TaskCancelled(t)
      BY <3>3 DEF GiveUp, TaskCancelled
    <3>4. CASE Spawned(t)
      BY <3>4 DEF Spawned
    <3>5. CASE SpawnedExited(t) \/ ObserveExit(t)
      BY <3>1, <3>5 DEF SpawnedExited, ObserveExit, RecordExit
    <3>6. QED
      BY <2>4, <3>2, <3>3, <3>4, <3>5 DEF TaskStep, FirstStep, Respawn
  <2>5. ASSUME NEW r \in Run, ChildStep(r)
        PROVE  BackoffIsEarned'
    BY <2>5 DEF ChildStep, Output, PipesClose, ChildExit
  <2>6. QED
    BY <2>1, <2>2, <2>3, <2>4, <2>5 DEF Next
<1>3. QED
  BY <1>1, <1>2, TypeCorrect, WindowCounted, PTL DEF Spec

-----------------------------------------------------------------------------
(***************************************************************************)
(* The patient environment: one call at a time, and none while a (re)spawn *)
(* is pending.  PatientInv is the inductive invariant: the task of the     *)
(* last start() is the only one that is not over, it is the only one with  *)
(* a child, and the call in progress is at the matching point of stop().   *)
(***************************************************************************)

\* A patient environment only withholds calls: whatever holds of every
\* execution holds of the patient ones.
LEMMA PatientRefines == PatientSpec => Spec
<1>1. [PatientNext]_vars => [Next]_vars
  BY DEF PatientNext, Next
<1>2. QED
  BY <1>1, PTL DEF PatientSpec, Spec


StopPc == {"stopWaitExit", "stopWaitKilled", "stopWaitTask", "stopCancelling"}
Busy == {"created", "spawning", "waiting", "sleeping", "cancelling"}

\* The task of the last start() is the only one that has not finished, it
\* handles the last run, and a stop that cancels it is about to say so.
TaskInv ==
  /\ supervisorTask = nTasks /\ exited = nRuns
  /\ exitedSet \subseteq 0..nRuns
  /\ state # "stopped" => supervisorTask # None
  /\ \A t \in Task :
       /\ taskPc[t] \notin {"none", "done", "cancelled"} => t = supervisorTask
       /\ t = supervisorTask => taskPc[t] # "none"
       /\ taskPc[t] # "aborting"
       /\ taskPc[t] \in {"created", "spawning", "sleeping"} => ~stopRequested
       /\ taskPc[t] \in {"spawning", "waiting"} =>
            taskRun[t] = nRuns /\ nRuns \notin exitedSet
       /\ taskPc[t] = "waiting" => state = "running" /\ proc = nRuns
       /\ taskPc[t] = "cancelling" => Overwriting
       /\ taskPc[t] = "cancelled" /\ t = supervisorTask =>
            Overwriting \/ state = "stopped"

\* Only the last run may live, and then its task is spawning it or waits for
\* it.
LiveInv == \A r \in Live : r = nRuns /\ At({"spawning", "waiting"})

\* One call at a time, each where the task and the child allow it to be: no
\* child lives once stop() waits for the task.
CallInv ==
  /\ \A c, d \in Clients : clientPc[c] # "idle" /\ clientPc[d] # "idle" => c = d
  /\ \A c \in Clients :
       /\ clientPc[c] = "starting" => wanted = "up"
       /\ clientPc[c] \in StopPc =>
            /\ wanted = "down" /\ stopRequested
            /\ supervisorTask # None
       /\ clientPc[c] \in StopPc \ {"stopCancelling"} =>
            taskPc[supervisorTask] \in {"waiting", "done"}
       /\ clientPc[c] \in {"stopWaitExit", "stopWaitKilled"} => clientRef[c] = exited
       /\ clientPc[c] = "stopWaitTask" => clientRef[c] = supervisorTask /\ Live = {}
       /\ clientPc[c] = "stopCancelling" =>
            /\ clientRef[c] = supervisorTask
            /\ taskPc[supervisorTask] \in {"cancelling", "cancelled"}

\* After a stop, and after one that was answered {stopped: false}, no task is
\* at work.
RestInv ==
  /\ Idle /\ wanted = "down" => state = "stopped" /\ ~At(Busy)
  /\ wanted = "refused" => Idle /\ ~At(Busy)

PatientInv == TaskInv /\ LiveInv /\ CallInv /\ RestInv

\* Every step of the patient environment preserves the invariant.
LEMMA PatientStep ==
  ASSUME TypeOK, TypeOK', FreshIds, PatientInv, [PatientNext]_vars
  PROVE  PatientInv'
<1> USE DEF PatientInv, statusVars, policyVars, objectVars, logVars, childVars,
            taskVars, clientVars, countVars, None
<1>t. /\ taskPc \in [Task -> TaskPc] /\ taskRun \in [Task -> 0..MaxSpawns]
      /\ runStatus \in [Run -> {"none", "alive", "killed", "exited", "failed"}]
      /\ clientPc \in [Clients -> ClientPc] /\ clientRef \in [Clients -> Nat]
      /\ nRuns \in 0..MaxSpawns /\ nTasks \in 0..MaxStarts
      /\ proc \in 0..MaxSpawns
      /\ supervisorTask \in 0..MaxStarts /\ MaxStarts \in Nat /\ MaxSpawns \in Nat
      /\ Task = 1..MaxStarts /\ Run = 1..MaxSpawns
      /\ \A t \in Task : t > nTasks => taskPc[t] = "none"
  BY ConstantsAssumption DEF TypeOK, TaskTypeOK, ChildTypeOK, ClientTypeOK, ObjectTypeOK, Task, Run, FreshIds
<1>1. CASE UNCHANGED vars
  BY <1>1 DEF vars, TaskInv, LiveInv, CallInv, RestInv, Overwriting, Idle, At, Live, Alive
<1>2. ASSUME NEW c \in Clients, Quiet, Call(c)
      PROVE  PatientInv'
  <2>1. CASE StartNoop(c)
    <3> USE <1>2, <2>1, <1>t DEF StartNoop, CanStart, Quiet
    <3>1. TaskInv'
      BY DEF TaskInv, Overwriting
    <3>2. LiveInv'
      BY DEF LiveInv, At, Live, Alive
    <3>3. CallInv'
      BY DEF CallInv, Idle, StopPc
    <3>4. RestInv'
      BY DEF RestInv
    <3>5. QED
      BY <3>1, <3>2, <3>3, <3>4
  <2>2. CASE Start(c)
    <3> USE <1>2, <2>2, <1>t DEF Start, CanStart, Quiet, Idle
    <3>0. taskPc' = [taskPc EXCEPT ![nTasks + 1] = "created"] /\ nTasks + 1 \in Task
      OBVIOUS
    <3>00. \A t \in Task : taskPc[t] \in {"none", "done", "cancelled"}
      BY DEF TaskInv, TaskPc, Overwriting
    <3>1. TaskInv'
      BY <3>0, <3>00 DEF TaskInv
    <3>2. LiveInv'
      BY <3>0, <3>00 DEF LiveInv, At, Live, Alive
    <3>3. CallInv'
      BY DEF CallInv, StopPc
    <3>4. RestInv'
      BY DEF RestInv
    <3>5. QED
      BY <3>1, <3>2, <3>3, <3>4
  <2>3. CASE StopNoop(c)
    <3> USE <1>2, <2>3, <1>t DEF StopNoop, Quiet
    <3>1. TaskInv'
      BY DEF TaskInv, Overwriting
    <3>2. LiveInv'
      BY DEF LiveInv, At, Live, Alive
    <3>3. CallInv'
      BY DEF CallInv, Idle, StopPc
    <3>4. RestInv'
      BY DEF RestInv, Idle, At, Busy, TaskInv, Overwriting
    <3>5. QED
      BY <3>1, <3>2, <3>3, <3>4
  <2>4. CASE Stop(c)
    <3> USE <1>2, <2>4, <1>t DEF Stop, Quiet
    <3>0. /\ supervisorTask \in Task /\ taskPc[supervisorTask] \in {"waiting", "done"}
          /\ \A t \in Task : taskPc[t] \notin {"cancelling", "created", "spawning", "sleeping"}
      BY DEF TaskInv, Overwriting, Idle, TaskPc
    <3>1. TaskInv'
      BY <3>0 DEF TaskInv, Overwriting, Idle
    <3>2. LiveInv'
      BY DEF LiveInv, At, Live, Alive
    <3>3. CallInv'
      <4>1. CASE ProcAlive
        BY <4>1, <3>0 DEF CallInv, Idle, StopPc, WaitFor
      <4>2. CASE ~ProcAlive
        <5>0. Live = {}
          <6> SUFFICES ASSUME NEW r \in Live PROVE FALSE
            OBVIOUS
          <6>1. r = nRuns /\ At({"spawning", "waiting"}) /\ r \in Run /\ Alive(r)
            BY DEF LiveInv, Live
          <6>2. proc = nRuns
            BY <6>1, <3>0 DEF At, TaskInv
          <6>3. QED
            BY <6>1, <6>2, <4>2 DEF ProcAlive
        <5>1. Live' = {}
          BY <5>0 DEF Live, Alive
        <5>2. QED
          BY <5>1, <4>2, <3>0 DEF CallInv, Idle, StopPc, WaitFor
      <4>3. QED
        BY <4>1, <4>2
    <3>4. RestInv'
      BY DEF RestInv, Idle, WaitFor
    <3>5. QED
      BY <3>1, <3>2, <3>3, <3>4
  <2>5. QED
    BY <1>2, <2>1, <2>2, <2>3, <2>4 DEF Call
<1>3. ASSUME NEW c \in Clients, ClientStep(c)
      PROVE  PatientInv'
  <2>1. CASE StartReturn(c)
    <3> USE <2>1, <1>t DEF StartReturn
    <3>1. TaskInv'
      BY DEF TaskInv, Overwriting
    <3>2. LiveInv'
      BY DEF LiveInv, At, Live, Alive
    <3>3. CallInv'
      BY DEF CallInv, StopPc, Live, Alive
    <3>4. RestInv'
      BY DEF RestInv, CallInv, Idle, At
    <3>5. QED
      BY <3>1, <3>2, <3>3, <3>4
  <2>2. CASE StopExited(c)
    <3> USE <2>2, <1>t DEF StopExited, WaitFor
    <3>0. supervisorTask \in Task /\ taskPc[supervisorTask] = "done"
      <4>1. clientPc[c] \in StopPc \ {"stopCancelling"}
        BY DEF StopPc
      <4>2. /\ supervisorTask # None /\ clientRef[c] = exited
            /\ taskPc[supervisorTask] \in {"waiting", "done"}
        BY <4>1 DEF CallInv
      <4>3. supervisorTask \in Task /\ exited \in exitedSet
        BY <4>2
      <4>4. QED
        BY <4>2, <4>3 DEF TaskInv
    <3>1. TaskInv'
      <4>1. ~Overwriting /\ ~Overwriting'
        BY <3>0 DEF Overwriting, CallInv
      <4>2. QED
        BY <4>1 DEF TaskInv
    <3>2. LiveInv'
      BY DEF LiveInv, At, Live, Alive
    <3>3. CallInv'
      <4>1. Live' = {}
        BY <3>0 DEF LiveInv, At, Live, Alive, TaskInv
      <4>2. QED
        BY <4>1, <3>0 DEF CallInv, StopPc
    <3>4. RestInv'
      BY DEF RestInv, Idle, At
    <3>5. QED
      BY <3>1, <3>2, <3>3, <3>4
  <2>3. CASE StopGrace(c)
    <3> USE <2>3, <1>t DEF StopGrace, WaitFor
    <3>0. /\ supervisorTask \in Task /\ clientRef[c] = exited
          /\ taskPc[supervisorTask] \in {"waiting", "done"}
          /\ wanted = "down" /\ stopRequested
          /\ \A d \in Clients \ {c} : clientPc[d] = "idle"
      BY DEF TaskInv, CallInv, StopPc
    <3>a. UNCHANGED <<stopRequested, exited, supervisorTask, taskPc, wanted>>
      OBVIOUS
    <3>1. TaskInv'
      BY DEF TaskInv, Overwriting
    <3>2. LiveInv'
      BY DEF LiveInv, At, Live, Alive, ProcAlive
    <3>3. CallInv'
      <4>1. CASE ProcAlive /\ exited \notin exitedSet
        <5>1. /\ clientPc' = [clientPc EXCEPT ![c] = "stopWaitKilled"]
              /\ clientRef' = [clientRef EXCEPT ![c] = exited]
          BY <4>1
        <5> HIDE <2>3
        <5>2. \A d \in Clients \ {c} : clientPc'[d] = "idle"
          BY <5>1, <3>0
        <5>3. clientPc'[c] = "stopWaitKilled" /\ clientRef'[c] = exited
          BY <5>1
        <5>4. QED
          <6> SUFFICES ASSUME NEW d \in Clients, clientPc'[d] # "idle"
                       PROVE  /\ d = c
                              /\ stopRequested' /\ wanted' = "down" /\ supervisorTask' # None
                              /\ taskPc'[supervisorTask'] \in {"waiting", "done"}
                              /\ clientRef'[d] = exited'
                              /\ clientPc'[d] = "stopWaitKilled"
            BY DEF CallInv, StopPc
          <6> QED
            BY <5>2, <5>3, <3>0, <3>a
      <4>2. CASE ProcAlive /\ exited \in exitedSet
        <5>1. proc \in Live
          BY <4>2 DEF ProcAlive, Live
        <5>2. At({"spawning", "waiting"}) /\ exited = nRuns
          BY <5>1 DEF LiveInv, TaskInv
        <5>3. QED
          BY <4>2, <5>2 DEF At, TaskInv
      <4>3. CASE ~ProcAlive
        <5>1. Live = {}
          <6> SUFFICES ASSUME NEW r \in Live PROVE FALSE
            OBVIOUS
          <6>1. r = nRuns /\ At({"spawning", "waiting"}) /\ r \in Run /\ Alive(r)
            BY DEF LiveInv, Live
          <6>2. proc = nRuns
            BY <6>1, <3>0 DEF At, TaskInv
          <6>3. QED
            BY <6>1, <6>2, <4>3 DEF ProcAlive
        <5>2. Live' = {}
          BY <5>1, <4>3 DEF Live, Alive
        <5>3. /\ clientPc' = [clientPc EXCEPT ![c] = "stopWaitTask"]
              /\ clientRef' = [clientRef EXCEPT ![c] = supervisorTask]
          BY <4>3
        <5> HIDE <2>3
        <5>4. \A d \in Clients \ {c} : clientPc'[d] = "idle"
          BY <5>3, <3>0
        <5>5. clientPc'[c] = "stopWaitTask" /\ clientRef'[c] = supervisorTask
          BY <5>3
        <5>6. QED
          <6> SUFFICES ASSUME NEW d \in Clients, clientPc'[d] # "idle"
                       PROVE  /\ d = c
                              /\ stopRequested' /\ wanted' = "down" /\ supervisorTask' # None
                              /\ taskPc'[supervisorTask'] \in {"waiting", "done"}
                              /\ clientRef'[d] = supervisorTask'
                              /\ clientPc'[d] = "stopWaitTask"
            BY <5>2 DEF CallInv, StopPc
          <6> QED
            BY <5>4, <5>5, <3>0, <3>a
      <4>4. QED
        BY <4>1, <4>2, <4>3
    <3>4. RestInv'
      BY DEF RestInv, Idle, At
    <3>5. QED
      BY <3>1, <3>2, <3>3, <3>4
  <2>4. CASE StopJoined(c)
    <3> USE <2>4, <1>t DEF StopJoined, WaitFor, ReportStopped
    <3>0. supervisorTask \in Task /\ taskPc[supervisorTask] = "done"
      BY DEF TaskInv, CallInv, StopPc
    <3>1. TaskInv'
      BY <3>0 DEF TaskInv, Overwriting
    <3>2. LiveInv'
      BY DEF LiveInv, At, Live, Alive
    <3>3. CallInv'
      BY DEF CallInv, StopPc, Live, Alive
    <3>4. RestInv'
      BY <3>0 DEF RestInv, Idle, At, Busy, TaskInv, CallInv, StopPc
    <3>5. QED
      BY <3>1, <3>2, <3>3, <3>4
  <2>5. CASE StopJoinCancelled(c)
    BY <1>t, <2>5 DEF StopJoinCancelled, CallInv, StopPc
  <2>6. CASE StopJoinTimeout(c)
    <3> USE <2>6, <1>t DEF StopJoinTimeout
    <3>0. /\ supervisorTask \in Task /\ clientRef[c] = supervisorTask
          /\ taskPc[supervisorTask] = "waiting" /\ Live = {}
      <4>1. clientPc[c] = "stopWaitTask" /\ clientPc[c] \in StopPc
        BY DEF StopPc
      <4>2. /\ supervisorTask # None /\ clientRef[c] = supervisorTask /\ Live = {}
            /\ taskPc[supervisorTask] \in {"waiting", "done"}
        BY <4>1 DEF CallInv
      <4>3. taskPc[supervisorTask] # "done"
        BY <4>2 DEF Finished
      <4>4. QED
        BY <4>2, <4>3
    <3>a. /\ taskPc' = [taskPc EXCEPT ![supervisorTask] = "cancelling"]
          /\ runStatus' = runStatus
          /\ clientPc' = [clientPc EXCEPT ![c] = "stopCancelling"]
          /\ UNCHANGED <<mode, statusVars, policyVars, objectVars, logVars, exitedSet,
                 firstSet, taskRun, exitCode, clientRef, wanted, countVars>>
      BY <3>0 DEF Cancel
    <3> HIDE <2>6 DEF StopJoinTimeout
    <3>1. TaskInv'
      BY <3>0, <3>a DEF TaskInv, Overwriting
    <3>2. LiveInv'
      BY <3>0, <3>a DEF LiveInv, At, Live, Alive
    <3>3. CallInv'
      BY <2>6, <3>0, <3>a DEF StopJoinTimeout, CallInv, StopPc, Live, Alive
    <3>4. RestInv'
      BY <2>6, <3>0, <3>a DEF StopJoinTimeout, RestInv, Idle, At, CallInv, StopPc
    <3>5. QED
      BY <3>1, <3>2, <3>3, <3>4
  <2>7. CASE StopCancelled(c)
    <3> USE <2>7, <1>t DEF StopCancelled, WaitFor, ReportStopped
    <3>0. /\ supervisorTask \in Task /\ clientRef[c] = supervisorTask
          /\ taskPc[supervisorTask] = "cancelled"
      BY DEF TaskInv, CallInv, StopPc, Finished
    <3>a. UNCHANGED <<taskPc, runStatus>>
      BY <3>0 DEF Cancel
    <3>1. TaskInv'
      BY <3>0, <3>a DEF TaskInv, Overwriting
    <3>2. LiveInv'
      BY <3>a DEF LiveInv, At, Live, Alive
    <3>3. CallInv'
      BY <3>a DEF CallInv, StopPc, Live, Alive
    <3>4. RestInv'
      BY <3>0, <3>a DEF RestInv, Idle, At, Busy, TaskInv, CallInv, StopPc
    <3>5. QED
      BY <3>1, <3>2, <3>3, <3>4
  <2>8. QED
    BY <1>3, <2>1, <2>2, <2>3, <2>4, <2>5, <2>6, <2>7 DEF ClientStep
<1>4. ASSUME NEW t \in Task, BeginSpawn(t), taskPc[t] \in {"created", "sleeping"}
      PROVE  PatientInv'
  <2>0. t = supervisorTask /\ ~stopRequested /\ Live = {} /\ nRuns + 1 \in Run
    <3>0. nRuns + 1 \in Run
      BY <1>t, <1>4 DEF BeginSpawn
    <3>1. t = supervisorTask /\ ~stopRequested
      BY <1>4 DEF TaskInv
    <3>2. ~At({"spawning", "waiting"})
      <4> SUFFICES ASSUME NEW u \in Task, taskPc[u] \in {"spawning", "waiting"}
                   PROVE  FALSE
        BY DEF At
      <4> u = supervisorTask
        BY DEF TaskInv
      <4> QED
        BY <1>4, <3>1
    <3>3. QED
      BY <3>0, <3>1, <3>2 DEF LiveInv
  <2>1. /\ nRuns' = nRuns + 1 /\ exited' = nRuns + 1
        /\ taskRun' = [taskRun EXCEPT ![t] = nRuns + 1]
        /\ UNCHANGED <<proc, stopRequested, supervisorTask, exitedSet, clientVars, wanted, nTasks>>
        /\ SpawnStarted(t, nRuns + 1) \/ SpawnFailed(t, nRuns + 1)
    BY <1>4 DEF BeginSpawn
  <2>2. \A c \in Clients : clientPc[c] \in {"idle", "starting"}
    BY <1>t, <1>4, <2>0 DEF CallInv, StopPc, ClientPc
  <2>3. wanted = "up"
    BY <1>t, <1>4, <2>2 DEF RestInv, CallInv, At, Busy, Idle, TypeOK, ClientTypeOK
  <2>4. CallInv' /\ RestInv'
    BY <1>t, <2>1, <2>2, <2>3 DEF CallInv, RestInv, StopPc
  <2>5. CASE SpawnStarted(t, nRuns + 1)
    <3> USE <2>5 DEF SpawnStarted
    <3>1. TaskInv'
      BY <1>t, <2>0, <2>1 DEF TaskInv, Overwriting
    <3>2. LiveInv'
      BY <1>t, <2>0, <2>1 DEF LiveInv, Live, Alive, At
    <3>3. QED
      BY <2>4, <3>1, <3>2
  <2>6. CASE SpawnFailed(t, nRuns + 1)
    <3>0. PICK pc \in {"done", "sleeping"} : taskPc' = [taskPc EXCEPT ![t] = pc]
      BY <2>6 DEF SpawnFailed, AfterExit
    <3>1. runStatus' = [runStatus EXCEPT ![nRuns + 1] = "failed"]
      BY <2>6 DEF SpawnFailed
    <3>2. TaskInv'
      BY <1>t, <2>0, <2>1, <3>0 DEF TaskInv, Overwriting
    <3>3. LiveInv'
      BY <1>t, <2>0, <3>1 DEF LiveInv, Live, Alive
    <3>4. QED
      BY <2>4, <3>2, <3>3
  <2>7. QED
    BY <2>1, <2>5, <2>6
<1>5. ASSUME NEW t \in Task, Spawned(t)
      PROVE  PatientInv'
  <2>0. /\ t = supervisorTask /\ ~stopRequested /\ taskRun[t] = nRuns /\ nRuns \notin exitedSet
        /\ taskPc[t] = "spawning"
    BY <1>t, <1>5 DEF TaskInv, Spawned
  <2>1. /\ taskPc' = [taskPc EXCEPT ![t] = "waiting"]
        /\ proc' = nRuns /\ state' = "running"
        /\ UNCHANGED <<stopRequested, exited, supervisorTask, exitedSet, taskRun, runStatus,
                       clientPc, clientRef, wanted, nTasks, nRuns>>
    BY <1>5, <2>0 DEF Spawned
  <2>2. \A c \in Clients : clientPc[c] \in {"idle", "starting"}
    BY <1>t, <2>0 DEF CallInv, StopPc, ClientPc
  <2>3. wanted = "up"
    BY <1>t, <2>0, <2>2 DEF RestInv, CallInv, At, Busy, Idle, TypeOK, ClientTypeOK
  <2>4. CallInv' /\ RestInv'
    BY <1>t, <2>1, <2>2, <2>3 DEF CallInv, RestInv, StopPc
  <2>5. TaskInv'
    BY <1>t, <2>0, <2>1 DEF TaskInv, Overwriting
  <2>6. LiveInv'
    BY <1>t, <2>0, <2>1 DEF LiveInv, Live, Alive, At
  <2>7. QED
    BY <2>4, <2>5, <2>6
<1>6. ASSUME NEW t \in Task, SpawnedExited(t) \/ ObserveExit(t)
      PROVE  PatientInv'
  <2>0. /\ t = supervisorTask /\ taskRun[t] = nRuns /\ Live = {}
        /\ taskPc[t] \in {"spawning", "waiting"}
    <3>1. taskPc[t] \in {"spawning", "waiting"} /\ runStatus[taskRun[t]] = "exited"
      BY <1>6 DEF SpawnedExited, ObserveExit, WaitEnds, ExitSeen
    <3>2. t = supervisorTask /\ taskRun[t] = nRuns
      BY <3>1 DEF TaskInv
    <3>3. QED
      BY <3>1, <3>2 DEF LiveInv, Live, Alive
  <2>1. PICK pc \in {"done", "sleeping"} :
          /\ taskPc' = [taskPc EXCEPT ![t] = pc]
          /\ pc = "sleeping" => ~stopRequested
    BY <1>6 DEF SpawnedExited, ObserveExit, RecordExit, AfterExit, NoRestart
  <2>2. /\ UNCHANGED <<stopRequested, exited, supervisorTask, taskRun, runStatus,
                       clientPc, clientRef, wanted, nTasks, nRuns>>
        /\ exitedSet' = exitedSet \cup {exited}
    BY <1>6 DEF SpawnedExited, ObserveExit, RecordExit, AfterExit, SetExited
  <2>3. TaskInv'
    <3>1. exited \in 0..nRuns /\ exitedSet \subseteq 0..nRuns
      BY <1>t DEF TaskInv
    <3>2. /\ supervisorTask' = nTasks' /\ exited' = nRuns' /\ exitedSet' \subseteq 0..nRuns'
          /\ supervisorTask' # None
      BY <1>t, <2>0, <2>2, <3>1 DEF TaskInv
    <3>3. ASSUME NEW u \in Task
          PROVE  \/ u = t /\ taskPc'[u] = pc
                 \/ u # t /\ taskPc'[u] \in {"none", "done", "cancelled"}
      BY <1>t, <2>0, <2>1 DEF TaskInv
    <3>4. QED
      <4>1. pc # "none" /\ supervisorTask' = t /\ (pc = "sleeping" => ~stopRequested')
        BY <2>0, <2>1, <2>2
      <4> SUFFICES ASSUME NEW u \in Task
                   PROVE  /\ taskPc'[u] \notin {"none", "done", "cancelled"} => u = supervisorTask'
                          /\ u = supervisorTask' => taskPc'[u] \in {"done", "sleeping"}
                          /\ taskPc'[u] \in {"none", "done", "cancelled", "sleeping"}
                          /\ taskPc'[u] = "sleeping" => ~stopRequested'
        BY <3>2 DEF TaskInv
      <4> QED
        BY <4>1, <3>3
  <2>4. LiveInv'
    BY <2>0, <2>2 DEF LiveInv, Live, Alive
  <2>5. CallInv'
    <3>1. Live' = Live
      BY <2>2 DEF Live, Alive
    <3>2. \A c \in Clients : clientPc[c] \in StopPc =>
             stopRequested /\ clientPc[c] # "stopCancelling"
      BY <1>t, <2>0 DEF CallInv
    <3>3. QED
      BY <1>t, <2>0, <2>1, <2>2, <3>1, <3>2 DEF CallInv, StopPc
  <2>6. RestInv'
    BY <1>t, <2>0, <2>2 DEF RestInv, Idle, At, Busy
  <2>7. QED
    BY <2>3, <2>4, <2>5, <2>6
<1>7. ASSUME NEW t \in Task, TaskCancelled(t)
      PROVE  PatientInv'
  <2>0. t = supervisorTask /\ taskPc[t] = "cancelling"
    BY <1>t, <1>7 DEF TaskInv, TaskCancelled
  <2>1. /\ taskPc' = [taskPc EXCEPT ![t] = "cancelled"]
        /\ UNCHANGED <<state, stopRequested, exited, supervisorTask, exitedSet, proc, taskRun,
                       runStatus, clientPc, clientRef, wanted, nTasks, nRuns>>
    BY <1>7 DEF TaskCancelled
  <2>2. TaskInv'
    BY <1>t, <2>0, <2>1 DEF TaskInv, Overwriting
  <2>3. LiveInv'
    BY <1>t, <2>0, <2>1 DEF LiveInv, Live, Alive, At
  <2>4. CallInv'
    BY <1>t, <2>0, <2>1 DEF CallInv, StopPc, Live, Alive
  <2>5. RestInv'
    BY <1>t, <2>0, <2>1 DEF RestInv, Idle, At, Busy
  <2>6. QED
    BY <2>2, <2>3, <2>4, <2>5
<1>8. ASSUME NEW r \in Run, ChildStep(r)
      PROVE  PatientInv'
  <2>1. /\ UNCHANGED <<state, stopRequested, exited, supervisorTask, exitedSet, proc, taskPc,
                       taskRun, clientPc, clientRef, wanted, nTasks, nRuns>>
        /\ runStatus' = runStatus \/ runStatus' = [runStatus EXCEPT ![r] = "exited"]
    BY <1>8 DEF ChildStep, Output, PipesClose, ChildExit
  <2>2. Live' \subseteq Live
    BY <1>t, <2>1 DEF Live, Alive
  <2>3. TaskInv'
    BY <2>1 DEF TaskInv, Overwriting
  <2>4. LiveInv'
    BY <2>1, <2>2 DEF LiveInv, At
  <2>5. CallInv'
    BY <2>1, <2>2 DEF CallInv
  <2>6. RestInv'
    BY <2>1 DEF RestInv, Idle, At
  <2>7. QED
    BY <2>3, <2>4, <2>5, <2>6
<1>9. ASSUME NEW t \in Task, TaskStep(t)
      PROVE  PatientInv'
  <2>1. ~GiveUp(t)
    BY <1>t DEF GiveUp, TaskInv
  <2>2. QED
    BY <1>4, <1>5, <1>6, <1>7, <1>9, <2>1 DEF TaskStep, FirstStep, Respawn
<1>10. QED
  BY <1>1, <1>2, <1>3, <1>8, <1>9 DEF PatientNext

\* PatientInv is an invariant of the patient environment.
LEMMA Patience == PatientSpec => []PatientInv
<1>1. Init => PatientInv
  BY ConstantsAssumption
  DEF Init, PatientInv, TaskInv, LiveInv, CallInv, RestInv, Live, Alive, StopPc, Busy, At,
      Task, Run, None
<1>2. TypeOK /\ TypeOK' /\ FreshIds /\ PatientInv /\ [PatientNext]_vars => PatientInv'
  BY PatientStep
<1>3. QED
  BY <1>1, <1>2, PatientRefines, TypeCorrect, FreshIdsInvariant, PTL DEF PatientSpec

\* "Single supervised process": at most one child lives (process.py:28).
THEOREM OneChild == PatientSpec => []SingleChild
<1>1. PatientInv => SingleChild
  BY DEF PatientInv, LiveInv, SingleChild
<1>2. QED
  BY <1>1, Patience, PTL

\* A stop that returned left no child and says so, and one that found the tool
\* stopped was right (process.py:78-99, server.py:73-77).
THEOREM NothingLeft == PatientSpec => []StopLeavesNothing
<1>1. TypeOK /\ PatientInv => StopLeavesNothing
  <2> SUFFICES ASSUME TypeOK, PatientInv, Idle, wanted \in {"down", "refused"}
               PROVE  /\ Live = {}
                      /\ ~At({"created", "spawning", "sleeping"})
                      /\ wanted = "down" => state = "stopped"
    BY DEF StopLeavesNothing
  <2>1. ~At(Busy) /\ (wanted = "down" => state = "stopped")
    BY DEF PatientInv, RestInv
  <2>2. ~At({"created", "spawning", "sleeping"}) /\ ~At({"spawning", "waiting"})
    BY <2>1 DEF At, Busy
  <2>3. Live = {}
    BY <2>2 DEF PatientInv, LiveInv
  <2>4. QED
    BY <2>1, <2>2, <2>3
<1>2. QED
  BY <1>1, Patience, PatientRefines, TypeCorrect, PTL

-----------------------------------------------------------------------------

\* r has printed into the buffer b, or its pumps will.
Goes(r, b) == sink[r] = b \/ r \in lines[b]

\* Buffers are named after the run that made them: no earlier run prints into
\* one, nor a later run into one that was rotated out.
LogInv ==
  /\ previousLog < log /\ log <= nRuns
  /\ \A r \in Run, b \in 0..MaxSpawns : Goes(r, b) =>
       /\ b <= r /\ b <= log /\ r <= nRuns
       /\ b < log => r < log

\* Every step keeps the buffers apart, provided that the task which spawned is
\* the one that handles the last run.
LEMMA LogStep ==
  ASSUME TypeOK, TypeOK', TaskInv, LogInv, [Next]_vars
  PROVE  LogInv'
<1> USE DEF logVars, countVars, NoLog
<1>t. /\ log \in 0..MaxSpawns /\ previousLog \in -1..MaxSpawns
      /\ sink \in [Run -> -1..MaxSpawns] /\ lines \in [0..MaxSpawns -> SUBSET Run]
      /\ nRuns \in 0..MaxSpawns /\ MaxSpawns \in Nat
      /\ Run = 1..MaxSpawns
  BY ConstantsAssumption DEF TypeOK, LogTypeOK, ObjectTypeOK, Run
<1>1. CASE UNCHANGED <<logVars, nRuns>>
  BY <1>1 DEF LogInv, Goes
<1>2. ASSUME NEW t \in Task, BeginSpawn(t)
      PROVE  LogInv'
  <2>1. /\ nRuns' = nRuns + 1 /\ nRuns + 1 \in Run /\ UNCHANGED sink
        /\ RotateLog(nRuns + 1)
        /\ lines' \in {lines, [lines EXCEPT ![log'] = @ \cup {nRuns + 1}]}
    BY <1>t, <1>2 DEF BeginSpawn, SpawnStarted, SpawnFailed
  <2>2. CASE UNCHANGED <<log, previousLog>>
    <3>1. ASSUME NEW r \in Run, NEW b \in 0..MaxSpawns, Goes(r, b)'
          PROVE  Goes(r, b) \/ (b = log /\ r = nRuns + 1)
      BY <1>t, <2>1, <2>2, <3>1 DEF Goes
    <3>2. QED
      BY <1>t, <2>1, <2>2, <3>1 DEF LogInv
  <2>3. CASE previousLog' = log /\ log' = nRuns + 1
    <3>1. ASSUME NEW r \in Run, NEW b \in 0..MaxSpawns, Goes(r, b)'
          PROVE  Goes(r, b) \/ (b = nRuns + 1 /\ r = nRuns + 1)
      BY <1>t, <2>1, <2>3, <3>1 DEF Goes
    <3>2. QED
      BY <1>t, <2>1, <2>3, <3>1 DEF LogInv
  <2>4. QED
    BY <2>1, <2>2, <2>3 DEF RotateLog
<1>3. ASSUME NEW t \in Task, Spawned(t) \/ SpawnedExited(t)
      PROVE  LogInv'
  <2>1. nRuns \in Run /\ taskRun[t] = nRuns
    BY <1>t, <1>3 DEF Spawned, SpawnedExited, TaskInv, TypeOK, TaskTypeOK, None
  <2>2. /\ sink' = [sink EXCEPT ![nRuns] = log]
        /\ UNCHANGED <<log, previousLog, lines, nRuns>>
    BY <1>3, <2>1 DEF Spawned, SpawnedExited
  <2>3. ASSUME NEW r \in Run, NEW b \in 0..MaxSpawns, Goes(r, b)'
        PROVE  Goes(r, b) \/ (b = log /\ r = nRuns)
    BY <1>t, <2>1, <2>2, <2>3 DEF Goes
  <2>4. QED
    BY <1>t, <2>1, <2>2, <2>3 DEF LogInv
<1>4. ASSUME NEW r \in Run, Output(r)
      PROVE  LogInv'
  <2>1. /\ sink[r] \in 0..MaxSpawns
        /\ lines' = [lines EXCEPT ![sink[r]] = @ \cup {r}]
        /\ UNCHANGED <<log, previousLog, sink, nRuns>>
    BY <1>t, <1>4 DEF Output
  <2>2. ASSUME NEW s \in Run, NEW b \in 0..MaxSpawns, Goes(s, b)'
        PROVE  Goes(s, b)
    BY <1>t, <2>1, <2>2 DEF Goes
  <2>3. QED
    BY <2>1, <2>2 DEF LogInv
<1>5. ASSUME NEW c \in Clients, Call(c) \/ ClientStep(c)
      PROVE  UNCHANGED <<logVars, nRuns>>
  BY <1>5 DEF Call, StartNoop, Start, StopNoop, Stop, ClientStep, StartReturn, StopExited,
              StopGrace, StopJoined, StopJoinCancelled, StopJoinTimeout, StopCancelled
<1>6. ASSUME NEW t \in Task, GiveUp(t) \/ ObserveExit(t) \/ TaskCancelled(t)
      PROVE  UNCHANGED <<logVars, nRuns>>
  BY <1>6 DEF GiveUp, ObserveExit, TaskCancelled
<1>7. ASSUME NEW r \in Run, NEW code, ChildExit(r, code) \/ PipesClose(r)
      PROVE  UNCHANGED <<logVars, nRuns>>
  BY <1>7 DEF ChildExit, PipesClose
<1>8. CASE UNCHANGED vars
  BY <1>1, <1>8 DEF vars
<1>9. QED
  BY <1>1, <1>2, <1>3, <1>4, <1>5, <1>6, <1>7, <1>8
  DEF Next, TaskStep, FirstStep, Respawn, ChildStep

\* previous_log is older than log, whatever the pumps of dead children still
\* print (process.py:135-137).
THEOREM LogsOrdered == PatientSpec => []LogsInOrder
<1>1. Init => LogInv
  BY ConstantsAssumption DEF Init, LogInv, Goes, NoLog, Run
<1>2. TypeOK /\ TypeOK' /\ PatientInv /\ LogInv /\ [PatientNext]_vars => LogInv'
  <2>1. [PatientNext]_vars => [Next]_vars
    BY DEF PatientNext, Next
  <2>2. QED
    BY <2>1, LogStep DEF PatientInv
<1>3. TypeOK /\ LogInv => LogsInOrder
  BY ConstantsAssumption DEF LogInv, LogsInOrder, Goes, NoLog, TypeOK, LogTypeOK, Run
<1>4. QED
  BY <1>1, <1>2, <1>3, Patience, PatientRefines, TypeCorrect, PTL DEF PatientSpec

-----------------------------------------------------------------------------
(***************************************************************************)
(* The refinement of Lifecycle.  Phase hides whether a starting task has   *)
(* taken its first step, and tells a sleep from a rest.                     *)
(***************************************************************************)

\* A step of a patiently used tool is a step of the drawing, or none.
LEMMA DrawnStep ==
  ASSUME TypeOK, TypeOK', Counted, PatientInv, [PatientNext]_vars
  PROVE  [Drawn!Next]_Drawn!vars
<1> DEFINE Pending == {"created", "spawning", "sleeping"}
<1>t. /\ taskPc \in [Task -> TaskPc] /\ state \in State
      /\ supervisorTask \in 0..MaxStarts /\ Task = 1..MaxStarts /\ MaxStarts \in Nat
  BY ConstantsAssumption DEF TypeOK, TaskTypeOK, ObjectTypeOK, Task
<1>a. \A t \in Task : taskPc[t] \notin {"none", "done", "cancelled"} => t = supervisorTask
  BY DEF PatientInv, TaskInv
<1>1. ASSUME UNCHANGED <<mode, taskPc, state, restartCount, stopRequested>>
      PROVE  UNCHANGED Drawn!vars
  BY <1>1 DEF Drawn!vars, Phase, At
<1>2. (\A t \in Task : taskPc[t] \notin Pending) => Phase = state
  BY DEF Phase, At
<1>3. (\A t \in Task : taskPc'[t] \notin Pending) => Phase' = state'
  BY DEF Phase, At
<1>4. ASSUME NEW t \in Task
      PROVE  /\ taskPc[t] \in {"created", "spawning"} => Phase = "starting"
             /\ taskPc[t] = "sleeping" => Phase = "sleeping"
             /\ taskPc[t] = "waiting" => Phase = "running"
  <2>1. CASE taskPc[t] \in {"created", "spawning"}
    <3>1. At({"created", "spawning"}) /\ ~At({"sleeping"})
      BY <1>a, <2>1 DEF At
    <3>2. QED
      BY <2>1, <3>1 DEF Phase
  <2>2. CASE taskPc[t] = "sleeping"
    <3>1. At({"sleeping"}) /\ ~At({"created", "spawning"})
      BY <1>a, <2>2 DEF At
    <3>2. QED
      BY <2>2, <3>1 DEF Phase
  <2>3. CASE taskPc[t] = "waiting"
    <3>1. \A u \in Task : taskPc[u] \notin Pending
      BY <1>a, <2>3
    <3>2. QED
      BY <1>2, <2>3, <3>1 DEF PatientInv, TaskInv
  <2>4. QED
    BY <2>1, <2>2, <2>3
<1>5. ASSUME NEW t \in Task, taskPc[t] \notin {"none", "done", "cancelled"}, NEW pc,
             taskPc' = [taskPc EXCEPT ![t] = pc]
      PROVE  /\ pc = "spawning" => Phase' = "starting"
             /\ pc = "sleeping" => Phase' = "sleeping"
             /\ pc \notin Pending => Phase' = state'
  <2>1. \A u \in Task : taskPc'[u] = IF u = t THEN pc ELSE taskPc[u]
    BY <1>t, <1>5
  <2>2. \A u \in Task \ {t} : taskPc'[u] \notin Pending
    BY <1>a, <1>5, <2>1
  <2>3. taskPc'[t] = pc
    BY <2>1
  <2>4. CASE pc = "spawning"
    <3>1. At({"created", "spawning"})' /\ ~At({"sleeping"})'
      BY <2>2, <2>3, <2>4 DEF At
    <3>2. QED
      BY <2>4, <3>1 DEF Phase
  <2>5. CASE pc = "sleeping"
    <3>1. At({"sleeping"})' /\ ~At({"created", "spawning"})'
      BY <2>2, <2>3, <2>5 DEF At
    <3>2. QED
      BY <2>5, <3>1 DEF Phase
  <2>6. CASE pc \notin Pending
    BY <1>3, <2>2, <2>3, <2>6
  <2>7. QED
    BY <2>4, <2>5, <2>6
<1> HIDE DEF Pending
<1> USE DEF statusVars, policyVars, objectVars, taskVars
\* The end of a run is a step of the drawing.
<1>6. ASSUME NEW t \in Task, taskPc[t] \notin {"none", "done", "cancelled"},
             NEW code, AfterExit(t, IF code = "zero" THEN "stopped" ELSE "crashed", code),
             \/ Phase \in {"starting", "running"}
             \/ Phase = "sleeping" /\ code = "nonzero",
             UNCHANGED <<mode, stopRequested>>
      PROVE  Drawn!Next
  <2> DEFINE ended == IF code = "zero" THEN "stopped" ELSE "crashed"
             rc == IF code = "zero" THEN 0 ELSE 1
  <2>1. PICK pc \in {"done", "sleeping"} : taskPc' = [taskPc EXCEPT ![t] = pc]
    BY <1>6 DEF AfterExit
  <2>2. Phase' = IF pc = "sleeping" THEN "sleeping" ELSE state'
    BY <1>5, <1>6, <2>1 DEF Pending
  <2>3. pc = taskPc'[t]
    BY <1>t, <2>1
  <2>4. NoRestart(code) <=> Drawn!Stays(rc)
    BY DEF NoRestart, Drawn!Stays
  <2>5. Drawn!End(rc)
    <3>1. CASE NoRestart(code)
      <4>1. state' = ended /\ taskPc' = [taskPc EXCEPT ![t] = "done"] /\ restartCount' = restartCount
        BY <1>6, <3>1 DEF AfterExit
      <4>2. taskPc'[t] = "done"
        BY <1>t, <4>1
      <4>3. QED
        BY <1>6, <2>2, <2>3, <2>4, <3>1, <4>1, <4>2 DEF Drawn!End
    <3>2. CASE ~NoRestart(code)
      <4>1. /\ restartCount' = restartCount + 1
            /\ \/ /\ TooMany(window')
                  /\ state' = "backoff" /\ taskPc' = [taskPc EXCEPT ![t] = "done"]
               \/ taskPc' = [taskPc EXCEPT ![t] = "sleeping"]
        BY <1>6, <3>2 DEF AfterExit
      <4>2. CASE taskPc' = [taskPc EXCEPT ![t] = "sleeping"]
        <5>1. Phase' = "sleeping"
          BY <1>t, <2>2, <2>3, <4>2
        <5>2. QED
          BY <1>6, <2>4, <3>2, <4>1, <5>1 DEF Drawn!End
      <4>3. CASE /\ TooMany(window')
                 /\ state' = "backoff" /\ taskPc' = [taskPc EXCEPT ![t] = "done"]
        <5>1. Phase' = "backoff"
          BY <1>t, <2>2, <2>3, <4>3
        <5>2. window' <= restartCount' /\ window' \in Nat /\ restartCount' \in Nat
          <6>1. \E kept \in 0..window : window' = kept + 1
            BY <1>6, <3>2 DEF AfterExit
          <6>2. QED
            BY <4>1, <6>1 DEF Counted, TypeOK, ObjectTypeOK
        <5>3. restartCount' > MaxRestarts
          BY <4>3, <5>2, ConstantsAssumption DEF TooMany
        <5>4. QED
          BY <1>6, <2>4, <3>2, <4>1, <5>1, <5>3 DEF Drawn!End
      <4>4. QED
        BY <4>1, <4>2, <4>3
    <3>3. QED
      BY <3>1, <3>2
  <2>6. QED
    BY <2>5 DEF Drawn!Next
<1>7. CASE UNCHANGED vars
  BY <1>1, <1>7 DEF vars
<1>8. ASSUME NEW c \in Clients, Quiet, Call(c)
      PROVE  [Drawn!Next]_Drawn!vars
  <2>0. Phase = state
    BY <1>2, <1>8 DEF Quiet, Pending
  <2>1. CASE StartNoop(c) \/ StopNoop(c)
    BY <1>1, <2>1 DEF StartNoop, StopNoop
  <2>2. CASE Start(c)
    <3>1. /\ nTasks + 1 \in Task /\ taskPc' = [taskPc EXCEPT ![nTasks + 1] = "created"]
          /\ state \notin {"running", "starting"}
          /\ restartCount' = 0 /\ stopRequested' = FALSE /\ UNCHANGED mode
      BY <1>t, <2>2 DEF Start, CanStart, TypeOK, ObjectTypeOK
    <3>2. taskPc'[nTasks + 1] = "created"
      BY <1>t, <3>1
    <3>3. Phase' = "starting"
      <4>1. \A t \in Task : taskPc'[t] # "sleeping"
        BY <1>t, <1>8, <3>1 DEF Quiet
      <4>2. At({"created", "spawning"})' /\ ~At({"sleeping"})'
        BY <3>1, <3>2, <4>1 DEF At
      <4>3. QED
        BY <4>2 DEF Phase
    <3>4. Drawn!Start
      BY <1>t, <2>0, <3>1, <3>3 DEF Drawn!Start, Drawn!Resting, State
    <3>5. QED
      BY <3>4 DEF Drawn!Next
  <2>3. CASE Stop(c)
    <3>1. stopRequested' = TRUE /\ UNCHANGED <<mode, taskPc, state, restartCount>>
      BY <2>3 DEF Stop
    <3>2. Phase' = Phase
      BY <3>1 DEF Phase, At
    <3>3. QED
      BY <3>1, <3>2 DEF Drawn!Next, Drawn!Stop
  <2>4. QED
    BY <1>8, <2>1, <2>2, <2>3 DEF Call
<1>9. ASSUME NEW c \in Clients, ClientStep(c)
      PROVE  [Drawn!Next]_Drawn!vars
  <2>1. CASE StartReturn(c) \/ StopExited(c) \/ StopGrace(c) \/ StopJoinCancelled(c)
    BY <1>1, <2>1 DEF StartReturn, StopExited, StopGrace, StopJoinCancelled
  <2>2. ASSUME clientPc[c] \in StopPc, taskPc[supervisorTask] \in {"done", "cancelled"},
               UNCHANGED <<mode, taskPc, restartCount, stopRequested>>, state' = "stopped"
        PROVE  Drawn!Next
    <3>1. stopRequested
      BY <2>2 DEF PatientInv, CallInv
    <3>2. \A t \in Task : taskPc'[t] \notin Pending
      BY <1>a, <2>2 DEF Pending
    <3>3. Drawn!Stopped
      BY <1>3, <2>2, <3>1, <3>2 DEF Drawn!Stopped
    <3>4. QED
      BY <3>3 DEF Drawn!Next
  <2>3. CASE StopJoined(c)
    <3>1. /\ clientPc[c] \in StopPc /\ taskPc[clientRef[c]] = "done"
          /\ clientRef[c] = supervisorTask
      BY <2>3 DEF StopJoined, StopPc, PatientInv, CallInv
    <3>2. QED
      BY <2>2, <2>3, <3>1 DEF StopJoined, ReportStopped
  <2>4. CASE StopCancelled(c)
    <3>1. /\ clientPc[c] \in StopPc /\ clientRef[c] = supervisorTask
          /\ taskPc[supervisorTask] = "cancelled"
      BY <2>4 DEF StopCancelled, StopPc, PatientInv, CallInv, Finished
    <3>2. QED
      BY <2>2, <2>4, <3>1 DEF StopCancelled, ReportStopped, Cancel
  <2>5. CASE StopJoinTimeout(c)
    <3>1. /\ clientRef[c] = supervisorTask /\ supervisorTask \in Task
          /\ taskPc[supervisorTask] = "waiting"
      BY <1>t, <2>5 DEF StopJoinTimeout, StopPc, PatientInv, CallInv, Finished, None
    <3>2. /\ taskPc' = [taskPc EXCEPT ![supervisorTask] = "cancelling"]
          /\ UNCHANGED <<mode, state, restartCount, stopRequested>>
      BY <2>5, <3>1 DEF StopJoinTimeout, Cancel
    <3>3. Phase = "running" /\ state = "running"
      BY <1>4, <3>1 DEF PatientInv, TaskInv
    <3>4. Phase' = state'
      <4>1. "cancelling" \notin Pending
        BY DEF Pending
      <4>2. QED
        BY <1>5, <3>1, <3>2, <4>1
    <3>5. QED
      BY <3>2, <3>3, <3>4 DEF Drawn!vars
  <2>6. QED
    BY <1>9, <2>1, <2>3, <2>4, <2>5 DEF ClientStep
<1>10. ASSUME NEW t \in Task, BeginSpawn(t), taskPc[t] \in {"created", "sleeping"}
       PROVE  [Drawn!Next]_Drawn!vars
  <2>1. UNCHANGED <<mode, stopRequested>>
    BY <1>10 DEF BeginSpawn
  <2>2. Phase = IF taskPc[t] = "created" THEN "starting" ELSE "sleeping"
    BY <1>4, <1>10
  <2>3. CASE SpawnStarted(t, nRuns + 1)
    <3>1. taskPc' = [taskPc EXCEPT ![t] = "spawning"] /\ restartCount' = restartCount
      BY <2>3 DEF SpawnStarted
    <3>2. Phase' = "starting"
      BY <1>5, <1>10, <3>1
    <3>3. CASE taskPc[t] = "created"
      BY <2>1, <2>2, <3>1, <3>2, <3>3 DEF Drawn!vars
    <3>4. CASE taskPc[t] = "sleeping"
      BY <2>1, <2>2, <3>1, <3>2, <3>4 DEF Drawn!Next, Drawn!Restart
    <3>5. QED
      BY <1>10, <3>3, <3>4
  <2>4. CASE SpawnFailed(t, nRuns + 1)
    <3>1. AfterExit(t, IF "nonzero" = "zero" THEN "stopped" ELSE "crashed", "nonzero")
      BY <2>4 DEF SpawnFailed
    <3>2. QED
      BY <1>6, <1>10, <2>1, <2>2, <3>1
  <2>5. QED
    BY <1>10, <2>3, <2>4 DEF BeginSpawn
<1>11. ASSUME NEW t \in Task, Spawned(t)
       PROVE  [Drawn!Next]_Drawn!vars
  <2>1. /\ taskPc[t] = "spawning" /\ taskPc' = [taskPc EXCEPT ![t] = "waiting"]
        /\ state' = "running" /\ UNCHANGED <<mode, restartCount, stopRequested>>
    BY <1>11 DEF Spawned
  <2>2. Phase = "starting" /\ Phase' = "running"
    <3>1. "waiting" \notin Pending
      BY DEF Pending
    <3>2. QED
      BY <1>4, <1>5, <2>1, <3>1
  <2>3. QED
    BY <2>1, <2>2 DEF Drawn!Next, Drawn!SpawnOk
<1>12. ASSUME NEW t \in Task, SpawnedExited(t) \/ ObserveExit(t)
       PROVE  [Drawn!Next]_Drawn!vars
  <2>1. /\ taskPc[t] \in {"spawning", "waiting"} /\ RecordExit(t)
        /\ UNCHANGED <<mode, stopRequested>>
    BY <1>12 DEF SpawnedExited, ObserveExit
  <2>2. Phase \in {"starting", "running"}
    BY <1>4, <2>1
  <2>3. QED
    BY <1>6, <2>1, <2>2 DEF RecordExit
<1>13. ASSUME NEW t \in Task, TaskCancelled(t)
       PROVE  [Drawn!Next]_Drawn!vars
  <2>1. /\ taskPc[t] = "cancelling" /\ taskPc' = [taskPc EXCEPT ![t] = "cancelled"]
        /\ UNCHANGED <<mode, state, restartCount, stopRequested>>
    BY <1>13 DEF TaskCancelled, PatientInv, TaskInv
  <2>2. \A u \in Task : taskPc[u] \notin Pending
    BY <1>a, <2>1 DEF Pending
  <2>3. Phase = state /\ Phase' = state'
    <3>1. "cancelled" \notin Pending
      BY DEF Pending
    <3>2. QED
      BY <1>2, <1>5, <2>1, <2>2, <3>1
  <2>4. QED
    BY <2>1, <2>3 DEF Drawn!vars
<1>14. ASSUME NEW r \in Run, ChildStep(r)
       PROVE  [Drawn!Next]_Drawn!vars
  BY <1>1, <1>14 DEF ChildStep, Output, PipesClose, ChildExit
<1>15. ASSUME NEW t \in Task, TaskStep(t)
       PROVE  [Drawn!Next]_Drawn!vars
  <2>1. ~GiveUp(t)
    BY DEF GiveUp, PatientInv, TaskInv
  <2>2. QED
    BY <1>10, <1>11, <1>12, <1>13, <1>15, <2>1 DEF TaskStep, FirstStep, Respawn
<1>16. QED
  BY <1>7, <1>8, <1>9, <1>14, <1>15 DEF PatientNext

\* ManagedProcess implements Lifecycle, the state machine of the documentation
\* (process.py:152-194, README.md:184-194).
THEOREM DrawingFollowed == PatientSpec => FollowsTheDrawing
<1>1. Init => Drawn!Init
  BY DEF Init, Drawn!Init, Phase, At
<1>2. TypeOK /\ TypeOK' /\ Counted /\ PatientInv /\ [PatientNext]_vars
         => [Drawn!Next]_Drawn!vars
  BY DrawnStep
<1>3. QED
  BY <1>1, <1>2, Patience, PatientRefines, TypeCorrect, WindowCounted, PTL
  DEF PatientSpec, FollowsTheDrawing, Drawn!Spec

-----------------------------------------------------------------------------
(***************************************************************************)
(* Every call of a patient client returns.                                 *)
(***************************************************************************)

\* What a call waits for is on its way: start() for the first spawn of its own
\* task, and a stop that has sent SIGKILL for the exit of the child it killed.
SpawnInv ==
  \A t \in Task :
    /\ taskPc[t] = "created" => nRuns < MaxSpawns
    /\ taskPc[t] = "spawning" => Alive(taskRun[t]) \/ ExitSeen(taskRun[t])

AwaitedInv ==
  \A c \in Clients :
    /\ clientPc[c] = "starting" =>
         /\ clientRef[c] = firstSpawnDone /\ clientRef[c] = supervisorTask
         /\ \/ clientRef[c] \in firstSet
            \/ supervisorTask \in Task /\ taskPc[supervisorTask] \in {"created", "spawning"}
    /\ clientPc[c] = "stopWaitKilled" =>
         \/ exited \in exitedSet
         \/ /\ supervisorTask \in Task /\ taskPc[supervisorTask] = "waiting"
            /\ runStatus[nRuns] \in {"killed", "exited"}

ReturnInv == SpawnInv /\ AwaitedInv

\* The facts of the other invariants that are needed.
BusyInv == TypeOK /\ FreshIds /\ PatientInv /\ ReturnInv

\* While a call is in progress nobody else calls, and one task may step.
LEMMA BusyMoves ==
  ASSUME BusyInv, NEW c \in Clients, clientPc[c] # "idle", PatientNext
  PROVE  \/ ClientStep(c)
         \/ supervisorTask \in Task /\ TaskStep(supervisorTask)
         \/ \E r \in Run : ChildStep(r)
<1>1. ~Quiet
  BY DEF Quiet, Idle
<1>2. ASSUME NEW d \in Clients, ClientStep(d)
      PROVE  d = c
  <2>1. clientPc[d] # "idle"
    BY <1>2 DEF ClientStep, StartReturn, StopExited, StopGrace, StopJoined,
                StopJoinCancelled, StopJoinTimeout, StopCancelled
  <2>2. QED
    BY <2>1 DEF BusyInv, PatientInv, CallInv
<1>3. ASSUME NEW t \in Task, TaskStep(t)
      PROVE  t = supervisorTask
  <2>1. taskPc[t] \notin {"none", "done", "cancelled"}
    BY <1>3 DEF TaskStep, FirstStep, Respawn, GiveUp, Spawned, SpawnedExited, ObserveExit,
                TaskCancelled
  <2>2. QED
    BY <2>1 DEF BusyInv, PatientInv, TaskInv
<1>4. QED
  BY <1>1, <1>2, <1>3 DEF PatientNext

\* A child changes its own state, and the log.
LEMMA ChildMoves ==
  ASSUME BusyInv, NEW r \in Run, ChildStep(r)
  PROVE  /\ UNCHANGED <<objectVars, exitedSet, firstSet, taskVars, clientVars, countVars>>
         /\ \A k \in Run :
              \/ runStatus'[k] = runStatus[k]
              \/ runStatus[k] \in {"alive", "killed"} /\ runStatus'[k] = "exited"
         /\ \A k \in Run : runStatus[k] = "exited" /\ k \notin held => k \notin held'
<1> USE DEF objectVars, taskVars, clientVars, countVars
<1>1. CASE Output(r)
  BY <1>1 DEF Output, childVars
<1>2. ASSUME NEW code \in ExitCode, ChildExit(r, code)
      PROVE  /\ UNCHANGED <<objectVars, exitedSet, firstSet, taskVars, clientVars, countVars>>
             /\ \A k \in Run :
                  \/ runStatus'[k] = runStatus[k]
                  \/ runStatus[k] \in {"alive", "killed"} /\ runStatus'[k] = "exited"
             /\ \A k \in Run : runStatus[k] = "exited" /\ k \notin held => k \notin held'
  BY <1>2 DEF ChildExit, BusyInv, TypeOK, ChildTypeOK
<1>3. CASE PipesClose(r)
  BY <1>3 DEF PipesClose, childVars
<1>4. QED
  BY <1>1, <1>2, <1>3 DEF ChildStep

\* What a step of the task does to those who wait for it.
LEMMA TaskMoves ==
  ASSUME BusyInv, supervisorTask \in Task, TaskStep(supervisorTask)
  PROVE  LET pc == taskPc[supervisorTask]
             next == taskPc'[supervisorTask]
         IN /\ UNCHANGED <<clientVars, supervisorTask, firstSpawnDone>>
            /\ firstSet \subseteq firstSet' /\ exitedSet \subseteq exitedSet'
            /\ pc = "created" => next = "spawning" \/ firstSpawnDone \in firstSet'
            /\ pc = "spawning" => firstSpawnDone \in firstSet'
            /\ pc = "waiting" => exited \in exitedSet' /\ UNCHANGED <<exited, nRuns>>
            /\ pc = "cancelling" => next = "cancelled"
            /\ pc \notin {"created", "sleeping"} => UNCHANGED <<exited, nRuns>>
<1> DEFINE t == supervisorTask
<1> USE DEF objectVars, taskVars, clientVars, countVars
<1> taskPc \in [Task -> TaskPc]
  BY DEF BusyInv, TypeOK, TaskTypeOK
<1>1. CASE FirstStep(t) \/ Respawn(t)
  <2>1. BeginSpawn(t) /\ taskPc[t] \in {"created", "sleeping"}
    BY <1>1 DEF FirstStep, Respawn
  <2>2. PICK r : SpawnStarted(t, r) \/ SpawnFailed(t, r)
    BY <2>1 DEF BeginSpawn
  <2>3. /\ taskPc'[t] = "spawning" /\ firstSet' = firstSet
        \/ firstSet' = firstSet \cup {firstSpawnDone}
    BY <2>2 DEF SpawnStarted, SpawnFailed, SetFirstSpawnDone
  <2>4. QED
    BY <2>1, <2>3 DEF BeginSpawn
<1>2. CASE GiveUp(t)
  BY <1>2 DEF GiveUp
<1>3. CASE Spawned(t)
  BY <1>3 DEF Spawned, SetFirstSpawnDone
<1>4. CASE SpawnedExited(t)
  BY <1>4 DEF SpawnedExited, SetFirstSpawnDone, RecordExit, SetExited
<1>5. CASE ObserveExit(t)
  BY <1>5 DEF ObserveExit, RecordExit, SetExited
<1>6. CASE TaskCancelled(t)
  BY <1>6 DEF TaskCancelled, BusyInv, PatientInv, TaskInv
<1>7. QED
  BY <1>1, <1>2, <1>3, <1>4, <1>5, <1>6 DEF TaskStep

\* A new call finds everybody at rest.
LEMMA NewCall ==
  ASSUME BusyInv, Quiet, NEW d \in Clients, Call(d)
  PROVE  SpawnInv' /\ AwaitedInv'
<1> USE DEF objectVars, taskVars, childVars, clientVars, countVars, SpawnInv, AwaitedInv,
            Alive, ExitSeen
<1>t. /\ taskPc \in [Task -> TaskPc] /\ clientPc \in [Clients -> ClientPc]
      /\ clientRef \in [Clients -> Nat]
      /\ \A t \in Task : taskPc[t] \notin {"created", "spawning"}
      /\ \A c \in Clients : clientPc[c] = "idle"
      /\ SpawnInv /\ AwaitedInv
  BY DEF BusyInv, TypeOK, TaskTypeOK, ClientTypeOK, Quiet, Idle, ReturnInv
<1>1. CASE StartNoop(d)
  BY <1>1, <1>t DEF StartNoop
<1>2. CASE StopNoop(d)
  BY <1>2, <1>t DEF StopNoop
<1>3. CASE Stop(d)
  BY <1>3, <1>t DEF Stop, WaitFor
<1>4. CASE Start(d)
  <2>1. nTasks + 1 \in Task
    BY <1>4, ConstantsAssumption DEF Start, Task, BusyInv, TypeOK, ObjectTypeOK
  <2>2. /\ taskPc' = [taskPc EXCEPT ![nTasks + 1] = "created"]
        /\ firstSpawnDone' = nTasks + 1 /\ supervisorTask' = nTasks + 1
        /\ clientPc' = [clientPc EXCEPT ![d] = "starting"]
        /\ clientRef' = [clientRef EXCEPT ![d] = nTasks + 1]
        /\ nRuns < MaxSpawns /\ UNCHANGED <<taskRun, runStatus, nRuns>>
    BY <1>4 DEF Start
  <2>3. SpawnInv'
    BY <2>1, <2>2, <1>t
  <2>4. AwaitedInv'
    BY <2>1, <2>2, <1>t
  <2>5. QED
    BY <2>3, <2>4
<1>5. QED
  BY <1>1, <1>2, <1>3, <1>4 DEF Call

\* A step of the call in progress.
LEMMA CallInProgress ==
  ASSUME BusyInv, NEW d \in Clients, ClientStep(d)
  PROVE  SpawnInv' /\ AwaitedInv'
<1> USE DEF objectVars, taskVars, childVars, clientVars, countVars, WaitFor
<1>t. /\ taskPc \in [Task -> TaskPc] /\ clientPc \in [Clients -> ClientPc]
      /\ clientRef \in [Clients -> Nat]
      /\ runStatus \in [Run -> {"none", "alive", "killed", "exited", "failed"}]
      /\ SpawnInv
  BY DEF BusyInv, TypeOK, TaskTypeOK, ClientTypeOK, ChildTypeOK, ReturnInv
<1>i. \A c \in Clients \ {d} : clientPc[c] = "idle"
  BY DEF ClientStep, StartReturn, StopExited, StopGrace, StopJoined, StopJoinCancelled,
         StopJoinTimeout, StopCancelled, BusyInv, PatientInv, CallInv
<1>a. ASSUME clientPc'[d] \notin {"starting", "stopWaitKilled"},
             \A c \in Clients \ {d} : clientPc'[c] = clientPc[c]
      PROVE  AwaitedInv'
  BY <1>a, <1>i DEF AwaitedInv
<1>s. ASSUME UNCHANGED <<taskPc, taskRun, runStatus, nRuns>>
      PROVE  SpawnInv'
  BY <1>s, <1>t DEF SpawnInv, Alive, ExitSeen
<1>1. CASE StartReturn(d)
  BY <1>1, <1>t, <1>a, <1>s DEF StartReturn
<1>2. CASE StopExited(d)
  BY <1>2, <1>t, <1>a, <1>s DEF StopExited
<1>3. CASE StopGrace(d)
  <2>1. SpawnInv'
    <3>1. \A r \in Run : Alive(r) \/ ExitSeen(r) => (Alive(r) \/ ExitSeen(r))'
      BY <1>3, <1>t DEF StopGrace, ProcAlive, Alive, ExitSeen
    <3>2. \A t \in Task : taskPc[t] = "spawning" => taskRun[t] \in Run
      BY ConstantsAssumption DEF BusyInv, TypeOK, TaskTypeOK, Run, None
    <3>3. QED
      BY <1>3, <1>t, <3>1, <3>2 DEF StopGrace, SpawnInv, Alive, ExitSeen
  <2>2. CASE clientPc'[d] = "stopWaitKilled"
    <3>1. ProcAlive /\ runStatus' = [runStatus EXCEPT ![proc] = "killed"]
      BY <1>3, <1>t, <2>2 DEF StopGrace
    <3>2. proc \in Live
      BY <3>1, ConstantsAssumption
         DEF ProcAlive, Live, Run, None, BusyInv, TypeOK, ObjectTypeOK
    <3>3. proc = nRuns /\ At({"spawning", "waiting"})
      BY <3>2 DEF BusyInv, PatientInv, LiveInv
    <3>4. supervisorTask \in Task /\ taskPc[supervisorTask] = "waiting"
      BY <3>3, <1>3 DEF StopGrace, At, BusyInv, PatientInv, TaskInv, CallInv, StopPc
    <3>5. runStatus'[nRuns] = "killed"
      BY <3>1, <3>2, <3>3, <1>t DEF Live
    <3>6. /\ \A c \in Clients \ {d} : clientPc'[c] = "idle"
          /\ UNCHANGED <<taskPc, supervisorTask, nRuns>>
      BY <1>3, <1>t, <1>i DEF StopGrace
    <3>7. QED
      BY <2>1, <2>2, <3>4, <3>5, <3>6 DEF AwaitedInv
  <2>3. CASE clientPc'[d] # "stopWaitKilled"
    BY <1>3, <1>t, <1>a, <2>1, <2>3 DEF StopGrace
  <2>4. QED
    BY <2>2, <2>3
<1>4. CASE StopJoined(d)
  BY <1>4, <1>t, <1>a, <1>s DEF StopJoined
<1>5. CASE StopJoinCancelled(d)
  BY <1>5, <1>t, <1>a, <1>s DEF StopJoinCancelled
<1>6. ASSUME NEW u, Cancel(u), UNCHANGED <<taskRun, nRuns>>
      PROVE  SpawnInv'
  <2>1. \A t \in Task : taskPc'[t] \in {"created", "spawning"} => taskPc'[t] = taskPc[t]
    BY <1>6, <1>t DEF Cancel
  <2>2. \A r \in Run : Alive(r) \/ ExitSeen(r) => (Alive(r) \/ ExitSeen(r))'
    BY <1>6, <1>t DEF Cancel, Alive, ExitSeen
  <2>3. \A t \in Task : taskPc[t] = "spawning" => taskRun[t] \in Run
    BY ConstantsAssumption DEF BusyInv, TypeOK, TaskTypeOK, Run, None
  <2>4. QED
    BY <1>6, <1>t, <2>1, <2>2, <2>3 DEF SpawnInv, Alive, ExitSeen
<1>7. CASE StopJoinTimeout(d)
  BY <1>7, <1>t, <1>a, <1>6 DEF StopJoinTimeout
<1>8. CASE StopCancelled(d)
  BY <1>8, <1>t, <1>a, <1>6 DEF StopCancelled
<1>9. QED
  BY <1>1, <1>2, <1>3, <1>4, <1>5, <1>7, <1>8 DEF ClientStep

\* A step of the task.
LEMMA TaskAtWork ==
  ASSUME BusyInv, NEW t \in Task, TaskStep(t)
  PROVE  SpawnInv' /\ AwaitedInv'
<1>t. /\ taskPc \in [Task -> TaskPc] /\ taskRun \in [Task -> 0..MaxSpawns]
      /\ runStatus \in [Run -> {"none", "alive", "killed", "exited", "failed"}]
      /\ nRuns \in 0..MaxSpawns
  BY DEF BusyInv, TypeOK, TaskTypeOK, ChildTypeOK, ObjectTypeOK
<1>0. t = supervisorTask /\ taskPc[t] \notin {"none", "done", "cancelled"}
  BY DEF TaskStep, FirstStep, Respawn, GiveUp, Spawned, SpawnedExited, ObserveExit,
         TaskCancelled, BusyInv, PatientInv, TaskInv
<1>1. \A u \in Task \ {t} : taskPc[u] \notin {"created", "spawning"}
  BY <1>0 DEF BusyInv, PatientInv, TaskInv
<1>2. SpawnInv'
  <2>1. ASSUME \A u \in Task \ {t} : taskPc'[u] = taskPc[u],
               taskPc'[t] \notin {"created", "spawning"}
        PROVE  SpawnInv'
    BY <1>1, <2>1 DEF SpawnInv
  <2>2. ASSUME NEW ended, NEW code, AfterExit(t, ended, code)
        PROVE  SpawnInv'
    BY <1>t, <2>1, <2>2 DEF AfterExit
  <2>3. CASE FirstStep(t) \/ Respawn(t)
    <3>1. BeginSpawn(t)
      BY <2>3 DEF FirstStep, Respawn
    <3>2. /\ nRuns + 1 \in Run /\ taskRun' = [taskRun EXCEPT ![t] = nRuns + 1]
          /\ SpawnStarted(t, nRuns + 1) \/ SpawnFailed(t, nRuns + 1)
      BY <3>1, <1>t, ConstantsAssumption DEF BeginSpawn, Run
    <3>3. CASE SpawnStarted(t, nRuns + 1)
      BY <3>2, <3>3, <1>t, <1>1 DEF SpawnStarted, SpawnInv, Alive
    <3>4. CASE SpawnFailed(t, nRuns + 1)
      BY <3>4, <2>2 DEF SpawnFailed
    <3>5. QED
      BY <3>2, <3>3, <3>4
  <2>4. CASE GiveUp(t)
    BY <2>4, <2>1, <1>t DEF GiveUp
  <2>5. CASE Spawned(t)
    BY <2>5, <2>1, <1>t DEF Spawned
  <2>6. CASE SpawnedExited(t) \/ ObserveExit(t)
    BY <2>6, <2>2 DEF SpawnedExited, ObserveExit, RecordExit
  <2>7. CASE TaskCancelled(t)
    BY <2>7, <2>1, <1>t DEF TaskCancelled
  <2>8. QED
    BY <2>3, <2>4, <2>5, <2>6, <2>7 DEF TaskStep
<1>3. AwaitedInv'
  <2> DEFINE pc == taskPc[supervisorTask]
             next == taskPc'[supervisorTask]
  <2>1. /\ UNCHANGED <<clientVars, supervisorTask, firstSpawnDone>>
        /\ firstSet \subseteq firstSet' /\ exitedSet \subseteq exitedSet'
        /\ pc = "created" => next = "spawning" \/ firstSpawnDone \in firstSet'
        /\ pc = "spawning" => firstSpawnDone \in firstSet'
        /\ pc = "waiting" => exited \in exitedSet' /\ UNCHANGED <<exited, nRuns>>
        /\ pc \notin {"created", "sleeping"} => UNCHANGED <<exited, nRuns>>
    BY <1>0, TaskMoves
  <2>2. ASSUME NEW c \in Clients, clientPc[c] = "stopWaitKilled"
        PROVE  exited' \in exitedSet'
    BY <1>0, <2>1, <2>2 DEF AwaitedInv, BusyInv, ReturnInv, PatientInv, CallInv, StopPc
  <2>3. QED
    BY <1>0, <2>1, <2>2 DEF AwaitedInv, BusyInv, ReturnInv, clientVars
<1>4. QED
  BY <1>2, <1>3

\* A step of a child.
LEMMA ChildAtWork ==
  ASSUME BusyInv, NEW r \in Run, ChildStep(r)
  PROVE  SpawnInv' /\ AwaitedInv'
<1> taskRun \in [Task -> 0..MaxSpawns]
  BY DEF BusyInv, TypeOK, TaskTypeOK
<1>1. SpawnInv'
  <2>1. ASSUME NEW t \in Task, taskPc'[t] = "spawning"
        PROVE  (Alive(taskRun[t]) \/ ExitSeen(taskRun[t]))'
    <3>1. taskPc[t] = "spawning" /\ taskRun'[t] = taskRun[t] /\ taskRun[t] \in Run
      BY <2>1, ChildMoves, ConstantsAssumption
         DEF taskVars, BusyInv, TypeOK, TaskTypeOK, Run, None
    <3>2. Alive(taskRun[t]) \/ ExitSeen(taskRun[t])
      BY <3>1 DEF BusyInv, ReturnInv, SpawnInv
    <3>3. QED
      BY <3>1, <3>2, ChildMoves DEF Alive, ExitSeen
  <2>2. QED
    BY <2>1, ChildMoves DEF SpawnInv, BusyInv, ReturnInv, taskVars, countVars
<1>2. AwaitedInv'
  <2>1. ASSUME NEW t \in Task, taskPc[t] = "waiting", runStatus[nRuns] \in {"killed", "exited"}
        PROVE  runStatus'[nRuns] \in {"killed", "exited"}
    <3>1. nRuns \in Run
      BY <2>1, ConstantsAssumption
         DEF BusyInv, PatientInv, TaskInv, TypeOK, TaskTypeOK, ObjectTypeOK, Run, None
    <3>2. QED
      BY <2>1, <3>1, ChildMoves
  <2>2. QED
    BY <2>1, ChildMoves DEF AwaitedInv, BusyInv, ReturnInv, clientVars, objectVars, taskVars, countVars
<1>3. QED
  BY <1>1, <1>2

\* ReturnInv is an invariant of the patient environment.
LEMMA ReturnInvariance == PatientSpec => []ReturnInv
<1>1. Init => ReturnInv
  BY DEF Init, ReturnInv, SpawnInv, AwaitedInv
<1>2. BusyInv /\ [PatientNext]_vars => ReturnInv'
  <2> SUFFICES ASSUME BusyInv, [PatientNext]_vars PROVE SpawnInv' /\ AwaitedInv'
    BY DEF ReturnInv
  <2>1. CASE UNCHANGED vars
    BY <2>1 DEF vars, BusyInv, ReturnInv, SpawnInv, AwaitedInv, objectVars, taskVars,
                childVars, clientVars, countVars, Alive, ExitSeen
  <2>2. CASE PatientNext
    BY <2>2, NewCall, CallInProgress, TaskAtWork, ChildAtWork DEF PatientNext
  <2>3. QED
    BY <2>1, <2>2
<1>3. QED
  BY <1>1, <1>2, Patience, PatientRefines, TypeCorrect, FreshIdsInvariant, PTL
     DEF PatientSpec, BusyInv

\* The way of a call, from the last place back to the first.
TaskAt(pcs) == supervisorTask \in Task /\ taskPc[supervisorTask] \in pcs

\* Every call of a patient client returns, unless it waits for ever for the pipes
\* of a child it has killed: start when the first spawn attempt of its task is
\* over, stop because it kills and waits for what it killed, and cancels a task
\* that does not end (process.py:66-99, server.py:53, 73-74).
THEOREM PatientCallsReturn == FairPatientSpec /\ []Unblocked => CallsReturn
<1>1. ASSUME NEW c \in Clients
      PROVE  FairPatientSpec /\ []Unblocked
               => (clientPc[c] # "idle"
                     ~> (clientPc[c] = "idle" \/ []WaitsForPipes(c)))
  <2> DEFINE W  == clientPc[c] # "idle"
             X  == clientPc[c] = "idle"
             S0 == clientPc[c] = "starting" /\ clientRef[c] \in firstSet
             S1 == clientPc[c] = "starting" /\ clientRef[c] \notin firstSet
                     /\ TaskAt({"created"})
             S2 == clientPc[c] = "starting" /\ clientRef[c] \notin firstSet
                     /\ TaskAt({"spawning"})
             K1 == clientPc[c] = "stopWaitExit"
             K2 == clientPc[c] = "stopWaitKilled" /\ exited \notin exitedSet
                     /\ TaskAt({"waiting"}) /\ runStatus[nRuns] = "killed"
             K3 == clientPc[c] = "stopWaitKilled" /\ exited \notin exitedSet
                     /\ TaskAt({"waiting"}) /\ runStatus[nRuns] = "exited"
                     /\ nRuns \notin held
             KP == clientPc[c] = "stopWaitKilled" /\ exited \notin exitedSet
                     /\ TaskAt({"waiting"}) /\ runStatus[nRuns] = "exited"
                     /\ nRuns \in held
             H  == WaitsForPipes(c)
             K4 == clientPc[c] = "stopWaitKilled" /\ exited \in exitedSet
             K5 == clientPc[c] = "stopWaitTask"
             K6 == clientPc[c] = "stopCancelling" /\ TaskAt({"cancelling"})
             K7 == clientPc[c] = "stopCancelling" /\ TaskAt({"cancelled"})
             I  == BusyInv
             R  == /\ UNCHANGED <<clientVars, firstSet, exitedSet, exited, supervisorTask,
                                   taskPc, nRuns>>
                   /\ \A k \in Run :
                        /\ runStatus'[k] \in {runStatus[k], "exited"}
                        /\ runStatus[k] = "exited" /\ k \notin held => k \notin held'
  <2> USE DEF TaskAt, clientVars
  <2>t. I => /\ supervisorTask \in 0..MaxStarts /\ MaxStarts \in Nat /\ Task = 1..MaxStarts
             /\ taskPc \in [Task -> TaskPc] /\ clientPc \in [Clients -> ClientPc]
             /\ clientRef \in [Clients -> Nat]
             /\ TaskInv /\ LiveInv /\ CallInv /\ SpawnInv /\ AwaitedInv
    BY ConstantsAssumption
       DEF BusyInv, TypeOK, TaskTypeOK, ClientTypeOK, ObjectTypeOK, Task, PatientInv, ReturnInv
  <2>a. ASSUME I, W, [PatientNext]_vars
        PROVE  ClientStep(c) \/ (supervisorTask \in Task /\ TaskStep(supervisorTask)) \/ R
    <3>1. CASE UNCHANGED vars
      BY <3>1 DEF vars, childVars, objectVars, taskVars, countVars
    <3>2. ASSUME NEW r \in Run, ChildStep(r)
          PROVE  R
      BY <2>a, <3>2, ChildMoves DEF objectVars, taskVars, countVars
    <3>3. CASE PatientNext
      BY <2>a, <3>2, <3>3, BusyMoves
    <3>4. QED
      BY <2>a, <3>1, <3>3
  <2>b. ASSUME I, SomeTaskStep
        PROVE  supervisorTask \in Task /\ TaskStep(supervisorTask)
    <3>1. PICK t \in Task : TaskStep(t)
      BY <2>b DEF SomeTaskStep
    <3>2. taskPc[t] \notin {"none", "done", "cancelled"}
      BY <3>1 DEF TaskStep, FirstStep, Respawn, GiveUp, Spawned, SpawnedExited, ObserveExit,
                  TaskCancelled
    <3>3. QED
      BY <2>b, <2>t, <3>1, <3>2 DEF TaskInv
  <2>d. ASSUME I, supervisorTask \in Task, TaskStep(supervisorTask)
        PROVE  /\ S0 => S0'
               /\ S1 => S2' \/ S0'
               /\ S2 => S0'
               /\ K1 => K1'
               /\ K2 \/ K3 \/ KP \/ K4 => K4'
               /\ K5 => K5'
               /\ K6 \/ K7 => K7'
    <3> DEFINE pc == taskPc[supervisorTask]
               next == taskPc'[supervisorTask]
    <3>1. /\ UNCHANGED <<clientVars, supervisorTask, firstSpawnDone>>
          /\ firstSet \subseteq firstSet' /\ exitedSet \subseteq exitedSet'
          /\ pc = "created" => next = "spawning" \/ firstSpawnDone \in firstSet'
          /\ pc = "spawning" => firstSpawnDone \in firstSet'
          /\ pc = "waiting" => exited \in exitedSet' /\ UNCHANGED <<exited, nRuns>>
          /\ pc = "cancelling" => next = "cancelled"
          /\ pc \notin {"created", "sleeping"} => UNCHANGED <<exited, nRuns>>
      BY <2>d, TaskMoves
    <3>2. pc # "cancelled"
      BY <2>d DEF TaskStep, FirstStep, Respawn, GiveUp, Spawned, SpawnedExited, ObserveExit,
                  TaskCancelled
    <3>3. clientPc[c] = "starting" => clientRef[c] = firstSpawnDone
      BY <2>d, <2>t DEF AwaitedInv
    <3>4. clientPc[c] = "stopWaitKilled" => pc \in {"waiting", "done"}
      BY <2>d, <2>t DEF CallInv, StopPc
    <3>5. QED
      BY <2>d, <3>1, <3>2, <3>3, <3>4
  <2>e. ASSUME I, R
        PROVE  /\ S0 => S0'
               /\ S1 => S1'
               /\ S2 => S2'
               /\ K1 => K1'
               /\ K2 => K2' \/ K3' \/ KP'
               /\ K3 => K3'
               /\ KP => KP' \/ K3'
               /\ K4 => K4'
               /\ K5 => K5'
               /\ K6 => K6'
               /\ K7 => K7'
    <3>1. K2 \/ K3 \/ KP => nRuns \in Run
      BY <2>e, ConstantsAssumption
         DEF BusyInv, PatientInv, TaskInv, TypeOK, TaskTypeOK, ObjectTypeOK, Run, None
    <3>2. QED
      BY <2>e, <3>1
  <2>f. ASSUME I, ClientStep(c)
        PROVE  /\ S0 => X'
               /\ ~S1 /\ ~S2 /\ ~K2 /\ ~K3 /\ ~KP /\ ~K6
               /\ K1 => K2' \/ K5'
               /\ K4 => K5'
               /\ K5 => K6' \/ X'
               /\ K7 => X'
    <3> USE <2>f, <2>t DEF WaitFor
    <3>1. CASE StartReturn(c)
      BY <3>1 DEF StartReturn
    <3>2. CASE StopExited(c)
      BY <3>2 DEF StopExited, CallInv, TaskInv
    <3>3. CASE StopGrace(c)
      <4>1. CASE ProcAlive /\ exited \notin exitedSet
        <5>1. proc \in Live /\ runStatus' = [runStatus EXCEPT ![proc] = "killed"]
          BY <3>3, <4>1, ConstantsAssumption
             DEF StopGrace, ProcAlive, Live, Run, None, BusyInv, TypeOK, ObjectTypeOK
        <5>2. proc = nRuns /\ At({"spawning", "waiting"})
          BY <5>1 DEF LiveInv
        <5>3. supervisorTask \in Task /\ taskPc[supervisorTask] = "waiting"
          BY <5>2, <3>3 DEF StopGrace, At, TaskInv, CallInv, StopPc
        <5>4. runStatus'[nRuns] = "killed"
          BY <5>1, <5>2 DEF Live, BusyInv, TypeOK, ChildTypeOK
        <5>5. QED
          BY <3>3, <4>1, <5>3, <5>4 DEF StopGrace, objectVars, taskVars, countVars
      <4>2. CASE ~(ProcAlive /\ exited \notin exitedSet)
        BY <3>3, <4>2 DEF StopGrace
      <4>3. QED
        BY <4>1, <4>2
    <3>4. CASE StopJoined(c) \/ StopJoinCancelled(c)
      BY <3>4 DEF StopJoined, StopJoinCancelled
    <3>5. CASE StopJoinTimeout(c)
      <4>1. taskPc[supervisorTask] = "waiting" /\ clientRef[c] = supervisorTask
        BY <3>5 DEF StopJoinTimeout, Finished, CallInv, StopPc
      <4>2. supervisorTask \in Task
        BY <3>5 DEF StopJoinTimeout, CallInv, StopPc, None
      <4>3. QED
        BY <3>5, <4>1, <4>2 DEF StopJoinTimeout, Cancel, objectVars
    <3>6. CASE StopCancelled(c)
      BY <3>6 DEF StopCancelled, Finished, CallInv
    <3>7. QED
      BY <3>1, <3>2, <3>3, <3>4, <3>5, <3>6 DEF ClientStep
  <2>1. I /\ W => S0 \/ S1 \/ S2 \/ K1 \/ K2 \/ K3 \/ KP \/ K4 \/ K5 \/ K6 \/ K7
    <3> SUFFICES ASSUME I, W PROVE S0 \/ S1 \/ S2 \/ K1 \/ K2 \/ K3 \/ KP \/ K4 \/ K5 \/ K6 \/ K7
      OBVIOUS
    <3>1. CASE clientPc[c] = "starting"
      BY <2>t, <3>1 DEF AwaitedInv
    <3>2. CASE clientPc[c] = "stopWaitKilled"
      BY <2>t, <3>2 DEF AwaitedInv
    <3>3. CASE clientPc[c] = "stopCancelling"
      BY <2>t, <3>3 DEF CallInv, StopPc, None
    <3>4. QED
      BY <2>t, <3>1, <3>2, <3>3 DEF ClientPc
  <2>g. ASSUME I, SomeKilledExit, K2
        PROVE  K3' \/ KP'
    <3>1. PICK r \in Run : runStatus[r] = "killed" /\ ChildExit(r, "nonzero")
      BY <2>g DEF SomeKilledExit, KilledExit
    <3>2. r = nRuns
      BY <2>g, <2>t, <3>1 DEF LiveInv, Live, Alive
    <3>3. QED
      BY <2>g, <3>1, <3>2
         DEF ChildExit, objectVars, taskVars, countVars, BusyInv, TypeOK, ChildTypeOK
  <2>w. S0 \/ S1 \/ S2 \/ K1 \/ K2 \/ K3 \/ KP \/ K4 \/ K5 \/ K6 \/ K7 => W
    OBVIOUS
  <2>p. I /\ KP => H
    BY <2>t DEF WaitsForPipes, CallInv, TaskInv
  <2>27. (W <=> clientPc[c] # "idle") /\ (X <=> clientPc[c] = "idle")
        /\ (H <=> WaitsForPipes(c))
    OBVIOUS
  <2> HIDE DEF W, X, S0, S1, S2, K1, K2, K3, KP, K4, K5, K6, K7, H, I, R
  <2>2. I /\ S1 /\ [PatientNext]_vars => S1' \/ S2' \/ S0'
    BY <2>a, <2>d, <2>e, <2>f, <2>w
  <2>3. I /\ S1 /\ <<SomeTaskStep>>_vars => S2' \/ S0'
    BY <2>b, <2>d
  <2>4. I /\ S2 /\ [PatientNext]_vars => S2' \/ S0'
    BY <2>a, <2>d, <2>e, <2>f, <2>w
  <2>5. I /\ S2 /\ <<SomeTaskStep>>_vars => S0'
    BY <2>b, <2>d
  <2>6. I /\ S0 /\ [PatientNext]_vars => S0' \/ X'
    BY <2>a, <2>d, <2>e, <2>f, <2>w
  <2>7. I /\ S0 /\ <<ClientStep(c)>>_vars => X'
    BY <2>f
  <2>8. I /\ K1 /\ [PatientNext]_vars => K1' \/ K2' \/ K5'
    BY <2>a, <2>d, <2>e, <2>f, <2>w
  <2>9. I /\ K1 /\ <<ClientStep(c)>>_vars => K2' \/ K5'
    BY <2>f
  <2>10. I /\ K2 /\ [PatientNext]_vars => K2' \/ K3' \/ KP' \/ K4'
    BY <2>a, <2>d, <2>e, <2>f, <2>w
  <2>11. I /\ K2 /\ <<SomeKilledExit>>_vars => K3' \/ KP'
    BY <2>g
  <2>12. I /\ K3 /\ [PatientNext]_vars => K3' \/ K4'
    BY <2>a, <2>d, <2>e, <2>f, <2>w
  <2>13. I /\ K3 /\ <<SomeTaskStep>>_vars => K4'
    BY <2>b, <2>d
  <2>q. I /\ KP /\ [PatientNext]_vars => KP' \/ K3' \/ K4'
    BY <2>a, <2>d, <2>e, <2>f, <2>w
  <2>14. I /\ K4 /\ [PatientNext]_vars => K4' \/ K5'
    BY <2>a, <2>d, <2>e, <2>f, <2>w
  <2>15. I /\ K4 /\ <<ClientStep(c)>>_vars => K5'
    BY <2>f
  <2>16. I /\ K5 /\ [PatientNext]_vars => K5' \/ K6' \/ X'
    BY <2>a, <2>d, <2>e, <2>f, <2>w
  <2>17. I /\ K5 /\ <<ClientStep(c)>>_vars => K6' \/ X'
    BY <2>f
  <2>18. I /\ K6 /\ [PatientNext]_vars => K6' \/ K7'
    BY <2>a, <2>d, <2>e, <2>f, <2>w
  <2>19. I /\ K6 /\ <<SomeTaskStep>>_vars => K7'
    BY <2>b, <2>d
  <2>20. I /\ K7 /\ [PatientNext]_vars => K7' \/ X'
    BY <2>a, <2>d, <2>e, <2>f, <2>w
  <2>21. I /\ K7 /\ <<ClientStep(c)>>_vars => X'
    BY <2>f
  <2>22. Unblocked /\ I /\ (S1 \/ S2 \/ K3 \/ K6) => ENABLED <<SomeTaskStep>>_vars
    <3>1. I /\ (S1 \/ S2 \/ K3 \/ K6) => supervisorTask \in Task /\ TaskReady(supervisorTask)
      BY <2>t DEF S1, S2, K3, K6, TaskReady, SpawnInv, TaskInv, WaitEnds, ExitSeen
    <3>2. QED
      BY <3>1 DEF Unblocked
  <2>23. Unblocked /\ I /\ K2 => ENABLED <<SomeKilledExit>>_vars
    <3>1. I /\ K2 => nRuns \in Run /\ runStatus[nRuns] = "killed"
      BY <2>t, ConstantsAssumption
         DEF I, K2, BusyInv, TaskInv, TypeOK, TaskTypeOK, ObjectTypeOK, Run, None
    <3>2. QED
      BY <3>1 DEF Unblocked
  <2>24. Unblocked /\ I /\ (S0 \/ K1 \/ K4 \/ K5 \/ K7) => ENABLED <<ClientStep(c)>>_vars
    <3>1. I /\ (S0 \/ K1 \/ K4 \/ K5 \/ K7) => CallReady(c)
      BY <2>t DEF S0, K1, K4, K5, K7, CallReady, CallInv, Finished
    <3>2. QED
      BY <3>1 DEF Unblocked
  <2>25. FairPatientSpec => CallGoesOn(c) /\ TasksGoOn /\ KilledExits /\ PatientSpec
    BY DEF FairPatientSpec
  <2>26. PatientSpec => []I
    BY Patience, ReturnInvariance, PatientRefines, TypeCorrect, FreshIdsInvariant, PTL
       DEF I, BusyInv
  <2>s. FairPatientSpec /\ []Unblocked => (S0 \/ S1 \/ S2 ~> X)
    BY <2>2, <2>3, <2>4, <2>5, <2>6, <2>7, <2>22, <2>24, <2>25, <2>26, PTL
       DEF PatientSpec, CallGoesOn, TasksGoOn
  <2>k. FairPatientSpec /\ []Unblocked => (K5 \/ K6 \/ K7 ~> X)
    BY <2>16, <2>17, <2>18, <2>19, <2>20, <2>21, <2>22, <2>24, <2>25, <2>26, PTL
       DEF PatientSpec, CallGoesOn, TasksGoOn
  <2>l. FairPatientSpec /\ []Unblocked => (K1 \/ K2 \/ K3 \/ KP \/ K4 ~> (K5 \/ []H))
    BY <2>p, <2>q, <2>8, <2>9, <2>10, <2>11, <2>12, <2>13, <2>14, <2>15, <2>22, <2>23, <2>24, <2>25,
       <2>26, PTL DEF PatientSpec, CallGoesOn, TasksGoOn, KilledExits
  <2>28. QED
    BY <2>1, <2>s, <2>k, <2>l, <2>25, <2>26, <2>27, PTL
<1>2. QED
  BY <1>1 DEF CallsReturn

=============================================================================
