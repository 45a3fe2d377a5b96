# Verification of mcp_supervisord

TLA+ models of the supervisor and MCP proxy in `src/src/mcp_supervisord/`, the TLC
configurations that check them on small instances, and theorems that TLAPS proves for every
value of the constants. Line numbers without a path are those of that directory.
`PROJECT.json` maps every definition to the lines it models.

To repeat: `tlc -config <X>.cfg <module>` for the runs; `tlapm <X>_proofs.tla` and `tlapm Routing.tla` for
the proofs.

## 1. The system

One process runs one asyncio event loop. A web server hands MCP requests to a `Supervisor`
(`server.py`), which owns a `ProcessManager` (`manager.py`) and one `UpstreamMCP` (`proxy.py`)
per configured MCP server. Requests are coroutines: they interleave with each other and with
the background tasks at every `await`, and only there. There are no locks except
`UpstreamMCP._call_lock`, nothing is persisted, and most objects are shared by all requests.

| Component | State | Operations | Interacts with |
|---|---|---|---|
| Named tool, `process.py` | status, `_proc`, `_stop_requested`, two events, `_supervisor_task`, log and previous log | `start`, `stop`, `status`; the task `_supervise` spawns, waits, restarts | manager calls it; the child exits when it likes; pumps write its log |
| Restart bookkeeping, `process.py:180-194`, `proxy.py:183-191` | deque of restart times, restart count | append, drain, compare, sleep | part of `_supervise` and `_run` |
| Upstream, `proxy.py` | status, session, tools, ready event, lock, task | `start`, `stop`, `wait_ready`, `call_tool`; the task `_run` connects, idles, reconnects | the MCP library and its child; forwarded calls; tool listing |
| Bash jobs, `manager.py:114-187` | `bash_pids`, an ordered registry | `bash`, `wait`, `kill` | shell processes, pumps, pids that the system uses again |
| Interactive sessions, `interactive.py` | terminal, exit code, list of waiting futures, registry | `start`, send, read, `close`, eviction, `shutdown_all` | reader callback, reap task, a polling thread, the child's group |
| Log buffers, `logbuf.py` | bounded deque | `append`, `tail`; `pump_stream` | every process |
| Supervisor, `server.py:431-479` | manager, upstreams, configuration | `autostart`, `shutdown`, `reload` | everything above |
| Dispatch, listing and routing, `server.py:483-628` | none | one call per tool | everything above |
| Configuration, `config.py` | none | validate, expand `${VAR}` | read at start and reload |
| Authentication, `auth.py` | none | accept or refuse a request | web server |
| Entry point, `__main__.py`; `shutdown.py` (unused) | none | parse flags, run the server | |

What is hard, and what makes each part correct:

- *Named tools.* `start`, `stop`, the supervisor task, its cancellation and the child's exit
  meet at every await. There must be one child, a stop must leave none, status must not get
  stuck, calls must return, restarts must follow the policy.
- *Restart bookkeeping.* A rolling window over a deque that is drained lazily: an off-by-one
  shows only after several exits at particular times. It must implement the documented rule.
- *Upstream.* Status, session, tool list and ready event change at different awaits; a
  cancellation may be swallowed; callers wait for a lock across a reconnection. Status and
  session must agree, requests must not overlap, a stop must be final.
- *Bash jobs.* A timeout leaves the job running; pids come back; the registry drops the
  oldest. A running job must stay reachable as long as promised, a signal must hit its own
  job, collecting the pumps must end.
- *Log buffers.* Bytes arrive in chunks of any size, a line may exceed the limit of the reader, two pumps
  share one ring. What `logs` shows must depend on the output, not on its timing; a pump must end.
- *Interactive sessions.* Output and exit are noticed by different mechanisms; calls sleep on
  futures in a shared list. No wake-up may be lost, exits must be noticed, living sessions
  must stay listed, output must be captured.
- *Supervisor.* A reload replaces the manager while calls are in progress on the old one, reloads overlap,
  the configuration may fail to load. Nothing may be left running that nobody can reach, and what is
  configured to autostart must run.
- *Routing.* Calls are routed by text, over tool lists that change after a client has seen them. A call must
  reach the tool the client saw, or none.
- *Other stateless parts.* Pure decisions and conversions.

`PROJECT.json` lists under `hazards` each place where one of these bites.

## 2. Modules

### `ManagedProcess`: a named tool

One `ManagedProcess` with the `start`/`stop` of the manager in front of it, because the manager
decides from the status before it awaits anything. An action is what one coroutine does
between two suspensions, and several coroutines have program counters of their own:

- `clientPc`: a call, `Start*` and `Stop*`; `stop` passes through the wait for `_exited`, the
  wait after SIGKILL, the join with the supervisor task, and the join after its cancellation;
- `taskPc`: each supervisor task ever created. `create_task` only schedules, hence `created`;
  `FirstStep` and `Respawn` begin a spawn; `Spawned`/`SpawnFailed` see its result; `ObserveExit`
  and `RecordExit` handle an exit and `AfterExit` applies the policy; `Respawn` and `GiveUp`
  end the backoff sleep; `Cancel` and `TaskCancelled` are what a cancellation does at each
  await;
- `runStatus`: each child. `Popen` runs before `create_subprocess_exec` is awaited, so a child
  lives before the object knows its pid. `held` are the exited children of which a descendant keeps the pipes
  open: a task that went to sleep in `proc.wait()` before the exit wakes only when they close (`PipesClose`),
  which may be never; a wait that begins after the exit returns at once (`WaitEnds`).

Events, buffers and children are named by the run or task that made them: replacing an event
or a buffer, which is what goes wrong in this code, is then visible. Time is abstracted: any
timer may expire at any moment.

### `Lifecycle`: the state machine of the documentation

The drawing of README.md:184-194 as an abstract specification: starting, running, the end of a run, the
choice the policy makes of it, and what start and stop do to it. `ManagedProcess` instantiates it
(`Drawn == INSTANCE Lifecycle WITH phase <- Phase, ...`), and `FollowsTheDrawing == Drawn!Spec` is a
property of `patient`. `Phase` is the status, except that a task which is only scheduled counts as starting
and a task in its backoff sleep as sleeping, which the status does not tell from a rest. One thing in
it is not in the drawing and is in the code: a spawn that fails at once after the sleep ends a run
that the status never showed as starting.

### `CrashLoop` and `RestartWindow`: the restart rule

`CrashLoop` is the abstract specification: the rule of README.md:82 over the whole history of
exits. `RestartWindow` is the code's deque, drain, counter and sleep on a clock. It instantiates
`CrashLoop` (`Rule == INSTANCE CrashLoop`) and has `Rule!Spec` as a property and as a theorem.

### `UpstreamMCP`: a proxied server

`taskPc` follows `_run` through connect, initialize, `_refresh_tools`, idle, failure, the
library's context managers (`closing`), the pump's join and the backoff sleep. `queue` is the lock
with its waiters in FIFO order, as asyncio has it. `callPc`, `listPc` and `stopPc` are forwarded
calls, one listing client and overlapping shutdowns. `session` and `tools` name the connection
they came from, so a stale one is visible; so do the entries of `log` and `previousLog`, which rotate at each
attempt. The MCP library is external: each exchange succeeds, fails or never ends. A child may die by itself at
any moment (`ChildDies`), and nothing tells `_run`: the idle loop of `proxy.py:145-147` only sleeps, so status
`running` and the session may outlast the child. That the child of a `running` upstream lives is therefore no
property of this model.

### `Routing`: names of tools

Names are sequences of characters, because prefixes are cut from text. `Lists` is what the listing shows,
`RoutesTo` the loop of `_call_tool` with its order. There is no state to explore: the module has operators
and theorems.

### `BashJobs`: ad-hoc commands

Jobs with a process, an output and a pid; the registry as a sequence, oldest entry first;
calls that spawn, wait with a timeout and collect the pumps. A pid is free as soon as the job that
had it was reaped. Output may close before the exit, or stay open after it, for ever if a process that the job
left behind holds it; `proc.wait()` may return at any moment after the exit, whatever the output does. What an
answer shows of the output is the end of it, in a ring; that is `LogPump`'s.

### `LogPump`: from bytes to lines

A child's whole output is chosen in the beginning, and `fed` and `taken` say how much of it has arrived and
how much the pump took. `ReadLine`, `ReadPiece`, `ReadPartial` and `PumpReturn` are the four outcomes of
`readuntil`, `CancelPump` the end of an upstream's pump. An entry is the interval of the output that it was cut
from, so that a lost, repeated or misplaced byte shows. `Entries` says what the output amounts to without any
chunks: an entry is a line, or one of the pieces of a line that is longer than the reader's limit.
Both pumps are there: `pump_stream` cuts long lines, that of an upstream does not.

### `InteractiveSessions`: terminals

The reader callback (`OnReadable`), the polling thread and the reap task (`Poll`, `TakeResult`, `Reaped`), calls
that search the output and sleep on futures (`Search`, `AwaitOutput`, `Resume`, `TimesOut`), and close with its two
signals (`CloseFirst`, `GraceExpires`, `CloseReturns`), also for a list of sessions in turn (`shutdown_all`). Output is
counted in chunks, a chunk being what one read returns. Whether a search finds its pattern is left open: the code looks
at the last 200 lines and the partial line only, so what it waits for may have scrolled away. `TakeResult` is there
because the turn of the loop that takes the thread's answer also calls the reader: one more read happens before the
terminal is closed, not more.

### `Supervisor`: the whole

A manager and its upstreams are a generation; every actor, a call of `restart_supervisor` or the lifespan,
holds the one it took (`ref`) while others replace it. `pc` and `left` follow `shutdown` through upstreams
(`StopUpstream`), tools (`StopTool`), jobs (`StopJobs`) and sessions (`CloseSession`), then `LoadFails` or
`Replace`, then `autostart` tool by tool (`AutostartTool`, `AutostartNext`). `CallStart`, `CallBash` and
`CallSession` are the calls that start something meanwhile. A shutdown reaches the jobs that `bashPids` still has;
`TrackBash` enters a job there and may push out another that runs on. A tool is down, created, up or sleeping;
`ManagedProcess` has its inside, as the other modules have that of upstreams, jobs and sessions.

The `*MC` modules give names to small sets of model values. Definitions that begin with `Bug` are
mutated forms of the definition below them; `PROJECT.json` pairs each with the property that fails.

## 3. Runs

### Runs that pass

| Run | Instance | States | Shows |
|---|---|---|---|
| `concurrent` | two clients at any moment, all modes, 2 starts, 3 spawns | 793 k | whatever clients do, a living child keeps a supervisor unless cancelled, status is never stuck, backoff is earned |
| `patient` | one client that waits until no (re)spawn is pending, all modes, 2 starts, 4 spawns | 199 k | what the documentation promises: one child, nothing left by a stop, calls return unless a descendant of the killed child holds its pipes for ever, crashes are handled, logs rotate in order; the model implements `Lifecycle` |
| `restart_window` | 2 restarts in 4 ticks, pause 1, clock 12, 6 exits | 8 k | the deque implements the documented rule, the rate of restarts is bounded |
| `upstream` | 2 callers, 2 stoppers, all modes, 4 connections | 185 k | status, session and tools agree, one request at a time and on the session of the present connection, listings wait for the handshake, logs rotate run by run, a stop is final and returns |
| `bash` | 2 callers, 3 jobs, 3 pids, registry of 2 | 320 k | running jobs stay tracked as long as promised, signals hit their job, collecting the pumps ends unless somebody holds the output of the job for ever |
| `interactive` | 2 callers, 2 sessions, registry of 1 | 74 k | living sessions stay listed, no wake-up is lost, exits are noticed and release whoever waits, a closed session ends |
| `pump` | 2 streams, outputs of up to 3 bytes and four of up to 6, limit 2, pieces of 1, ring of 2 | 77 k | the log is that of the output whatever the chunks, `tail` shows the latest entries, complete lines get logged and pumps end |
| `reload` | 2 overlapping reloads and the lifespan, 2 calls, 3 generations of one tool and upstream, 2 jobs in registries of one, a session | 4.2 M | a shutdown that nothing overlapped is complete; in the end the configuration in use is autostarted on the manager in use, whatever overlapped |

### Runs that fail: where code and documentation disagree

| Run | What TLC finds |
|---|---|
| `two_supervisors` | `start` during the backoff sleep makes a second supervisor beside the sleeping one: two children |
| `orphan` | `stop` during a respawn signals nothing, gives up after the grace period and leaves the new child alive, status `stopped` |
| `output_lost` | a child that exits with more than one read of output pending loses the end of it |
| `reload_leak` | a reload passes over a tool that sleeps before its restart; it comes back under the old manager, which no call reaches |

The quotes are under `findings` in `PROJECT.json`.

Other observations, made with these models or on the way, that have no run:

- `stop` answers `{stopped: false}` while an `always` tool that exited with 0 sleeps in status `stopped`, and the
  tool comes back (`manager.py:70`, against server.py:75-77).
- Of two `start` calls in a row the first waits on an event that was replaced, for ever (`process.py:74`, against
  server.py:53). `concurrent` has these behaviours; `CallsReturn` is a property of `patient` only.
- With two clients, a stop whose join times out cancels the supervisor, and another stop that has already
  sent SIGKILL waits for ever for the event only that supervisor would set (`process.py:93`).
- `previous_log` of a tool is not the prior run's after a run that printed nothing, because an empty buffer is
  not rotated (`process.py:135`, against README.md:178). An upstream logs its own failure and does not have this
  (`PreviousIsPrior`).
- A call that waits for the lock while its upstream crashes fails with an attribute error, not with the
  documented answer (`proxy.py:205`, against README.md:105); while an upstream has never listed a tool the answer
  is "unknown tool" (`server.py:534`).
- The child of an upstream that dies between two calls is not noticed: `_run` idles in a loop of sleeps
  (`proxy.py:145-147`), the status stays `running`, and the next calls are written to a dead child
  (`ChildDies`): the restart policy (README.md:82) does not see this exit. The restart of an upstream is
  therefore promised only once its status is crashed.
- `bash` waits for ever when a process that the job left behind holds its output and `proc.wait()` did not wait for
  the output: on CPython 3.11 if the shell exits before `create_subprocess_shell` returns, on later ones whenever it exits in time
  (`manager.py:146`; `HeldOpen`). Likewise `stop` after SIGKILL on 3.11 (`process.py:93`; `Awaited`).
- A search of a session's output looks at 200 lines (`interactive.py:202, 222-226`) of what its docstring calls
  "cumulative output" (line 199): a match may scroll away unseen, and the call then waits for its timeout.
- A running job that 100 newer ones pushed out of the registry survives a shutdown (`manager.py:163, 193`).
- An upstream's last line on stderr is lost if it has no newline: the pump is cancelled in the turn that closes
  the pipe (`CancelPump`; `proxy.py:165-168`).
- "Lines >8 KB are truncated and flagged" (README.md:178): the pump of an upstream does neither up to 64 KB;
  past 64 KB both pumps log pieces of 8 KB as lines of their own, and the last piece carries no flag if it is short
  (`ReadPiece`; the comment at `logbuf.py:72` says "discard until newline").
- Two namespaces of which one, with its separator, begins the other may claim the same name; the first in the
  configuration gets the call (`Apart`).
- Session ids start again after a reload, so an id from before it may name another session.

### Bounds

- `concurrent`: two tasks and three runs are the least in which a task sleeps before a respawn
  while another one starts, and a third run can be confused with either. `MaxRestarts = 1` has
  a restart that is allowed and one that is not.
- `patient` needs one more spawn, so that a restart, a backoff and a new start fit in one
  behaviour; of its runs two print, so that rotation sees silent and talkative runs in a row.
- `restart_window`: six exits with a window of up to three: the drain drops none, some or all
  entries, and the clock lets exits fall on both sides of the boundary and on it.
- `upstream`: four connections: a call may be queued in one, sent in the next, and its tools listed
  in the third, and the logs of one rotate away. Two callers suffice for the lock, two stoppers for overlapping shutdowns.
- `bash`: three jobs in a registry of two force an eviction; three pids let a job have a new
  one or that of an exited job. Unused pids are interchangeable: the lowest stands for all.
- `interactive`: two sessions in a registry of one force an eviction while the first lives or is
  dead. One chunk suffices for wake-ups; `output_lost` has two, one more than the last turn of the loop reads.
- `pump`: with a limit of two bytes and pieces of one, the output has lines within a piece, between the piece and the
  limit, and one and several pieces past the limit, each with and without a newline; a ring of two entries is
  overrun by either stream.
- `reload`: two reloads that overlap and the lifespan make three generations: one shut down, one replaced under
  an actor that still holds it, one in use. A call meets each of them at any stage; the second comes when nobody
  reloads, before, between or after (`MaxDuring`), which is enough for a registry of one job (`JobCapacity`) to
  push out a running job that a shutdown then does not reach.

Every bound is a conjunct marked `\* bound`. Deadlock is not checked: a server whose clients have used
up their bounded calls, with a child that runs on, has stopped and may.

### Fairness

Only what the event loop and the system provide. The loop resumes every coroutine that is
ready and fires every timer (weak fairness of a task's or call's step). A child, or a group of a session, that was sent
SIGKILL exits; that its pipes close is not assumed, so `CallsReturn` and `BashReturns` say "or waits for pipes that stay
open for ever". A pump that has something to read runs. The polling thread runs and a forked child reaches `setsid`. The
library's context managers can be left. The slices of a second in which a pattern is searched for expire; the timeout of a
client is not assumed to. Nobody has to call, no child has to exit or print, no upstream has to answer.

`patient` restricts the environment, not the scheduler: a client calls only when no call is in progress
and no (re)spawn is pending, neither during a spawn nor in the backoff sleep (`Quiet`). So the liveness properties of
`patient` say nothing of a `start` that replaces the event another waits for, nor of a stop that waits for a supervisor
which another stop has cancelled; both hang, as listed above. The failing runs show what goes wrong without it.
`Supervisor` states no fairness: its properties are invariants.

Each condition is a weak fairness formula with a name of its own (`CallGoesOn`, `StopGoesOn`, `ReapGoesOn`, ...). In the
patient environment one condition serves all tasks and one all killed children, because at most one task is at work and
at most one child lives; this asks less than a condition for each.

### Assumptions

- `shlex` accepts the command; a configuration that loads is valid.
- A request is not cancelled by its client's disconnection.
- Two spawns begun in some order complete in that order.
- asyncio on CPython: `returncode` is set with the reaping (there is a turn of the loop between them), and `proc.wait()`
  returns at once when it is set. Whoever was asleep in it wakes on 3.11 when the pipes are closed too, on later
  versions at the exit: the models allow both. `wait_for` cancels what it waits for before it raises.
- An upstream is started once, by `autostart`; a second cancellation does not pass the library's
  context managers.
- A session's child reaches `setsid` before a grace period is over. Its pid is not used again in the
  turns of the loop that report its exit.
- `Supervisor`: a `stop()` or `close()` of a part is one step, others may run before and after it. Clients start a tool
  only when it is down. A tool's spawn attempt is over before the grace period of a stop is. uvicorn lets requests end before the
  lifespan shuts down.

## 4. Proofs

Every type and safety invariant and every safety action property that a passing run checks is a theorem, and so are both
refinements and five liveness properties: `CallsReturn`, `StopReturns`, `ExitIsNoticed`, `DeadSessionReleases` and
`ClosedSessionEnds`.

A liveness theorem has the form `FairSpec /\ []Unblocked => Property`. Weak fairness speaks of `ENABLED`, of which the
prover knows nothing; `Unblocked`, which stands beside the fairness in the model, says what is needed of it: where the
guard of an action holds, the action can be taken. That is a fact about the definitions, not an assumption about the code,
and holds in every reachable state of the instances of the runs `patient`, `upstream` and `interactive` (add `Unblocked`
to the invariants of their `.cfg` to see it; it is not among them because no mistake of the code is meant to break it).
Nothing else is assumed: that a guard holds, and keeps holding until the step is taken, is proved from the invariants.

Stays with TLC:

- `ENABLED` itself, which is `Unblocked`.
- Liveness that goes around a loop as often as a bound allows, because the step from one round to the next is an induction
  over a temporal formula: both `CrashIsHandled` (a spawn may fail again), `OutputIsLogged` (line by line) and
  `BashReturns` (the pumps of a job go on line by line before its exit is known).

A theorem about `Spec` covers every restriction of it, as `PatientSpec`. Four are about `PatientSpec` alone, because
they need calls that do not overlap: `two_supervisors` and `orphan` show two living children and a stop that leaves
one. All assume only the named `ASSUME` of their module: bounds are natural numbers, names of different kinds differ,
modes are among the three. TLC found no state outside an inductive invariant before it was proved. In the proof that
`Next` preserves it each action has a step, and what several steps need of an operator is a lemma.

`ManagedProcess_proofs`

- `TypeCorrect`: `TypeOK` is inductive. It contains one fact that is not about types, that a task
  handling a child knows which one, without which the exits could not be typed.
- `ChildrenMinded`: needs `FreshIds` (lemma `FreshIdsInvariant`): runs and tasks above the counters are
  untouched, so a new run takes nobody's place. Each step either keeps the child with its task, or moves both.
- `StatusBacked`: inductive with `TypeOK`; the case to see is a stop that overwrites the status later.
- `BackoffEarned`: needs `Counted` (lemma `WindowCounted`): the window never holds more entries than
  were counted.

The rest is about `PatientSpec`, a tool used by one call at a time. `PatientInv` (lemma `Patience`) is inductive, and none
of its parts is without the others:

- `TaskInv`: the task of the last `start()` is the only one that is not over, and it handles the last run. So
  a stop that looks at `proc` and `supervisorTask` looks at the child and the task that matter.
- `LiveInv`: only the last run may live, and only while that task is spawning it or waits for it.
- `CallInv`: the call in progress is where the task and the child allow it to be; no child lives once `stop()`
  waits for the task.
- `RestInv`: after a stop, also one that was answered `{stopped: false}`, no task is at work.

From it:

- `OneChild`: by `LiveInv`. `NothingLeft`: by `RestInv` and `LiveInv`.
- `LogsOrdered`: needs `LogInv` (lemma `LogStep`): a buffer is named after the run that made it, no earlier run
  prints into it, and no later one once it was rotated out, though the pumps of dead children go on.
- `DrawingFollowed`: `PatientSpec => Drawn!Spec` (lemma `DrawnStep`). `Phase` maps status, flag and task to the state of
  the drawing. A step that takes the task on maps to the arrow, any other to a stutter; that the count of restarts is
  past the bound when the tool gives up is `Counted` again.
- `PatientCallsReturn`: a call is at one of eleven places (`S0`-`S2` of a start, `K1`-`K7` and `KP` of a stop), each of which is left
  for a later one by one kind of fair step and by no other step for an earlier one. Which places there are takes
  `ReturnInv` (lemma `ReturnInvariance`): what a start waits for is set, or its task is about to spawn and can; a stop
  that sent SIGKILL finds the exit recorded, or the child it killed is the one its task waits for. That the task wakes is
  proved but for the case that the pipes stay open for ever, which `WaitsForPipes` names. `BusyMoves` says who
  may step while a call is in progress, `TaskMoves` and `ChildMoves` what that does to the caller.

`RestartWindow_proofs`

- `TypeCorrect`; `WindowRecent`: the deque is the suffix of the exits that are within the window of
  the last exit. It is inductive with `ExitsInOrder`, the exits being sorted by time. The drain stops at
  the first entry inside, so that it finds all stale entries is exactly where the order is used.
- `RuleImplemented`: `Spec => Rule!Spec`. From `WindowRecent`, the length of the deque exceeds
  `MaxRestarts` just when the exit `MaxRestarts` places before the last one lies within the window (lemma
  `ExitAllowed`), so each step maps to a step of `CrashLoop` or to a stutter.
- `RateLimited`: no window of that length, wherever it begins, has more than `MaxRestarts` restarts.
- `Paced`: consecutive restarts are at least `BackoffSeconds` apart, with the invariant `PauseKept`: a
  sleeping or running task has the pause behind it or its end set.

`Routing`, under `Params` alone (the constants are names) or with `Apart` (no namespace with its separator begins
another, which the code does not check):

- `RoutedIsListed`: a routed call reaches a tool that the listing shows under that very name. From lemmas
  `UnprefixPrefix` and `PrefixUnprefix`: cutting a prefix and putting it back are inverse to each other.
- `ListedIsRouted`, with `Apart`: a listed name reaches the upstream that listed it (lemma `OneMatch`: two leads of one
  name are ordered by length, so the shorter begins the longer).
- `StaleListingIsSafe`, with `Apart`: the same for a listing that is out of date, or the call reaches nobody.

`UpstreamMCP_proofs`: one inductive invariant, `UpstreamInv` (theorem `Invariance`), for any callers, stoppers, policies
and number of attempts; `TypeCorrect` and the six properties below follow from it.

- `RunInv`, the connection task: what its step says of `conn`, the children, the session, the status and the logs.
  `RunningUpstream` is its clause for the status, which needs that of the children; `LogsOfTwoRuns` is its clause for
  the logs: a run that ended has a line, so the next rotation is never skipped but on the first connection.
- `QueueInv`, the lock: the queue holds each call in progress once, and the sent one first (`Enqueue`, `Wake`,
  `Dequeue`, one lemma per use of the lock). `OneAtATime` follows; that no position is held twice is what lets the
  next caller be woken, and not the same again.
- `ListInv`: ready implies a list of tools was made (`CompleteListing`).
- `StopInv`: whoever stops has set the flag, and once a stop returned no step of the task is possible (lemma
  `OverStays`, from the clause of the children); `FinalStop`.
- `OpenSession`, an action property: a session is that of the present connection, whose context managers were not left
  yet (`RunInv`), and both sends read the session.
- `StopsReturn`, liveness: once a stop has begun the task is at most two of its own steps from the end, at each of its
  suspensions (`EndingInv`, lemma `EndingStep`): the flag is set, so no branch leads back into the loop, also when the
  cancellation was swallowed.

`BashJobs_proofs`: `BashInv` (theorem `Invariance`), for any callers, pids, capacity and number of jobs.

- `RegistryInv`: the entries stand in the order in which the jobs began, one for a pid, no more than `Capacity`. Entering
  a job takes out at most the entry of the same pid, eviction only the first (`EnteredProperties`, `EvictedProperties`).
- `PidInv`: of two jobs that were given one pid, the earlier is no longer running.
- `CallInv`: a job whose creation has not returned is newer than all that were tracked. With it, a new entry
  belongs at the end.
- `RunningIsTracked` is itself a part: a running job that has no entry has as many younger ones as the registry holds.
  Whoever is younger than the first entry of a full registry is counted by lemma `AboveTheFirst`.
- `HistoryInv`: no signal went astray (`KillHits`). `kill` checks that the
  job it means still runs, and the pid of a running job is nobody else's, by `PidInv`.

`InteractiveSessions_proofs`: `SessionsInv` (theorem `Invariance`), for any callers, capacity and number of sessions. A step is
one of a session (`SessionStep`) or of a call (`CallStep`), and each kind has a frame lemma for what it leaves to the other.

- `Fresh`: a session that was not started has no child, no reap task and no exit.
- `LiveListed`: inductive with `Fresh`. `EvictedKeepsLive`: eviction drops only what has exited.
- `WaitInv`: whoever has a pending future waits for one session, has seen all of its output, and the exit of that
  session is not known. Every step that adds output or sets the exit resolves the futures in the same turn, which is
  what `SessionFrame` says. `NoLostWakeup` follows.
- `ExitNoticed`, liveness: a dead child is polled by its thread, which alone may reap it, and then its reap task runs
  (`ReapInv`; lemmas `SessionMoves` and `ReapMoves` say that nobody else touches either).
- `DeadReleases`, liveness: a call that waits for a session whose child died returns. The exit is noticed as in
  `ExitNoticed` and leaves no future pending (`WaitInv`), so the call can go on, and whatever its search finds it gives up
  in that round (`WaitMoves`).
- `ClosedEnds`, liveness: a session whose turn in a close has come gets SIGKILL when the grace period is over, at the
  latest; killed stays killed (`KilledStays`), a killed child dies (`DyingEnds`), and then it is noticed. `EndInv` says
  who waits in a close for what; `QueueMoves`, `GraceMoves` and `CloseMoves` what the steps of a close do to it.

`Supervisor_proofs`: `SupervisorInv` (theorem `Invariance`), for any requests, tools, upstreams, configurations, calls and
generations. The difficulty is to say what is still true while several reloads run; `overlapped` holds the generations whose
end was disturbed.

- `OverlapInv`: two busy actors, or one that stops and a job being spawned, put the generation in use among them. So in any
  other generation, an actor that stops it is alone.
- `ProgressInv`: how far that shutdown has come: at each point of `pc`, the parts it passed are down and those of
  the present part are down or in `left`. A calm generation stays so (`CalmKeepsEnd`, `CalmStep`).
- `OtherGensInv`: nothing runs in another generation that was not overlapped, but for tools it met between two runs and
  jobs that its registry had lost (`JobsEnded`). `Replace` keeps it, by `ProgressInv`. With it,
  `ShutdownComplete`.
- `AutostartInv`: what is not started yet is left to an actor that autostarts it, also when two of them do.
  `AutostartComplete` is the case that no actor is left.

`LogPump_proofs`: `LogPumpInv` (lemma `Invariance`), for any outputs, chunks, limits and capacity.

- `Shape` and `Position`: the pump is never ahead of what arrived. `ArrivedLine`: what has arrived tells enough of the
  line, so that each of the four outcomes of `readuntil` logs the entry that the whole output determines, `EntryAt`
  (`ReadsTheLine`). Nothing else in the proof knows of chunks.
- `LogIsRecent`: the entries of a stream are chained, each one that which its bytes make, and the next of that stream
  starts behind it (behind a newline or a cut); the last one ends where the pump is; and the first starts at the first byte unless the ring
  is full. Kept by an entry at the end (`ChainAppend`) and by the loss of the oldest (`ChainTail`). `OnlyTheOldIsLost` states it.
- `LeastPosition`, by well-founded induction: a set of positions has a least one, so that `EndOf` is defined.
- `LogsRecent`: what the ring has of a stream are its last entries, as the recursive functions `Entries` and `OfStream` cut
  them; an entry is what the code makes of the bytes, not what README.md:178 says of long lines. `EntriesInv` (lemma
  `EntriesInvariance`): the entries of the whole output are those of what was taken followed by
  those from there on; what the ring has of a stream ends them; and the ring is full or has one entry for each. That a
  recursive function exists, is unique and obeys its equation (`FirstsExist`, `EntriesExist`, `EntriesUnique`,
  `OfStreamEquation`, `EntriesFromEquation`) is proved by induction on sets of numbers (`Upwards`, `Downwards`), as the library's
  induction rules take an operator. Then `EntriesStep` for one entry more of the output, and `OfStreamAppend`, `OfStreamTail` and
  `KeptProperties` for one entry more or less in the ring.

## 5. Not modelled

- Terminals: their contents (lines, truncation, a character split over two reads, which becomes two replacement
  characters), input, of which a terminal may take a part only, `resize`, which no tool calls, regular
  expressions (whether a search finds its pattern is left open).
- Results of forwarded calls; `status`; timestamps and decoding of log lines.
- Dispatch and defaults of arguments, configuration, authentication, entry point: they keep no state, and a
  model of them would be the code again. `shutdown.py` has no user.
- The MCP library, uvicorn, the kernel: external, as what they may do.

## 6. Plan

Done, in this order: `ManagedProcess` and its proofs; `CrashLoop`, `RestartWindow` and its proofs; `UpstreamMCP`;
`BashJobs`; `InteractiveSessions`; `Supervisor`; `Lifecycle` and its refinement; `LogPump`; `Routing` with its theorems;
the proofs of `UpstreamMCP`; those of patient use of a tool and of the refinement of `Lifecycle`; those of `InteractiveSessions`,
`BashJobs`, `Supervisor` and `LogPump`; that of `LogsAreRecent`; the liveness of stops, of
calls and of the end of sessions; the death of children behind the back of whoever uses them, pipes that stay open, and the
registry of jobs in a shutdown.

Next, proofs: that a generation still running in spite of a reload is an overlapped one, per part (the leak that
`SupervisorLeak` shows is the only kind); that a job's entry in the registry leads `kill` and `wait` to one process; that no
session is closed but by `close` and `shutdown_all`.
