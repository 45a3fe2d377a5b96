------------------------------ MODULE UpstreamMCP ------------------------------
(***************************************************************************)
(* One stdio upstream of the proxy: the task that connects, idles and      *)
(* reconnects (UpstreamMCP._run, proxy.py), the calls forwarded to it, the *)
(* client that lists the tools (server.py:489-515) and the shutdowns that  *)
(* stop it.                                                                *)
(*                                                                         *)
(* An action is what one coroutine does between two suspensions.  The MCP  *)
(* client library is external: any exchange with the upstream may succeed, *)
(* fail or never end, and leaving its context managers takes a while, ends *)
(* the child, and may itself raise.  The child may also die by itself, and *)
(* nobody notices as long as the library does not raise: while it idles    *)
(* _run only sleeps, and goes on as running.  The supervisor starts an     *)
(* upstream once, before anything stops it (server.py:456-459, 462-464).   *)
(* A call that is refused at once changes nothing and has no action;       *)
(* results are left out.  A log is the set of connections it has lines of: *)
(* module LogPump has the lines.                                           *)
(***************************************************************************)
EXTENDS Integers, Sequences

\* A definition whose name starts with "Bug" is a mutated form of the one that
\* follows it; nothing uses it but PROJECT.json.

CONSTANTS
  Callers,      \* forwarded tool calls that may be in progress together
  Stoppers,     \* shutdowns that may overlap (restart_supervisor, SIGTERM)
  Modes,        \* restart_policy.mode values considered
  MaxRestarts,  \* restart_policy.max_restarts
  MaxConns      \* bound: connection attempts

ASSUME UpstreamAssumption ==
  /\ Modes \subseteq {"never", "on-failure", "always"}
  /\ MaxRestarts \in Nat
  /\ MaxConns \in Nat

Conn  == 1..MaxConns     \* a connection attempt, its session and its child
None  == 0
Empty == -1              \* list_tools failed or returned no tool

VARIABLES
  mode,                   \* policy.mode, fixed
  state, session,         \* session: the connection it belongs to
  tools,                  \* the connection that listed them, Empty, or None
  ready, stopRequested,
  window,                 \* len(_restart_window)
  taskPc, conn,           \* where _run is, and its connection attempt
  procs,                  \* connections whose child process lives
  log, previousLog,       \* the connections each buffer has lines of
  queue,                  \* _call_lock: its holder, then those who wait
  callPc, callConn,
  listPc, listed,         \* a list_tools request, and what the last one saw
  stopPc

runVars  == <<state, session, tools, ready, window, taskPc, conn, procs>>
logVars  == <<log, previousLog>>
callVars == <<queue, callPc, callConn>>
listVars == <<listPc, listed>>
vars == <<mode, runVars, logVars, stopRequested, callVars, listVars, stopPc>>

TaskPc == {"none", "created", "connecting", "refreshing", "idle", "failing",
           "closing", "pumping", "ending", "sleeping", "cancelled", "done"}

\* Inside stdio_client.
Connected == {"connecting", "refreshing", "idle", "failing", "closing"}

Init ==
  /\ mode \in Modes
  /\ state = "stopped" /\ session = None /\ tools = None
  /\ ready = FALSE /\ stopRequested = FALSE /\ window = 0
  /\ taskPc = "none" /\ conn = 0 /\ procs = {}
  /\ log = {} /\ previousLog = {}
  /\ queue = <<>>
  /\ callPc = [c \in Callers |-> "idle"]
  /\ callConn = [c \in Callers |-> None]
  /\ listPc = "idle" /\ listed = "none"
  /\ stopPc = [s \in Stoppers |-> "idle"]

(***************************************************************************)
(* start() and _run().                                                     *)
(***************************************************************************)

Start ==
  /\ taskPc = "none" /\ ~stopRequested
  /\ taskPc' = "created"
  /\ ready' = FALSE
  /\ UNCHANGED <<mode, state, session, tools, window, conn, procs, logVars,
                 stopRequested, callVars, listVars, stopPc>>

\* An empty buffer is not rotated.
Rotated == IF log # {} THEN log ELSE previousLog

\* stdio_client starts the child, or fails before it is there.
Connect ==
  /\ conn < MaxConns                                    \* bound
  /\ conn' = conn + 1
  /\ \/ /\ state' = "starting"
        /\ taskPc' = "connecting"
        /\ procs' = procs \cup {conn'}
        /\ log' = {}
        /\ UNCHANGED session
     \/ /\ state' = "crashed" /\ session' = None
        /\ taskPc' = "pumping"
        /\ log' = {conn'}
        /\ UNCHANGED procs
  /\ previousLog' = Rotated
  /\ UNCHANGED <<mode, tools, ready, window, stopRequested, callVars,
                 listVars, stopPc>>

FirstStep == taskPc = "created" /\ Connect
Reconnect == taskPc = "sleeping" /\ Connect

BugNextSession == session' = conn + 1 /\ UNCHANGED ready
BugReadyEarly == session' = conn /\ ready' = TRUE
SetSession == session' = conn /\ UNCHANGED ready

\* An answer that was on its way when the child died counts as taken before.
Initialized ==
  /\ taskPc = "connecting" /\ conn \in procs
  /\ taskPc' = "refreshing"
  /\ SetSession
  /\ UNCHANGED <<mode, state, tools, window, conn, procs, logVars,
                 stopRequested, callVars, listVars, stopPc>>

BugKeepTools == tools' \in {conn, tools}
RefreshTools ==
  \/ tools' = Empty
  \/ tools' = conn /\ conn \in procs

\* A failure of list_tools is logged; an upstream without tools is not one.
Refreshed ==
  /\ taskPc = "refreshing"
  /\ taskPc' = "idle"
  /\ RefreshTools
  /\ \/ UNCHANGED log
     \/ tools' = Empty /\ log' = log \cup {conn}
  /\ state' = "running"
  /\ ready' = TRUE
  /\ UNCHANGED <<mode, session, window, conn, procs, previousLog,
                 stopRequested, callVars, listVars, stopPc>>

\* Nothing tells _run, unless the library raises because of it.
ChildDies ==
  /\ conn \in procs
  /\ procs' = procs \ {conn}
  /\ UNCHANGED <<mode, state, session, tools, ready, window, taskPc, conn,
                 logVars, stopRequested, callVars, listVars, stopPc>>

\* The child, or one it has left behind, prints, and the pump of the connection
\* takes it.
Output ==
  /\ taskPc \in Connected
  /\ log' = log \cup {conn}
  /\ UNCHANGED <<mode, runVars, previousLog, stopRequested, callVars, listVars,
                 stopPc>>

\* The library raises: the context managers are left before anything is noted.
Fail ==
  /\ taskPc \in {"connecting", "refreshing", "idle"}
  /\ taskPc' = "failing"
  /\ UNCHANGED <<mode, state, session, tools, ready, window, conn, procs,
                 logVars, stopRequested, callVars, listVars, stopPc>>

BugKeepSession == UNCHANGED session
DropSession == session' = None

BugLogNothing == UNCHANGED log
LogError == log' = log \cup {conn}

\* except Exception, also when a cancelled exit ends in another exception.
Crashed ==
  /\ taskPc \in {"failing", "closing"}
  /\ taskPc' = "pumping"
  /\ procs' = procs \ {conn}
  /\ state' = "crashed"
  /\ DropSession
  /\ LogError
  /\ UNCHANGED <<mode, tools, ready, window, conn, previousLog, stopRequested,
                 callVars, listVars, stopPc>>

\* except CancelledError
Closed ==
  /\ taskPc = "closing"
  /\ taskPc' = "ending"
  /\ procs' = procs \ {conn}
  /\ state' = "stopped"
  /\ DropSession
  /\ UNCHANGED <<mode, tools, ready, window, conn, logVars, stopRequested,
                 callVars, listVars, stopPc>>

\* last_exit_code is -1 after every crash: "on-failure" restarts like "always".
BugRestartAnyway == mode = "never"
BugCodeLost == stopRequested \/ mode \in {"never", "on-failure"}
NoRestart == stopRequested \/ mode = "never"

TooMany(n) == n > MaxRestarts

\* finally: the pump is awaited, and its cancellation swallowed together with
\* one meant for this task; then the policy decides.
Pumped ==
  /\ taskPc = "pumping"
  /\ \/ /\ NoRestart
        /\ taskPc' = "done"
        /\ UNCHANGED <<state, window>>
     \/ /\ ~NoRestart
        /\ \E kept \in 0..window : window' = kept + 1
        /\ IF TooMany(window')
             THEN state' = "backoff" /\ taskPc' = "done"
             ELSE UNCHANGED state /\ taskPc' = "sleeping"
  /\ UNCHANGED <<mode, session, tools, ready, conn, procs, logVars,
                 stopRequested, callVars, listVars, stopPc>>

\* The task ends: after a cancellation was handled, or by one that was not.
Ended ==
  /\ taskPc \in {"ending", "cancelled"}
  /\ taskPc' = "done"
  /\ UNCHANGED <<mode, state, session, tools, ready, window, conn, procs,
                 logVars, stopRequested, callVars, listVars, stopPc>>

(***************************************************************************)
(* stop()                                                                  *)
(***************************************************************************)

\* task.cancel().  A second one finds the library still leaving its context
\* managers and changes nothing.
Cancel ==
  taskPc' = CASE taskPc \in {"created", "sleeping"} -> "cancelled"
              [] taskPc \in {"connecting", "refreshing", "idle", "failing"} -> "closing"
              [] OTHER -> taskPc

BugNotAwaited == TRUE
TaskOver == taskPc \in {"none", "done"}

\* A task that is over, or was never created, is not waited for.
Stop(s) ==
  /\ stopPc[s] = "idle"
  /\ stopRequested' = TRUE
  /\ Cancel
  /\ IF TaskOver
       THEN stopPc' = [stopPc EXCEPT ![s] = "done"] /\ state' = "stopped"
       ELSE stopPc' = [stopPc EXCEPT ![s] = "waiting"] /\ UNCHANGED state
  /\ UNCHANGED <<mode, session, tools, ready, window, conn, procs, logVars,
                 callVars, listVars>>

StopReturn(s) ==
  /\ stopPc[s] = "waiting"
  /\ taskPc = "done"
  /\ stopPc' = [stopPc EXCEPT ![s] = "done"]
  /\ state' = "stopped"
  /\ UNCHANGED <<mode, session, tools, ready, window, taskPc, conn, procs,
                 logVars, stopRequested, callVars, listVars>>

(***************************************************************************)
(* call_tool(): the server's lookup, the check, the lock, the request.     *)
(***************************************************************************)

Available == state = "running" /\ session # None

Return(c) ==
  /\ callPc' = [callPc EXCEPT ![c] = "idle"]
  /\ callConn' = [callConn EXCEPT ![c] = None]

Send(c) ==
  /\ callPc' = [callPc EXCEPT ![c] = "sent"]
  /\ callConn' = [callConn EXCEPT ![c] = session]

BugNoLock == TRUE
LockFree == queue = <<>>

\* An uncontended lock is taken without suspending.
Call(c) ==
  /\ callPc[c] = "idle"
  /\ tools \in Conn /\ Available
  /\ queue' = Append(queue, c)
  /\ IF LockFree
       THEN Send(c)
       ELSE /\ callPc' = [callPc EXCEPT ![c] = "queued"]
            /\ UNCHANGED callConn
  /\ UNCHANGED <<mode, runVars, logVars, stopRequested, listVars, stopPc>>

\* The lock is ours; self.session is read again.
Resume(c) ==
  /\ callPc[c] = "queued" /\ Head(queue) = c
  /\ \/ session # None /\ Send(c) /\ UNCHANGED queue
     \/ session = None /\ Return(c) /\ queue' = Tail(queue)
  /\ UNCHANGED <<mode, runVars, logVars, stopRequested, listVars, stopPc>>

\* An answer or an error; the caller holds the lock.
Answer(c) ==
  /\ callPc[c] = "sent"
  /\ Return(c)
  /\ queue' = Tail(queue)
  /\ UNCHANGED <<mode, runVars, logVars, stopRequested, listVars, stopPc>>

(***************************************************************************)
(* list_tools: wait_ready() for an upstream that is still warming up.      *)
(***************************************************************************)

Pending == (state = "starting" \/ tools \notin Conn) /\ state # "backoff"

Seen ==
  CASE tools \in Conn -> "tools"
    [] tools = Empty -> "empty"
    [] tools = None /\ state = "backoff" -> "backoff"
    [] OTHER -> "early"

\* Autostart comes before the first request (server.py:647-653).
List ==
  /\ listPc = "idle" /\ taskPc # "none"
  /\ IF Pending /\ ~ready
       THEN listPc' = "waiting" /\ UNCHANGED listed
       ELSE listed' = Seen /\ UNCHANGED listPc
  /\ UNCHANGED <<mode, runVars, logVars, stopRequested, callVars, stopPc>>

ListReady ==
  /\ listPc = "waiting" /\ ready
  /\ listPc' = "idle" /\ listed' = Seen
  /\ UNCHANGED <<mode, runVars, logVars, stopRequested, callVars, stopPc>>

ListTimeout ==
  /\ listPc = "waiting"
  /\ listPc' = "idle" /\ listed' = "timeout"
  /\ UNCHANGED <<mode, runVars, logVars, stopRequested, callVars, stopPc>>

-----------------------------------------------------------------------------

\* The steps the loop and the timers of this program see to, and the exit of
\* the library's context managers.
TaskStep ==
  FirstStep \/ Reconnect \/ Crashed \/ Closed \/ Pumped \/ Ended

Next ==
  \/ Start \/ TaskStep \/ Initialized \/ Refreshed \/ Output \/ Fail \/ ChildDies
  \/ \E s \in Stoppers : Stop(s) \/ StopReturn(s)
  \/ \E c \in Callers : Call(c) \/ Resume(c) \/ Answer(c)
  \/ List \/ ListReady \/ ListTimeout

Spec == Init /\ [][Next]_vars

(***************************************************************************)
(* Fairness: the loop resumes what is ready, sleeps end, and the library's *)
(* context managers can be left.  An upstream may never answer.            *)
(***************************************************************************)
TaskGoesOn    == WF_vars(TaskStep)
StopGoesOn(s) == WF_vars(StopReturn(s))
CallGoesOn(c) == WF_vars(Resume(c))

FairSpec ==
  /\ Spec
  /\ TaskGoesOn
  /\ \A s \in Stoppers : StopGoesOn(s)
  /\ \A c \in Callers : CallGoesOn(c)

\* Where its guard holds a fair action can be taken: all that the proof of
\* StopReturns asks of ENABLED.
Unblocked ==
  /\ taskPc \in {"closing", "pumping", "ending", "cancelled"}
       => ENABLED <<TaskStep>>_vars
  /\ \A s \in Stoppers :
       stopPc[s] = "waiting" /\ taskPc = "done" => ENABLED <<StopReturn(s)>>_vars

-----------------------------------------------------------------------------

RunTypeOK ==
  /\ mode \in Modes
  /\ state \in {"stopped", "starting", "running", "crashed", "backoff"}
  /\ session \in 0..MaxConns /\ tools \in Empty..MaxConns
  /\ ready \in BOOLEAN /\ stopRequested \in BOOLEAN /\ window \in Nat
  /\ taskPc \in TaskPc /\ conn \in 0..MaxConns /\ procs \subseteq Conn
  /\ log \subseteq Conn /\ previousLog \subseteq Conn

CallTypeOK ==
  /\ queue \in Seq(Callers)
  /\ callPc \in [Callers -> {"idle", "queued", "sent"}]
  /\ callConn \in [Callers -> 0..MaxConns]
  /\ listPc \in {"idle", "waiting"}
  /\ listed \in {"none", "tools", "empty", "backoff", "early", "timeout"}
  /\ stopPc \in [Stoppers -> {"idle", "waiting", "done"}]

\* Every variable keeps to its values (proxy.py:48-69).
TypeOK == RunTypeOK /\ CallTypeOK

\* An upstream reported as running has a session and a tool list of one and the
\* same connection, the latest, unless its list_tools gave nothing, and no child
\* of another one; its own child may be dead unnoticed (proxy.py:139-147, 161-162).
RunningIsConnected ==
  state = "running" =>
    /\ session = conn /\ procs \subseteq {conn}
    /\ tools \in {conn, Empty}

\* The lock lets one request at a time on a session: a second one starts only
\* when the first was answered, also across a reconnection (proxy.py:204-205).
OneRequest ==
  \A c, d \in Callers : callPc[c] = "sent" /\ callPc[d] = "sent" => c = d

\* A call that had to wait for the lock while the upstream crashed and came
\* back is written to the new connection, never to one whose context managers
\* were left; its child may be dead unnoticed (proxy.py:145-150, 162, 205).
SentToOpenSession ==
  [][\A c \in Callers :
       callPc[c] # "sent" /\ callPc'[c] = "sent" =>
         callConn'[c] = conn /\ taskPc \in Connected]_vars

\* list_tools returns before its timeout only with the tools of a connection,
\* unless the upstream was asked for them and gave none, or is in backoff: no
\* client caches a list made before the first handshake (server.py:491-504).
ListingIsComplete == listed # "early"

\* logs(previous=true) shows the run before the present one, and a run's own
\* log has no line of another: each failed run leaves at least one line behind,
\* and its pump ends before the next run begins (README.md:178, proxy.py:130,
\* 158, 168-172).
PreviousIsPrior ==
  log \subseteq {conn} /\ previousLog = IF conn <= 1 THEN {} ELSE {conn - 1}

\* Once a stop has returned the task is over, no child and no session is
\* left, and the status says so, whatever the cancellation met on its way
\* (proxy.py:111-119, 148-175).
StopIsFinal ==
  \A s \in Stoppers : stopPc[s] = "done" =>
    taskPc \in {"none", "done"} /\ state = "stopped" /\ procs = {} /\ session = None

\* stop() returns although a cancellation may be swallowed while the pump is
\* awaited (proxy.py:169-175).
StopReturns == \A s \in Stoppers : stopPc[s] = "waiting" ~> stopPc[s] = "done"

\* A crash is followed by a new attempt, by backoff or by a stop unless the
\* mode is "never" (proxy.py:174-191).
CrashIsHandled ==
  state = "crashed" ~>
    state # "crashed" \/ mode = "never" \/ conn = MaxConns

=============================================================================
