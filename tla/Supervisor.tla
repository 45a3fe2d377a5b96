------------------------------ MODULE Supervisor ------------------------------
(***************************************************************************)
(* The Supervisor object (src/mcp_supervisord/server.py:431-479, 646-653): *)
(* autostart, reload and shutdown of everything it supervises, while tool  *)
(* calls go on.                                                            *)
(*                                                                         *)
(* A reload replaces the ProcessManager and the dict of upstreams.  A pair *)
(* of them is a generation; an actor that took its reference before the    *)
(* replacement goes on with the old generation.  The actors are the calls  *)
(* of restart_supervisor in progress and Lifespan, the ASGI context that   *)
(* autostarts before the first request and shuts down after the last one.  *)
(*                                                                         *)
(* The parts are reduced to what a reload can tell apart: ManagedProcess,  *)
(* UpstreamMCP, BashJobs and InteractiveSessions have their inside.  A     *)
(* stop() or close() is one step, others may run before and after it.      *)
(***************************************************************************)
EXTENDS Integers, FiniteSets

\* A definition whose name starts with "Bug" is a mutated form of the one that
\* follows it; nothing uses it but PROJECT.json.

CONSTANTS
  Requests,    \* restart_supervisor calls that may be in progress together
  Lifespan,    \* the ASGI lifespan
  Tools,       \* config.named_tools
  Upstreams,   \* config.mcp_servers
  Configs,     \* the sets of names a configuration may give autostart:true
  Jobs,        \* bash calls
  Sessions,    \* start_interactive calls
  NoTool,      \* for "no tool is awaited"
  JobCapacity, \* BASH_PID_LRU
  MaxCalls,    \* bound: calls that start something
  MaxDuring,   \* bound: only the first so many of them during a reload
  MaxGens      \* bound: generations

ASSUME SupervisorAssumption ==
  /\ Lifespan \notin Requests
  /\ Tools \cap Upstreams = {} /\ NoTool \notin Tools
  /\ \A names \in Configs : names \subseteq Tools \cup Upstreams
  /\ JobCapacity \in Nat \ {0} /\ MaxCalls \in Nat /\ MaxDuring \in Nat
  /\ MaxGens \in Nat \ {0}

Actors == Requests \cup {Lifespan}
Gen    == 1..MaxGens

VARIABLES
  gen,                  \* what self.manager and self.upstreams are
  autostart,            \* the names each generation starts by itself
  loaded,               \* history: the last load_config succeeded
  liveUps,              \* upstreams with a supervisor task
  tool,                 \* the named tools of each generation
  spawning, running,    \* the bash jobs of each generation; those that a
                        \* shutdown sent SIGTERM do not count as running
  bashPids,             \* the jobs in its registry, running or not
  liveSess,             \* its sessions that live
  pc, ref, left,        \* each actor: its step, its generation, what is left
  calls,                \* the calls so far that started something
  awaited,              \* the tool whose start() an autostart waits for
  started,              \* history: of generation gen, what was started and
                        \* not met by a shutdown since
  overlapped,           \* history: generations whose end overlapped something
  missed                \* history: tools met by a shutdown between two runs

genVars   == <<gen, autostart, loaded>>
jobVars   == <<spawning, running, bashPids>>
partVars  == <<liveUps, tool, jobVars, liveSess>>
actorVars == <<pc, ref, left, awaited>>
history   == <<calls, started, overlapped, missed>>
vars == <<genVars, partVars, actorVars, history>>

\* "down" is every status without a supervisor task, "created" a task before
\* its first step, "up" the statuses starting and running, "sleeping" the pause
\* before a restart.
ToolState == {"down", "created", "up", "sleeping"}

Pc == {"autostart", "await", "idle", "ups", "tools", "sessions", "exited"}

Serving   == pc[Lifespan] = "idle"
Busy(a)   == pc[a] # "idle"
Reloading == \E a \in Actors : Busy(a)
Others(a) == \E b \in Actors \ {a} : Busy(b)

Overlaps(g, cond) == overlapped' = IF cond THEN overlapped \cup {g} ELSE overlapped

\* __init__ and the lifespan before its first await: upstreams start without
\* suspending.
Init ==
  /\ gen = 1 /\ loaded = TRUE
  /\ \E names \in Configs :
       /\ autostart = [g \in Gen |-> IF g = 1 THEN names ELSE {}]
       /\ liveUps = {1} \X (names \cap Upstreams)
       /\ left = [a \in Actors |-> IF a = Lifespan THEN names \cap Tools ELSE {}]
  /\ tool = [g \in Gen |-> [n \in Tools |-> "down"]]
  /\ spawning = {} /\ running = {} /\ bashPids = {} /\ liveSess = {}
  /\ pc = [a \in Actors |-> IF a = Lifespan THEN "autostart" ELSE "idle"]
  /\ ref = [a \in Actors |-> 1]
  /\ awaited = [a \in Actors |-> NoTool]
  /\ started = {u \in Upstreams : <<1, u>> \in liveUps}
  /\ calls = 0 /\ overlapped = {} /\ missed = {}

(***************************************************************************)
(* Tool calls.  Each takes self.manager when it is dispatched.             *)
(***************************************************************************)

Bounded ==
  /\ calls < MaxCalls /\ (Reloading => calls < MaxDuring)   \* bounds
  /\ calls' = calls + 1

\* A tool that has a task already is not started again; the race of two
\* starts for one tool is in ManagedProcess.
CallStart(n) ==
  /\ Serving /\ tool[gen][n] = "down"
  /\ tool' = [tool EXCEPT ![gen][n] = "created"]
  /\ started' = started \cup {n}
  /\ Bounded
  /\ Overlaps(gen, Reloading)
  /\ UNCHANGED <<genVars, liveUps, jobVars, liveSess, actorVars, missed>>

\* The shell runs at once; it is tracked when create_subprocess_shell returns,
\* in the registry of the manager that was asked.
CallBash(j) ==
  /\ Serving
  /\ \A g \in Gen : <<g, j>> \notin spawning \cup running \cup bashPids
  /\ spawning' = spawning \cup {<<gen, j>>}
  /\ Bounded
  /\ Overlaps(gen, Reloading)
  /\ UNCHANGED <<genVars, liveUps, tool, running, bashPids, liveSess,
                 actorVars, started, missed>>

\* A full registry evicts a job, running or not; BashJobs has which.
TrackBash(g, j) ==
  LET members == {k \in Jobs : <<g, k>> \in bashPids} IN
  \/ /\ Cardinality(members) < JobCapacity
     /\ bashPids' = bashPids \cup {<<g, j>>}
  \/ /\ Cardinality(members) >= JobCapacity
     /\ \E k \in members : bashPids' = (bashPids \ {<<g, k>>}) \cup {<<g, j>>}

Tracked(g, j) ==
  /\ <<g, j>> \in spawning
  /\ spawning' = spawning \ {<<g, j>>}
  /\ running' = running \cup {<<g, j>>}
  /\ TrackBash(g, j)
  /\ UNCHANGED <<genVars, liveUps, tool, liveSess, actorVars, history>>

CallSession(s) ==
  /\ Serving /\ \A g \in Gen : <<g, s>> \notin liveSess
  /\ liveSess' = liveSess \cup {<<gen, s>>}
  /\ Bounded
  /\ Overlaps(gen, Reloading)
  /\ UNCHANGED <<genVars, liveUps, tool, jobVars, actorVars, started, missed>>

(***************************************************************************)
(* What runs by itself.                                                    *)
(***************************************************************************)

ToolMoves ==
  ({"created", "sleeping"} \X {"up"}) \cup ({"up"} \X {"sleeping", "down"})

ToolStep(g, n) ==
  /\ \E move \in ToolMoves :
       tool[g][n] = move[1] /\ tool' = [tool EXCEPT ![g][n] = move[2]]
  /\ UNCHANGED <<genVars, liveUps, jobVars, liveSess, actorVars, history>>

JobExit(g, j) ==
  /\ <<g, j>> \in running
  /\ running' = running \ {<<g, j>>}
  /\ UNCHANGED <<genVars, liveUps, tool, spawning, bashPids, liveSess,
                 actorVars, history>>

SessionExit(g, s) ==
  /\ <<g, s>> \in liveSess
  /\ liveSess' = liveSess \ {<<g, s>>}
  /\ UNCHANGED <<genVars, liveUps, tool, jobVars, actorVars, history>>

(***************************************************************************)
(* shutdown(): upstreams, then the manager's tools, jobs and sessions.     *)
(***************************************************************************)

Goto(a, step, g, items) ==
  /\ pc' = [pc EXCEPT ![a] = step]
  /\ ref' = [ref EXCEPT ![a] = g]
  /\ left' = [left EXCEPT ![a] = items]

Return(a, step) == Goto(a, step, 1, {})

Done(a, item) == left' = [left EXCEPT ![a] = @ \ {item}]

Met(a, item) == started' = IF ref[a] = gen THEN started \ {item} ELSE started

\* reload() in a call that has a config path (without one it answers an error
\* and changes nothing), or the end of the lifespan once the requests are over.
Shutdown(a) ==
  /\ Serving /\ ~Busy(a)
  /\ a = Lifespan => ~Others(a) /\ spawning = {}
  /\ Goto(a, "ups", gen, Upstreams)
  /\ Overlaps(gen, Others(a) \/ spawning # {})
  /\ UNCHANGED <<genVars, partVars, awaited, calls, started, missed>>

\* up.stop() ends the supervisor task whatever the upstream's state is.
StopUpstream(a, u) ==
  /\ pc[a] = "ups" /\ u \in left[a]
  /\ liveUps' = liveUps \ {<<ref[a], u>>}
  /\ Done(a, u) /\ Met(a, u)
  /\ UNCHANGED <<genVars, tool, jobVars, liveSess, pc, ref, awaited, calls,
                 overlapped, missed>>

\* self.manager is read now: it may be a newer one than the upstreams were.
ToManager(a) ==
  /\ pc[a] = "ups" /\ left[a] = {}
  /\ Goto(a, "tools", gen, Tools)
  /\ UNCHANGED <<genVars, partVars, awaited, history>>

\* Only starting and running tools are stopped.
BugStop(g, n) == tool
Stop(g, n) == IF tool[g][n] = "up" THEN [tool EXCEPT ![g][n] = "down"] ELSE tool

StopTool(a, n) ==
  LET g == ref[a] IN
  /\ pc[a] = "tools" /\ n \in left[a]
  /\ tool' = Stop(g, n)
  /\ missed' = IF tool[g][n] \in {"created", "sleeping"}
                 THEN missed \cup {<<g, n>>} ELSE missed
  /\ Done(a, n) /\ Met(a, n)
  /\ UNCHANGED <<genVars, liveUps, jobVars, liveSess, pc, ref, awaited, calls,
                 overlapped>>

\* SIGTERM to the jobs in the registry, nobody waits for them; then the list
\* of sessions is copied.
JobsOf(g) == {j \in Jobs : <<g, j>> \in bashPids \cap running}

BugLeftOf(g) == JobsOf(g)
SessionsOf(g) == {s \in Sessions : <<g, s>> \in liveSess}

StopJobs(a) ==
  /\ pc[a] = "tools" /\ left[a] = {}
  /\ running' = running \ ({ref[a]} \X JobsOf(ref[a]))
  /\ Goto(a, "sessions", ref[a], SessionsOf(ref[a]))
  /\ UNCHANGED <<genVars, liveUps, tool, spawning, bashPids, liveSess, awaited,
                 history>>

CloseSession(a, s) ==
  /\ pc[a] = "sessions" /\ s \in left[a]
  /\ liveSess' = liveSess \ {<<ref[a], s>>}
  /\ Done(a, s)
  /\ UNCHANGED <<genVars, liveUps, tool, jobVars, pc, ref, awaited, history>>

Exit ==
  /\ pc[Lifespan] = "sessions" /\ left[Lifespan] = {}
  /\ Return(Lifespan, "exited")
  /\ UNCHANGED <<genVars, partVars, awaited, history>>

(***************************************************************************)
(* The rest of reload(): load_config, a new generation, autostart().       *)
(***************************************************************************)

\* load_config raises: the old generation stays, with nothing running.
LoadFails(a) ==
  /\ a \in Requests /\ pc[a] = "sessions" /\ left[a] = {}
  /\ Return(a, "idle")
  /\ loaded' = FALSE
  /\ UNCHANGED <<gen, autostart, partVars, awaited, history>>

BugStaleManager(a) == ref[a]
NewManager(a) == gen + 1

Replace(a, names) ==
  /\ a \in Requests /\ pc[a] = "sessions" /\ left[a] = {}
  /\ gen < MaxGens                                      \* bound
  /\ gen' = gen + 1
  /\ loaded' = TRUE
  /\ autostart' = [autostart EXCEPT ![gen + 1] = names]
  /\ liveUps' = liveUps \cup ({gen + 1} \X (names \cap Upstreams))
  /\ started' = names \cap Upstreams
  /\ Goto(a, "autostart", NewManager(a), names \cap Tools)
  /\ Overlaps(gen + 1, Others(a))
  /\ UNCHANGED <<tool, jobVars, liveSess, awaited, calls, missed>>

\* await named[name].start(): nothing to do in running and starting.
AutostartTool(a, n) ==
  LET g == ref[a] IN
  /\ pc[a] = "autostart" /\ n \in left[a]
  /\ IF tool[g][n] = "up"
       THEN UNCHANGED <<tool, pc, awaited>>
       ELSE /\ tool' = [tool EXCEPT ![g][n] = "created"]
            /\ pc' = [pc EXCEPT ![a] = "await"]
            /\ awaited' = [awaited EXCEPT ![a] = n]
  /\ started' = IF g = gen THEN started \cup {n} ELSE started
  /\ Done(a, n)
  /\ UNCHANGED <<genVars, liveUps, jobVars, liveSess, ref, calls, overlapped,
                 missed>>

\* Its first spawn attempt is over.
AutostartNext(a) ==
  /\ pc[a] = "await"
  /\ tool[ref[a]][awaited[a]] # "created"
  /\ pc' = [pc EXCEPT ![a] = "autostart"]
  /\ awaited' = [awaited EXCEPT ![a] = NoTool]
  /\ UNCHANGED <<genVars, partVars, ref, left, history>>

AutostartDone(a) ==
  /\ pc[a] = "autostart" /\ left[a] = {}
  /\ Return(a, "idle")
  /\ UNCHANGED <<genVars, partVars, awaited, history>>

-----------------------------------------------------------------------------

Call ==
  \/ \E n \in Tools : CallStart(n)
  \/ \E j \in Jobs : CallBash(j)
  \/ \E s \in Sessions : CallSession(s)

PartStep ==
  \/ \E g \in Gen, n \in Tools : ToolStep(g, n)
  \/ \E g \in Gen, j \in Jobs : Tracked(g, j) \/ JobExit(g, j)
  \/ \E g \in Gen, s \in Sessions : SessionExit(g, s)

ActorStep(a) ==
  \/ \E u \in Upstreams : StopUpstream(a, u)
  \/ ToManager(a)
  \/ \E n \in Tools : StopTool(a, n)
  \/ StopJobs(a)
  \/ \E s \in Sessions : CloseSession(a, s)
  \/ LoadFails(a)
  \/ \E names \in Configs : Replace(a, names)
  \/ \E n \in Tools : AutostartTool(a, n)
  \/ AutostartNext(a) \/ AutostartDone(a)

Next ==
  \/ Call \/ PartStep \/ Exit
  \/ \E a \in Actors : Shutdown(a) \/ ActorStep(a)

Spec == Init /\ [][Next]_vars

-----------------------------------------------------------------------------
(***************************************************************************)
(* Properties                                                              *)
(***************************************************************************)

\* Every variable keeps to its values (server.py:432-456).
TypeOK ==
  /\ gen \in Gen /\ calls \in 0..MaxCalls /\ loaded \in BOOLEAN
  /\ autostart \in [Gen -> SUBSET (Tools \cup Upstreams)]
  /\ liveUps \subseteq Gen \X Upstreams
  /\ tool \in [Gen -> [Tools -> ToolState]]
  /\ spawning \subseteq Gen \X Jobs /\ running \subseteq Gen \X Jobs
  /\ bashPids \subseteq Gen \X Jobs /\ liveSess \subseteq Gen \X Sessions
  /\ pc \in [Actors -> Pc] /\ ref \in [Actors -> Gen]
  /\ left \in [Actors -> SUBSET (Tools \cup Upstreams \cup Sessions)]
  /\ awaited \in [Actors -> Tools \cup {NoTool}]
  /\ started \subseteq Tools \cup Upstreams
  /\ overlapped \subseteq Gen /\ missed \subseteq Gen \X Tools

ShutDown(g) ==
  \/ g < gen \/ pc[Lifespan] = "exited"
  \/ \E a \in Actors : pc[a] = "sessions" /\ left[a] = {} /\ ref[a] = g

UpsEnded(g)  == \A u \in Upstreams : <<g, u>> \notin liveUps
ToolsEnded(g) == \A n \in Tools : tool[g][n] = "down" \/ <<g, n>> \in missed
JobsEnded(g) ==
  \A j \in Jobs : <<g, j>> \notin spawning \cup (running \cap bashPids)
SessionsEnded(g) == \A s \in Sessions : <<g, s>> \notin liveSess

\* A shutdown that overlapped neither a call nor another reload leaves nothing
\* behind when load_config runs, when the generation is replaced and when the
\* server exits.  It leaves the tools that it met between two runs, the jobs
\* that ignore SIGTERM, and those that run but were evicted from the registry
\* (server.py:462-472, manager.py:159-163, 189-199).
ShutdownIsComplete ==
  \A g \in Gen \ overlapped :
    ShutDown(g) => UpsEnded(g) /\ ToolsEnded(g) /\ JobsEnded(g) /\ SessionsEnded(g)

\* Whatever overlapped: when no reload is in progress and the last load
\* succeeded, all that the configuration in use autostarts was started, on
\* the manager in use, and no shutdown has met it since (server.py:456-479).
AutostartIsComplete == ~Reloading /\ loaded => autostart[gen] \subseteq started

\* "Gracefully shut down ALL supervised processes (named_tools, mcp_server
\* upstreams, bash, interactive sessions)" (server.py:414).
ReloadLeavesNothing ==
  \A g \in Gen \ overlapped :
    g < gen => /\ UpsEnded(g) /\ SessionsEnded(g)
               /\ \A n \in Tools : tool[g][n] = "down"
               /\ \A j \in Jobs : <<g, j>> \notin spawning \cup running

=============================================================================
