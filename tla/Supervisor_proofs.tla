--------------------------- MODULE Supervisor_proofs ---------------------------
(***************************************************************************)
(* Proofs about Supervisor, for any requests, tools, upstreams,            *)
(* configurations, calls and generations.                                  *)
(***************************************************************************)
EXTENDS Supervisor, TLAPS

Stopping == {"ups", "tools", "sessions"}

Ended(g) == UpsEnded(g) /\ ToolsEnded(g) /\ JobsEnded(g) /\ SessionsEnded(g)

\* The end of a generation that two actors share is overlapped, and so is one
\* that a job is spawned in.
OverlapInv ==
  /\ \A a, b \in Actors : a # b /\ Busy(a) /\ Busy(b) => gen \in overlapped
  /\ \A a \in Actors, j \in Jobs :
       pc[a] \in Stopping /\ <<gen, j>> \in spawning => gen \in overlapped

\* How far the shutdown of the generation in use has come.
ProgressInv ==
  gen \notin overlapped =>
    \A a \in Actors :
      /\ pc[a] \in Stopping => ref[a] = gen
      /\ pc[a] = "ups" => \A u \in Upstreams \ left[a] : <<gen, u>> \notin liveUps
      /\ pc[a] = "tools" =>
           /\ UpsEnded(gen)
           /\ \A n \in Tools \ left[a] :
                tool[gen][n] = "down" \/ <<gen, n>> \in missed
      /\ pc[a] = "sessions" =>
           /\ UpsEnded(gen) /\ ToolsEnded(gen) /\ JobsEnded(gen)
           /\ \A s \in Sessions \ left[a] : <<gen, s>> \notin liveSess
      /\ pc[a] = "exited" => Ended(gen)

\* Nothing runs in another generation, and whoever still autostarts an older one
\* shares it.
OtherGensInv ==
  /\ \A g \in Gen \ overlapped : g # gen => Ended(g)
  /\ \A a \in Actors :
       pc[a] \in {"autostart", "await"} /\ ref[a] # gen => ref[a] \in overlapped

\* What is not started yet is left to an actor that autostarts it.
AutostartInv ==
  loaded /\ (\A a \in Actors : pc[a] \in {"idle", "autostart", "await"}) =>
    \A n \in autostart[gen] \ started :
      \E a \in Actors : pc[a] \in {"autostart", "await"} /\ ref[a] = gen /\ n \in left[a]

SupervisorInv ==
  TypeOK /\ OverlapInv /\ ProgressInv /\ OtherGensInv /\ AutostartInv

\* The steps that leave the actors alone.
NoActorStep == Call \/ PartStep

-----------------------------------------------------------------------------
(***************************************************************************)
(* Types.                                                                  *)
(***************************************************************************)

LEMMA InitType == Init => TypeOK
<1> SUFFICES ASSUME Init PROVE TypeOK
  OBVIOUS
<1> USE SupervisorAssumption DEF Init
<1>1. PICK names \in Configs :
        /\ autostart = [g \in Gen |-> IF g = 1 THEN names ELSE {}]
        /\ liveUps = {1} \X (names \cap Upstreams)
        /\ left = [a \in Actors |-> IF a = Lifespan THEN names \cap Tools ELSE {}]
  OBVIOUS
<1>2. 1 \in Gen
  BY DEF Gen
<1>3. autostart \in [Gen -> SUBSET (Tools \cup Upstreams)] /\ liveUps \subseteq Gen \X Upstreams
  BY <1>1, <1>2
<1>4. /\ tool \in [Gen -> [Tools -> ToolState]]
  BY <1>2 DEF ToolState
<1>5. /\ pc \in [Actors -> Pc] /\ ref \in [Actors -> Gen]
      /\ left \in [Actors -> SUBSET (Tools \cup Upstreams \cup Sessions)]
      /\ awaited \in [Actors -> Tools \cup {NoTool}]
  BY <1>1, <1>2 DEF Pc
<1>6. QED
  BY <1>2, <1>3, <1>4, <1>5 DEF TypeOK

LEMMA TypeStep ==
  ASSUME TypeOK, Next PROVE TypeOK'
<1> USE DEF TypeOK, genVars, jobVars, partVars, actorVars, history, Overlaps
<1>1. ASSUME NEW n \in Tools, CallStart(n) PROVE TypeOK'
  BY <1>1, SupervisorAssumption DEF CallStart, Bounded, ToolState
<1>2. ASSUME NEW j \in Jobs, CallBash(j) PROVE TypeOK'
  BY <1>2, SupervisorAssumption DEF CallBash, Bounded
<1>3. ASSUME NEW s \in Sessions, CallSession(s) PROVE TypeOK'
  BY <1>3, SupervisorAssumption DEF CallSession, Bounded
<1>4. ASSUME NEW g \in Gen, NEW n \in Tools, ToolStep(g, n) PROVE TypeOK'
  BY <1>4 DEF ToolStep, ToolMoves, ToolState
<1>5. ASSUME NEW g \in Gen, NEW j \in Jobs, Tracked(g, j) \/ JobExit(g, j) PROVE TypeOK'
  BY <1>5 DEF Tracked, TrackBash, JobExit
<1>6. ASSUME NEW g \in Gen, NEW s \in Sessions, SessionExit(g, s) PROVE TypeOK'
  BY <1>6 DEF SessionExit
<1>7. ASSUME NEW a \in Actors, Shutdown(a) PROVE TypeOK'
  BY <1>7 DEF Shutdown, Goto, Pc
<1>8. ASSUME NEW a \in Actors, NEW u \in Upstreams, StopUpstream(a, u) PROVE TypeOK'
  BY <1>8 DEF StopUpstream, Done, Met
<1>9. ASSUME NEW a \in Actors, ToManager(a) PROVE TypeOK'
  BY <1>9 DEF ToManager, Goto, Pc
<1>10. ASSUME NEW a \in Actors, NEW n \in Tools, StopTool(a, n) PROVE TypeOK'
  BY <1>10 DEF StopTool, Stop, Done, Met, ToolState
<1>11. ASSUME NEW a \in Actors, StopJobs(a) PROVE TypeOK'
  BY <1>11 DEF StopJobs, Goto, Pc, JobsOf, SessionsOf
<1>12. ASSUME NEW a \in Actors, NEW s \in Sessions, CloseSession(a, s) PROVE TypeOK'
  BY <1>12 DEF CloseSession, Done
<1>13. ASSUME NEW a \in Actors, LoadFails(a) \/ AutostartDone(a) PROVE TypeOK'
  <2>1. /\ UNCHANGED <<gen, autostart, partVars, awaited, history>>
        /\ loaded' \in BOOLEAN
        /\ pc' = [pc EXCEPT ![a] = "idle"] /\ ref' = [ref EXCEPT ![a] = 1]
        /\ left' = [left EXCEPT ![a] = {}]
    BY <1>13 DEF LoadFails, AutostartDone, Return, Goto
  <2>2. 1 \in Gen /\ "idle" \in Pc
    BY SupervisorAssumption DEF Gen, Pc
  <2>3. QED
    BY <2>1, <2>2
<1>14. CASE Exit
  BY <1>14, SupervisorAssumption DEF Exit, Return, Goto, Pc, Gen, Actors
<1>15. ASSUME NEW a \in Actors, NEW names \in Configs, Replace(a, names) PROVE TypeOK'
  BY <1>15, SupervisorAssumption DEF Replace, NewManager, Goto, Pc, Gen
<1>16. ASSUME NEW a \in Actors, NEW n \in Tools, AutostartTool(a, n) PROVE TypeOK'
  <2>1. \/ UNCHANGED <<tool, pc, awaited>>
        \/ /\ tool' = [tool EXCEPT ![ref[a]][n] = "created"]
           /\ pc' = [pc EXCEPT ![a] = "await"]
           /\ awaited' = [awaited EXCEPT ![a] = n]
    BY <1>16 DEF AutostartTool
  <2>2. /\ tool' \in [Gen -> [Tools -> ToolState]] /\ pc' \in [Actors -> Pc]
        /\ awaited' \in [Actors -> Tools \cup {NoTool}]
    <3>1. /\ "created" \in ToolState /\ "await" \in Pc
          /\ ref[a] \in Gen
      BY DEF Pc, ToolState
    <3>2. tool' \in [Gen -> [Tools -> ToolState]]
      <4>1. CASE UNCHANGED tool
        BY <4>1
      <4>2. CASE tool' = [tool EXCEPT ![ref[a]][n] = "created"]
        <5>1. [tool[ref[a]] EXCEPT ![n] = "created"] \in [Tools -> ToolState]
          BY <3>1
        <5>2. QED
          BY <3>1, <4>2, <5>1
      <4>3. QED
        BY <2>1, <4>1, <4>2
    <3>3. pc' \in [Actors -> Pc]
      BY <2>1, <3>1
    <3>4. awaited' \in [Actors -> Tools \cup {NoTool}]
      BY <2>1
    <3>5. QED
      BY <3>2, <3>3, <3>4
  <2>3. /\ started' \subseteq Tools \cup Upstreams
        /\ left' \in [Actors -> SUBSET (Tools \cup Upstreams \cup Sessions)]
    BY <1>16 DEF AutostartTool, Done
  <2>4. UNCHANGED <<gen, autostart, loaded, liveUps, spawning, running, bashPids, liveSess,
                    ref, calls, overlapped, missed>>
    BY <1>16 DEF AutostartTool
  <2>5. QED
    BY <2>2, <2>3, <2>4
<1>17. ASSUME NEW a \in Actors, AutostartNext(a) PROVE TypeOK'
  BY <1>17 DEF AutostartNext, Pc
<1>18. QED
  BY <1>1, <1>2, <1>3, <1>4, <1>5, <1>6, <1>7, <1>8, <1>9, <1>10, <1>11, <1>12,
     <1>13, <1>14, <1>15, <1>16, <1>17
  DEF Next, Call, PartStep, ActorStep

-----------------------------------------------------------------------------
(***************************************************************************)
(* What the steps of an actor, and those of the others, leave alone.       *)
(***************************************************************************)

\* A call that starts something while anybody is busy overlaps it.
LEMMA CallFrame ==
  ASSUME Call
  PROVE  /\ UNCHANGED <<genVars, actorVars>>
         /\ started \subseteq started' /\ Overlaps(gen, Reloading)
         /\ UNCHANGED jobVars \/ \E j \in Jobs : CallBash(j)
BY DEF Call, CallStart, CallBash, CallSession

\* What runs by itself touches nothing but the parts.
LEMMA PartFrame ==
  ASSUME PartStep
  PROVE  UNCHANGED <<genVars, actorVars, history>> /\ spawning' \subseteq spawning
<1>1. UNCHANGED <<genVars, actorVars, history>>
  BY DEF PartStep, ToolStep, Tracked, JobExit, SessionExit
<1>2. spawning' \subseteq spawning
  BY DEF PartStep, ToolStep, Tracked, JobExit, SessionExit, jobVars
<1>3. QED
  BY <1>1, <1>2

\* An actor that takes a step is busy, and leaves the other actors alone.
LEMMA ActorFrame ==
  ASSUME TypeOK, NEW a \in Actors, ActorStep(a) \/ (a = Lifespan /\ Exit)
  PROVE  /\ Busy(a)
         /\ \A b \in Actors \ {a} : /\ pc'[b] = pc[b] /\ ref'[b] = ref[b]
                                    /\ left'[b] = left[b]
<1> USE DEF TypeOK, Busy, Goto, Return, Done
<1>1. CASE a = Lifespan /\ Exit
  BY <1>1 DEF Exit
<1>2. ASSUME NEW u \in Upstreams, StopUpstream(a, u)
      PROVE  UNCHANGED <<pc, ref>> /\ pc[a] = "ups" /\ left' = [left EXCEPT ![a] = @ \ {u}]
  BY <1>2 DEF StopUpstream
<1>3. ASSUME NEW n \in Tools, StopTool(a, n)
      PROVE  UNCHANGED <<pc, ref>> /\ pc[a] = "tools" /\ left' = [left EXCEPT ![a] = @ \ {n}]
  BY <1>3 DEF StopTool
<1>4. ASSUME NEW s \in Sessions, CloseSession(a, s)
      PROVE  UNCHANGED <<pc, ref>> /\ pc[a] = "sessions" /\ left' = [left EXCEPT ![a] = @ \ {s}]
  BY <1>4 DEF CloseSession
<1>5. ASSUME NEW n \in Tools, AutostartTool(a, n)
      PROVE  /\ pc[a] = "autostart" /\ UNCHANGED ref
             /\ pc' = pc \/ pc' = [pc EXCEPT ![a] = "await"]
             /\ left' = [left EXCEPT ![a] = @ \ {n}]
  BY <1>5 DEF AutostartTool
<1>6. CASE ToManager(a)
  BY <1>6 DEF ToManager
<1>7. CASE StopJobs(a)
  BY <1>7 DEF StopJobs
<1>8. CASE LoadFails(a)
  BY <1>8 DEF LoadFails
<1>9. ASSUME NEW names \in Configs, Replace(a, names)
      PROVE  /\ pc[a] = "sessions" /\ pc' = [pc EXCEPT ![a] = "autostart"]
             /\ ref' = [ref EXCEPT ![a] = gen + 1] /\ left' = [left EXCEPT ![a] = names \cap Tools]
  BY <1>9 DEF Replace, NewManager
<1>10. CASE AutostartNext(a)
  BY <1>10 DEF AutostartNext
<1>11. CASE AutostartDone(a)
  BY <1>11 DEF AutostartDone
<1>12. QED
  BY <1>1, <1>2, <1>3, <1>4, <1>5, <1>6, <1>7, <1>8, <1>9, <1>10, <1>11 DEF ActorStep

\* But for a replacement, an actor's step leaves the generations, the overlaps
\* and the jobs that are being spawned alone; none begins a shutdown.
LEMMA ActorKeeps ==
  ASSUME TypeOK, NEW a \in Actors, ActorStep(a) \/ (a = Lifespan /\ Exit),
         \A names \in Configs : ~Replace(a, names)
  PROVE  /\ UNCHANGED <<gen, autostart, overlapped>>
         /\ pc'[a] \in Stopping => pc[a] \in Stopping
         /\ UNCHANGED spawning
<1> USE DEF TypeOK, genVars, partVars, jobVars, history
<1>1. UNCHANGED <<gen, autostart, overlapped>>
  BY DEF ActorStep, Exit, StopUpstream, ToManager, StopTool, StopJobs, CloseSession,
         LoadFails, AutostartTool, AutostartNext, AutostartDone
<1>2. pc'[a] \in Stopping => pc[a] \in Stopping
  <2>1. CASE UNCHANGED pc
    BY <2>1
  <2>2. CASE ToManager(a) \/ StopJobs(a)
    BY <2>2 DEF ToManager, StopJobs, Stopping
  <2>3. CASE LoadFails(a) \/ AutostartDone(a) \/ (a = Lifespan /\ Exit)
    BY <2>3 DEF LoadFails, AutostartDone, Exit, Return, Goto, Stopping
  <2>4. CASE AutostartNext(a) \/ \E n \in Tools : pc' = [pc EXCEPT ![a] = "await"]
    BY <2>4 DEF AutostartNext, Stopping
  <2>5. QED
    BY <2>1, <2>2, <2>3, <2>4
    DEF ActorStep, StopUpstream, StopTool, CloseSession, AutostartTool
<1>3. UNCHANGED spawning
  BY DEF ActorStep, Exit, StopUpstream, ToManager, StopTool, StopJobs, CloseSession,
         LoadFails, AutostartTool, AutostartNext, AutostartDone
<1>4. QED
  BY <1>1, <1>2, <1>3

\* A replacement by an actor, as the other parts see it.
LEMMA ReplaceStep ==
  ASSUME TypeOK, NEW a \in Actors, NEW names \in Configs, Replace(a, names)
  PROVE  /\ gen' = gen + 1 /\ gen' # gen /\ gen' \in Gen /\ loaded' = TRUE
         /\ pc[a] = "sessions" /\ left[a] = {}
         /\ pc'[a] = "autostart" /\ ref'[a] = gen' /\ left'[a] = names \cap Tools
         /\ autostart'[gen'] = names /\ started' = names \cap Upstreams
         /\ \A u : <<gen, u>> \in liveUps' => <<gen, u>> \in liveUps
         /\ UNCHANGED <<tool, spawning, running, bashPids, liveSess, missed>>
         /\ overlapped \subseteq overlapped'
         /\ (\E b \in Actors \ {a} : Busy(b)) => gen' \in overlapped'
<1> USE DEF TypeOK, Replace, NewManager, Goto, Overlaps, Others, jobVars
<1>1. gen' = gen + 1 /\ gen' # gen /\ gen' \in Gen /\ loaded' = TRUE
  BY SupervisorAssumption DEF Gen
<1>2. /\ pc[a] = "sessions" /\ left[a] = {}
      /\ pc'[a] = "autostart" /\ ref'[a] = gen' /\ left'[a] = names \cap Tools
  BY <1>1
<1>3. autostart'[gen'] = names /\ started' = names \cap Upstreams
  BY <1>1
<1>4. \A u : <<gen, u>> \in liveUps' => <<gen, u>> \in liveUps
  BY <1>1
<1>5. UNCHANGED <<tool, spawning, running, bashPids, liveSess, missed>>
  OBVIOUS
<1>6. /\ overlapped \subseteq overlapped'
      /\ (\E b \in Actors \ {a} : Busy(b)) => gen' \in overlapped'
  BY <1>1
<1>7. QED
  BY <1>1, <1>2, <1>3, <1>4, <1>5, <1>6

\* What was overlapped stays so.
LEMMA OverlappedGrows ==
  ASSUME TypeOK, Next PROVE overlapped \subseteq overlapped'
<1>1. CASE Call \/ PartStep
  BY <1>1, CallFrame, PartFrame DEF Overlaps, history
<1>2. ASSUME NEW a \in Actors, Shutdown(a) PROVE overlapped \subseteq overlapped'
  BY <1>2 DEF Shutdown, Overlaps
<1>3. ASSUME NEW a \in Actors, ActorStep(a) \/ (a = Lifespan /\ Exit)
      PROVE  overlapped \subseteq overlapped'
  BY <1>3, ActorKeeps, ReplaceStep
<1>4. QED
  BY <1>1, <1>2, <1>3 DEF Next, Actors

-----------------------------------------------------------------------------
(***************************************************************************)
(* What may begin to run in a generation.                                  *)
(***************************************************************************)

\* A step after which nothing runs in generation g that did not before.
Calm(g) ==
  /\ \A u \in Upstreams : <<g, u>> \in liveUps' => <<g, u>> \in liveUps
  /\ \A n \in Tools : tool[g][n] = "down" => tool'[g][n] = "down"
  /\ missed \subseteq missed'
  /\ \A j \in Jobs :
       /\ <<g, j>> \in spawning' => <<g, j>> \in spawning
       /\ <<g, j>> \in running' \cap bashPids' => <<g, j>> \in spawning \cup (running \cap bashPids)
  /\ \A s \in Sessions :
       <<g, s>> \in liveSess' => <<g, s>> \in liveSess

\* What has ended in a generation does not begin again in a calm step.
LEMMA CalmKeepsEnd ==
  ASSUME NEW g \in Gen, Calm(g)
  PROVE  /\ UpsEnded(g) => UpsEnded(g)'
         /\ ToolsEnded(g) => ToolsEnded(g)'
         /\ JobsEnded(g) => JobsEnded(g)'
         /\ SessionsEnded(g) => SessionsEnded(g)'
         /\ Ended(g) => Ended(g)'
<1>1. UpsEnded(g) => UpsEnded(g)'
  BY DEF Calm, UpsEnded
<1>2. ToolsEnded(g) => ToolsEnded(g)'
  BY DEF Calm, ToolsEnded
<1>3. JobsEnded(g) => JobsEnded(g)'
  BY DEF Calm, JobsEnded
<1>4. SessionsEnded(g) => SessionsEnded(g)'
  BY DEF Calm, SessionsEnded
<1>5. QED
  BY <1>1, <1>2, <1>3, <1>4 DEF Ended

\* A generation that is not in use, and one whose shutdown has begun, is calm as
\* long as nothing overlaps its end.
LEMMA CalmStep ==
  ASSUME TypeOK, OverlapInv, OtherGensInv, Next, NEW g \in Gen, g \notin overlapped',
         g = gen => gen' = gen /\ \E a \in Actors : pc[a] \in Stopping \cup {"exited"},
         g # gen => g # gen'
  PROVE  Calm(g)
<1> USE DEF TypeOK, genVars, jobVars, partVars, actorVars, history, Calm
<1>1. overlapped \subseteq overlapped'
  BY OverlappedGrows
<1>2. g = gen => Reloading
  BY DEF Reloading, Busy, Stopping
<1>3. ASSUME Overlaps(gen, Reloading) PROVE g # gen
  BY <1>2, <1>3 DEF Overlaps
<1>4. ASSUME NEW n \in Tools, CallStart(n) PROVE Calm(g)
  BY <1>3, <1>4 DEF CallStart
<1>5. ASSUME NEW j \in Jobs, CallBash(j) PROVE Calm(g)
  BY <1>3, <1>5 DEF CallBash
<1>6. ASSUME NEW s \in Sessions, CallSession(s) PROVE Calm(g)
  BY <1>3, <1>6 DEF CallSession
<1>7. ASSUME NEW h \in Gen, NEW n \in Tools, ToolStep(h, n) PROVE Calm(g)
  BY <1>7 DEF ToolStep, ToolMoves
<1>8. ASSUME NEW h \in Gen, NEW j \in Jobs, Tracked(h, j) \/ JobExit(h, j) PROVE Calm(g)
  BY <1>8 DEF Tracked, TrackBash, JobExit
<1>9. ASSUME NEW h \in Gen, NEW s \in Sessions, SessionExit(h, s) PROVE Calm(g)
  BY <1>9 DEF SessionExit
<1>10. ASSUME NEW a \in Actors, Shutdown(a) \/ ToManager(a) \/ LoadFails(a)
                                \/ AutostartNext(a) \/ AutostartDone(a) \/ Exit
       PROVE  Calm(g)
  <2>1. UNCHANGED <<partVars, missed>>
    BY <1>10 DEF Shutdown, ToManager, LoadFails, AutostartNext, AutostartDone, Exit
  <2>2. QED
    BY <2>1
<1>11. ASSUME NEW a \in Actors, NEW u \in Upstreams, StopUpstream(a, u) PROVE Calm(g)
  BY <1>11 DEF StopUpstream
<1>12. ASSUME NEW a \in Actors, NEW n \in Tools, StopTool(a, n) PROVE Calm(g)
  BY <1>12 DEF StopTool, Stop
<1>13. ASSUME NEW a \in Actors, StopJobs(a) PROVE Calm(g)
  BY <1>13 DEF StopJobs
<1>14. ASSUME NEW a \in Actors, NEW s \in Sessions, CloseSession(a, s) PROVE Calm(g)
  BY <1>14 DEF CloseSession
<1>15. ASSUME NEW a \in Actors, NEW names \in Configs, Replace(a, names) PROVE Calm(g)
  <2>1. gen' = gen + 1 /\ g # gen + 1
    BY <1>15 DEF Replace, Gen
  <2>2. QED
    BY <1>15, <2>1 DEF Replace
<1>16. ASSUME NEW a \in Actors, NEW n \in Tools, AutostartTool(a, n) PROVE Calm(g)
  <2>1. ref[a] # g
    <3>1. CASE g = gen
      <4>1. PICK b \in Actors : pc[b] \in Stopping \cup {"exited"}
        BY <3>1
      <4>2. a # b /\ Busy(a) /\ Busy(b)
        BY <1>16, <4>1 DEF AutostartTool, Busy, Stopping
      <4>3. QED
        BY <1>1, <3>1, <4>2 DEF OverlapInv
    <3>2. CASE g # gen
      BY <1>1, <1>16, <3>2 DEF AutostartTool, OtherGensInv
    <3>3. QED
      BY <3>1, <3>2
  <2>2. QED
    BY <1>16, <2>1 DEF AutostartTool
<1>17. QED
  BY <1>4, <1>5, <1>6, <1>7, <1>8, <1>9, <1>10, <1>11, <1>12, <1>13, <1>14, <1>15, <1>16
  DEF Next, Call, PartStep, ActorStep, Actors

-----------------------------------------------------------------------------
(***************************************************************************)
(* The invariant, part by part.                                            *)
(***************************************************************************)

\* Whoever begins while another is busy overlaps it.
LEMMA OverlapStep ==
  ASSUME TypeOK, OverlapInv, Next PROVE OverlapInv'
<1> USE DEF OverlapInv
<1>1. CASE Call
  <2>1. /\ UNCHANGED <<gen, pc>> /\ overlapped \subseteq overlapped'
        /\ Reloading => gen \in overlapped'
        /\ UNCHANGED jobVars \/ \E j \in Jobs : CallBash(j)
    BY <1>1, CallFrame DEF genVars, actorVars, Overlaps
  <2>2. \A a \in Actors : pc[a] \in Stopping => Reloading
    BY DEF Reloading, Busy, Stopping
  <2>3. QED
    BY <2>1, <2>2 DEF Busy
<1>2. CASE PartStep
  BY <1>2, PartFrame DEF genVars, actorVars, history, Busy
<1>3. ASSUME NEW a \in Actors, Shutdown(a) PROVE OverlapInv'
  <2>1. /\ UNCHANGED <<gen, spawning>> /\ pc' = [pc EXCEPT ![a] = "ups"]
        /\ overlapped \subseteq overlapped'
        /\ Others(a) \/ spawning # {} => gen \in overlapped'
    BY <1>3 DEF Shutdown, Goto, Overlaps, genVars, partVars, jobVars
  <2>2. \A b \in Actors \ {a} : pc'[b] = pc[b] /\ (Busy(b) => Others(a))
    BY <2>1 DEF TypeOK, Others
  <2>3. \A b \in Actors \ {a} : pc[b] \in Stopping => Busy(b)
    BY DEF Stopping, Busy
  <2>4. QED
    BY <2>1, <2>2, <2>3 DEF Busy
<1>4. ASSUME NEW a \in Actors, ActorStep(a) \/ (a = Lifespan /\ Exit),
             \A names \in Configs : ~Replace(a, names)
      PROVE  OverlapInv'
  <2>1. \A b \in Actors : /\ Busy(b)' => Busy(b)
                          /\ pc'[b] \in Stopping => pc[b] \in Stopping
    BY <1>4, ActorFrame, ActorKeeps DEF Busy
  <2>2. QED
    BY <1>4, <2>1, ActorKeeps
<1>5. ASSUME NEW a \in Actors, NEW names \in Configs, Replace(a, names) PROVE OverlapInv'
  <2>1. ActorStep(a)
    BY <1>5 DEF ActorStep
  <2>2. \A b \in Actors \ {a} : pc'[b] = pc[b] /\ (Busy(b) => gen' \in overlapped')
    BY <1>5, <2>1, ActorFrame, ReplaceStep
  <2>3. pc'[a] \notin Stopping
    BY <1>5, ReplaceStep DEF Stopping
  <2>4. \A b \in Actors : pc[b] \in Stopping => Busy(b)
    BY DEF Stopping, Busy
  <2>5. QED
    BY <2>2, <2>3, <2>4 DEF Busy
<1>6. QED
  BY <1>1, <1>2, <1>3, <1>4, <1>5 DEF Next, Actors

\* The shutdown of a generation that nothing overlaps goes on stage by stage.
LEMMA ProgressStep ==
  ASSUME TypeOK, TypeOK', OverlapInv, ProgressInv, OtherGensInv, Next
  PROVE  ProgressInv'
<1> SUFFICES ASSUME gen' \notin overlapped', NEW b \in Actors
             PROVE  /\ pc'[b] \in Stopping => ref'[b] = gen'
                    /\ pc'[b] = "ups" =>
                         \A u \in Upstreams \ left'[b] : <<gen', u>> \notin liveUps'
                    /\ pc'[b] = "tools" =>
                         /\ (UpsEnded(gen))'
                         /\ \A n \in Tools \ left'[b] :
                              tool'[gen'][n] = "down" \/ <<gen', n>> \in missed'
                    /\ pc'[b] = "sessions" =>
                         /\ (UpsEnded(gen))' /\ (ToolsEnded(gen))' /\ (JobsEnded(gen))'
                         /\ \A s \in Sessions \ left'[b] :
                              <<gen', s>> \notin liveSess'
                    /\ pc'[b] = "exited" => (Ended(gen))'
  BY DEF ProgressInv
<1> DEFINE Goal ==
             /\ pc'[b] \in Stopping => ref'[b] = gen'
             /\ pc'[b] = "ups" =>
                  \A u \in Upstreams \ left'[b] : <<gen', u>> \notin liveUps'
             /\ pc'[b] = "tools" =>
                  /\ (UpsEnded(gen))'
                  /\ \A n \in Tools \ left'[b] :
                       tool'[gen'][n] = "down" \/ <<gen', n>> \in missed'
             /\ pc'[b] = "sessions" =>
                  /\ (UpsEnded(gen))' /\ (ToolsEnded(gen))' /\ (JobsEnded(gen))'
                  /\ \A s \in Sessions \ left'[b] :
                       <<gen', s>> \notin liveSess'
             /\ pc'[b] = "exited" => (Ended(gen))'
\* Nothing that bears on b moves but what its generation's end allows.
<1>1. ASSUME gen' = gen, gen \notin overlapped,
             pc'[b] = pc[b], ref'[b] = ref[b], left'[b] = left[b]
      PROVE  Goal
  <2>1. CASE pc[b] \in Stopping \cup {"exited"}
    <3>1. Calm(gen)
      BY <1>1, <2>1, CalmStep DEF TypeOK
    <3>2. /\ UpsEnded(gen) => (UpsEnded(gen))'
          /\ ToolsEnded(gen) => (ToolsEnded(gen))'
          /\ JobsEnded(gen) => (JobsEnded(gen))'
          /\ Ended(gen) => (Ended(gen))'
      BY <1>1, <3>1, CalmKeepsEnd DEF TypeOK, UpsEnded, ToolsEnded, JobsEnded, SessionsEnded, Ended
    <3>3. /\ \A u \in Upstreams : <<gen, u>> \in liveUps' => <<gen, u>> \in liveUps
          /\ \A n \in Tools : tool[gen][n] = "down" => tool'[gen][n] = "down"
          /\ missed \subseteq missed'
          /\ \A s \in Sessions :
               <<gen, s>> \in liveSess' => <<gen, s>> \in liveSess
      BY <3>1 DEF Calm
    <3>4. pc[b] \in Stopping => ref[b] = gen
      BY <1>1 DEF ProgressInv
    <3>5. CASE pc[b] = "ups"
      BY <1>1, <3>3, <3>4, <3>5 DEF ProgressInv
    <3>6. CASE pc[b] = "tools"
      <4>1. /\ UpsEnded(gen)
            /\ \A n \in Tools \ left[b] : tool[gen][n] = "down" \/ <<gen, n>> \in missed
        BY <1>1, <3>6 DEF ProgressInv
      <4>2. QED
        BY <1>1, <3>2, <3>3, <3>4, <3>6, <4>1 DEF UpsEnded
    <3>7. CASE pc[b] = "sessions"
      <4>1. /\ UpsEnded(gen) /\ ToolsEnded(gen) /\ JobsEnded(gen)
            /\ \A s \in Sessions \ left[b] : <<gen, s>> \notin liveSess
        BY <1>1, <3>7 DEF ProgressInv
      <4>2. (UpsEnded(gen))' /\ (ToolsEnded(gen))' /\ (JobsEnded(gen))'
        <5>1. gen \in Gen
          BY DEF TypeOK
        <5>2. UpsEnded(gen)' /\ ToolsEnded(gen)' /\ JobsEnded(gen)'
          BY <1>1, <3>1, <4>1, <5>1, CalmKeepsEnd DEF UpsEnded, ToolsEnded, JobsEnded
        <5>3. QED
          BY <5>2
      <4>3. \A s \in Sessions \ left'[b] : <<gen', s>> \notin liveSess'
        BY <1>1, <3>3, <4>1
      <4>4. ref'[b] = gen'
        BY <1>1, <3>4, <3>7 DEF Stopping
      <4>5. QED
        BY <1>1, <3>7, <4>2, <4>3, <4>4
    <3>8. CASE pc[b] = "exited"
      <4>1. (Ended(gen))'
        BY <1>1, <3>1, <3>8, CalmKeepsEnd
        DEF TypeOK, ProgressInv, Ended, UpsEnded, ToolsEnded, JobsEnded, SessionsEnded
      <4>2. QED
        BY <1>1, <3>8, <4>1 DEF Stopping
    <3>9. QED
      BY <2>1, <3>5, <3>6, <3>7, <3>8 DEF Stopping
  <2>2. CASE pc[b] \notin Stopping \cup {"exited"}
    BY <1>1, <2>2 DEF Stopping
  <2>3. QED
    BY <2>1, <2>2
<1>2. CASE Call \/ PartStep
  <2>1. UNCHANGED <<gen, pc, ref, left>> /\ overlapped \subseteq overlapped'
    BY <1>2, CallFrame, PartFrame DEF genVars, actorVars, history, Overlaps
  <2>2. QED
    BY <1>1, <2>1
<1>3. ASSUME NEW a \in Actors, Shutdown(a) PROVE Goal
  <2>1. /\ gen' = gen /\ ~Others(a) /\ overlapped' = overlapped
        /\ pc' = [pc EXCEPT ![a] = "ups"] /\ ref' = [ref EXCEPT ![a] = gen]
        /\ left' = [left EXCEPT ![a] = Upstreams]
    BY <1>3 DEF Shutdown, Goto, Overlaps, genVars
  <2>2. CASE b = a
    BY <2>1, <2>2 DEF TypeOK
  <2>3. CASE b # a
    BY <2>1, <2>3 DEF TypeOK, Others, Busy, Stopping
  <2>4. QED
    BY <2>2, <2>3
<1>4. ASSUME NEW a \in Actors, ActorStep(a) \/ (a = Lifespan /\ Exit) PROVE Goal
  <2>1. CASE b # a
    <3>1. CASE \E names \in Configs : Replace(a, names)
      <4>1. pc[b] = "idle" /\ pc'[b] = pc[b]
        BY <1>4, <2>1, <3>1, ActorFrame, ReplaceStep DEF Busy
      <4>2. QED
        BY <4>1 DEF Stopping
    <3>2. CASE \A names \in Configs : ~Replace(a, names)
      BY <1>1, <1>4, <2>1, <3>2, ActorFrame, ActorKeeps
    <3>3. QED
      BY <3>1, <3>2
  <2>2. CASE b = a
    <3> USE DEF ProgressInv, TypeOK
    <3> HIDE DEF Goal
    <3>1. ASSUME NEW u \in Upstreams, StopUpstream(a, u) PROVE Goal
      <4>1. /\ pc[a] = "ups" /\ pc' = pc /\ ref' = ref /\ gen' = gen /\ overlapped' = overlapped
            /\ liveUps' = liveUps \ {<<ref[a], u>>} /\ left'[a] = left[a] \ {u}
        BY <3>1 DEF StopUpstream, Done, genVars
      <4>2. ref[a] = gen /\ \A v \in Upstreams \ left[a] : <<gen, v>> \notin liveUps
        BY <4>1 DEF Stopping
      <4>3. \A v \in Upstreams \ left'[a] : <<gen, v>> \notin liveUps'
        BY <4>1, <4>2
      <4>4. QED
        BY <2>2, <4>1, <4>2, <4>3 DEF Goal
    <3>2. CASE ToManager(a)
      <4>1. /\ pc[a] = "ups" /\ left[a] = {} /\ gen' = gen /\ overlapped' = overlapped
            /\ liveUps' = liveUps /\ pc'[a] = "tools" /\ ref'[a] = gen /\ left'[a] = Tools
        BY <3>2 DEF ToManager, Goto, genVars, partVars, history
      <4>2. \A u \in Upstreams : <<gen, u>> \notin liveUps
        BY <4>1
      <4>3. (UpsEnded(gen))'
        BY <4>1, <4>2 DEF UpsEnded
      <4>4. QED
        BY <2>2, <4>1, <4>3 DEF Goal
    <3>3. ASSUME NEW n \in Tools, StopTool(a, n) PROVE Goal
      <4>1. /\ pc[a] = "tools" /\ pc' = pc /\ ref' = ref /\ gen' = gen
            /\ overlapped' = overlapped /\ liveUps' = liveUps
            /\ tool' = IF tool[ref[a]][n] = "up" THEN [tool EXCEPT ![ref[a]][n] = "down"] ELSE tool
            /\ missed' = IF tool[ref[a]][n] \in {"created", "sleeping"}
                           THEN missed \cup {<<ref[a], n>>} ELSE missed
            /\ left'[a] = left[a] \ {n}
        BY <3>3 DEF StopTool, Stop, Done, genVars
      <4>2. /\ ref[a] = gen /\ UpsEnded(gen)
            /\ \A m \in Tools \ left[a] : tool[gen][m] = "down" \/ <<gen, m>> \in missed
        BY <4>1 DEF Stopping
      <4>3. tool[gen][n] \in {"down", "created", "up", "sleeping"} /\ gen \in Gen
        BY DEF ToolState
      <4>4. tool'[gen][n] = "down" \/ <<gen, n>> \in missed'
        BY <4>1, <4>2, <4>3
      <4>5. \A m \in Tools \ {n} : tool'[gen][m] = tool[gen][m]
        BY <4>1, <4>3
      <4>6. \A m \in Tools \ left'[a] : tool'[gen][m] = "down" \/ <<gen, m>> \in missed'
        BY <4>1, <4>2, <4>4, <4>5
      <4>7. (UpsEnded(gen))'
        BY <4>1, <4>2 DEF UpsEnded
      <4>8. QED
        BY <2>2, <4>1, <4>2, <4>6, <4>7 DEF Goal
    <3>4. CASE StopJobs(a)
      <4>1. /\ pc[a] = "tools" /\ left[a] = {} /\ gen' = gen /\ overlapped' = overlapped
            /\ UNCHANGED <<liveUps, tool, missed, spawning, bashPids, liveSess>>
            /\ running' = running \ ({ref[a]} \X JobsOf(ref[a]))
            /\ pc'[a] = "sessions" /\ ref'[a] = ref[a] /\ left'[a] = SessionsOf(ref[a])
        BY <3>4 DEF StopJobs, Goto, genVars, history
      <4>2. /\ ref[a] = gen /\ UpsEnded(gen)
            /\ \A n \in Tools : tool[gen][n] = "down" \/ <<gen, n>> \in missed
        BY <4>1 DEF Stopping
      <4>3. (UpsEnded(gen))' /\ (ToolsEnded(gen))'
        BY <4>1, <4>2 DEF UpsEnded, ToolsEnded
      <4>4. \A j \in Jobs : <<gen, j>> \notin spawning
        BY <4>1 DEF OverlapInv, Stopping
      <4>5. (JobsEnded(gen))'
        BY <4>1, <4>2, <4>4 DEF JobsEnded, JobsOf
      <4>6. \A s \in Sessions \ left'[a] : <<gen, s>> \notin liveSess'
        BY <4>1, <4>2 DEF SessionsOf
      <4>7. QED
        BY <2>2, <4>1, <4>2, <4>3, <4>5, <4>6 DEF Goal
    <3>5. ASSUME NEW s \in Sessions, CloseSession(a, s) PROVE Goal
      BY <2>2, <3>5 DEF CloseSession, Done, Goal, UpsEnded, ToolsEnded, JobsEnded, Stopping,
                        genVars, jobVars, history
    <3>6. CASE Exit /\ a = Lifespan
      BY <2>2, <3>6 DEF Exit, Return, Goto, Goal, Ended, UpsEnded, ToolsEnded, JobsEnded,
                        SessionsEnded, Stopping, genVars, partVars, jobVars, history
    <3>7. CASE LoadFails(a) \/ AutostartDone(a) \/ AutostartNext(a)
      BY <2>2, <3>7 DEF LoadFails, AutostartDone, AutostartNext, Return, Goto, Goal, Stopping
    <3>8. ASSUME NEW names \in Configs, Replace(a, names) PROVE Goal
      BY <2>2, <3>8, ReplaceStep DEF Goal, Stopping
    <3>9. ASSUME NEW n \in Tools, AutostartTool(a, n) PROVE Goal
      BY <2>2, <3>9 DEF AutostartTool, Goal, Stopping
    <3>10. QED
      BY <1>4, <2>2, <3>1, <3>2, <3>3, <3>4, <3>5, <3>6, <3>7, <3>8, <3>9 DEF ActorStep
  <2>3. QED
    BY <2>1, <2>2
<1>5. QED
  BY <1>2, <1>3, <1>4 DEF Next, Actors

\* A generation ends before it is replaced; whoever autostarts a replaced one
\* overlapped its end.
LEMMA OtherGensStep ==
  ASSUME TypeOK, TypeOK', OverlapInv, ProgressInv, OtherGensInv, Next
  PROVE  OtherGensInv'
<1>1. \/ Call \/ PartStep
      \/ \E a \in Actors : Shutdown(a)
      \/ \E a \in Actors :
           /\ ActorStep(a) \/ (a = Lifespan /\ Exit)
           /\ \A names \in Configs : ~Replace(a, names)
      \/ \E a \in Actors, names \in Configs : Replace(a, names)
  BY DEF Next, Actors
<1>2. \/ gen' = gen
      \/ \E a \in Actors, names \in Configs : Replace(a, names)
  BY <1>1, CallFrame, PartFrame, ActorKeeps DEF Shutdown, genVars
<1>3. overlapped \subseteq overlapped'
  BY OverlappedGrows
<1>4. ASSUME NEW g \in Gen \ overlapped', g # gen' PROVE (Ended(g))'
  <2>1. CASE g # gen
    <3>1. Ended(g)
      BY <1>3, <2>1 DEF OtherGensInv
    <3>2. Calm(g)
      BY <1>4, <2>1, CalmStep
    <3>3. QED
      BY <3>1, <3>2, CalmKeepsEnd DEF Ended, UpsEnded, ToolsEnded, JobsEnded, SessionsEnded
  <2>2. CASE g = gen
    <3>1. PICK a \in Actors, names \in Configs : Replace(a, names)
      BY <1>2, <1>4, <2>2
    <3>2. /\ pc[a] = "sessions" /\ left[a] = {} /\ gen \notin overlapped
          /\ \A u : <<gen, u>> \in liveUps' => <<gen, u>> \in liveUps
          /\ UNCHANGED <<tool, spawning, running, bashPids, liveSess, missed>>
      BY <1>3, <2>2, <3>1, ReplaceStep
    <3>3. /\ UpsEnded(gen) /\ ToolsEnded(gen) /\ JobsEnded(gen)
          /\ \A s \in Sessions : <<gen, s>> \notin liveSess
      BY <3>2 DEF ProgressInv
    <3>4. QED
      BY <2>2, <3>2, <3>3 DEF Ended, UpsEnded, ToolsEnded, JobsEnded, SessionsEnded
  <2>3. QED
    BY <2>1, <2>2
<1> DEFINE Late(b) == pc[b] \in {"autostart", "await"} /\ ref[b] # gen => ref[b] \in overlapped
<1>5. ASSUME NEW b \in Actors, gen' = gen, ref'[b] = ref[b],
             pc'[b] \in {"autostart", "await"} => pc[b] \in {"autostart", "await"}
      PROVE  (Late(b))'
  BY <1>3, <1>5 DEF OtherGensInv
<1>6. ASSUME NEW b \in Actors PROVE (Late(b))'
  <2>1. CASE Call \/ PartStep
    BY <1>5, <2>1, CallFrame, PartFrame DEF genVars, actorVars
  <2>2. ASSUME NEW a \in Actors, Shutdown(a) PROVE (Late(b))'
    <3>1. /\ gen' = gen /\ pc' = [pc EXCEPT ![a] = "ups"] /\ ref' = [ref EXCEPT ![a] = gen]
      BY <2>2 DEF Shutdown, Goto, genVars
    <3>2. QED
      BY <1>5, <3>1 DEF TypeOK
  <2>3. ASSUME NEW a \in Actors, ActorStep(a) \/ (a = Lifespan /\ Exit),
               \A names \in Configs : ~Replace(a, names)
        PROVE  (Late(b))'
    <3>1. gen' = gen
      BY <2>3, ActorKeeps
    <3>2. CASE b # a
      BY <1>5, <2>3, <3>1, <3>2, ActorFrame
    <3>3. CASE b = a
      <4>1. \/ ref'[a] = ref[a] /\ pc'[a] = pc[a]
            \/ pc'[a] \notin {"autostart", "await"}
            \/ ref'[a] = ref[a] /\ pc[a] \in {"autostart", "await"}
        BY <2>3
        DEF TypeOK, ActorStep, Exit, StopUpstream, ToManager, StopTool, StopJobs, CloseSession,
            LoadFails, AutostartTool, AutostartNext, AutostartDone, Return, Goto
      <4>2. QED
        BY <1>5, <3>1, <3>3, <4>1
    <3>4. QED
      BY <3>2, <3>3
  <2>4. ASSUME NEW a \in Actors, NEW names \in Configs, Replace(a, names) PROVE (Late(b))'
    <3>1. ActorStep(a)
      BY <2>4 DEF ActorStep
    <3>2. CASE b = a
      BY <2>4, <3>2, ReplaceStep
    <3>3. CASE b # a
      <4>1. Busy(a) /\ pc'[b] = pc[b] /\ ref'[b] = ref[b]
        BY <3>1, <3>3, ActorFrame
      <4>2. pc[b] \in {"autostart", "await"} => gen \in overlapped
        BY <3>3, <4>1 DEF OverlapInv, Busy
      <4>3. QED
        BY <1>3, <4>1, <4>2 DEF OtherGensInv
    <3>4. QED
      BY <3>2, <3>3
  <2>5. QED
    BY <1>1, <2>1, <2>2, <2>3, <2>4
<1>7. QED
  BY <1>4, <1>6 DEF OtherGensInv

\* What a configuration autostarts stays with its actor until it is started.
LEMMA AutostartStep ==
  ASSUME TypeOK, AutostartInv, Next PROVE AutostartInv'
<1> DEFINE Quiet == {"idle", "autostart", "await"}
           Has(b, n) == pc[b] \in {"autostart", "await"} /\ ref[b] = gen /\ n \in left[b]
<1> SUFFICES ASSUME loaded', \A b \in Actors : pc'[b] \in Quiet,
                    NEW n \in autostart'[gen'] \ started'
             PROVE  \E b \in Actors : (Has(b, n))'
  BY DEF AutostartInv
<1>1. ASSUME UNCHANGED <<gen, autostart, loaded>>, started \subseteq started',
             \A b \in Actors : pc[b] \in Quiet
      PROVE  \E b \in Actors : Has(b, n)
  BY <1>1 DEF AutostartInv
<1>2. CASE Call \/ PartStep
  <2>1. UNCHANGED <<gen, autostart, loaded, pc, ref, left>> /\ started \subseteq started'
    BY <1>2, CallFrame, PartFrame DEF genVars, actorVars, history
  <2>2. QED
    BY <1>1, <2>1
<1>3. ASSUME NEW a \in Actors, Shutdown(a) PROVE FALSE
  BY <1>3 DEF Shutdown, Goto, TypeOK
<1>4. ASSUME NEW a \in Actors, NEW names \in Configs, Replace(a, names)
      PROVE  (Has(a, n))'
  <2>1. /\ pc'[a] = "autostart" /\ ref'[a] = gen' /\ left'[a] = names \cap Tools
        /\ autostart'[gen'] = names /\ started' = names \cap Upstreams
    BY <1>4, ReplaceStep
  <2>2. names \subseteq Tools \cup Upstreams
    BY SupervisorAssumption
  <2>3. QED
    BY <2>1, <2>2
<1>5. ASSUME NEW a \in Actors,
             \/ \E u \in Upstreams : StopUpstream(a, u)
             \/ ToManager(a)
             \/ \E m \in Tools : StopTool(a, m)
             \/ StopJobs(a)
             \/ \E s \in Sessions : CloseSession(a, s)
             \/ LoadFails(a)
             \/ a = Lifespan /\ Exit
      PROVE  FALSE
  <2>1. pc'[a] \in {"ups", "tools", "sessions", "exited"} \/ ~loaded'
    BY <1>5
    DEF TypeOK, StopUpstream, ToManager, StopTool, StopJobs, CloseSession, LoadFails, Exit,
        Return, Goto
  <2>2. QED
    BY <2>1
<1>6. ASSUME NEW a \in Actors, NEW m \in Tools, AutostartTool(a, m)
      PROVE  \E b \in Actors : (Has(b, n))'
  <2>1. /\ UNCHANGED <<gen, autostart, loaded, ref>> /\ pc[a] = "autostart"
        /\ pc' = pc \/ pc' = [pc EXCEPT ![a] = "await"]
        /\ left' = [left EXCEPT ![a] = @ \ {m}]
        /\ started' = IF ref[a] = gen THEN started \cup {m} ELSE started
    BY <1>6 DEF AutostartTool, Done, genVars
  <2>2. \A b \in Actors \ {a} : pc'[b] = pc[b] /\ left'[b] = left[b]
    BY <2>1 DEF TypeOK
  <2>3. PICK b \in Actors : Has(b, n)
    BY <1>1, <2>1, <2>2
  <2>4. CASE b # a
    BY <2>1, <2>2, <2>3, <2>4
  <2>5. CASE b = a
    <3>1. n # m
      BY <2>1, <2>3, <2>5
    <3>2. pc'[a] \in {"autostart", "await"} /\ n \in left'[a]
      BY <2>1, <2>3, <2>5, <3>1 DEF TypeOK
    <3>3. QED
      BY <2>1, <2>3, <2>5, <3>2
  <2>6. QED
    BY <2>4, <2>5
<1>7. ASSUME NEW a \in Actors, AutostartNext(a) \/ AutostartDone(a)
      PROVE  \E b \in Actors : (Has(b, n))'
  <2>1. /\ UNCHANGED <<gen, autostart, loaded, started>>
        /\ pc[a] \in {"autostart", "await"}
        /\ \/ pc'[a] = "autostart" /\ ref'[a] = ref[a] /\ left'[a] = left[a]
           \/ left[a] = {}
    BY <1>7 DEF AutostartNext, AutostartDone, genVars, history, TypeOK
  <2>2. \A b \in Actors \ {a} : pc'[b] = pc[b] /\ ref'[b] = ref[b] /\ left'[b] = left[b]
    BY <1>7, ActorFrame DEF ActorStep
  <2>3. PICK b \in Actors : Has(b, n)
    BY <1>1, <2>1, <2>2
  <2>4. QED
    BY <2>1, <2>2, <2>3
<1>8. QED
  BY <1>2, <1>3, <1>4, <1>5, <1>6, <1>7 DEF Next, ActorStep, Actors

-----------------------------------------------------------------------------

\* The inductive invariant holds in every reachable state
\* (server.py:432-479, manager.py:189-199).
THEOREM Invariance == Spec => []SupervisorInv
<1>1. Init => SupervisorInv
  <2> SUFFICES ASSUME Init PROVE SupervisorInv
    OBVIOUS
  <2>1. TypeOK
    BY InitType
  <2>2. \A a \in Actors : pc[a] = IF a = Lifespan THEN "autostart" ELSE "idle"
    BY DEF Init
  <2>3. OverlapInv
    BY <2>2 DEF OverlapInv, Busy, Stopping
  <2>4. ProgressInv
    BY <2>2 DEF ProgressInv, Stopping
  <2>5. gen = 1 /\ \A a \in Actors : ref[a] = gen
    BY DEF Init
  <2>6. ASSUME NEW g \in Gen, g # 1 PROVE Ended(g)
    <3>1. UpsEnded(g)
      BY <2>6 DEF Init, UpsEnded
    <3>2. ToolsEnded(g) /\ JobsEnded(g) /\ SessionsEnded(g)
      BY DEF Init, ToolsEnded, JobsEnded, SessionsEnded
    <3>3. QED
      BY <3>1, <3>2 DEF Ended
  <2>7. OtherGensInv
    BY <2>5, <2>6 DEF OtherGensInv
  <2>8. AutostartInv
    <3>1. PICK names \in Configs :
            /\ autostart = [g \in Gen |-> IF g = 1 THEN names ELSE {}]
            /\ liveUps = {1} \X (names \cap Upstreams)
            /\ left = [a \in Actors |-> IF a = Lifespan THEN names \cap Tools ELSE {}]
      BY DEF Init
    <3>2. names \subseteq Tools \cup Upstreams /\ 1 \in Gen /\ Lifespan \in Actors
      BY SupervisorAssumption DEF Gen, Actors
    <3>3. autostart[gen] = names /\ left[Lifespan] = names \cap Tools
      BY <2>5, <3>1, <3>2
    <3>4. started = names \cap Upstreams
      BY <3>1 DEF Init
    <3>5. QED
      BY <2>2, <2>5, <3>2, <3>3, <3>4 DEF AutostartInv
  <2>9. QED
    BY <2>1, <2>3, <2>4, <2>7, <2>8 DEF SupervisorInv
<1>2. SupervisorInv /\ [Next]_vars => SupervisorInv'
  <2> SUFFICES ASSUME SupervisorInv, [Next]_vars PROVE SupervisorInv'
    OBVIOUS
  <2>1. CASE Next
    <3>1. TypeOK'
      BY <2>1, TypeStep DEF SupervisorInv
    <3>2. QED
      BY <2>1, <3>1, OverlapStep, ProgressStep, OtherGensStep, AutostartStep DEF SupervisorInv
  <2>2. CASE UNCHANGED vars
    <3>1. UNCHANGED <<gen, autostart, loaded, liveUps, tool, spawning, running, bashPids,
                      liveSess, pc, ref, left, awaited, calls, started, overlapped, missed>>
      BY <2>2 DEF vars, genVars, partVars, jobVars, actorVars, history
    <3>2. TypeOK'
      BY <3>1 DEF SupervisorInv, TypeOK
    <3>3. OverlapInv'
      BY <3>1 DEF SupervisorInv, OverlapInv, Busy
    <3>4. ProgressInv'
      BY <3>1 DEF SupervisorInv, ProgressInv, Ended, UpsEnded, ToolsEnded, JobsEnded, SessionsEnded
    <3>5. OtherGensInv'
      BY <3>1 DEF SupervisorInv, OtherGensInv, Ended, UpsEnded, ToolsEnded, JobsEnded, SessionsEnded
    <3>6. AutostartInv'
      BY <3>1 DEF SupervisorInv, AutostartInv
    <3>7. QED
      BY <3>2, <3>3, <3>4, <3>5, <3>6 DEF SupervisorInv
  <2>3. QED
    BY <2>1, <2>2
<1>3. QED
  BY <1>1, <1>2, PTL DEF Spec

\* Type correctness (server.py:432-456).
THEOREM TypeCorrect == Spec => []TypeOK
<1>1. SupervisorInv => TypeOK
  BY DEF SupervisorInv
<1>2. QED
  BY <1>1, Invariance, PTL

\* A shutdown that overlapped nothing leaves nothing behind, but tools it met
\* between two runs, jobs that ignore SIGTERM and running jobs that were evicted
\* (server.py:462-472, manager.py:159-163, 189-199).
THEOREM ShutdownComplete == Spec => []ShutdownIsComplete
<1>1. SupervisorInv => ShutdownIsComplete
  <2> SUFFICES ASSUME SupervisorInv, NEW g \in Gen \ overlapped, ShutDown(g)
               PROVE  Ended(g)
    BY DEF ShutdownIsComplete, Ended
  <2>1. CASE g # gen
    BY <2>1 DEF SupervisorInv, OtherGensInv
  <2>2. CASE g = gen
    <3>1. ~(g < gen)
      BY <2>2 DEF Gen
    <3>2. CASE pc[Lifespan] = "exited"
      BY <2>2, <3>2 DEF SupervisorInv, ProgressInv, Actors
    <3>3. CASE \E a \in Actors : pc[a] = "sessions" /\ left[a] = {} /\ ref[a] = g
      <4>1. /\ UpsEnded(gen) /\ ToolsEnded(gen) /\ JobsEnded(gen)
            /\ \A s \in Sessions : <<gen, s>> \notin liveSess
        BY <2>2, <3>3 DEF SupervisorInv, ProgressInv
      <4>2. QED
        BY <2>2, <4>1 DEF Ended, SessionsEnded
    <3>4. QED
      BY <3>1, <3>2, <3>3 DEF ShutDown
  <2>3. QED
    BY <2>1, <2>2
<1>2. QED
  BY <1>1, Invariance, PTL

\* When no reload is in progress and the last load succeeded, everything that is
\* to be autostarted was started (server.py:456-479).
THEOREM AutostartComplete == Spec => []AutostartIsComplete
<1>1. SupervisorInv => AutostartIsComplete
  BY DEF SupervisorInv, AutostartInv, AutostartIsComplete, Reloading, Busy
<1>2. QED
  BY <1>1, Invariance, PTL

=============================================================================
