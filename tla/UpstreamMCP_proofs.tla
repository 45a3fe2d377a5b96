-------------------------- MODULE UpstreamMCP_proofs --------------------------
(***************************************************************************)
(* Proofs about UpstreamMCP, for any callers, stoppers, policies and bounds.*)
(* The inductive invariant has three parts: what the connection task keeps *)
(* (RunInv), what the callers' lock keeps (QueueInv), and what the clients *)
(* that list and that stop have seen (ListInv, StopInv).                   *)
(***************************************************************************)
EXTENDS UpstreamMCP, TLAPS

\* A step of the connection task, by name.
RunNext ==
  Start \/ TaskStep \/ Initialized \/ Refreshed \/ Output \/ Fail \/ ChildDies

\* A step of a client of the upstream.
ClientNext ==
  \/ \E c \in Callers : Call(c) \/ Resume(c) \/ Answer(c)
  \/ List \/ ListReady \/ ListTimeout

\* What may be shut down, or is.
StopNext == \E s \in Stoppers : Stop(s) \/ StopReturn(s)

LEMMA NextSplit == Next => RunNext \/ ClientNext \/ StopNext
BY DEF Next, RunNext, ClientNext, StopNext

\* A client writes neither the task's variables nor the stops.
LEMMA ClientFrame ==
  ClientNext => UNCHANGED <<mode, runVars, logVars, stopRequested, stopPc>>
BY DEF ClientNext, Call, Resume, Answer, List, ListReady, ListTimeout

\* The task writes neither the calls nor the stops.
LEMMA RunFrame ==
  RunNext => UNCHANGED <<mode, stopRequested, callVars, listVars, stopPc>>
BY DEF RunNext, TaskStep, Start, Initialized, Refreshed, Output, Fail, ChildDies,
       FirstStep, Reconnect, Connect, Crashed, Closed, Pumped, Ended

\* A stop writes the status, the flag and its own step, and cancels the task.
LEMMA StopFrame ==
  StopNext => /\ UNCHANGED <<mode, session, tools, ready, window, conn, procs>>
              /\ UNCHANGED <<logVars, callVars, listVars>>
              /\ state' \in {state, "stopped"}
              /\ (Cancel \/ UNCHANGED taskPc)
              /\ stopRequested' \in {stopRequested, TRUE}
BY DEF StopNext, Stop, StopReturn

-----------------------------------------------------------------------------

\* No attempt before the task runs, one while it works, pumps or sleeps.
ConnInv ==
  /\ taskPc \in {"none", "created"} => conn = 0
  /\ taskPc \in Connected \cup {"pumping", "sleeping"} => conn # 0

\* The only child, while it lives, is that of the present connection.
ProcsInv == procs \subseteq IF taskPc \in Connected THEN {conn} ELSE {}

\* A session exists from the handshake until the context managers are left.
SessionInv ==
  /\ taskPc \in {"refreshing", "idle"} => session = conn
  /\ taskPc \in {"failing", "closing"} => session \in {None, conn}
  /\ taskPc \notin {"refreshing", "idle", "failing", "closing"} => session = None

\* The status says "running" only after the tools were listed.
StateInv ==
  state = "running" =>
    /\ taskPc \in {"idle", "failing", "closing"}
    /\ session = conn /\ tools \in {conn, Empty}

\* A connection that ended has left a line behind.
LogInv ==
  /\ PreviousIsPrior
  /\ taskPc \in {"pumping", "sleeping"} => log = {conn}

RunInv == RunTypeOK /\ ConnInv /\ ProcsInv /\ SessionInv /\ StateInv /\ LogInv

LEMMA RunInit == Init => RunInv
<1> SUFFICES ASSUME Init PROVE RunInv
  OBVIOUS
<1> USE UpstreamAssumption DEF Init, Conn, None, Empty, TaskPc, Connected
<1>1. RunTypeOK
  <2>1. 0 \in 0..MaxConns /\ 0 \in Empty..MaxConns /\ {} \subseteq Conn
    OBVIOUS
  <2>2. QED
    BY <2>1 DEF RunTypeOK
<1>2. ConnInv /\ ProcsInv /\ SessionInv /\ StateInv /\ LogInv
  BY DEF ConnInv, ProcsInv, SessionInv, StateInv, LogInv, PreviousIsPrior
<1>3. QED
  BY <1>1, <1>2 DEF RunInv

LEMMA RunStep ==
  ASSUME RunInv, RunNext PROVE RunInv'
<1> USE UpstreamAssumption
    DEF RunInv, RunTypeOK, ConnInv, ProcsInv, SessionInv, StateInv, LogInv,
        PreviousIsPrior, Conn, None, Empty, TaskPc, Connected, logVars
<1>1. CASE Start
  BY <1>1 DEF Start
<1>2. CASE FirstStep \/ Reconnect
  <2>1. /\ Connect /\ conn' = conn + 1 /\ conn' \in Conn
        /\ procs = {} /\ session = None /\ state # "running"
    BY <1>2 DEF FirstStep, Reconnect, Connect
  <2>2. previousLog' = IF conn = 0 THEN {} ELSE {conn}
    <3>1. CASE FirstStep
      BY <3>1 DEF FirstStep, Connect, Rotated
    <3>2. CASE Reconnect
      BY <3>2 DEF Reconnect, Connect, Rotated
    <3>3. QED
      BY <1>2, <3>1, <3>2
  <2>3. CASE taskPc' = "connecting"
    <3>1. procs' = {conn'} /\ log' = {} /\ session' = None /\ state' = "starting"
      BY <2>1, <2>3 DEF Connect
    <3>2. QED
      BY <2>1, <2>2, <2>3, <3>1 DEF Connect
  <2>4. CASE taskPc' = "pumping"
    <3>1. procs' = {} /\ log' = {conn'} /\ session' = None /\ state' = "crashed"
      BY <2>1, <2>4 DEF Connect
    <3>2. QED
      BY <2>1, <2>2, <2>4, <3>1 DEF Connect
  <2>5. QED
    BY <2>1, <2>3, <2>4 DEF Connect
<1>3. CASE Initialized
  BY <1>3 DEF Initialized, SetSession
<1>4. CASE Refreshed
  <2>1. tools' \in {conn, Empty} /\ log' \in {log, log \cup {conn}}
    BY <1>4 DEF Refreshed, RefreshTools
  <2>2. QED
    BY <1>4, <2>1 DEF Refreshed
<1>5. CASE Output
  BY <1>5 DEF Output, runVars
<1>6. CASE Fail
  BY <1>6 DEF Fail
<1>7. CASE Crashed
  <2>1. /\ taskPc \in {"failing", "closing"} /\ taskPc' = "pumping"
        /\ procs' = {} /\ session' = None /\ state' = "crashed"
    BY <1>7 DEF Crashed, DropSession
  <2>3. log' = {conn} /\ conn \in Conn
    <3>1. log' = log \cup {conn} /\ conn # 0
      BY <1>7 DEF Crashed, LogError
    <3>2. log \subseteq {conn} /\ conn \in 0..MaxConns
      OBVIOUS
    <3>3. conn \in Conn
      BY <3>1, <3>2
    <3>4. log' = {conn}
      BY <3>1, <3>2, Zenon
    <3>5. QED
      BY <3>3, <3>4
  <2>2. QED
    BY <1>7, <2>1, <2>3 DEF Crashed
<1>8. CASE Closed
  BY <1>8 DEF Closed, DropSession
<1>9. CASE Pumped
  <2>1. /\ taskPc = "pumping" /\ taskPc' \in {"done", "sleeping"}
        /\ state' \in {state, "backoff"} /\ window' \in Nat
    BY <1>9 DEF Pumped
  <2>2. QED
    BY <1>9, <2>1 DEF Pumped
<1>10. CASE Ended
  BY <1>10 DEF Ended
<1>11. CASE ChildDies
  BY <1>11 DEF ChildDies
<1>12. QED
  BY <1>1, <1>2, <1>3, <1>4, <1>5, <1>6, <1>7, <1>8, <1>9, <1>10, <1>11
     DEF RunNext, TaskStep

LEMMA RunInvStep ==
  ASSUME RunInv, [Next]_vars PROVE RunInv'
<1> USE DEF RunInv, RunTypeOK, ConnInv, ProcsInv, SessionInv, StateInv, LogInv,
            PreviousIsPrior, Connected, logVars
<1>1. CASE RunNext
  BY <1>1, RunStep
<1>2. CASE ClientNext
  BY <1>2, ClientFrame DEF runVars
<1>3. CASE StopNext
  <2>1. /\ UNCHANGED <<mode, session, tools, ready, window, conn, procs, log,
                       previousLog>>
        /\ state' \in {state, "stopped"} /\ stopRequested' \in BOOLEAN
    BY <1>3, StopFrame
  <2>2. CASE taskPc' = taskPc
    BY <2>1, <2>2
  <2>3. CASE taskPc \in {"created", "sleeping"} /\ taskPc' = "cancelled"
    BY <2>1, <2>3 DEF TaskPc
  <2>4. CASE /\ taskPc \in {"connecting", "refreshing", "idle", "failing"}
             /\ taskPc' = "closing"
    BY <2>1, <2>4 DEF TaskPc
  <2>5. QED
    BY <1>3, <2>2, <2>3, <2>4, StopFrame DEF Cancel
<1>4. CASE UNCHANGED vars
  BY <1>4 DEF vars, runVars
<1>5. QED
  BY <1>1, <1>2, <1>3, <1>4, NextSplit

-----------------------------------------------------------------------------

\* The lock's queue holds every call in progress, once; the one that wrote its
\* request is its head.
QueueInv ==
  /\ queue \in Seq(Callers)
  /\ callPc \in [Callers -> {"idle", "queued", "sent"}]
  /\ callConn \in [Callers -> 0..MaxConns]
  /\ \A c \in Callers : callPc[c] # "idle" <=> \E i \in DOMAIN queue : queue[i] = c
  /\ \A i, j \in DOMAIN queue : queue[i] = queue[j] => i = j
  /\ \A c \in Callers : callPc[c] = "sent" => queue[1] = c

\* The holder gives the lock back.
LEMMA Dequeue ==
  ASSUME QueueInv, NEW c \in Callers, callPc[c] # "idle", queue[1] = c,
         Return(c), queue' = Tail(queue)
  PROVE  QueueInv'
<1> USE DEF QueueInv, Return, None
<1>1. queue # <<>> /\ Len(queue) \in Nat \ {0} /\ DOMAIN queue = 1..Len(queue)
  OBVIOUS
<1>2. /\ queue' \in Seq(Callers) /\ Len(queue') = Len(queue) - 1
      /\ DOMAIN queue' = 1..(Len(queue) - 1)
      /\ \A i \in DOMAIN queue' : queue'[i] = queue[i + 1]
  BY <1>1
<1>3. /\ callPc' \in [Callers -> {"idle", "queued", "sent"}]
      /\ callConn' \in [Callers -> 0..MaxConns]
  BY UpstreamAssumption
<1>4. ASSUME NEW d \in Callers
      PROVE  callPc'[d] # "idle" <=> \E i \in DOMAIN queue' : queue'[i] = d
  <2>1. CASE d = c
    <3>1. callPc'[d] = "idle"
      BY <2>1
    <3>2. ASSUME NEW i \in DOMAIN queue', queue'[i] = c PROVE FALSE
      <4>1. i + 1 \in DOMAIN queue /\ 1 \in DOMAIN queue /\ i + 1 # 1
        BY <1>1, <1>2
      <4>2. queue[i + 1] = queue[1]
        BY <1>2, <3>2
      <4>3. QED
        BY <4>1, <4>2
    <3>3. QED
      BY <2>1, <3>1, <3>2
  <2>2. CASE d # c
    <3>1. callPc'[d] = callPc[d]
      BY <2>2
    <3>2. ASSUME NEW i \in DOMAIN queue, queue[i] = d
          PROVE  i - 1 \in DOMAIN queue' /\ queue'[i - 1] = d
      BY <1>1, <1>2, <2>2, <3>2
    <3>3. ASSUME NEW i \in DOMAIN queue', queue'[i] = d
          PROVE  i + 1 \in DOMAIN queue /\ queue[i + 1] = d
      BY <1>1, <1>2, <3>3
    <3>4. callPc[d] # "idle" <=> \E i \in DOMAIN queue : queue[i] = d
      OBVIOUS
    <3> HIDE DEF QueueInv, Return
    <3>5. CASE callPc[d] # "idle"
      <4>1. PICK i \in DOMAIN queue : queue[i] = d
        BY <3>4, <3>5
      <4>2. i - 1 \in DOMAIN queue' /\ queue'[i - 1] = d
        BY <3>2, <4>1
      <4>3. QED
        BY <3>1, <3>5, <4>2
    <3>6. CASE callPc[d] = "idle"
      <4>1. ASSUME NEW i \in DOMAIN queue', queue'[i] = d PROVE FALSE
        BY <3>3, <3>4, <3>6, <4>1
      <4>2. QED
        BY <3>1, <3>6, <4>1
    <3>7. QED
      BY <3>5, <3>6
  <2>3. QED
    BY <2>1, <2>2
<1>5. ASSUME NEW i \in DOMAIN queue', NEW j \in DOMAIN queue',
             queue'[i] = queue'[j]
      PROVE  i = j
  <2>1. ASSUME NEW k \in DOMAIN queue' PROVE k + 1 \in DOMAIN queue
    <3> HIDE DEF QueueInv, Return
    <3>1. QED
      BY <1>1, <1>2
  <2>2. queue[i + 1] = queue[j + 1]
    BY <1>2, <1>5
  <2>3. i + 1 = j + 1
    BY <2>1, <2>2
  <2>4. QED
    BY <1>2, <2>3
<1>6. \A d \in Callers : callPc'[d] = "sent" => queue'[1] = d
  BY <1>1
<1>7. QED
  BY <1>2, <1>3, <1>4, <1>5, <1>6

\* A caller joins the queue, and has the lock if nobody was there.
LEMMA Enqueue ==
  ASSUME QueueInv, RunTypeOK, NEW c \in Callers, Call(c) PROVE QueueInv'
<1> USE DEF QueueInv, Call, Send, LockFree, RunTypeOK
<1>1. Len(queue) \in Nat /\ DOMAIN queue = 1..Len(queue)
  OBVIOUS
<1>2. /\ queue' \in Seq(Callers) /\ DOMAIN queue' = 1..(Len(queue) + 1)
      /\ \A i \in DOMAIN queue : queue'[i] = queue[i]
      /\ queue'[Len(queue) + 1] = c
  BY <1>1
<1>3. /\ callPc' \in [Callers -> {"idle", "queued", "sent"}]
      /\ callConn' \in [Callers -> 0..MaxConns]
      /\ callPc'[c] # "idle"
      /\ \A d \in Callers \ {c} : callPc'[d] = callPc[d]
  <2>1. PICK pc \in {"queued", "sent"} : callPc' = [callPc EXCEPT ![c] = pc]
    BY DEF Call, Send
  <2> HIDE DEF Call
  <2>2. \/ callConn' = callConn
        \/ callConn' = [callConn EXCEPT ![c] = session]
    BY DEF Call, Send
  <2>3. session \in 0..MaxConns
    BY DEF RunTypeOK
  <2>4. callConn' \in [Callers -> 0..MaxConns]
    BY <2>2, <2>3 DEF QueueInv
  <2>5. callPc' \in [Callers -> {"idle", "queued", "sent"}] /\ callPc'[c] = pc
    BY <2>1 DEF QueueInv
  <2>6. QED
    BY <2>1, <2>4, <2>5 DEF QueueInv
<1>4. \A i \in DOMAIN queue : queue[i] # c
  OBVIOUS
<1>5. ASSUME NEW d \in Callers
      PROVE  callPc'[d] # "idle" <=> \E i \in DOMAIN queue' : queue'[i] = d
  <2>1. CASE d = c
    <3>1. Len(queue) + 1 \in DOMAIN queue'
      BY <1>1, <1>2
    <3>2. QED
      BY <1>2, <1>3, <2>1, <3>1
  <2>2. CASE d # c
    <3>1. callPc[d] # "idle" <=> \E i \in DOMAIN queue : queue[i] = d
      OBVIOUS
    <3>2. QED
      BY <1>1, <1>2, <1>3, <2>2, <3>1
  <2>3. QED
    BY <2>1, <2>2
<1>6. ASSUME NEW i \in DOMAIN queue', NEW j \in DOMAIN queue',
             queue'[i] = queue'[j]
      PROVE  i = j
  <2>1. \A k \in DOMAIN queue' : k \in DOMAIN queue \/ k = Len(queue) + 1
    BY <1>1, <1>2
  <2>2. CASE i \in DOMAIN queue /\ j \in DOMAIN queue
    <3>1. queue[i] = queue[j]
      BY <1>2, <1>6, <2>2
    <3>2. QED
      BY <2>2, <3>1
  <2>3. CASE i = Len(queue) + 1 /\ j \in DOMAIN queue
    BY <1>2, <1>4, <1>6, <2>3
  <2>4. CASE i \in DOMAIN queue /\ j = Len(queue) + 1
    BY <1>2, <1>4, <1>6, <2>4
  <2>5. QED
    BY <2>1, <2>2, <2>3, <2>4
<1>7. ASSUME NEW d \in Callers, callPc'[d] = "sent" PROVE queue'[1] = d
  <2>1. CASE d = c
    <3>1. queue = <<>>
      BY <1>7, <2>1
    <3>2. QED
      BY <1>1, <1>2, <2>1, <3>1
  <2>2. CASE d # c
    <3>1. callPc[d] = "sent"
      BY <1>3, <1>7, <2>2
    <3>2. queue[1] = d /\ 1 \in DOMAIN queue
      BY <1>1, <3>1
    <3>3. QED
      BY <1>2, <3>2
  <2>3. QED
    BY <2>1, <2>2
<1>8. QED
  BY <1>2, <1>3, <1>5, <1>6, <1>7

\* The head of the queue is woken.
LEMMA Wake ==
  ASSUME QueueInv, RunTypeOK, NEW c \in Callers, Resume(c) PROVE QueueInv'
<1>1. /\ queue # <<>> /\ queue[1] = c /\ callPc[c] = "queued"
  BY DEF Resume, QueueInv
<1>2. CASE Return(c) /\ queue' = Tail(queue)
  BY <1>1, <1>2, Dequeue
<1>3. CASE Send(c) /\ UNCHANGED queue
  <2>1. \A d \in Callers : callPc'[d] = IF d = c THEN "sent" ELSE callPc[d]
    BY <1>3 DEF Send, QueueInv
  <2>2. QED
    BY <1>1, <1>3, <2>1 DEF Send, QueueInv, RunTypeOK
<1>4. QED
  BY <1>2, <1>3 DEF Resume

LEMMA QueueStep ==
  ASSUME QueueInv, RunTypeOK, [Next]_vars PROVE QueueInv'
<1>1. ASSUME NEW c \in Callers, Answer(c) PROVE QueueInv'
  <2>1. callPc[c] # "idle" /\ queue[1] = c
    BY <1>1 DEF Answer, QueueInv
  <2>2. QED
    BY <1>1, <2>1, Dequeue DEF Answer
<1>2. CASE UNCHANGED callVars
  BY <1>2 DEF callVars, QueueInv
<1>3. UNCHANGED callVars \/ \E c \in Callers : Call(c) \/ Resume(c) \/ Answer(c)
  <2>1. List \/ ListReady \/ ListTimeout => UNCHANGED callVars
    BY DEF List, ListReady, ListTimeout
  <2>2. QED
    BY <2>1, NextSplit, RunFrame, StopFrame DEF ClientNext, vars
<1>4. QED
  BY <1>1, <1>2, <1>3, Enqueue, Wake

-----------------------------------------------------------------------------

\* An upstream that was ready once has been asked for its tools, and no list
\* was made before.
ListInv ==
  /\ ready => tools # None
  /\ ListingIsComplete
  /\ listPc \in {"idle", "waiting"}
  /\ listed \in {"none", "tools", "empty", "backoff", "early", "timeout"}

LEMMA ListStep ==
  ASSUME ListInv, RunInv, [Next]_vars PROVE ListInv'
<1> USE DEF ListInv, ListingIsComplete, RunInv, RunTypeOK, ConnInv, None, Empty,
            Conn, Connected
<1>1. CASE List \/ ListReady \/ ListTimeout
  BY <1>1 DEF List, ListReady, ListTimeout, Pending, Seen, runVars
<1>2. CASE Refreshed
  <2>1. tools' # None
    BY <1>2, UpstreamAssumption DEF Refreshed, RefreshTools
  <2>2. QED
    BY <1>2, <2>1 DEF Refreshed, listVars
<1>3. CASE UNCHANGED <<tools, listVars>> /\ ready' \in {ready, FALSE}
  <2>1. tools' = tools /\ listPc' = listPc /\ listed' = listed
    BY <1>3 DEF listVars
  <2>2. ready' => ready
    BY <1>3, Zenon
  <2>3. QED
    BY <2>1, <2>2
<1>4. RunNext => Refreshed \/ (UNCHANGED tools /\ ready' \in {ready, FALSE})
  BY DEF RunNext, TaskStep, Start, Initialized, SetSession, Output, Fail, ChildDies,
         FirstStep, Reconnect, Connect, Crashed, Closed, Pumped, Ended, runVars
<1>5. (\E c \in Callers : Call(c) \/ Resume(c) \/ Answer(c))
        => UNCHANGED <<tools, ready, listVars>>
  BY DEF Call, Resume, Answer, runVars
<1>6. QED
  BY <1>1, <1>2, <1>3, <1>4, <1>5, NextSplit, RunFrame, StopFrame
     DEF ClientNext, vars, runVars

\* A stop is requested before anyone waits for it, and what it waited for is
\* over when it returns.
StopInv ==
  /\ stopPc \in [Stoppers -> {"idle", "waiting", "done"}]
  /\ \A s \in Stoppers : stopPc[s] # "idle" => stopRequested
  /\ \A s \in Stoppers :
       stopPc[s] = "done" => taskPc \in {"none", "done"} /\ state = "stopped"

\* Nothing starts a task again once a stop was requested.
LEMMA OverStays ==
  ASSUME RunInv, stopRequested, taskPc \in {"none", "done"}, RunNext
  PROVE  UNCHANGED <<taskPc, state>>
BY DEF RunInv, ProcsInv, Connected, RunNext, TaskStep, Start, Initialized,
       Refreshed, Output, Fail, ChildDies, FirstStep, Reconnect, Crashed, Closed, Pumped,
       Ended

LEMMA StopStep ==
  ASSUME StopInv, RunInv, [Next]_vars PROVE StopInv'
<1> USE DEF StopInv
<1>1. CASE RunNext
  <2>1. UNCHANGED <<stopRequested, stopPc>>
    BY <1>1, RunFrame
  <2>2. ASSUME NEW s \in Stoppers, stopPc[s] = "done"
        PROVE  taskPc' \in {"none", "done"} /\ state' = "stopped"
    BY <1>1, <2>2, OverStays
  <2>3. QED
    BY <2>1, <2>2
<1>2. CASE ClientNext
  BY <1>2, ClientFrame DEF runVars
<1>3. ASSUME NEW s \in Stoppers, Stop(s) PROVE StopInv'
  <2>1. CASE TaskOver
    BY <1>3, <2>1 DEF Stop, TaskOver, Cancel
  <2>2. CASE ~TaskOver
    BY <1>3, <2>2 DEF Stop, TaskOver
  <2>3. QED
    BY <2>1, <2>2
<1>4. ASSUME NEW s \in Stoppers, StopReturn(s) PROVE StopInv'
  BY <1>4 DEF StopReturn
<1>5. CASE UNCHANGED vars
  BY <1>5 DEF vars, runVars
<1>6. QED
  BY <1>1, <1>2, <1>3, <1>4, <1>5, NextSplit DEF StopNext

-----------------------------------------------------------------------------

\* The inductive invariant.
UpstreamInv == RunInv /\ QueueInv /\ ListInv /\ StopInv

\* It holds in every reachable state (proxy.py:103-191, 193-211).
THEOREM Invariance == Spec => []UpstreamInv
<1>1. Init => UpstreamInv
  <2> SUFFICES ASSUME Init PROVE UpstreamInv
    OBVIOUS
  <2>1. RunInv
    BY RunInit
  <2>2. QueueInv
    BY UpstreamAssumption DEF Init, QueueInv, None
  <2>3. ListInv
    BY DEF Init, ListInv, ListingIsComplete
  <2>4. StopInv
    BY DEF Init, StopInv
  <2>5. QED
    BY <2>1, <2>2, <2>3, <2>4 DEF UpstreamInv
<1>2. UpstreamInv /\ [Next]_vars => UpstreamInv'
  <2> SUFFICES ASSUME UpstreamInv, [Next]_vars PROVE UpstreamInv'
    OBVIOUS
  <2>1. RunInv'
    BY RunInvStep DEF UpstreamInv
  <2>2. QueueInv'
    BY QueueStep DEF UpstreamInv, RunInv
  <2>3. ListInv'
    BY ListStep DEF UpstreamInv
  <2>4. StopInv'
    BY StopStep DEF UpstreamInv
  <2>5. QED
    BY <2>1, <2>2, <2>3, <2>4 DEF UpstreamInv
<1>3. QED
  BY <1>1, <1>2, PTL DEF Spec

\* Type correctness (proxy.py:48-69).
THEOREM TypeCorrect == Spec => []TypeOK
<1>1. UpstreamInv => TypeOK
  BY DEF UpstreamInv, RunInv, QueueInv, ListInv, StopInv, TypeOK, CallTypeOK
<1>2. QED
  BY <1>1, Invariance, PTL

\* A running upstream has a session and tools of one connection, the latest, and
\* no child of another; its own may be dead, unnoticed (proxy.py:139-147, 161-162).
THEOREM RunningUpstream == Spec => []RunningIsConnected
<1>1. UpstreamInv => RunningIsConnected
  BY DEF UpstreamInv, RunInv, StateInv, ProcsInv, Connected, RunningIsConnected
<1>2. QED
  BY <1>1, Invariance, PTL

\* At most one request is on its way (proxy.py:204-205).
THEOREM OneAtATime == Spec => []OneRequest
<1>1. UpstreamInv => OneRequest
  BY DEF UpstreamInv, QueueInv, OneRequest
<1>2. QED
  BY <1>1, Invariance, PTL

\* The two log buffers are those of the last two connections
\* (README.md:178, proxy.py:130, 158, 168-172).
THEOREM LogsOfTwoRuns == Spec => []PreviousIsPrior
<1>1. UpstreamInv => PreviousIsPrior
  BY DEF UpstreamInv, RunInv, LogInv
<1>2. QED
  BY <1>1, Invariance, PTL

\* No list is made before the first handshake (server.py:491-504).
THEOREM CompleteListing == Spec => []ListingIsComplete
<1>1. UpstreamInv => ListingIsComplete
  BY DEF UpstreamInv, ListInv
<1>2. QED
  BY <1>1, Invariance, PTL

\* A stop that returned has ended the upstream (proxy.py:111-119, 148-175).
THEOREM FinalStop == Spec => []StopIsFinal
<1>1. UpstreamInv => StopIsFinal
  BY DEF UpstreamInv, RunInv, ProcsInv, SessionInv, StopInv, StopIsFinal,
         Connected
<1>2. QED
  BY <1>1, Invariance, PTL

\* A request is written to the session of the present connection, and not after
\* its context managers were left (proxy.py:145-150, 162, 205).
THEOREM OpenSession == Spec => SentToOpenSession
<1>1. UpstreamInv /\ [Next]_vars =>
        [\A c \in Callers :
           callPc[c] # "sent" /\ callPc'[c] = "sent" =>
             callConn'[c] = conn /\ taskPc \in Connected]_vars
  <2> SUFFICES ASSUME UpstreamInv, [Next]_vars, NEW c \in Callers,
                      callPc[c] # "sent", callPc'[c] = "sent"
               PROVE  callConn'[c] = conn /\ taskPc \in Connected
    OBVIOUS
  <2>1. session # None => session = conn /\ taskPc \in Connected
    BY DEF UpstreamInv, RunInv, SessionInv, Connected
  <2>2. ASSUME NEW d \in Callers, Call(d) \/ Resume(d) \/ Answer(d)
        PROVE  d = c /\ session # None /\ Send(c)
    BY <2>2 DEF UpstreamInv, QueueInv, Call, Resume, Answer, Send, Return,
                Available
  <2>3. \E d \in Callers : Call(d) \/ Resume(d) \/ Answer(d)
    <3>1. List \/ ListReady \/ ListTimeout => UNCHANGED callVars
      BY DEF List, ListReady, ListTimeout
    <3>2. ~UNCHANGED callVars
      BY DEF callVars
    <3>3. QED
      BY <3>1, <3>2, NextSplit, RunFrame, StopFrame DEF ClientNext, vars
  <2>4. callConn'[c] = session
    BY <2>2, <2>3 DEF UpstreamInv, QueueInv, Send
  <2>5. QED
    BY <2>1, <2>2, <2>3, <2>4
<1>2. QED
  BY <1>1, Invariance, PTL DEF Spec, SentToOpenSession

-----------------------------------------------------------------------------
(***************************************************************************)
(* A stop returns.                                                         *)
(***************************************************************************)

\* Once a stop was asked for the task is over or on its way out, and whoever
\* waits waits for a task that exists.
Ending == {"closing", "pumping", "ending", "cancelled"}

EndingInv ==
  /\ stopRequested => taskPc \in Ending \cup {"none", "done"}
  /\ \A s \in Stoppers : stopPc[s] = "waiting" => taskPc # "none"

\* The way out never leads back: it is left behind in at most two steps, the
\* first of which leaves the library's context managers.
LEMMA EndingStep ==
  ASSUME RunInv, stopRequested, taskPc \in Ending, [Next]_vars
  PROVE  /\ taskPc = "closing" => taskPc' \in Ending \cup {"done"}
         /\ taskPc # "closing" => taskPc' \in {taskPc, "done"}
         /\ TaskStep /\ taskPc = "closing" => taskPc' \in {"pumping", "ending"}
         /\ TaskStep /\ taskPc # "closing" => taskPc' = "done"
<1> USE DEF Ending
<1>1. ASSUME TaskStep
      PROVE  /\ taskPc = "closing" => taskPc' \in {"pumping", "ending"}
             /\ taskPc # "closing" => taskPc' = "done"
  BY <1>1 DEF TaskStep, FirstStep, Reconnect, Crashed, Closed, Pumped, Ended, NoRestart
<1>2. ASSUME ~TaskStep PROVE taskPc' = taskPc
  <2>1. CASE RunNext
    BY <1>2, <2>1 DEF RunNext, Start, Initialized, Refreshed, Output, Fail, ChildDies, runVars
  <2>2. CASE ClientNext
    BY <2>2, ClientFrame DEF runVars
  <2>3. CASE StopNext
    BY <2>3, StopFrame DEF Cancel
  <2>4. CASE UNCHANGED vars
    BY <2>4 DEF vars, runVars
  <2>5. QED
    BY <2>1, <2>2, <2>3, <2>4, NextSplit
<1>3. QED
  BY <1>1, <1>2

\* EndingInv is inductive with UpstreamInv.
LEMMA EndingInvariance == Spec => []EndingInv
<1>1. Init => EndingInv
  BY DEF Init, EndingInv
<1>2. UpstreamInv /\ EndingInv /\ [Next]_vars => EndingInv'
  <2> SUFFICES ASSUME UpstreamInv, EndingInv, [Next]_vars PROVE EndingInv'
    OBVIOUS
  <2>1. CASE RunNext
    <3>1. UNCHANGED <<stopRequested, stopPc>> /\ (taskPc # "none" => taskPc' # "none")
      BY <2>1, RunFrame
         DEF RunNext, TaskStep, Start, FirstStep, Reconnect, Connect, Initialized,
             Refreshed, Output, Fail, ChildDies, Crashed, Closed, Pumped, Ended, runVars
    <3>2. ASSUME stopRequested PROVE taskPc' \in Ending \cup {"none", "done"}
      <4>1. CASE taskPc \in Ending
        BY <3>2, <4>1, EndingStep DEF UpstreamInv, Ending
      <4>2. CASE taskPc \in {"none", "done"}
        BY <2>1, <3>2, <4>2, OverStays DEF UpstreamInv
      <4>3. QED
        BY <3>2, <4>1, <4>2 DEF EndingInv
    <3>3. QED
      BY <3>1, <3>2 DEF EndingInv
  <2>2. CASE ClientNext
    BY <2>2, ClientFrame DEF EndingInv, runVars
  <2>3. ASSUME NEW s \in Stoppers, Stop(s) PROVE EndingInv'
    <3>1. CASE TaskOver
      BY <2>3, <3>1 DEF Stop, TaskOver, Cancel, EndingInv, Ending, UpstreamInv, StopInv
    <3>2. CASE ~TaskOver
      BY <2>3, <3>2 DEF Stop, TaskOver, Cancel, EndingInv, Ending, UpstreamInv, StopInv,
         RunInv, RunTypeOK, TaskPc
    <3>3. QED
      BY <3>1, <3>2
  <2>4. ASSUME NEW s \in Stoppers, StopReturn(s) PROVE EndingInv'
    BY <2>4 DEF StopReturn, EndingInv, UpstreamInv, StopInv
  <2>5. CASE UNCHANGED vars
    BY <2>5 DEF vars, runVars, EndingInv
  <2>6. QED
    BY <2>1, <2>2, <2>3, <2>4, <2>5, NextSplit DEF StopNext
<1>3. QED
  BY <1>1, <1>2, Invariance, PTL DEF Spec

\* A stop that waits returns: the cancellation ends the task in a step or two,
\* also where it is swallowed while the pump is awaited, or the library answers
\* it with another exception (proxy.py:111-119, 148-175).
THEOREM StopsReturn == FairSpec /\ []Unblocked => StopReturns
<1>1. ASSUME NEW s \in Stoppers
      PROVE  FairSpec /\ []Unblocked
               => (stopPc[s] = "waiting" ~> stopPc[s] = "done")
  <2> DEFINE W == stopPc[s] = "waiting"
             D == stopPc[s] = "done"
             A == W /\ taskPc = "closing"
             B == W /\ taskPc \in Ending \ {"closing"}
             C == W /\ taskPc = "done"
  <2> DEFINE I == UpstreamInv /\ EndingInv
  <2>1. I /\ W => A \/ B \/ C
    BY DEF UpstreamInv, StopInv, EndingInv, Ending
  <2>2. I /\ W /\ [Next]_vars => W' \/ D'
    BY NextSplit, RunFrame, ClientFrame
       DEF StopNext, Stop, StopReturn, UpstreamInv, StopInv, vars
  <2>3. I /\ W /\ D' /\ [Next]_vars => taskPc = "done" \/ taskPc = "none"
    BY NextSplit, RunFrame, ClientFrame
       DEF StopNext, Stop, StopReturn, UpstreamInv, StopInv, vars, TaskOver
  <2>4. I /\ W => stopRequested /\ RunInv
    BY DEF UpstreamInv, StopInv
  <2>5. /\ I /\ A /\ [Next]_vars => A' \/ B' \/ C'
        /\ I /\ A /\ <<TaskStep>>_vars => B' \/ C'
        /\ I /\ B /\ [Next]_vars => B' \/ C'
        /\ I /\ B /\ <<TaskStep>>_vars => C'
    <3>1. ASSUME I, A \/ B, [Next]_vars PROVE W'
      BY <3>1, <2>2, <2>3 DEF Ending
    <3>2. ASSUME TaskStep PROVE [Next]_vars
      BY <3>2 DEF Next
    <3>3. QED
      BY <3>1, <3>2, <2>4, EndingStep DEF Ending
  <2>6. I /\ C /\ [Next]_vars => C' \/ D'
    <3>1. ASSUME I, C, [Next]_vars PROVE taskPc' = "done"
      BY <3>1, <2>4, NextSplit, OverStays, ClientFrame, StopFrame
         DEF runVars, vars, Cancel
    <3>2. QED
      BY <3>1, <2>2
  <2>7. I /\ C /\ <<StopReturn(s)>>_vars => D'
    BY DEF StopReturn, UpstreamInv, StopInv
  <2>8. Unblocked /\ (A \/ B) => ENABLED <<TaskStep>>_vars
    BY DEF Unblocked, Ending
  <2>9. Unblocked /\ C => ENABLED <<StopReturn(s)>>_vars
    BY DEF Unblocked
  <2>10. FairSpec => TaskGoesOn /\ StopGoesOn(s) /\ Spec
    BY DEF FairSpec
  <2>11. Spec => []I
    BY Invariance, EndingInvariance, PTL
  <2>12. (W <=> stopPc[s] = "waiting") /\ (D <=> stopPc[s] = "done")
    OBVIOUS
  <2> HIDE DEF W, D, A, B, C, I
  <2>13. QED
    BY <2>1, <2>2, <2>5, <2>6, <2>7, <2>8, <2>9, <2>10, <2>11, <2>12, PTL
       DEF Spec, TaskGoesOn, StopGoesOn
<1>2. QED
  BY <1>1 DEF StopReturns

=============================================================================
