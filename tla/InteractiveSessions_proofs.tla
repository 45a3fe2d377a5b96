---------------------- MODULE InteractiveSessions_proofs ----------------------
(***************************************************************************)
(* Proofs about InteractiveSessions, for any callers, registry capacity    *)
(* and bounds.                                                             *)
(***************************************************************************)
EXTENDS InteractiveSessions, TLAPS

\* The types of the child, the session and the registry, and those of the calls.
SessionTypeOK ==
  /\ proc \in [Session -> {"none", "forked", "leader", "dead", "reaped"}]
  /\ printed \in [Session -> 0..MaxChunks] /\ absorbed \in [Session -> 0..MaxChunks]
  /\ killed \subseteq Session /\ nSessions \in 0..MaxSessions
  /\ attached \in [Session -> BOOLEAN]
  /\ reapPc \in [Session -> {"none", "polling", "caught", "resuming", "done"}]
  /\ exited \in [Session -> BOOLEAN]
  /\ registry \subseteq Session
  /\ \A s \in Session : exited[s] => ~attached[s]

CallTypeOK ==
  /\ waiters \in [Session -> SUBSET Callers]
  /\ callPc \in [Callers -> {"idle", "waiting", "term", "kill"}]
  /\ callQueue \in [Callers -> SUBSET Session]
  /\ searching \subseteq Callers /\ seen \in [Callers -> 0..MaxChunks]

LEMMA TypeParts == TypeOK <=> SessionTypeOK /\ CallTypeOK
BY DEF TypeOK, SessionTypeOK, CallTypeOK

\* A session that was not started yet has no child, no reap task and no exit.
Fresh ==
  \A s \in Session :
    s > nSessions => proc[s] = "none" /\ reapPc[s] = "none" /\ ~exited[s]

\* Whoever has a future pending waits for that one session.
WaitInv ==
  /\ \A c \in Callers :
       callPc[c] = "waiting" => \E s \in Session : callQueue[c] = {s}
  /\ \A s \in Session : \A c \in waiters[s] :
       /\ callPc[c] = "waiting" /\ callQueue[c] = {s}
       /\ seen[c] = absorbed[s] /\ ~exited[s]

SessionsInv ==
  /\ SessionTypeOK /\ CallTypeOK
  /\ Fresh /\ LiveIsListed /\ WaitInv

\* A step of a child, a session or the registry, and a step of a call.
SessionNext ==
  \/ Start
  \/ \E s \in Session :
       \/ Setsid(s) \/ Write(s) \/ Exit(s) \/ OnReadable(s)
       \/ Poll(s) \/ TakeResult(s) \/ Reaped(s)

CallNext ==
  \E c \in Callers :
    \/ Read(c) \/ Send(c) \/ TimesOut(c) \/ Resume(c)
    \/ Close(c) \/ GraceExpires(c) \/ CloseReturns(c)

-----------------------------------------------------------------------------
(***************************************************************************)
(* The steps of the sessions.                                              *)
(***************************************************************************)

\* They leave the calls alone, but for those they wake.
LEMMA SessionFrame ==
  ASSUME SessionTypeOK, CallTypeOK, SessionNext
  PROVE  /\ UNCHANGED <<callPc, callQueue, searching, seen>>
         /\ waiters' \in [Session -> SUBSET Callers]
         /\ \A s \in Session :
              \/ waiters'[s] = {}
              \/ waiters'[s] = waiters[s] /\ absorbed'[s] = absorbed[s]
                                          /\ exited'[s] = exited[s]
<1> USE DEF SessionTypeOK, CallTypeOK, callVars, sessVars
<1>1. CASE Start
  BY <1>1 DEF Start
<1>2. ASSUME NEW s \in Session,
             Setsid(s) \/ Write(s) \/ Exit(s) \/ Poll(s)
      PROVE  UNCHANGED <<callVars, waiters, absorbed, exited>>
  BY <1>2 DEF Setsid, Write, Exit, Poll
<1>3. ASSUME NEW s \in Session, OnReadable(s)
      PROVE  /\ UNCHANGED <<callVars, exited>>
             /\ absorbed' = [absorbed EXCEPT ![s] = @ + 1]
             /\ waiters' = [waiters EXCEPT ![s] = {}]
  BY <1>3 DEF OnReadable, Absorb, Wake
<1>4. ASSUME NEW s \in Session, TakeResult(s)
      PROVE  /\ UNCHANGED <<callVars, exited>>
             /\ \/ UNCHANGED <<absorbed, waiters>>
                \/ /\ absorbed' = [absorbed EXCEPT ![s] = @ + 1]
                   /\ waiters' = [waiters EXCEPT ![s] = {}]
  BY <1>4 DEF TakeResult, Absorb, Wake
<1>5. ASSUME NEW s \in Session, Reaped(s)
      PROVE  /\ UNCHANGED <<callVars, absorbed>>
             /\ exited' = [exited EXCEPT ![s] = TRUE]
             /\ waiters' = [waiters EXCEPT ![s] = {}]
  BY <1>5 DEF Reaped, Wake
<1>6. QED
  BY <1>1, <1>2, <1>3, <1>4, <1>5 DEF SessionNext

\* Eviction drops sessions that have exited, and no other.
LEMMA EvictedKeepsLive ==
  ASSUME NEW reg
  PROVE  /\ Evicted(reg) \subseteq reg
         /\ \A s \in reg : ~exited[s] => s \in Evicted(reg)
BY DEF Evicted

LEMMA SessionStep ==
  ASSUME SessionTypeOK, Fresh, LiveIsListed, SessionNext
  PROVE  SessionTypeOK' /\ Fresh' /\ LiveIsListed'
<1> USE SessionAssumption
    DEF SessionTypeOK, Fresh, LiveIsListed, Session, osVars, sessVars
<1>1. CASE Start
  <2> DEFINE n == nSessions + 1
  <2>1. /\ n \in Session /\ nSessions' = n /\ nSessions' \in 0..MaxSessions
        /\ proc' = [proc EXCEPT ![n] = "forked"]
        /\ attached' = [attached EXCEPT ![n] = TRUE]
        /\ reapPc' = [reapPc EXCEPT ![n] = "polling"]
        /\ registry' = Evicted(registry \cup {n})
        /\ UNCHANGED <<printed, killed, absorbed, exited>>
    BY <1>1 DEF Start
  <2>2. ~exited[n]
    BY <2>1
  <2>3. /\ registry' \subseteq registry \cup {n}
        /\ \A s \in registry \cup {n} : ~exited[s] => s \in registry'
    BY <2>1, EvictedKeepsLive
  <2> HIDE DEF n
  <2>4. /\ proc' \in [Session -> {"none", "forked", "leader", "dead", "reaped"}]
        /\ attached' \in [Session -> BOOLEAN]
        /\ reapPc' \in [Session -> {"none", "polling", "caught", "resuming", "done"}]
        /\ registry' \subseteq Session
    BY <2>1, <2>3
  <2>5. \A s \in Session : exited'[s] => ~attached'[s]
    BY <2>1, <2>2
  <2>6. SessionTypeOK'
    BY <2>1, <2>4, <2>5
  <2>7. Fresh'
    BY <2>1 DEF n
  <2>8. LiveIsListed'
    <3>1. ASSUME NEW s \in 1..n, ~exited[s] PROVE s \in registry'
      <4>1. s \in 1..nSessions \/ s = n
        BY DEF n
      <4>2. s \in registry \cup {n}
        BY <3>1, <4>1
      <4>3. QED
        BY <2>3, <3>1, <4>2
    <3>2. QED
      BY <2>1, <3>1
  <2>9. QED
    BY <2>6, <2>7, <2>8
<1>2. ASSUME NEW s \in Session,
             \/ Setsid(s) \/ Write(s) \/ Exit(s) \/ OnReadable(s)
             \/ Poll(s) \/ TakeResult(s)
      PROVE  SessionTypeOK' /\ Fresh' /\ LiveIsListed'
  <2>1. UNCHANGED <<nSessions, attached, exited, registry>> /\ killed' \subseteq Session
    BY <1>2 DEF Setsid, Write, Exit, OnReadable, Poll, TakeResult
  <2>2. /\ proc' \in [Session -> {"none", "forked", "leader", "dead", "reaped"}]
        /\ \A t \in Session : proc[t] = "none" => proc'[t] = "none"
    BY <1>2 DEF Setsid, Write, Exit, OnReadable, Poll, TakeResult
  <2>3. /\ reapPc' \in [Session -> {"none", "polling", "caught", "resuming", "done"}]
        /\ \A t \in Session : reapPc[t] = "none" => reapPc'[t] = "none"
    <3>1. CASE Setsid(s) \/ Write(s) \/ Exit(s) \/ OnReadable(s)
      BY <3>1 DEF Setsid, Write, Exit, OnReadable
    <3>2. CASE Poll(s) \/ TakeResult(s)
      <4>1. PICK r \in {"polling", "caught", "resuming"} :
              reapPc[s] # "none" /\ reapPc' = [reapPc EXCEPT ![s] = r]
        BY <3>2 DEF Poll, TakeResult, AfterEmptyPoll
      <4>2. QED
        BY <4>1
    <3>3. QED
      BY <1>2, <3>1, <3>2
  <2>4. printed' \in [Session -> 0..MaxChunks]
    <3>1. CASE UNCHANGED printed
      BY <3>1
    <3>2. CASE Write(s)
      <4>1. printed' = [printed EXCEPT ![s] = @ + 1] /\ printed[s] < MaxChunks
        BY <3>2 DEF Write
      <4>2. printed[s] + 1 \in 0..MaxChunks
        BY <4>1, SessionAssumption
      <4>3. QED
        BY <4>1, <4>2
    <3>3. UNCHANGED printed \/ Write(s)
      BY <1>2 DEF Setsid, Exit, OnReadable, Poll, TakeResult
    <3>4. QED
      BY <3>1, <3>2, <3>3
  <2>5. absorbed' \in [Session -> 0..MaxChunks]
    <3>1. CASE UNCHANGED absorbed
      BY <3>1
    <3>2. CASE Readable(s) /\ Absorb(s)
      <4>1. absorbed' = [absorbed EXCEPT ![s] = @ + 1] /\ absorbed[s] < printed[s]
        BY <3>2 DEF Readable, Absorb
      <4>2. absorbed[s] + 1 \in 0..MaxChunks
        BY <4>1, SessionAssumption
      <4>3. QED
        BY <4>1, <4>2
    <3>3. UNCHANGED absorbed \/ (Readable(s) /\ Absorb(s))
      BY <1>2 DEF Setsid, Write, Exit, OnReadable, Poll, TakeResult
    <3>4. QED
      BY <3>1, <3>2, <3>3
  <2>6. SessionTypeOK'
    BY <2>1, <2>2, <2>3, <2>4, <2>5
  <2>7. Fresh' /\ LiveIsListed'
    BY <2>1, <2>2, <2>3
  <2>8. QED
    BY <2>6, <2>7
<1>3. ASSUME NEW s \in Session, Reaped(s)
      PROVE  SessionTypeOK' /\ Fresh' /\ LiveIsListed'
  <2>1. /\ reapPc[s] = "resuming" /\ reapPc' = [reapPc EXCEPT ![s] = "done"]
        /\ exited' = [exited EXCEPT ![s] = TRUE]
        /\ attached' = [attached EXCEPT ![s] = FALSE]
        /\ UNCHANGED <<proc, printed, killed, nSessions, absorbed, registry>>
    BY <1>3 DEF Reaped
  <2>2. SessionTypeOK'
    BY <2>1
  <2>3. Fresh' /\ LiveIsListed'
    BY <2>1
  <2>4. QED
    BY <2>2, <2>3
<1>4. QED
  BY <1>1, <1>2, <1>3 DEF SessionNext

-----------------------------------------------------------------------------
(***************************************************************************)
(* The steps of the calls.                                                 *)
(***************************************************************************)

\* They leave the sessions alone, but for a signal.
LEMMA CallFrame ==
  ASSUME SessionTypeOK, CallNext
  PROVE  /\ UNCHANGED <<proc, printed, nSessions, sessVars, registry>>
         /\ killed' \subseteq Session
<1>1. ASSUME NEW c \in Callers,
             \/ Read(c) \/ Send(c) \/ TimesOut(c) \/ Resume(c)
             \/ Close(c) \/ CloseReturns(c)
      PROVE  UNCHANGED <<osVars, sessVars, registry>>
  BY <1>1 DEF Read, Send, TimesOut, Resume, Close, CloseReturns
<1>2. ASSUME NEW c \in Callers, GraceExpires(c)
      PROVE  /\ UNCHANGED <<proc, printed, nSessions, sessVars, registry>>
             /\ killed' \subseteq Session
  BY <1>2 DEF GraceExpires, KillTree, SessionTypeOK
<1>3. killed \subseteq Session
  BY DEF SessionTypeOK
<1>4. ASSUME UNCHANGED <<osVars, sessVars, registry>>
      PROVE  /\ UNCHANGED <<proc, printed, nSessions, sessVars, registry>>
             /\ killed' \subseteq Session
  BY <1>3, <1>4 DEF osVars
<1>5. QED
  BY <1>1, <1>2, <1>4 DEF CallNext

CallInv == CallTypeOK /\ WaitInv

\* A call that is done leaves no future behind.
LEMMA ReturnStep ==
  ASSUME CallInv, NEW c \in Callers, \A t \in Session : c \notin waiters[t],
         Return(c), UNCHANGED <<absorbed, exited, waiters>>
  PROVE  CallInv'
<1> USE SessionAssumption DEF CallInv, CallTypeOK, WaitInv, Return, Enter
<1>1. CallTypeOK'
  OBVIOUS
<1>2. \A d \in Callers \ {c} : /\ callPc'[d] = callPc[d] /\ callQueue'[d] = callQueue[d]
                             /\ seen'[d] = seen[d]
  OBVIOUS
<1>3. WaitInv'
  BY <1>2
<1>4. QED
  BY <1>1, <1>3

\* A call that goes to sleep has seen what there is.
LEMMA AwaitStep ==
  ASSUME SessionTypeOK, CallInv, NEW c \in Callers, NEW s \in Session,
         NEW w \in BOOLEAN, ~exited[s], \A t \in Session : c \notin waiters[t],
         AwaitOutput(c, s, w), UNCHANGED <<absorbed, exited>>
  PROVE  CallInv'
<1> USE DEF CallInv, CallTypeOK, WaitInv
<1>1. /\ callPc' = [callPc EXCEPT ![c] = "waiting"]
      /\ callQueue' = [callQueue EXCEPT ![c] = {s}]
      /\ searching' \subseteq searching \cup {c} /\ seen' = [seen EXCEPT ![c] = absorbed[s]]
      /\ waiters' = [waiters EXCEPT ![s] = @ \cup {c}]
  BY DEF AwaitOutput, Enter
<1>2. CallTypeOK'
  <2>1. absorbed[s] \in 0..MaxChunks
    BY DEF SessionTypeOK
  <2>2. QED
    BY <1>1, <2>1
<1>3. \A t \in Session \ {s} : c \notin waiters[t]
  OBVIOUS
<1>4. WaitInv'
  BY <1>1, <1>3
<1>5. QED
  BY <1>2, <1>4

\* A round of a search is one or the other.
LEMMA SearchStep ==
  ASSUME SessionTypeOK, CallInv, NEW c \in Callers, NEW s \in Session,
         \A t \in Session : c \notin waiters[t],
         Search(c, s), UNCHANGED <<absorbed, exited>>
  PROVE  CallInv'
<1>1. CASE Return(c) /\ UNCHANGED waiters
  BY <1>1, ReturnStep
<1>2. CASE ~exited[s] /\ AwaitOutput(c, s, TRUE)
  BY <1>2, AwaitStep
<1>3. QED
  BY <1>1, <1>2 DEF Search, GivesUp

\* A call that closes sessions has no future.
LEMMA CloseStep1 ==
  ASSUME CallInv, NEW c \in Callers, NEW queue \in SUBSET Session,
         callPc[c] # "waiting", CloseFirst(c, queue),
         UNCHANGED <<absorbed, exited, waiters>>
  PROVE  CallInv'
<1> USE SessionAssumption
    DEF CallInv, CallTypeOK, WaitInv, CloseFirst, Return, Enter
<1>1. \A t \in Session : c \notin waiters[t]
  OBVIOUS
<1>2. /\ callPc' \in [Callers -> {"idle", "waiting", "term", "kill"}]
      /\ callQueue' \in [Callers -> SUBSET Session]
      /\ searching' \subseteq Callers /\ seen' \in [Callers -> 0..MaxChunks]
      /\ callPc'[c] # "waiting"
      /\ \A d \in Callers \ {c} : /\ callPc'[d] = callPc[d] /\ callQueue'[d] = callQueue[d]
                                  /\ seen'[d] = seen[d]
  OBVIOUS
<1> HIDE DEF CloseFirst
<1>3. QED
  BY <1>1, <1>2

LEMMA CallNextStep ==
  ASSUME SessionTypeOK, CallInv, CallNext PROVE CallInv'
<1> USE SessionAssumption DEF sessVars
<1>1. PICK c \in Callers :
        \/ Read(c) \/ Send(c) \/ TimesOut(c) \/ Resume(c)
        \/ Close(c) \/ GraceExpires(c) \/ CloseReturns(c)
  BY DEF CallNext
<1>2. UNCHANGED <<absorbed, exited>>
  BY CallFrame
<1>3. CASE Read(c) \/ Send(c)
  <2>1. PICK s \in registry : Await(c, s)
    BY <1>3 DEF Read, Send
  <2>2. s \in Session /\ \A t \in Session : c \notin waiters[t]
    BY <1>3 DEF Read, Send, SessionTypeOK, CallInv, WaitInv
  <2>3. CASE Search(c, s)
    BY <1>2, <2>2, <2>3, SearchStep
  <2>4. CASE ~exited[s] /\ AwaitOutput(c, s, FALSE)
    BY <1>2, <2>2, <2>4, AwaitStep
  <2>5. QED
    BY <2>1, <2>3, <2>4 DEF Await
<1>t. CASE TimesOut(c)
  <2>1. PICK s \in Session : waiters' = [waiters EXCEPT ![s] = @ \ {c}]
    BY <1>t DEF TimesOut, CallInv, CallTypeOK
  <2>2. UNCHANGED callVars
    BY <1>t DEF TimesOut
  <2>3. QED
    BY <1>2, <2>1, <2>2 DEF CallInv, CallTypeOK, WaitInv, callVars
<1>4. CASE Resume(c)
  <2>1. PICK s \in callQueue[c] :
          /\ c \notin waiters[s]
          /\ Search(c, s) \/ (Return(c) /\ UNCHANGED waiters)
    BY <1>4 DEF Resume
  <2>2. s \in Session /\ \A t \in Session : c \notin waiters[t]
    BY <1>4, <2>1 DEF Resume, CallInv, CallTypeOK, WaitInv
  <2>3. CASE Search(c, s)
    BY <1>2, <2>2, <2>3, SearchStep
  <2>4. CASE Return(c) /\ UNCHANGED waiters
    BY <1>2, <2>2, <2>4, ReturnStep
  <2>5. QED
    BY <2>1, <2>3, <2>4
<1>5. CASE Close(c)
  <2>1. PICK queue \in SUBSET Session : CloseFirst(c, queue)
    BY <1>5 DEF Close, SessionTypeOK
  <2>2. QED
    BY <1>2, <1>5, <2>1, CloseStep1 DEF Close
<1>6. CASE CloseReturns(c)
  <2>1. PICK s \in Session : CloseFirst(c, callQueue[c] \ {s})
    BY <1>6 DEF CloseReturns
  <2>2. callQueue[c] \ {s} \in SUBSET Session
    BY DEF CallInv, CallTypeOK
  <2>3. callPc[c] # "waiting" /\ UNCHANGED waiters
    BY <1>6 DEF CloseReturns
  <2>4. QED
    BY <1>2, <2>1, <2>2, <2>3, CloseStep1
<1>7. CASE GraceExpires(c)
  BY <1>2, <1>7 DEF GraceExpires, CallInv, CallTypeOK, WaitInv
<1>8. QED
  BY <1>1, <1>3, <1>t, <1>4, <1>5, <1>6, <1>7

-----------------------------------------------------------------------------

\* The inductive invariant holds in every reachable state
\* (interactive.py:91-149, 184-211, 242-302).
THEOREM Invariance == Spec => []SessionsInv
<1>1. Init => SessionsInv
  BY SessionAssumption
  DEF Init, SessionsInv, SessionTypeOK, CallTypeOK, Fresh, LiveIsListed, WaitInv,
      Session
<1>2. SessionsInv /\ [Next]_vars => SessionsInv'
  <2> SUFFICES ASSUME SessionsInv, [Next]_vars PROVE SessionsInv'
    OBVIOUS
  <2> USE DEF SessionsInv
  <2>1. CASE SessionNext
    <3>1. SessionTypeOK' /\ Fresh' /\ LiveIsListed'
      BY <2>1, SessionStep
    <3>2. CallTypeOK' /\ WaitInv'
      BY <2>1, SessionFrame DEF CallTypeOK, WaitInv
    <3>3. QED
      BY <3>1, <3>2
  <2>2. CASE CallNext
    <3>1. CallTypeOK' /\ WaitInv'
      BY <2>2, CallNextStep DEF CallInv
    <3>2. SessionTypeOK' /\ Fresh' /\ LiveIsListed'
      BY <2>2, CallFrame DEF SessionTypeOK, Fresh, LiveIsListed, sessVars
    <3>3. QED
      BY <3>1, <3>2
  <2>3. CASE UNCHANGED vars
    BY <2>3 DEF vars, osVars, sessVars, callVars, SessionTypeOK, CallTypeOK, Fresh,
                LiveIsListed, WaitInv
  <2>4. QED
    BY <2>1, <2>2, <2>3 DEF Next, SessionNext, CallNext
<1>3. QED
  BY <1>1, <1>2, PTL DEF Spec

\* Type correctness, and no terminal after the exit (interactive.py:44-55,
\* 110-117).
THEOREM TypeCorrect == Spec => []TypeOK
<1>1. SessionsInv => TypeOK
  BY TypeParts DEF SessionsInv
<1>2. QED
  BY <1>1, Invariance, PTL

\* A living session stays in the registry, however many there are
\* (interactive.py:295-302).
THEOREM LiveListed == Spec => []LiveIsListed
<1>1. SessionsInv => LiveIsListed
  BY DEF SessionsInv
<1>2. QED
  BY <1>1, Invariance, PTL

\* No wake-up is lost: whoever sleeps has seen everything
\* (interactive.py:114-117, 146-149, 184-211).
THEOREM NoLostWakeup == Spec => []NobodyOversleeps
<1>1. SessionsInv => NobodyOversleeps
  BY DEF SessionsInv, WaitInv, NobodyOversleeps
<1>2. QED
  BY <1>1, Invariance, PTL

-----------------------------------------------------------------------------
(***************************************************************************)
(* An exit is noticed, and a session that is closed ends.                  *)
(***************************************************************************)

\* Only a session that was started is in the registry or in a call's queue.  How
\* far the reap task is tells what became of the child.
StartedInv ==
  /\ registry \subseteq 1..nSessions
  /\ \A c \in Callers : callQueue[c] \subseteq 1..nSessions

ReapInv ==
  \A s \in 1..nSessions :
    /\ proc[s] # "none"
    /\ proc[s] \in {"forked", "leader", "dead"} <=> reapPc[s] = "polling"
    /\ reapPc[s] # "none"
    /\ exited[s] <=> reapPc[s] = "done"

EndInv == StartedInv /\ ReapInv

\* What one step may do to a session.
LEMMA SessionMoves ==
  ASSUME SessionsInv, NEW s \in 1..nSessions, [Next]_vars
  PROVE  \/ ReapStep(s) \/ Setsid(s) \/ Exit(s)
         \/ UNCHANGED <<proc[s], reapPc[s], exited[s]>>
<1> s \in Session
  BY SessionAssumption DEF SessionsInv, SessionTypeOK, Session
<1> USE DEF SessionsInv, SessionTypeOK, sessVars, osVars
<1>1. CASE SessionNext
  <2>1. CASE Start
    <3>1. s # nSessions'
      BY <2>1, SessionAssumption DEF Start, Session
    <3>2. QED
      BY <2>1, <3>1 DEF Start
  <2>2. ASSUME NEW r \in Session,
               \/ Setsid(r) \/ Write(r) \/ Exit(r) \/ OnReadable(r)
               \/ Poll(r) \/ TakeResult(r) \/ Reaped(r)
        PROVE  \/ ReapStep(s) \/ Setsid(s) \/ Exit(s)
               \/ UNCHANGED <<proc[s], reapPc[s], exited[s]>>
    <3>1. CASE r = s
      BY <2>2, <3>1 DEF ReapStep, Write, OnReadable, Absorb
    <3>2. CASE r # s
      BY <2>2, <3>2 DEF Setsid, Write, Exit, OnReadable, Poll, TakeResult, Reaped
    <3>3. QED
      BY <3>1, <3>2
  <2>3. QED
    BY <1>1, <2>1, <2>2 DEF SessionNext
<1>2. CASE CallNext
  BY <1>2, CallFrame
<1>3. CASE UNCHANGED vars
  BY <1>3 DEF vars
<1>4. QED
  BY <1>1, <1>2, <1>3 DEF Next, SessionNext, CallNext

\* The reap task of a session goes from polling to its end.
LEMMA ReapMoves ==
  ASSUME SessionsInv, NEW s \in Session, ReapStep(s)
  PROVE  /\ proc[s] = "dead" /\ reapPc[s] = "polling"
              => proc'[s] = "reaped" /\ reapPc'[s] = "caught"
         /\ proc[s] # "dead" \/ reapPc[s] # "polling" => proc'[s] = proc[s]
         /\ reapPc[s] = "polling" /\ proc[s] # "dead" => reapPc'[s] = "polling"
         /\ reapPc[s] = "caught" => reapPc'[s] = "resuming"
         /\ reapPc[s] = "resuming" => reapPc'[s] = "done" /\ exited'[s]
         /\ reapPc[s] # "resuming" => exited'[s] = exited[s]
         /\ reapPc[s] \in {"polling", "caught", "resuming"}
BY DEF SessionsInv, SessionTypeOK, ReapStep, Poll, TakeResult, Reaped,
       AfterEmptyPoll, osVars, sessVars

\* A call takes the sessions of its queue from the registry.
LEMMA QueueMoves ==
  ASSUME CallTypeOK, CallNext
  PROVE  \A c \in Callers : callQueue'[c] \subseteq callQueue[c] \cup registry
<1> USE DEF CallTypeOK
<1>1. ASSUME NEW d \in Callers, NEW s \in Session, NEW w,
             s \in registry \cup callQueue[d], AwaitOutput(d, s, w) \/ Return(d)
      PROVE  \A c \in Callers : callQueue'[c] \subseteq callQueue[c] \cup registry
  BY <1>1 DEF AwaitOutput, Return, Enter
<1>2. ASSUME NEW d \in Callers, NEW queue \in SUBSET (callQueue[d] \cup registry),
             CloseFirst(d, queue)
      PROVE  \A c \in Callers : callQueue'[c] \subseteq callQueue[c] \cup registry
  BY <1>2 DEF CloseFirst, Return, Enter
<1>3. ASSUME NEW d \in Callers, Read(d) \/ Send(d) \/ Resume(d)
      PROVE  \A c \in Callers : callQueue'[c] \subseteq callQueue[c] \cup registry
  <2>1. \E s \in registry \cup callQueue[d] : \E w : AwaitOutput(d, s, w) \/ Return(d)
    BY <1>3 DEF Read, Send, Resume, Await, Search
  <2>2. QED
    BY <2>1 DEF AwaitOutput, Return, Enter
<1>4. ASSUME NEW d \in Callers, Close(d)
      PROVE  \A c \in Callers : callQueue'[c] \subseteq callQueue[c] \cup registry
  BY <1>2, <1>4 DEF Close
<1>5. ASSUME NEW d \in Callers, TimesOut(d) \/ GraceExpires(d)
      PROVE  \A c \in Callers : callQueue'[c] \subseteq callQueue[c] \cup registry
  BY <1>5 DEF TimesOut, GraceExpires, callVars
<1>6. ASSUME NEW d \in Callers, CloseReturns(d)
      PROVE  \A c \in Callers : callQueue'[c] \subseteq callQueue[c] \cup registry
  <2>1. PICK s \in Session : CloseFirst(d, callQueue[d] \ {s})
    BY <1>6 DEF CloseReturns
  <2>2. QED
    BY <1>2, <2>1
<1>7. QED
  BY <1>3, <1>4, <1>5, <1>6 DEF CallNext

\* A close that waits for a session goes on by sending SIGKILL, for as long as the
\* session has not exited.
LEMMA GraceMoves ==
  ASSUME SessionsInv, NEW c \in Callers, NEW s \in Session,
         callPc[c] = "term", Turn(c, s), ~exited[s], CloseStep(c)
  PROVE  /\ callPc'[c] = "kill" /\ proc[s] # "forked"
         /\ proc[s] = "leader" => proc'[s] = "leader" /\ s \in killed'
<1> USE DEF SessionsInv, CallTypeOK
<1>1. \A k \in Session : Turn(c, k) => k = s
  <2>1. \A k \in Session : k \in Int
    BY SessionAssumption DEF Session
  <2>2. \A k \in Session : Turn(c, k) => k <= s /\ s <= k
    BY DEF Turn
  <2>3. QED
    BY <2>1, <2>2
<1>2. GraceExpires(c)
  BY <1>1 DEF CloseStep, CloseReturns
<1>3. proc[s] # "forked" /\ KillTree(s)
  BY <1>1, <1>2 DEF GraceExpires
<1>4. QED
  BY <1>2, <1>3 DEF GraceExpires, KillTree

\* A step of a call leaves the other calls alone.
LEMMA OthersKeep ==
  ASSUME CallTypeOK, NEW c \in Callers, NEW d \in Callers \ {c},
         \/ Read(d) \/ Send(d) \/ TimesOut(d) \/ Resume(d)
         \/ Close(d) \/ GraceExpires(d) \/ CloseReturns(d)
  PROVE  callPc'[c] = callPc[c] /\ callQueue'[c] = callQueue[c]
<1> USE DEF CallTypeOK
<1>1. ASSUME NEW t, NEW w, AwaitOutput(d, t, w) \/ Return(d)
      PROVE  callPc'[c] = callPc[c] /\ callQueue'[c] = callQueue[c]
  BY <1>1 DEF AwaitOutput, Return, Enter
<1>2. ASSUME NEW queue, CloseFirst(d, queue)
      PROVE  callPc'[c] = callPc[c] /\ callQueue'[c] = callQueue[c]
  BY <1>2 DEF CloseFirst, Return, Enter
<1>3. CASE Read(d) \/ Send(d) \/ Resume(d)
  BY <1>1, <1>3 DEF Read, Send, Resume, Await, Search
<1>4. CASE Close(d) \/ CloseReturns(d)
  BY <1>2, <1>4 DEF Close, CloseReturns
<1>5. CASE TimesOut(d) \/ GraceExpires(d)
  BY <1>5 DEF TimesOut, GraceExpires, callVars
<1>6. QED
  BY <1>3, <1>4, <1>5

\* Once exited, always exited.
LEMMA SessionMonotone ==
  ASSUME SessionTypeOK, CallTypeOK, SessionNext, NEW s \in Session, exited[s]
  PROVE  exited'[s]
<1>1. ASSUME NEW r \in Session, Reaped(r) PROVE exited'[s]
  BY <1>1 DEF Reaped, SessionTypeOK
<1>2. QED
  BY <1>1 DEF SessionNext, Start, Setsid, Write, Exit, OnReadable, Poll, TakeResult, sessVars

\* Until then it waits on: nobody else touches its queue.
LEMMA CloseMoves ==
  ASSUME SessionsInv, NEW c \in Callers, NEW s \in Session,
         callPc[c] = "term", Turn(c, s), ~exited[s], [Next]_vars
  PROVE  CloseStep(c) \/ (callPc'[c] = "term" /\ Turn(c, s)')
<1> USE DEF SessionsInv, CallTypeOK
<1>1. CASE SessionNext
  BY <1>1, SessionFrame DEF Turn
<1>3. CASE CallNext
  <2>1. PICK d \in Callers :
          \/ Read(d) \/ Send(d) \/ TimesOut(d) \/ Resume(d)
          \/ Close(d) \/ GraceExpires(d) \/ CloseReturns(d)
    BY <1>3 DEF CallNext
  <2>2. CASE d = c
    BY <2>1, <2>2 DEF Read, Send, TimesOut, Resume, Close, CloseStep, callVars, Turn
  <2>3. CASE d # c
    BY <2>1, <2>3, OthersKeep DEF Turn
  <2>4. QED
    BY <2>2, <2>3
<1>4. CASE UNCHANGED vars
  BY <1>4 DEF vars, callVars, Turn
<1>5. QED
  BY <1>1, <1>3, <1>4 DEF Next, SessionNext, CallNext

\* A group that was sent SIGKILL stays so while it lives.
LEMMA KilledStays ==
  ASSUME SessionsInv, NEW s \in killed, [Next]_vars
  PROVE  s \in killed' \/ proc'[s] = "dead"
<1>1. CASE SessionNext
  <2>1. ASSUME NEW k \in Session, Exit(k) PROVE s \in killed' \/ proc'[s] = "dead"
    BY <2>1 DEF Exit, SessionsInv, SessionTypeOK
  <2>2. QED
    BY <1>1, <2>1 DEF SessionNext, Start, Setsid, Write, OnReadable, Poll, TakeResult,
                      Reaped, osVars
<1>2. CASE CallNext
  BY <1>2 DEF CallNext, Read, Send, TimesOut, Resume, Close, GraceExpires, CloseReturns,
              KillTree, osVars
<1>3. CASE UNCHANGED vars
  BY <1>3 DEF vars, osVars
<1>4. QED
  BY <1>1, <1>2, <1>3 DEF Next, SessionNext, CallNext

\* A session that has or had a child was started.
LEMMA Started ==
  ASSUME SessionsInv, NEW s \in Session, proc[s] # "none"
  PROVE  s \in 1..nSessions
<1>1. nSessions \in Nat /\ s \in Nat /\ s >= 1 /\ ~(s > nSessions)
  BY SessionAssumption DEF SessionsInv, SessionTypeOK, Fresh, Session
<1>2. QED
  BY <1>1

\* EndInv is inductive with SessionsInv.
LEMMA EndInvariance == Spec => []EndInv
<1>1. Init => EndInv
  BY SessionAssumption DEF Init, EndInv, StartedInv, ReapInv
<1>2. SessionsInv /\ EndInv /\ [Next]_vars => EndInv'
  <2> SUFFICES ASSUME SessionsInv, EndInv, [Next]_vars PROVE EndInv'
    OBVIOUS
  <2>1. /\ nSessions \in Nat /\ nSessions' \in {nSessions, nSessions + 1}
        /\ ~Start => nSessions' = nSessions
    <3>1. nSessions \in Nat
      BY SessionAssumption DEF SessionsInv, SessionTypeOK
    <3>2. CASE SessionNext
      BY <3>1, <3>2 DEF SessionNext, Start, Setsid, Write, Exit, OnReadable, Poll,
                        TakeResult, Reaped, osVars
    <3>3. CASE CallNext
      BY <3>1, <3>3, CallFrame DEF SessionsInv
    <3>4. CASE UNCHANGED vars
      BY <3>1, <3>4 DEF vars, osVars
    <3>5. QED
      BY <3>2, <3>3, <3>4 DEF Next, SessionNext, CallNext
  <2>2. ReapInv'
    <3>1. ASSUME NEW s \in 1..nSessions
          PROVE  /\ proc'[s] # "none"
                 /\ proc'[s] \in {"forked", "leader", "dead"}
                      <=> reapPc'[s] = "polling"
                 /\ reapPc'[s] # "none"
                 /\ exited'[s] <=> reapPc'[s] = "done"
      <4> s \in Session
        BY SessionAssumption DEF SessionsInv, SessionTypeOK, Session
      <4>1. CASE ReapStep(s)
        BY <4>1, ReapMoves DEF EndInv, ReapInv, SessionsInv, SessionTypeOK
      <4>2. CASE Setsid(s) \/ Exit(s)
        BY <4>2 DEF EndInv, ReapInv, SessionsInv, SessionTypeOK, Setsid, Exit, sessVars
      <4>3. CASE UNCHANGED <<proc[s], reapPc[s], exited[s]>>
        BY <4>3 DEF EndInv, ReapInv
      <4>4. QED
        BY <4>1, <4>2, <4>3, SessionMoves
    <3>2. CASE Start
      <4>1. /\ proc'[nSessions'] = "forked" /\ reapPc'[nSessions'] = "polling"
            /\ ~exited'[nSessions']
        BY <3>2, SessionAssumption
           DEF Start, SessionsInv, SessionTypeOK, Fresh, Session
      <4>2. 1..nSessions' = 1..nSessions \cup {nSessions'}
        BY <2>1, <3>2 DEF Start
      <4>3. QED
        BY <3>1, <4>1, <4>2 DEF ReapInv
    <3>3. CASE ~Start
      BY <2>1, <3>1, <3>3 DEF ReapInv
    <3>4. QED
      BY <3>2, <3>3
  <2>3. StartedInv'
    <3> USE DEF EndInv, StartedInv
    <3>1. CASE SessionNext
      <4>1. UNCHANGED callQueue
        BY <3>1, SessionFrame DEF SessionsInv
      <4>2. registry' \subseteq registry \cup {nSessions'} /\ (~Start => registry' = registry)
        <5>1. CASE Start
          BY <5>1, EvictedKeepsLive DEF Start
        <5>2. CASE ~Start
          BY <3>1, <5>2 DEF SessionNext, Setsid, Write, Exit, OnReadable, Poll,
                            TakeResult, Reaped
        <5>3. QED
          BY <5>1, <5>2
      <4>3. CASE Start
        <5>1. nSessions' = nSessions + 1
          BY <4>3 DEF Start
        <5>2. QED
          BY <2>1, <4>1, <4>2, <5>1
      <4>4. CASE ~Start
        BY <2>1, <4>1, <4>2, <4>4
      <4>5. QED
        BY <4>3, <4>4
    <3>2. CASE CallNext
      <4>1. UNCHANGED <<nSessions, registry>>
        BY <3>2, CallFrame DEF SessionsInv
      <4>2. \A c \in Callers : callQueue'[c] \subseteq callQueue[c] \cup registry
        BY <3>2, QueueMoves DEF SessionsInv
      <4>3. QED
        BY <4>1, <4>2
    <3>3. CASE UNCHANGED vars
      BY <3>3 DEF vars, osVars, callVars
    <3>4. QED
      BY <3>1, <3>2, <3>3 DEF Next, SessionNext, CallNext
  <2>4. QED
    BY <2>2, <2>3 DEF EndInv
<1>3. QED
  BY <1>1, <1>2, Invariance, PTL DEF Spec

\* A child leads its group from setsid to its exit, and no exit is recorded
\* before.
LEMMA LifeMoves ==
  ASSUME SessionsInv, EndInv, NEW s \in 1..nSessions, [Next]_vars
  PROVE  /\ proc[s] = "forked" => proc'[s] \in {"forked", "leader"} /\ ~exited[s]
         /\ proc[s] = "leader" => proc'[s] \in {"leader", "dead"} /\ ~exited[s] /\ ~exited'[s]
<1> s \in Session
  BY SessionAssumption DEF SessionsInv, SessionTypeOK, Session
<1> USE DEF EndInv, ReapInv, SessionsInv, SessionTypeOK
<1>1. CASE ReapStep(s)
  BY <1>1, ReapMoves
<1>2. CASE Setsid(s) \/ Exit(s)
  BY <1>2 DEF Setsid, Exit, sessVars
<1>3. CASE UNCHANGED <<proc[s], reapPc[s], exited[s]>>
  BY <1>3
<1>4. QED
  BY <1>1, <1>2, <1>3, SessionMoves

\* Its child is gone, and nobody knows yet.
Dying(s) == proc[s] \in {"dead", "reaped"} /\ ~exited[s]

\* A child that is gone is noticed: the thread polls again until it is.
LEMMA DyingEnds ==
  ASSUME NEW s \in Session
  PROVE  FairSpec /\ []Unblocked => (Dying(s) ~> exited[s])
<1> DEFINE A2 == proc[s] = "dead" /\ reapPc[s] = "polling"
           A3 == proc[s] = "reaped" /\ reapPc[s] = "caught"
           A4 == proc[s] = "reaped" /\ reapPc[s] = "resuming"
           D  == Dying(s)
           X  == exited[s]
           I  == SessionsInv /\ EndInv
<1>1. I /\ D => A2 \/ A3 \/ A4
  <2> SUFFICES ASSUME I, D PROVE A2 \/ A3 \/ A4
    OBVIOUS
  <2>1. s \in 1..nSessions /\ proc[s] \in {"dead", "reaped"} /\ ~exited[s]
    BY Started DEF Dying
  <2>2. reapPc[s] \in {"none", "polling", "caught", "resuming", "done"}
    BY DEF SessionsInv, SessionTypeOK
  <2>3. reapPc[s] # "none"
    BY <2>1 DEF SessionsInv, Fresh, EndInv, ReapInv
  <2>4. QED
    BY <2>1, <2>2, <2>3 DEF EndInv, ReapInv
<1>m. ASSUME I, A2 \/ A3 \/ A4, [Next]_vars
      PROVE  ReapStep(s) \/ UNCHANGED <<proc[s], reapPc[s], exited[s]>>
  <2>1. s \in 1..nSessions
    BY <1>m, SessionAssumption DEF SessionsInv, SessionTypeOK, Fresh, Session
  <2>2. QED
    BY <1>m, <2>1, SessionMoves DEF Setsid, Exit
<1>4. I /\ A2 /\ [Next]_vars => A2' \/ A3'
  BY <1>m, ReapMoves
<1>5. I /\ A2 /\ <<ReapStep(s)>>_vars => A3'
  BY ReapMoves
<1>6. I /\ A3 /\ [Next]_vars => A3' \/ A4'
  BY <1>m, ReapMoves
<1>7. I /\ A3 /\ <<ReapStep(s)>>_vars => A4'
  BY ReapMoves
<1>8. I /\ A4 /\ [Next]_vars => A4' \/ X'
  BY <1>m, ReapMoves
<1>9. I /\ A4 /\ <<ReapStep(s)>>_vars => X'
  BY ReapMoves
<1>10. Unblocked /\ (A2 \/ A3 \/ A4) => ENABLED <<ReapStep(s)>>_vars
  BY DEF Unblocked
<1>11. FairSpec => ReapGoesOn(s) /\ Spec
  BY DEF FairSpec
<1>12. Spec => []I
  BY Invariance, EndInvariance, PTL
<1>13. (D <=> Dying(s)) /\ (X <=> exited[s])
  OBVIOUS
<1> HIDE DEF D, X, A2, A3, A4, I
<1>14. QED
  BY <1>1, <1>4, <1>5, <1>6, <1>7, <1>8, <1>9, <1>10, <1>11, <1>12, <1>13, PTL
     DEF Spec, ReapGoesOn

\* The exit of a child is always noticed (interactive.py:91-113).
THEOREM ExitNoticed == FairSpec /\ []Unblocked => ExitIsNoticed
<1>1. ASSUME NEW s \in Session
      PROVE  FairSpec /\ []Unblocked => (proc[s] = "dead" ~> exited[s])
  <2>1. proc[s] = "dead" => Dying(s) \/ exited[s]
    BY DEF Dying
  <2>2. QED
    BY <2>1, DyingEnds, PTL
<1>2. QED
  BY <1>1 DEF ExitIsNoticed

\* A call that waits for a session which has exited has no future pending, and
\* goes on; nobody else touches it.
LEMMA WaitMoves ==
  ASSUME SessionsInv, NEW c \in Callers, NEW s \in Session,
         callPc[c] = "waiting", callQueue[c] = {s}, [Next]_vars
  PROVE  /\ callPc'[c] = "idle" \/ (callPc'[c] = "waiting" /\ callQueue'[c] = {s})
         /\ exited[s] => exited'[s] /\ c \notin waiters[s]
         /\ exited[s] /\ CallStep(c) => callPc'[c] = "idle"
<1> USE DEF SessionsInv, CallTypeOK
<1>1. exited[s] => c \notin waiters[s]
  BY DEF WaitInv
<1>2. exited[s] => exited'[s]
  <2>1. CASE SessionNext
    BY <2>1, SessionMonotone
  <2>2. CASE CallNext
    BY <2>2, CallFrame DEF sessVars
  <2>3. CASE UNCHANGED vars
    BY <2>3 DEF vars, sessVars
  <2>4. QED
    BY <2>1, <2>2, <2>3 DEF Next, SessionNext, CallNext
<1>3. ASSUME Resume(c)
      PROVE  /\ callPc'[c] = "idle" \/ (callPc'[c] = "waiting" /\ callQueue'[c] = {s})
             /\ exited[s] => callPc'[c] = "idle"
  BY <1>3 DEF Resume, Search, GivesUp, AwaitOutput, Return, Enter
<1>4. ASSUME TimesOut(c) PROVE c \in waiters[s] /\ UNCHANGED callVars
  BY <1>4 DEF TimesOut
<1>5. ~CloseStep(c)
  BY DEF CloseStep, GraceExpires, CloseReturns
<1>6. callPc'[c] = "idle" \/ (callPc'[c] = "waiting" /\ callQueue'[c] = {s})
  <2>1. CASE SessionNext
    BY <2>1, SessionFrame
  <2>2. CASE CallNext
    <3>1. PICK d \in Callers :
            \/ Read(d) \/ Send(d) \/ TimesOut(d) \/ Resume(d)
            \/ Close(d) \/ GraceExpires(d) \/ CloseReturns(d)
      BY <2>2 DEF CallNext
    <3>2. CASE d = c
      BY <1>3, <1>4, <1>5, <3>1, <3>2 DEF Read, Send, Close, CloseStep, callVars
    <3>3. CASE d # c
      BY <3>1, <3>3, OthersKeep
    <3>4. QED
      BY <3>2, <3>3
  <2>3. CASE UNCHANGED vars
    BY <2>3 DEF vars, callVars
  <2>4. QED
    BY <2>1, <2>2, <2>3 DEF Next, SessionNext, CallNext
<1>7. exited[s] /\ CallStep(c) => callPc'[c] = "idle"
  BY <1>1, <1>3, <1>4, <1>5 DEF CallStep
<1>8. QED
  BY <1>1, <1>2, <1>6, <1>7

\* A call that waits for a session whose child died returns: the exit is noticed,
\* the reap task leaves no future pending, and the call gives up when it goes on
\* (interactive.py:114-117, 184-211).
THEOREM DeadReleases == FairSpec /\ []Unblocked => DeadSessionReleases
<1>1. ASSUME NEW s \in Session, NEW c \in Callers
      PROVE  FairSpec /\ []Unblocked
               => (callPc[c] = "waiting" /\ s \in callQueue[c] /\ proc[s] = "dead"
                     ~> callPc[c] = "idle")
  <2> DEFINE P == callPc[c] = "waiting" /\ s \in callQueue[c] /\ proc[s] = "dead"
             W == callPc[c] = "waiting" /\ callQueue[c] = {s}
             D == Dying(s)
             X == exited[s]
             J == callPc[c] = "idle"
  <2>1. SessionsInv /\ P => W /\ (D \/ X)
    BY DEF SessionsInv, WaitInv, Dying
  <2>2. SessionsInv /\ W /\ [Next]_vars => W' \/ J'
    BY WaitMoves
  <2>3. SessionsInv /\ W /\ X /\ [Next]_vars => X'
    BY WaitMoves
  <2>4. SessionsInv /\ W /\ X /\ <<CallStep(c)>>_vars => J'
    <3> SUFFICES ASSUME SessionsInv, W, X, CallStep(c) PROVE J'
      OBVIOUS
    <3>1. [Next]_vars
      BY DEF CallStep, CloseStep, Next
    <3>2. QED
      BY <3>1, WaitMoves
  <2>5. SessionsInv /\ Unblocked /\ W /\ X => ENABLED <<CallStep(c)>>_vars
    <3>1. SessionsInv /\ W /\ X => c \notin waiters[s]
      BY DEF SessionsInv, WaitInv
    <3>2. QED
      BY <3>1 DEF Unblocked
  <2>6. FairSpec => CallGoesOn(c) /\ Spec
    BY DEF FairSpec
  <2>7. Spec => []SessionsInv
    BY Invariance
  <2>8. FairSpec /\ []Unblocked => (D ~> X)
    BY DyingEnds
  <2>9. /\ P <=> callPc[c] = "waiting" /\ s \in callQueue[c] /\ proc[s] = "dead"
        /\ J <=> callPc[c] = "idle"
    OBVIOUS
  <2> HIDE DEF P, W, D, X, J
  <2>10. QED
    BY <2>1, <2>2, <2>3, <2>4, <2>5, <2>6, <2>7, <2>8, <2>9, PTL DEF Spec, CallGoesOn
<1>2. QED
  BY <1>1 DEF DeadSessionReleases

\* A session that somebody closes ends: its child leads a group before the grace
\* period is over, and then SIGKILL reaches it unless it exits before
\* (interactive.py:242-267).
THEOREM ClosedEnds == FairSpec /\ []Unblocked => ClosedSessionEnds
<1>1. ASSUME NEW s \in Session, NEW c \in Callers
      PROVE  FairSpec /\ []Unblocked
               => (callPc[c] = "term" /\ Turn(c, s) ~> exited[s])
  <2> DEFINE T  == callPc[c] = "term" /\ Turn(c, s)
             B1 == T /\ proc[s] = "forked"
             B2 == T /\ proc[s] = "leader"
             B3 == proc[s] = "leader" /\ s \in killed
             D  == Dying(s)
             X  == exited[s]
             I  == SessionsInv /\ EndInv
  <2>1. I /\ T => B1 \/ B2 \/ D \/ X
    <3> SUFFICES ASSUME I, T PROVE B1 \/ B2 \/ D \/ X
      OBVIOUS
    <3>1. s \in 1..nSessions
      BY DEF Turn, EndInv, StartedInv
    <3>2. proc[s] \in {"forked", "leader", "dead", "reaped"}
      BY <3>1 DEF EndInv, ReapInv, SessionsInv, SessionTypeOK
    <3>3. QED
      BY <3>2 DEF Dying
  <2>2. I /\ B1 /\ [Next]_vars => B1' \/ B2'
    <3> SUFFICES ASSUME I, B1, [Next]_vars PROVE B1' \/ B2'
      OBVIOUS
    <3>1. proc'[s] \in {"forked", "leader"} /\ ~exited[s]
      BY Started, LifeMoves
    <3>2. T'
      BY <3>1, CloseMoves, GraceMoves
    <3>3. QED
      BY <3>1, <3>2
  <2>3. I /\ B1 /\ <<ChildStep(s)>>_vars => B2'
    <3> SUFFICES ASSUME I, B1, <<ChildStep(s)>>_vars PROVE B2'
      OBVIOUS
    <3>1. proc'[s] = "leader"
      BY DEF ChildStep, Setsid, Exit, SessionsInv, SessionTypeOK
    <3>2. [Next]_vars
      BY DEF ChildStep, Next
    <3>3. QED
      BY <2>2, <3>1, <3>2
  <2>4. I /\ B2 /\ [Next]_vars => B2' \/ B3' \/ D'
    <3> SUFFICES ASSUME I, B2, [Next]_vars PROVE B2' \/ B3' \/ D'
      OBVIOUS
    <3>1. proc'[s] \in {"leader", "dead"} /\ ~exited[s] /\ ~exited'[s]
      BY Started, LifeMoves
    <3>2. T' \/ s \in killed'
      BY <3>1, CloseMoves, GraceMoves
    <3>3. QED
      BY <3>1, <3>2 DEF Dying
  <2>5. I /\ B2 /\ <<CallStep(c)>>_vars => B3'
    <3> SUFFICES ASSUME I, B2, <<CallStep(c)>>_vars PROVE B3'
      OBVIOUS
    <3>1. [Next]_vars
      BY DEF CallStep, CloseStep, Next
    <3>2. ~exited[s]
      BY <3>1, Started, LifeMoves
    <3>3. CloseStep(c)
      BY DEF CallStep, Resume, TimesOut, SessionsInv, CallTypeOK, WaitInv
    <3>4. QED
      BY <3>2, <3>3, GraceMoves
  <2>6. I /\ B3 /\ [Next]_vars => B3' \/ D'
    <3> SUFFICES ASSUME I, B3, [Next]_vars PROVE B3' \/ D'
      OBVIOUS
    <3>1. proc'[s] \in {"leader", "dead"} /\ ~exited'[s]
      BY Started, LifeMoves
    <3>2. QED
      BY <3>1, KilledStays DEF Dying
  <2>7. I /\ B3 /\ <<ChildStep(s)>>_vars => D'
    <3> SUFFICES ASSUME I, B3, <<ChildStep(s)>>_vars PROVE D'
      OBVIOUS
    <3>1. proc'[s] = "dead"
      BY DEF ChildStep, Setsid, Exit, SessionsInv, SessionTypeOK
    <3>2. [Next]_vars
      BY DEF ChildStep, Next
    <3>3. ~exited'[s]
      BY <3>2, Started, LifeMoves
    <3>4. QED
      BY <3>1, <3>3 DEF Dying
  <2>8. Unblocked /\ (B1 \/ B3) => ENABLED <<ChildStep(s)>>_vars
    BY DEF Unblocked
  <2>9. Unblocked /\ B2 => ENABLED <<CallStep(c)>>_vars
    BY DEF Unblocked
  <2>10. FairSpec => ChildGoesOn(s) /\ CallGoesOn(c) /\ Spec
    BY DEF FairSpec
  <2>11. Spec => []I
    BY Invariance, EndInvariance, PTL
  <2>12. FairSpec /\ []Unblocked => (D ~> X)
    BY DyingEnds
  <2>13. T <=> callPc[c] = "term" /\ Turn(c, s)
    OBVIOUS
  <2>14. X <=> exited[s]
    OBVIOUS
  <2> HIDE DEF T, B1, B2, B3, D, X, I
  <2>15. QED
    BY <2>1, <2>2, <2>3, <2>4, <2>5, <2>6, <2>7, <2>8, <2>9, <2>10, <2>11, <2>12, <2>13,
       <2>14, PTL DEF Spec, ChildGoesOn, CallGoesOn
<1>2. QED
  BY <1>1 DEF ClosedSessionEnds

=============================================================================
