------------------------- MODULE InteractiveSessions -------------------------
(***************************************************************************)
(* Sessions on a pseudo-terminal: InteractiveSession and the registry that *)
(* holds them (interactive.py), with the calls interactive_send, read and  *)
(* close of the server (server.py:585-621).                                *)
(*                                                                         *)
(* The loop never waits for the child: a thread polls it with waitpid      *)
(* every 0.1 s, and the terminal is read by a callback, one read per turn  *)
(* of the loop.  Output is counted in chunks, the amount one read returns.   *)
(* Whether a pattern is found is left open: a call searches the last 200   *)
(* lines of the log and the partial line only, so that output it waits for *)
(* may have scrolled away by the time it looks.  Output of processes that  *)
(* outlive the child is not modelled.                                      *)
(*                                                                         *)
(* Assumed: the child reaches setsid before a grace period is over, and    *)
(* its pid is not used again in the turns of the loop that report its exit.*)
(***************************************************************************)
EXTENDS Integers, FiniteSets

\* A definition whose name starts with "Bug" is a mutated form of the one that
\* follows it; nothing uses it but PROJECT.json.

CONSTANTS
  Callers,      \* tool calls that may be in progress together
  Capacity,     \* SESSION_LRU
  MaxSessions,  \* bound: sessions
  MaxChunks     \* bound: chunks a session prints

ASSUME SessionAssumption ==
  Capacity \in Nat \ {0} /\ MaxSessions \in Nat /\ MaxChunks \in Nat

Session == 1..MaxSessions

VARIABLES
  proc,              \* each session's child; it leads its group after setsid
  printed,           \* chunks the child has written to the terminal
  killed,            \* sessions whose living group was sent SIGKILL
  nSessions,
  absorbed,          \* chunks that were read from the terminal
  attached,          \* _reader_attached: the terminal is open
  reapPc,            \* the reap task
  exited,            \* exit_code is set, and so is _exit_event
  registry,          \* the sessions in the registry; they are numbered in its order
  waiters,           \* _waiters: the calls with a pending future there
  callPc, callQueue, \* each call, and the sessions it has still to do with
  searching,         \* the calls that wait for a pattern, and not for any output
  seen               \* history: the output it had seen when it began to wait

osVars   == <<proc, printed, killed, nSessions>>
sessVars == <<absorbed, attached, reapPc, exited>>
callVars == <<callPc, callQueue, searching, seen>>
vars == <<osVars, sessVars, registry, waiters, callVars>>

Init ==
  /\ proc = [s \in Session |-> "none"]
  /\ printed = [s \in Session |-> 0] /\ absorbed = [s \in Session |-> 0]
  /\ killed = {} /\ nSessions = 0
  /\ attached = [s \in Session |-> FALSE]
  /\ reapPc = [s \in Session |-> "none"]
  /\ exited = [s \in Session |-> FALSE]
  /\ registry = {}
  /\ waiters = [s \in Session |-> {}]
  /\ callPc = [c \in Callers |-> "idle"]
  /\ callQueue = [c \in Callers |-> {}]
  /\ searching = {} /\ seen = [c \in Callers |-> 0]

(***************************************************************************)
(* The child and its terminal.                                             *)
(***************************************************************************)

Setsid(s) ==
  /\ proc[s] = "forked"
  /\ proc' = [proc EXCEPT ![s] = "leader"]
  /\ UNCHANGED <<printed, killed, nSessions, sessVars, registry, waiters,
                 callVars>>

Write(s) ==
  /\ proc[s] = "leader" /\ printed[s] < MaxChunks       \* bound
  /\ printed' = [printed EXCEPT ![s] = @ + 1]
  /\ UNCHANGED <<proc, killed, nSessions, sessVars, registry, waiters,
                 callVars>>

Exit(s) ==
  /\ proc[s] = "leader"
  /\ proc' = [proc EXCEPT ![s] = "dead"]
  /\ killed' = killed \ {s}
  /\ UNCHANGED <<printed, nSessions, sessVars, registry, waiters,
                 callVars>>

\* _signal_tree with SIGKILL; there is no group before setsid.
BugKillTree(s) == UNCHANGED killed
KillTree(s) ==
  killed' = IF proc[s] = "leader" THEN killed \cup {s} ELSE killed

(***************************************************************************)
(* The reader callback and the reap task.                                  *)
(***************************************************************************)

\* Set the result of the futures that wait; the list is cleared.
BugWakeNobody(s) == UNCHANGED waiters
Wake(s) == waiters' = [waiters EXCEPT ![s] = {}]

Readable(s) == attached[s] /\ absorbed[s] < printed[s]

Absorb(s) ==
  /\ absorbed' = [absorbed EXCEPT ![s] = @ + 1]
  /\ Wake(s)

OnReadable(s) ==
  /\ Readable(s)
  /\ Absorb(s)
  /\ UNCHANGED <<osVars, attached, reapPc, exited, registry, callVars>>

\* The thread calls waitpid with WNOHANG.  While the child lives the task sleeps
\* and calls it again, for ever.
BugPolledOnce == "done"
AfterEmptyPoll == "polling"

Poll(s) ==
  /\ reapPc[s] = "polling"
  /\ IF proc[s] = "dead"
     THEN /\ proc' = [proc EXCEPT ![s] = "reaped"]
          /\ reapPc' = [reapPc EXCEPT ![s] = "caught"]
     ELSE /\ reapPc' = [reapPc EXCEPT ![s] = AfterEmptyPoll]
          /\ UNCHANGED proc
  /\ UNCHANGED <<printed, killed, nSessions, absorbed, attached, exited,
                 registry, waiters, callVars>>

\* The turn of the loop that takes the thread's result calls the reader too,
\* if there is output; the reap task goes on in a later turn, perhaps before
\* the next read.
TakeResult(s) ==
  /\ reapPc[s] = "caught"
  /\ reapPc' = [reapPc EXCEPT ![s] = "resuming"]
  /\ IF Readable(s) THEN Absorb(s) ELSE UNCHANGED <<absorbed, waiters>>
  /\ UNCHANGED <<osVars, attached, exited, registry, callVars>>

BugNotDetached(s) ==
  /\ reapPc[s] = "resuming"
  /\ reapPc' = [reapPc EXCEPT ![s] = "done"]
  /\ exited' = [exited EXCEPT ![s] = TRUE]
  /\ Wake(s)
  /\ UNCHANGED <<osVars, absorbed, attached, registry, callVars>>
Reaped(s) ==
  /\ reapPc[s] = "resuming"
  /\ reapPc' = [reapPc EXCEPT ![s] = "done"]
  /\ exited' = [exited EXCEPT ![s] = TRUE]
  /\ attached' = [attached EXCEPT ![s] = FALSE]
  /\ Wake(s)
  /\ UNCHANGED <<osVars, absorbed, registry, callVars>>

(***************************************************************************)
(* start_interactive                                                       *)
(***************************************************************************)

\* The first dead sessions are dropped while there are too many.
BugEvicted(reg) ==
  {s \in reg : Cardinality({k \in reg : k <= s}) > Cardinality(reg) - Capacity}
Evicted(reg) ==
  {s \in reg :
    exited[s] => Cardinality({k \in reg : k <= s /\ exited[k]})
                   > Cardinality(reg) - Capacity}

Start ==
  /\ nSessions < MaxSessions                            \* bound
  /\ nSessions' = nSessions + 1
  /\ proc' = [proc EXCEPT ![nSessions'] = "forked"]
  /\ attached' = [attached EXCEPT ![nSessions'] = TRUE]
  /\ reapPc' = [reapPc EXCEPT ![nSessions'] = "polling"]
  /\ registry' = Evicted(registry \cup {nSessions'})
  /\ UNCHANGED <<printed, killed, absorbed, exited, waiters, callVars>>

(***************************************************************************)
(* interactive_send and interactive_read                                   *)
(***************************************************************************)

Enter(c, pc, queue, w) ==
  /\ callPc' = [callPc EXCEPT ![c] = pc]
  /\ callQueue' = [callQueue EXCEPT ![c] = queue]
  /\ searching' = IF w THEN searching \cup {c} ELSE searching \ {c}

Return(c) ==
  /\ Enter(c, "idle", {}, FALSE)
  /\ seen' = [seen EXCEPT ![c] = 0]

\* wait_for_output: a future of this call is appended to the waiters.
AwaitOutput(c, s, w) ==
  /\ Enter(c, "waiting", {s}, w)
  /\ waiters' = [waiters EXCEPT ![s] = @ \cup {c}]
  /\ seen' = [seen EXCEPT ![c] = absorbed[s]]

\* A search that has found nothing ends with the session.
BugDeadlineOnly(s) == FALSE
GivesUp(s) == exited[s]

\* One round of wait_for_pattern: it has found a match or gives up, or it has
\* found nothing and waits again.  A deadline may be over at any time.
Search(c, s) ==
  \/ Return(c) /\ UNCHANGED waiters
  \/ ~GivesUp(s) /\ AwaitOutput(c, s, TRUE)

\* A call comes with a pattern or without one.
Await(c, s) ==
  \/ Search(c, s)
  \/ ~exited[s] /\ AwaitOutput(c, s, FALSE)

Read(c) ==
  /\ callPc[c] = "idle"
  /\ \E s \in registry : Await(c, s)
  /\ UNCHANGED <<osVars, sessVars, registry>>

\* write is not awaited; what is written is not modelled.
Writable(s) == ~exited[s] /\ attached[s]

Send(c) ==
  /\ callPc[c] = "idle"
  /\ \E s \in registry : Writable(s) /\ Await(c, s)
  /\ UNCHANGED <<osVars, sessVars, registry>>

\* A search waits for a slice of at most a second, another call for its timeout;
\* the future is cancelled and nobody wakes it any more.
TimesOut(c) ==
  /\ \E s \in callQueue[c] :
       c \in waiters[s] /\ waiters' = [waiters EXCEPT ![s] = @ \ {c}]
  /\ UNCHANGED <<osVars, sessVars, registry, callVars>>

\* The future has its result or timed out.
Resume(c) ==
  /\ callPc[c] = "waiting"
  /\ \E s \in callQueue[c] :
       /\ c \notin waiters[s]
       /\ IF c \in searching THEN Search(c, s) ELSE Return(c) /\ UNCHANGED waiters
  /\ UNCHANGED <<osVars, sessVars, registry>>

(***************************************************************************)
(* interactive_close, and the registry's shutdown_all: the sessions of the *)
(* queue are closed in turn, the oldest first.                             *)
(***************************************************************************)

Turn(c, s) == s \in callQueue[c] /\ \A k \in callQueue[c] : s <= k

\* The sessions that have exited when their turn comes are passed over.
CloseFirst(c, queue) ==
  LET live == {s \in queue : ~exited[s]} IN
  IF live = {} THEN Return(c)
  ELSE Enter(c, "term", live, FALSE) /\ UNCHANGED seen

Close(c) ==
  /\ callPc[c] = "idle"
  /\ \/ \E s \in registry : ~exited[s] /\ CloseFirst(c, {s})
     \/ CloseFirst(c, registry)
  /\ UNCHANGED <<osVars, sessVars, registry, waiters>>

\* wait_exit(grace) timed out; an exit may be recorded in the same turn.
GraceExpires(c) ==
  /\ callPc[c] = "term"
  /\ \E s \in Session :
       /\ Turn(c, s)
       /\ proc[s] # "forked"                            \* assumed
       /\ KillTree(s)
  /\ callPc' = [callPc EXCEPT ![c] = "kill"]
  /\ UNCHANGED <<proc, printed, nSessions, sessVars, registry, waiters,
                 callQueue, searching, seen>>

\* The session has exited, or the two seconds after SIGKILL are over.
CloseReturns(c) ==
  /\ \E s \in Session :
       /\ Turn(c, s)
       /\ callPc[c] = "kill" \/ (callPc[c] = "term" /\ exited[s])
       /\ CloseFirst(c, callQueue[c] \ {s})
  /\ UNCHANGED <<osVars, sessVars, registry, waiters>>

-----------------------------------------------------------------------------

Next ==
  \/ Start
  \/ \E s \in Session :
       \/ Setsid(s) \/ Write(s) \/ Exit(s) \/ OnReadable(s)
       \/ Poll(s) \/ TakeResult(s) \/ Reaped(s)
  \/ \E c \in Callers :
       \/ Read(c) \/ Send(c) \/ TimesOut(c) \/ Resume(c)
       \/ Close(c) \/ GraceExpires(c) \/ CloseReturns(c)

Spec == Init /\ [][Next]_vars

(***************************************************************************)
(* Fairness: the thread and the loop run, timers expire, a new child       *)
(* reaches setsid and a killed one exits.  Other children may run for ever.*)
(* Each reap task, child and call is sequential, one condition serves it.  *)
(* A call whose future is done goes on, and the slice of a search is over  *)
(* in a second.  The timeout of a call is its client's: none is assumed to *)
(* come to its end.                                                        *)
(***************************************************************************)
ReapStep(s)  == Poll(s) \/ TakeResult(s) \/ Reaped(s)
ChildStep(s) == Setsid(s) \/ (s \in killed /\ Exit(s))
CloseStep(c) == GraceExpires(c) \/ CloseReturns(c)

CallStep(c)  == CloseStep(c) \/ Resume(c) \/ (c \in searching /\ TimesOut(c))

ReapGoesOn(s)  == WF_vars(ReapStep(s))
ChildGoesOn(s) == WF_vars(ChildStep(s))
CallGoesOn(c)  == WF_vars(CallStep(c))

FairSpec ==
  /\ Spec
  /\ \A s \in Session : ReapGoesOn(s) /\ ChildGoesOn(s)
  /\ \A c \in Callers : CallGoesOn(c)

\* Where its guard holds a fair action can be taken: all that the proofs of the
\* liveness properties ask of ENABLED.
Unblocked ==
  /\ \A s \in Session :
       /\ (proc[s] = "dead" /\ reapPc[s] = "polling") \/ reapPc[s] \in {"caught", "resuming"}
            => ENABLED <<ReapStep(s)>>_vars
       /\ proc[s] = "forked" \/ (proc[s] = "leader" /\ s \in killed)
            => ENABLED <<ChildStep(s)>>_vars
  /\ \A c \in Callers, s \in Session :
       /\ callPc[c] = "term" /\ Turn(c, s) /\ proc[s] = "leader"
            => ENABLED <<CallStep(c)>>_vars
       /\ callPc[c] = "waiting" /\ callQueue[c] = {s} /\ c \notin waiters[s]
            => ENABLED <<CallStep(c)>>_vars

-----------------------------------------------------------------------------

\* Every variable keeps to its values, and a session that has exited has no
\* terminal (interactive.py:44-55, 110-117).
TypeOK ==
  /\ proc \in [Session -> {"none", "forked", "leader", "dead", "reaped"}]
  /\ printed \in [Session -> 0..MaxChunks] /\ absorbed \in [Session -> 0..MaxChunks]
  /\ killed \subseteq Session /\ nSessions \in 0..MaxSessions
  /\ attached \in [Session -> BOOLEAN]
  /\ reapPc \in [Session -> {"none", "polling", "caught", "resuming", "done"}]
  /\ exited \in [Session -> BOOLEAN]
  /\ registry \subseteq Session /\ waiters \in [Session -> SUBSET Callers]
  /\ callPc \in [Callers -> {"idle", "waiting", "term", "kill"}]
  /\ callQueue \in [Callers -> SUBSET Session]
  /\ searching \subseteq Callers /\ seen \in [Callers -> 0..MaxChunks]
  /\ \A s \in Session : exited[s] => ~attached[s]

\* However many sessions there are, one that lives stays in the registry, where
\* a client and a shutdown can reach it (interactive.py:295-302).
LiveIsListed == \A s \in 1..nSessions : exited[s] \/ s \in registry

\* A call whose future is pending has seen all the output there is, and its
\* session is not known to have exited: no wake-up is lost between the search
\* and the future (interactive.py:114-117, 146-149, 184-211).
NobodyOversleeps ==
  \A s \in Session : \A c \in waiters[s] :
    callQueue[c] = {s} /\ seen[c] = absorbed[s] /\ ~exited[s]

\* The exit of a child is always noticed (interactive.py:91-113).
ExitIsNoticed == \A s \in Session : proc[s] = "dead" ~> exited[s]

\* A call that waits for output or for a pattern when the child dies returns,
\* however long its timeout: the exit wakes it, and its search gives up in the
\* next round (interactive.py:114-117, 184-211).
DeadSessionReleases ==
  \A s \in Session, c \in Callers :
    callPc[c] = "waiting" /\ s \in callQueue[c] /\ proc[s] = "dead"
      ~> callPc[c] = "idle"

\* A session that somebody closes ends, though the first signal may come before
\* the group exists and the child may ignore it (interactive.py:242-267).
ClosedSessionEnds ==
  \A s \in Session, c \in Callers :
    callPc[c] = "term" /\ Turn(c, s) ~> exited[s]

\* All that a child printed before its exit was captured when the exit is
\* reported (server.py:256).  It is not: see the run output_lost.
OutputIsCaptured == \A s \in Session : exited[s] => absorbed[s] = printed[s]

=============================================================================
