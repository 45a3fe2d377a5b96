------------------------- MODULE RestartWindow_proofs -------------------------
(***************************************************************************)
(* For every policy: the deque of RestartWindow implements the rule of     *)
(* CrashLoop, and bounds the rate of restarts.                             *)
(***************************************************************************)
EXTENDS RestartWindow, TLAPS

\* Every variable keeps to its values (process.py:59-60).
THEOREM TypeCorrect == Spec => []TypeOK
<1>1. Init => TypeOK
  BY WindowAssumption DEF Init, TypeOK
<1>2. TypeOK /\ [Next]_vars => TypeOK'
  <2> SUFFICES ASSUME TypeOK, [Next]_vars
               PROVE  TypeOK'
    OBVIOUS
  <2> USE WindowAssumption DEF TypeOK
  <2>1. CASE Start
    BY <2>1 DEF Start, ClearWindow
  <2>2. CASE Exit
    <3>1. PICK k \in 0..Len(window) :
            window' = Append(SubSeq(window, k + 1, Len(window)), now)
      BY <2>2 DEF Exit
    <3>2. SubSeq(window, k + 1, Len(window)) \in Seq(0..MaxTime)
      OBVIOUS
    <3>3. window' \in Seq(0..MaxTime) /\ exits' \in Seq(0..MaxTime)
      BY <2>2, <3>1, <3>2 DEF Exit
    <3>4. now' \in 0..MaxTime /\ restartCount' \in Nat
      BY <2>2 DEF Exit
    <3>5. phase' \in {"sleeping", "backoff"} /\ wakeAt' \in Nat
      BY <2>2 DEF Exit
    <3>6. QED
      BY <3>3, <3>4, <3>5
  <2>3. CASE Restart
    BY <2>3 DEF Restart
  <2>4. CASE Stop
    BY <2>4 DEF Stop
  <2>5. CASE Tick
    BY <2>5 DEF Tick
  <2>6. CASE UNCHANGED vars
    BY <2>6 DEF vars
  <2>7. QED
    BY <2>1, <2>2, <2>3, <2>4, <2>5, <2>6 DEF Next
<1>3. QED
  BY <1>1, <1>2, PTL DEF Spec

\* The history is in order and none of it lies in the future.
ExitsInOrder ==
  /\ \A i \in 1..Len(exits) : exits[i] <= now
  /\ \A i, j \in 1..Len(exits) : i <= j => exits[i] <= exits[j]

LEMMA OrderStep == TypeOK /\ ExitsInOrder /\ [Next]_vars => ExitsInOrder'
<1> SUFFICES ASSUME TypeOK, ExitsInOrder, [Next]_vars
             PROVE  ExitsInOrder'
  OBVIOUS
<1> USE WindowAssumption DEF TypeOK, ExitsInOrder
<1>1. CASE Start
  BY <1>1 DEF Start
<1>2. CASE Exit
  <2>1. /\ exits' = Append(exits, now) /\ now' = now
        /\ exits \in Seq(0..MaxTime) /\ now \in 0..MaxTime
    BY <1>2 DEF Exit
  <2>2. /\ Len(exits') = Len(exits) + 1 /\ exits'[Len(exits) + 1] = now
        /\ \A i \in 1..Len(exits) : exits'[i] = exits[i]
    BY <2>1
  <2>3. Len(exits) \in Nat /\ \A i \in 1..Len(exits) : exits[i] \in Int
    BY <2>1
  <2>4. \A i \in 1..(Len(exits) + 1) : exits'[i] <= now
    BY <2>1, <2>2, <2>3
  <2>5. \A i, j \in 1..(Len(exits) + 1) : i <= j => exits'[i] <= exits'[j]
    <3> SUFFICES ASSUME NEW i \in 1..(Len(exits) + 1), NEW j \in 1..(Len(exits) + 1),
                        i <= j
                 PROVE  exits'[i] <= exits'[j]
      OBVIOUS
    <3>1. CASE j = Len(exits) + 1
      BY <3>1, <2>2, <2>4
    <3>2. CASE j # Len(exits) + 1
      <4>1. i \in 1..Len(exits) /\ j \in 1..Len(exits)
        BY <3>2, <2>3
      <4>2. exits[i] <= exits[j]
        BY <4>1
      <4>3. QED
        BY <4>1, <4>2, <2>2
    <3>3. QED
      BY <3>1, <3>2
  <2>6. QED
    BY <2>1, <2>2, <2>4, <2>5
<1>3. CASE Restart \/ Stop \/ UNCHANGED vars
  BY <1>3 DEF Restart, Stop, vars
<1>4. CASE Tick
  BY <1>4 DEF Tick
<1>5. QED
  BY <1>1, <1>2, <1>3, <1>4 DEF Next

\* One exit: the drain leaves the recent suffix of the history.
LEMMA ExitKeepsRecent ==
  TypeOK /\ ExitsInOrder /\ WindowIsRecent /\ Exit => WindowIsRecent'
<1> SUFFICES ASSUME TypeOK, ExitsInOrder, WindowIsRecent, Exit
             PROVE  WindowIsRecent'
  OBVIOUS
<1> DEFINE n == Len(exits)
           m == Len(window)
           dropped == n - m
<1>0. /\ exits \in Seq(0..MaxTime) /\ window \in Seq(0..MaxTime)
      /\ n = Len(exits) /\ m = Len(window) /\ dropped = n - m
      /\ n \in Nat /\ m \in Nat /\ now \in Int
      /\ WindowSeconds \in Nat /\ restartCount = n
  BY WindowAssumption DEF TypeOK, WindowIsRecent
<1>1. /\ dropped \in Nat
      /\ \A i \in 1..m : window[i] = exits[dropped + i]
      /\ \A i \in 1..n : i <= dropped <=> exits[n] - exits[i] > WindowSeconds
  BY <1>0 DEF WindowIsRecent
<1>a. \A i \in 1..n : exits[i] \in Int /\ exits[i] <= now
  <2>1. \A i \in 1..Len(exits) : exits[i] \in 0..MaxTime
    BY WindowAssumption DEF TypeOK
  <2>2. MaxTime \in Nat
    BY WindowAssumption
  <2>3. QED
    BY <2>1, <2>2, <1>0 DEF ExitsInOrder
<1>b. \A i, j \in 1..n : i <= j => exits[i] <= exits[j]
  BY <1>0 DEF ExitsInOrder
<1> HIDE DEF n, m, dropped
<1>2. PICK k \in 0..m :
        /\ Drained(k)
        /\ window' = Append(SubSeq(window, k + 1, m), now)
  BY <1>0 DEF Exit
<1>3. exits' = Append(exits, now) /\ restartCount' = restartCount + 1
  BY DEF Exit
<1>4. /\ Len(exits') = n + 1
      /\ \A i \in 1..n : exits'[i] = exits[i]
      /\ exits'[n + 1] = now
  BY <1>0, <1>3
<1>5. /\ Len(window') = m - k + 1
      /\ \A i \in 1..(m - k) : window'[i] = window[k + i]
      /\ window'[m - k + 1] = now
  BY <1>0, <1>2
<1>6. Len(exits') - Len(window') = dropped + k
  BY <1>0, <1>4, <1>5
<1>7. \A i \in 1..Len(window') : window'[i] = exits'[dropped + k + i]
  <2> SUFFICES ASSUME NEW i \in 1..(m - k + 1)
               PROVE  window'[i] = exits'[dropped + k + i]
    BY <1>5
  <2>1. CASE i = m - k + 1
    BY <2>1, <1>0, <1>4, <1>5
  <2>2. CASE i # m - k + 1
    <3>1. k + i \in 1..m /\ i \in 1..(m - k) /\ dropped + k + i \in 1..n
      BY <2>2, <1>0, <1>1
    <3>2. window'[i] = window[k + i] /\ window[k + i] = exits[dropped + (k + i)]
      BY <3>1, <1>1, <1>5
    <3>3. exits'[dropped + (k + i)] = exits[dropped + (k + i)]
      <4> DEFINE j == dropped + (k + i)
      <4>1. j \in 1..n
        BY <3>1, <1>0, <1>1
      <4>2. exits'[j] = exits[j]
        <5> HIDE DEF j
        <5> QED
          BY <4>1, <1>4
      <4>3. QED
        BY <4>2
    <3>4. dropped + (k + i) = dropped + k + i
      BY <1>1
    <3>5. QED
      BY <3>2, <3>3, <3>4
  <2>3. QED
    BY <2>1, <2>2
<1>8. \A i \in 1..n : i <= dropped + k <=> now - exits[i] > WindowSeconds
  <2> SUFFICES ASSUME NEW i \in 1..n
               PROVE  i <= dropped + k <=> now - exits[i] > WindowSeconds
    OBVIOUS
  <2>0. /\ exits[i] \in Int /\ exits[n] \in Int
        /\ exits[i] <= now /\ exits[n] <= now
    BY <1>0, <1>a
  <2>1. CASE i <= dropped
    <3>1. exits[n] - exits[i] > WindowSeconds
      BY <2>1, <1>1
    <3>2. now - exits[i] > WindowSeconds
      <4>1. \A x, y, z \in Int : x <= z /\ x - y > WindowSeconds => z - y > WindowSeconds
        BY WindowAssumption
      <4>2. QED
        BY <2>0, <3>1, <4>1, <1>0
    <3>3. i <= dropped + k
      BY <2>1, <1>1
    <3>4. QED
      BY <3>2, <3>3
  <2>2. CASE i > dropped /\ i <= dropped + k
    <3>1. i - dropped \in 1..k /\ i - dropped \in 1..m
      BY <2>2, <1>0, <1>1
    <3>2. window[i - dropped] = exits[i]
      <4>1. window[i - dropped] = exits[dropped + (i - dropped)]
        BY <3>1, <1>1
      <4>2. dropped + (i - dropped) = i
        BY <1>1
      <4>3. QED
        BY <4>1, <4>2
    <3>3. now - window[i - dropped] > WindowSeconds
      BY <3>1, <1>0, <1>2 DEF Drained, Stale
    <3>4. QED
      BY <2>2, <3>2, <3>3
  <2>3. CASE i > dropped + k
    <3>1. k < m /\ k + 1 \in 1..m /\ dropped + (k + 1) \in 1..n
      BY <2>3, <1>0, <1>1
    <3>2. window[k + 1] = exits[dropped + (k + 1)]
      BY <3>1, <1>1
    <3>3. ~(now - window[k + 1] > WindowSeconds)
      BY <3>1, <1>0, <1>2 DEF Drained, Stale
    <3>4. exits[dropped + (k + 1)] <= exits[i] /\ exits[dropped + (k + 1)] \in Int
      <4> DEFINE j == dropped + (k + 1)
      <4>1. j \in 1..n /\ j <= i
        BY <2>3, <3>1, <1>0, <1>1
      <4> HIDE DEF j
      <4>2. exits[j] <= exits[i] /\ exits[j] \in Int
        BY <4>1, <1>a, <1>b
      <4>3. QED
        BY <4>2 DEF j
    <3>5. ~(now - exits[i] > WindowSeconds)
      BY <2>0, <3>2, <3>3, <3>4, <1>0
    <3>6. QED
      BY <2>3, <3>5, <1>0, <1>1
  <2>4. QED
    BY <2>1, <2>2, <2>3, <1>0, <1>1
<1>9. \A i \in 1..(n + 1) :
        i <= dropped + k <=> exits'[n + 1] - exits'[i] > WindowSeconds
  <2> SUFFICES ASSUME NEW i \in 1..(n + 1)
               PROVE  i <= dropped + k <=> exits'[n + 1] - exits'[i] > WindowSeconds
    OBVIOUS
  <2>1. CASE i = n + 1
    BY <2>1, <1>0, <1>1, <1>4
  <2>2. CASE i # n + 1
    <3>1. i \in 1..n
      BY <2>2, <1>0
    <3>2. exits'[i] = exits[i] /\ exits'[n + 1] = now
      BY <3>1, <1>4
    <3>3. QED
      BY <3>1, <3>2, <1>8
  <2>3. QED
    BY <2>1, <2>2
<1>10. restartCount' = Len(exits') /\ dropped + k >= 0
  BY <1>0, <1>1, <1>3, <1>4
<1>11. QED
  BY <1>4, <1>6, <1>7, <1>9, <1>10 DEF WindowIsRecent

\* restart_count counts the restarts since the last start, all of them, and
\* the deque holds exactly those still in the window (process.py:183-187).
THEOREM WindowRecent == Spec => [](ExitsInOrder /\ WindowIsRecent)
<1> DEFINE Inv == ExitsInOrder /\ WindowIsRecent
<1>1. Init => Inv
  BY DEF Init, ExitsInOrder, WindowIsRecent
<1>2. TypeOK /\ Inv /\ [Next]_vars => Inv'
  <2> SUFFICES ASSUME TypeOK, ExitsInOrder, WindowIsRecent, [Next]_vars
               PROVE  ExitsInOrder' /\ WindowIsRecent'
    OBVIOUS
  <2>1. ExitsInOrder'
    BY OrderStep
  <2>2. WindowIsRecent'
    <3>1. CASE Start
      BY <3>1 DEF Start, ClearWindow, WindowIsRecent
    <3>2. CASE Exit
      BY <3>2, ExitKeepsRecent
    <3>3. CASE Restart \/ Stop \/ Tick \/ UNCHANGED vars
      BY <3>3 DEF Restart, Stop, Tick, vars, WindowIsRecent
    <3>4. QED
      BY <3>1, <3>2, <3>3 DEF Next
  <2>3. QED
    BY <2>1, <2>2
<1>3. QED
  BY <1>1, <1>2, TypeCorrect, PTL DEF Spec

\* What the length of the deque says about the history: it exceeds a bound
\* exactly when that many exits before the last one are still in the window.
LEMMA LongWindow ==
  ASSUME NEW es \in Seq(0..MaxTime), NEW w \in Seq(0..MaxTime),
         Len(es) > 0, Len(es) - Len(w) >= 0,
         \A j \in 1..Len(es) :
           j <= Len(es) - Len(w) <=> es[Len(es)] - es[j] > WindowSeconds
  PROVE  TooMany(w) <=> Rule!Tripped(es)
<1> DEFINE n == Len(es)
           m == Len(w)
           i == n - MaxRestarts
<1>0. \A j \in 1..Len(es) : es[j] \in 0..MaxTime
  BY WindowAssumption
<1>1. /\ n \in Nat /\ m \in Nat /\ MaxRestarts \in Nat /\ WindowSeconds \in Nat
      /\ n > 0 /\ n - m >= 0
      /\ \A j \in 1..n : es[j] \in Int
      /\ \A j \in 1..n : j <= n - m <=> es[n] - es[j] > WindowSeconds
  BY <1>0, WindowAssumption
<1>2. /\ TooMany(w) <=> m > MaxRestarts
      /\ Rule!Tripped(es) <=> n > MaxRestarts /\ es[n] - es[i] <= WindowSeconds
  BY DEF TooMany, Rule!Tripped
<1> HIDE DEF n, m
<1>3. CASE n > MaxRestarts
  <2>1. i \in 1..n
    BY <1>1, <1>3
  <2>2. i <= n - m <=> es[n] - es[i] > WindowSeconds
    BY <1>1, <2>1
  <2>3. es[n] \in Int /\ es[i] \in Int
    BY <1>1, <2>1
  <2>4. i <= n - m <=> ~(m > MaxRestarts)
    BY <1>1
  <2>5. m > MaxRestarts <=> es[n] - es[i] <= WindowSeconds
    BY <1>1, <2>2, <2>3, <2>4
  <2>6. QED
    BY <1>2, <1>3, <2>5
<1>4. CASE ~(n > MaxRestarts)
  BY <1>1, <1>2, <1>4
<1>5. QED
  BY <1>3, <1>4

\* An exit that does not lead to backoff is far enough from the exit
\* MaxRestarts before it.
LEMMA ExitAllowed ==
  TypeOK /\ TypeOK' /\ ExitsInOrder /\ WindowIsRecent /\ Exit
    => (phase' = "backoff" <=> Rule!Tripped(exits'))
<1> SUFFICES ASSUME TypeOK, TypeOK', ExitsInOrder, WindowIsRecent, Exit
             PROVE  phase' = "backoff" <=> Rule!Tripped(exits')
  OBVIOUS
<1>1. WindowIsRecent'
  BY ExitKeepsRecent
<1>2. exits' = Append(exits, now) /\ Len(exits') > 0
  BY DEF Exit, TypeOK
<1>3. /\ exits' \in Seq(0..MaxTime) /\ window' \in Seq(0..MaxTime)
      /\ Len(exits') - Len(window') >= 0
      /\ \A j \in 1..Len(exits') :
           j <= Len(exits') - Len(window')
             <=> exits'[Len(exits')] - exits'[j] > WindowSeconds
  BY <1>1 DEF TypeOK, WindowIsRecent
<1>4. TooMany(window') <=> Rule!Tripped(exits')
  BY <1>2, <1>3, LongWindow
<1>5. QED
  BY <1>4 DEF Exit

\* In no window_seconds, wherever it begins, is the tool restarted more than
\* max_restarts times (README.md:82, process.py:188-190).
THEOREM RateLimited == Spec => []RateIsLimited
<1>1. Init => RateIsLimited
  BY DEF Init, RateIsLimited
<1>2. TypeOK /\ TypeOK' /\ ExitsInOrder /\ WindowIsRecent /\ RateIsLimited
        /\ [Next]_vars => RateIsLimited'
  <2> SUFFICES ASSUME TypeOK, TypeOK', ExitsInOrder, WindowIsRecent, RateIsLimited,
                      [Next]_vars
               PROVE  RateIsLimited'
    OBVIOUS
  <2>1. CASE Start
    BY <2>1 DEF Start, RateIsLimited
  <2>2. CASE Exit
    <3> DEFINE n == Len(exits)
    <3>0. /\ n \in Nat /\ MaxRestarts \in Nat /\ WindowSeconds \in Nat
          /\ phase = "running" /\ phase' \in {"sleeping", "backoff"}
          /\ exits' = Append(exits, now)
      BY <2>2, WindowAssumption DEF Exit, TypeOK
    <3>1. /\ Len(exits') = n + 1
          /\ \A i \in 1..n : exits'[i] = exits[i]
      BY <3>0 DEF TypeOK
    <3>2. \A i \in 1..n : i + MaxRestarts <= n
                            => exits[i + MaxRestarts] - exits[i] > WindowSeconds
      BY <3>0 DEF RateIsLimited
    <3>3. \A j \in 1..(n + 1) : exits'[j] \in Int
      BY <3>1, WindowAssumption DEF TypeOK
    <3>4. phase' = "backoff" <=> Rule!Tripped(exits')
      BY <2>2, ExitAllowed
    <3> HIDE DEF n
    <3>5. ASSUME NEW i \in 1..(n + 1), i + MaxRestarts < n + 1
          PROVE  exits'[i + MaxRestarts] - exits'[i] > WindowSeconds
      <4>1. i \in 1..n /\ i + MaxRestarts \in 1..n /\ i + MaxRestarts <= n
        BY <3>0, <3>5
      <4>2. exits[i + MaxRestarts] - exits[i] > WindowSeconds
        BY <3>2, <4>1
      <4>3. exits'[i] = exits[i] /\ exits'[i + MaxRestarts] = exits[i + MaxRestarts]
        BY <3>1, <4>1
      <4>4. QED
        BY <4>2, <4>3
    <3>6. ASSUME NEW i \in 1..(n + 1), i + MaxRestarts = n + 1,
                 phase' \in {"running", "sleeping"}
          PROVE  exits'[i + MaxRestarts] - exits'[i] > WindowSeconds
      <4>1. ~Rule!Tripped(exits')
        BY <3>4, <3>6
      <4>2. n + 1 > MaxRestarts /\ n + 1 - MaxRestarts = i
        BY <3>0, <3>6
      <4>3. ~(exits'[n + 1] - exits'[i] <= WindowSeconds)
        <5>1. /\ Len(exits') = n + 1 /\ Len(exits') > MaxRestarts
              /\ Len(exits') - MaxRestarts = i
          BY <3>0, <3>1, <4>2
        <5>2. QED
          BY <4>1, <5>1 DEF Rule!Tripped
      <4>4. exits'[n + 1] \in Int /\ exits'[i] \in Int
        <5>1. i \in 1..(n + 1) /\ n + 1 \in 1..(n + 1)
          BY <3>0, <3>6
        <5>2. QED
          BY <3>3, <5>1
      <4>5. exits'[n + 1] - exits'[i] > WindowSeconds
        <5>1. \A x, y \in Int : ~(x - y <= WindowSeconds) => x - y > WindowSeconds
          BY WindowAssumption
        <5>2. QED
          BY <4>3, <4>4, <5>1
      <4>6. QED
        BY <3>6, <4>5
    <3>7. QED
      BY <3>1, <3>5, <3>6 DEF RateIsLimited
  <2>3. CASE Restart \/ Stop \/ Tick \/ UNCHANGED vars
    BY <2>3 DEF Restart, SleepOver, Stop, Tick, vars, RateIsLimited
  <2>4. QED
    BY <2>1, <2>2, <2>3 DEF Next
<1>3. QED
  BY <1>1, <1>2, TypeCorrect, WindowRecent, PTL DEF Spec

\* The deque of the code implements the rule of the documentation, which
\* speaks of all the exits there ever were (README.md:82).
THEOREM RuleImplemented == Spec => CrashLoopRule
<1>1. Init => Rule!Init
  BY DEF Init, Rule!Init
<1>2. TypeOK /\ ExitsInOrder /\ WindowIsRecent /\ TypeOK' /\ [Next]_vars
        => [Rule!Next]_(Rule!vars)
  <2> SUFFICES ASSUME TypeOK, ExitsInOrder, WindowIsRecent, TypeOK', [Next]_vars
               PROVE  [Rule!Next]_(Rule!vars)
    OBVIOUS
  <2> USE DEF Rule!Next
  <2>1. CASE Start
    BY <2>1 DEF Start, Rule!Start
  <2>2. CASE Exit
    <3>1. phase' = "backoff" <=> Rule!Tripped(exits')
      BY <2>2, ExitAllowed
    <3>2. QED
      BY <2>2, <3>1 DEF Exit, Rule!Exit
  <2>3. CASE Restart
    BY <2>3 DEF Restart, SleepOver, Rule!Restart
  <2>4. CASE Stop
    BY <2>4 DEF Stop, Rule!Stop
  <2>5. CASE Tick
    BY <2>5 DEF Tick, Rule!Tick, TypeOK
  <2>6. CASE UNCHANGED vars
    BY <2>6 DEF vars, Rule!vars
  <2>7. QED
    BY <2>1, <2>2, <2>3, <2>4, <2>5, <2>6 DEF Next
<1>3. QED
  BY <1>1, <1>2, TypeCorrect, WindowRecent, PTL DEF Spec, CrashLoopRule, Rule!Spec

\* While a restart is pending its time is set by the last exit, and a tool
\* that runs again has paused for that long.
PauseKept ==
  /\ phase = "sleeping" =>
       Len(exits) > 0 /\ wakeAt = exits[Len(exits)] + BackoffSeconds
  /\ phase = "running" /\ Len(exits) > 0 =>
       now - exits[Len(exits)] >= BackoffSeconds

\* Every two consecutive restarts are backoff_seconds apart (process.py:192).
THEOREM Paced == Spec => []RestartsArePaced
<1> DEFINE Inv == PauseKept /\ RestartsArePaced
<1>1. Init => Inv
  BY DEF Init, PauseKept, RestartsArePaced
<1>2. TypeOK /\ TypeOK' /\ Inv /\ [Next]_vars => Inv'
  <2> SUFFICES ASSUME TypeOK, TypeOK', PauseKept, RestartsArePaced, [Next]_vars
               PROVE  PauseKept' /\ RestartsArePaced'
    OBVIOUS
  <2>0. /\ BackoffSeconds \in Nat /\ now \in Int /\ Len(exits) \in Nat
        /\ \A i \in 1..Len(exits) : exits[i] \in Int
    BY WindowAssumption DEF TypeOK
  <2>1. CASE Start
    BY <2>1 DEF Start, PauseKept, RestartsArePaced
  <2>2. CASE Exit
    <3>1. /\ phase = "running"
          /\ exits' = Append(exits, now)
          /\ phase' = "sleeping" => wakeAt' = now + BackoffSeconds
          /\ phase' \in {"sleeping", "backoff"}
      BY <2>2 DEF Exit
    <3>2. /\ Len(exits') = Len(exits) + 1
          /\ exits'[Len(exits) + 1] = now
          /\ \A i \in 1..Len(exits) : exits'[i] = exits[i]
      BY <3>1 DEF TypeOK
    <3>3. PauseKept'
      BY <2>0, <3>1, <3>2 DEF PauseKept
    <3>4. ASSUME NEW i \in 1..Len(exits)
          PROVE  exits'[i + 1] - exits'[i] >= BackoffSeconds
      <4>1. CASE i = Len(exits)
        <5>1. now - exits[i] >= BackoffSeconds
          BY <3>1, <4>1, <2>0 DEF PauseKept
        <5>2. QED
          BY <3>2, <4>1, <5>1
      <4>2. CASE i # Len(exits)
        <5>1. i \in 1..(Len(exits) - 1) /\ i + 1 \in 1..Len(exits)
          BY <2>0, <4>2
        <5>2. exits[i + 1] - exits[i] >= BackoffSeconds
          BY <5>1 DEF RestartsArePaced
        <5>3. QED
          BY <3>2, <5>1, <5>2
      <4>3. QED
        BY <4>1, <4>2
    <3>5. RestartsArePaced'
      BY <2>0, <3>2, <3>4 DEF RestartsArePaced
    <3>6. QED
      BY <3>3, <3>5
  <2>3. CASE Restart
    BY <2>0, <2>3 DEF Restart, SleepOver, PauseKept, RestartsArePaced
  <2>4. CASE Stop
    BY <2>4 DEF Stop, PauseKept, RestartsArePaced
  <2>5. CASE Tick
    <3>1. exits' = exits /\ now' = now + 1 /\ UNCHANGED <<phase, wakeAt>>
      BY <2>5 DEF Tick
    <3>2. QED
      BY <2>0, <3>1 DEF PauseKept, RestartsArePaced
  <2>6. CASE UNCHANGED vars
    BY <2>6 DEF vars, PauseKept, RestartsArePaced
  <2>7. QED
    BY <2>1, <2>2, <2>3, <2>4, <2>5, <2>6 DEF Next
<1>3. Spec => []Inv
  BY <1>1, <1>2, TypeCorrect, PTL DEF Spec
<1>4. QED
  BY <1>3, PTL

=============================================================================
