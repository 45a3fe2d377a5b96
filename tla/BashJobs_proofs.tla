---------------------------- MODULE BashJobs_proofs ----------------------------
(***************************************************************************)
(* Proofs about BashJobs, for any callers, pids, registry capacity and     *)
(* bounds.                                                                 *)
(***************************************************************************)
EXTENDS BashJobs, TLAPS, FiniteSetTheorems, SequenceTheorems

\* The types of the jobs, those of the calls, and the shape of the registry: its
\* entries stand in the order in which the jobs began, one for a pid.
JobTypeOK ==
  /\ proc \in [Job -> {"none", "running", "exited"}]
  /\ open \in [Job -> BOOLEAN]
  /\ pid \in [Job -> Pids \cup {None}]
  /\ printed \in [Job -> 0..MaxLines] /\ logged \in [Job -> 0..MaxLines]
  /\ nJobs \in 0..MaxJobs

CallTypeOK ==
  /\ callPc \in [Callers -> {"idle", "spawning", "bash", "gathering", "wait"}]
  /\ callJob \in [Callers -> 0..MaxJobs]

Increasing(reg) == \A i, k \in 1..Len(reg) : i < k => reg[i] < reg[k]
OnePerPid(reg)  ==
  \A i, k \in 1..Len(reg) : i # k => pid[reg[i]] # pid[reg[k]]

RegistryInv ==
  /\ registry \in Seq(tracked) /\ tracked \subseteq 1..nJobs
  /\ Len(registry) <= Capacity
  /\ Increasing(registry) /\ OnePerPid(registry)

\* A job has a process once it was begun; of two jobs that were given the same
\* pid the earlier one is no longer running.
PidInv ==
  /\ \A j \in Job : proc[j] = "none" <=> j > nJobs
  /\ \A j \in Job : proc[j] = "none" => ~open[j] /\ pid[j] = None
  /\ \A j, k \in 1..nJobs : j < k /\ pid[j] = pid[k] => proc[j] # "running"

\* The jobs whose creation has not returned are newer than all that were
\* tracked, and each belongs to one call.
CallInv ==
  /\ \A c \in Callers :
       callPc[c] \in {"spawning", "bash", "gathering"} => callJob[c] \in 1..nJobs
  /\ \A c \in Callers :
       callPc[c] = "spawning" => \A j \in tracked : j < callJob[c]
  /\ \A c, d \in Callers :
       callPc[c] = "spawning" /\ callPc[d] = "spawning" /\ c # d
         => callJob[c] # callJob[d]

HistoryInv == strayed = {}

BashInv ==
  /\ JobTypeOK /\ CallTypeOK /\ RegistryInv
  /\ PidInv /\ CallInv /\ HistoryInv /\ RunningIsTracked

-----------------------------------------------------------------------------
(***************************************************************************)
(* The registry.                                                           *)
(***************************************************************************)

\* What is entered is a new last element; but for at most one entry, which has
\* the same pid, the others stay in their order.
LEMMA EnteredProperties ==
  ASSUME NEW j \in Job, NEW T, j \in T, registry \in Seq(T), T \subseteq Int,
         Increasing(registry), OnePerPid(registry),
         \A i \in 1..Len(registry) : registry[i] < j
  PROVE  /\ Entered(j) \in Seq(T) /\ Entered(j) # <<>>
         /\ Len(Entered(j)) <= Len(registry) + 1
         /\ Entered(j)[Len(Entered(j))] = j
         /\ Increasing(Entered(j)) /\ OnePerPid(Entered(j))
         /\ \A i \in 1..Len(registry) :
              pid[registry[i]] # pid[j]
                => \E k \in 1..Len(Entered(j)) : Entered(j)[k] = registry[i]
<1> DEFINE same == {i \in 1..Len(registry) : pid[registry[i]] = pid[j]}
           at   == CHOOSE i \in same : TRUE
           kept == IF same = {} THEN registry
                   ELSE SubSeq(registry, 1, at - 1) \o SubSeq(registry, at + 1, Len(registry))
<1>1. Entered(j) = Append(kept, j)
  BY DEF Entered
<1>2. /\ kept \in Seq(T) /\ Len(kept) <= Len(registry)
      /\ \A i, k \in 1..Len(kept) : i < k => kept[i] < kept[k]
      /\ \A i, k \in 1..Len(kept) : i # k => pid[kept[i]] # pid[kept[k]]
      /\ \A i \in 1..Len(kept) : kept[i] < j /\ pid[kept[i]] # pid[j]
      /\ \A i \in 1..Len(registry) :
           pid[registry[i]] # pid[j] => \E k \in 1..Len(kept) : kept[k] = registry[i]
  <2>1. CASE same = {}
    <3>1. kept = registry
      BY <2>1
    <3>2. \A i \in 1..Len(registry) : pid[registry[i]] # pid[j]
      BY <2>1
    <3> HIDE DEF kept, same
    <3>3. QED
      BY <3>1, <3>2 DEF Increasing, OnePerPid
  <2>2. CASE same # {}
    <3>1. at \in 1..Len(registry) /\ pid[registry[at]] = pid[j]
      BY <2>2
    <3> DEFINE n == Len(registry)
    <3>2. kept = SubSeq(registry, 1, at - 1) \o SubSeq(registry, at + 1, n)
      BY <2>2
    <3> HIDE DEF kept, same, at
    <3> DEFINE left  == SubSeq(registry, 1, at - 1)
               right == SubSeq(registry, at + 1, n)
    <3>3. /\ left \in Seq(T) /\ Len(left) = at - 1
          /\ \A i \in 1..(at - 1) : left[i] = registry[i]
      BY <3>1
    <3>4. /\ right \in Seq(T) /\ Len(right) = n - at
          /\ \A i \in 1..(n - at) : right[i] = registry[at + i]
      BY <3>1
    <3>5. kept = left \o right
      BY <3>2
    <3> HIDE DEF left, right
    <3>6. /\ left \o right \in Seq(T) /\ Len(left \o right) = (at - 1) + (n - at)
          /\ \A i \in 1..(n - 1) :
               (left \o right)[i] = IF i <= at - 1 THEN left[i] ELSE right[i - (at - 1)]
      <4>1. at - 1 \in Nat /\ n - at \in Nat /\ (at - 1) + (n - at) = n - 1
        BY <3>1
      <4>2. /\ left \o right \in Seq(T) /\ Len(left \o right) = Len(left) + Len(right)
            /\ \A i \in 1..(Len(left) + Len(right)) :
                 (left \o right)[i] = IF i <= Len(left) THEN left[i] ELSE right[i - Len(left)]
        BY <3>3, <3>4, ConcatProperties
      <4>3. QED
        BY <3>3, <3>4, <4>1, <4>2
    <3>7. /\ kept \in Seq(T) /\ n \in Nat /\ Len(kept) = n - 1
      BY <3>1, <3>5, <3>6
    <3> DEFINE s(i) == IF i < at THEN i ELSE i + 1
    <3>8. ASSUME NEW i \in 1..(n - 1)
          PROVE  s(i) \in 1..n /\ s(i) # at /\ kept[i] = registry[s(i)]
      BY <3>1, <3>3, <3>4, <3>5, <3>6
    <3>9. \A i, k \in 1..(n - 1) : (i < k => s(i) < s(k)) /\ (i # k => s(i) # s(k))
      BY <3>1
    <3> HIDE DEF s
    <3>10. \A i, k \in 1..(n - 1) : i < k => kept[i] < kept[k]
      BY <3>8, <3>9 DEF Increasing
    <3>11. \A i, k \in 1..(n - 1) : i # k => pid[kept[i]] # pid[kept[k]]
      BY <3>8, <3>9 DEF OnePerPid
    <3>12. ASSUME NEW i \in 1..(n - 1) PROVE kept[i] < j /\ pid[kept[i]] # pid[j]
      <4>1. \A k \in 1..n : k # at => pid[registry[k]] # pid[registry[at]]
        BY <3>1 DEF OnePerPid
      <4>2. QED
        BY <3>1, <3>8, <4>1
    <3>13. ASSUME NEW i \in 1..n, pid[registry[i]] # pid[j]
           PROVE  \E k \in 1..(n - 1) : kept[k] = registry[i]
      <4>1. CASE i < at
        <5>1. i \in 1..(n - 1) /\ s(i) = i
          BY <3>1, <4>1 DEF s
        <5>2. QED
          BY <3>8, <5>1
      <4>2. CASE i > at
        <5>1. i - 1 \in 1..(n - 1) /\ s(i - 1) = i
          BY <3>1, <4>2 DEF s
        <5>2. QED
          BY <3>8, <5>1
      <4>3. QED
        BY <3>1, <3>13, <4>1, <4>2
    <3>14. QED
      BY <3>7, <3>10, <3>11, <3>12, <3>13
  <2>3. QED
    BY <2>1, <2>2
<1> HIDE DEF kept
<1> DEFINE e == Append(kept, j)
<1>3. /\ e \in Seq(T) /\ Len(e) = Len(kept) + 1 /\ e[Len(kept) + 1] = j
      /\ \A i \in 1..Len(kept) : e[i] = kept[i]
  BY <1>2
<1>4. Len(kept) \in Nat /\ Len(registry) \in Nat
  BY <1>2
<1> HIDE DEF e
<1>5. Increasing(e)
  BY <1>2, <1>3, <1>4 DEF Increasing
<1>6. OnePerPid(e)
  <2>1. ASSUME NEW i \in 1..Len(kept), NEW k \in 1..Len(kept), i # k
        PROVE  pid[e[i]] # pid[e[k]]
    BY <1>2, <1>3, <2>1
  <2>2. \A i \in 1..Len(kept) : pid[e[i]] # pid[j]
    BY <1>2, <1>3
  <2>3. \A i \in 1..Len(e) : i \in 1..Len(kept) \/ i = Len(kept) + 1
    BY <1>3, <1>4
  <2>4. QED
    BY <1>3, <2>1, <2>2, <2>3 DEF OnePerPid
<1>7. ASSUME NEW i \in 1..Len(registry), pid[registry[i]] # pid[j]
      PROVE  \E k \in 1..Len(e) : e[k] = registry[i]
  BY <1>2, <1>3, <1>4, <1>7
<1>8. e # <<>>
  BY <1>3, <1>4
<1>9. QED
  BY <1>1, <1>2, <1>3, <1>4, <1>5, <1>6, <1>7, <1>8 DEF e

\* Eviction keeps the last Capacity entries of a registry that is one too long.
LEMMA EvictedProperties ==
  ASSUME NEW T, T \subseteq Int, NEW reg \in Seq(T), reg # <<>>,
         Len(reg) <= Capacity + 1, Increasing(reg), OnePerPid(reg)
  PROVE  /\ Evicted(reg) \in Seq(T) /\ Len(Evicted(reg)) <= Capacity
         /\ Increasing(Evicted(reg)) /\ OnePerPid(Evicted(reg))
         /\ \A i \in 1..Len(reg) :
              \/ \E k \in 1..Len(Evicted(reg)) : Evicted(reg)[k] = reg[i]
              \/ i = 1 /\ Len(reg) = Capacity + 1
<1> USE BashAssumption
<1>1. CASE Len(reg) > Capacity
  <2>1. Len(reg) = Capacity + 1
    BY <1>1
  <2>2. Evicted(reg) = SubSeq(reg, 2, Capacity + 1)
    BY <2>1 DEF Evicted
  <2> DEFINE e == SubSeq(reg, 2, Capacity + 1)
  <2>3. e \in Seq(T) /\ Len(e) = Capacity /\ \A i \in 1..Capacity : e[i] = reg[i + 1]
    BY <2>1
  <2> HIDE DEF e
  <2>4. \A i \in 1..Capacity : i + 1 \in 1..Len(reg)
    BY <2>1
  <2>5. Increasing(e) /\ OnePerPid(e)
    <3> SUFFICES ASSUME NEW i \in 1..Capacity, NEW k \in 1..Capacity
                 PROVE  (i < k => e[i] < e[k]) /\ (i # k => pid[e[i]] # pid[e[k]])
      BY <2>3 DEF Increasing, OnePerPid
    <3>1. /\ i + 1 \in 1..Len(reg) /\ k + 1 \in 1..Len(reg)
          /\ (i < k => i + 1 < k + 1) /\ (i # k => i + 1 # k + 1)
      BY <2>1
    <3>2. \A a, b \in 1..Len(reg) :
            (a < b => reg[a] < reg[b]) /\ (a # b => pid[reg[a]] # pid[reg[b]])
      BY DEF Increasing, OnePerPid
    <3>3. e[i] = reg[i + 1] /\ e[k] = reg[k + 1]
      BY <2>3
    <3>4. QED
      BY <3>1, <3>2, <3>3
  <2>6. ASSUME NEW i \in 1..Len(reg), i # 1 PROVE \E k \in 1..Len(e) : e[k] = reg[i]
    <3>1. i - 1 \in 1..Len(e) /\ e[i - 1] = reg[i]
      BY <2>1, <2>3, <2>6
    <3>2. QED
      BY <3>1
  <2>7. /\ e \in Seq(T) /\ Len(e) <= Capacity
        /\ \A i \in 1..Len(reg) :
             (\E k \in 1..Len(e) : e[k] = reg[i]) \/ (i = 1 /\ Len(reg) = Capacity + 1)
    BY <2>1, <2>3, <2>6
  <2>8. Evicted(reg) = e
    BY <2>2 DEF e
  <2>9. QED
    BY <2>5, <2>7, <2>8
<1>2. CASE ~(Len(reg) > Capacity)
  BY <1>2 DEF Evicted
<1>3. QED
  BY <1>1, <1>2

\* The first of an increasing sequence has all the others above it.
LEMMA AboveTheFirst ==
  ASSUME NEW T, T \subseteq Int, IsFiniteSet(T), NEW reg \in Seq(T), Increasing(reg),
         NEW n \in Nat, Len(reg) = n + 1
  PROVE  Cardinality({k \in T : k > reg[1]}) >= n
<1> DEFINE above == {k \in T : k > reg[1]}
           f == [i \in 1..n |-> reg[i + 1]]
<1>1. IsFiniteSet(above)
  BY FS_Subset
<1>2. \A i \in 1..n : i + 1 \in 1..Len(reg) /\ 1 < i + 1
  OBVIOUS
<1>3. 1 \in 1..Len(reg)
  OBVIOUS
<1>4. \A i \in 1..n : reg[i + 1] \in above
  BY <1>2, <1>3 DEF Increasing
<1>5. \A i, k \in 1..n : i # k => reg[i + 1] # reg[k + 1]
  <2>1. ASSUME NEW i \in 1..n, NEW k \in 1..n, i < k PROVE reg[i + 1] # reg[k + 1]
    <3>1. reg[i + 1] < reg[k + 1]
      <4>1. i + 1 \in 1..Len(reg) /\ k + 1 \in 1..Len(reg) /\ i + 1 < k + 1
        BY <2>1
      <4>2. QED
        BY <4>1 DEF Increasing
    <3>2. reg[i + 1] \in Int /\ reg[k + 1] \in Int
      <4>1. \A a \in 1..Len(reg) : reg[a] \in T
        OBVIOUS
      <4>2. QED
        BY <1>2, <4>1
    <3>3. QED
      BY <3>1, <3>2
  <2>2. \A i, k \in 1..n : i # k => i < k \/ k < i
    OBVIOUS
  <2>3. QED
    BY <2>1, <2>2
<1> HIDE DEF above
<1>6. f \in Injection(1..n, above)
  BY <1>4, <1>5 DEF Injection, IsInjective
<1>7. Cardinality(1..n) <= Cardinality(above)
  BY <1>1, <1>6, FS_Injection
<1>8. Cardinality(1..n) = n
  BY FS_Interval
<1>9. Cardinality(above) \in Nat
  BY <1>1, FS_CardinalityType
<1>10. QED
  BY <1>7, <1>8, <1>9 DEF above

-----------------------------------------------------------------------------
(***************************************************************************)
(* The steps of the calls, each with what it may disturb.                  *)
(***************************************************************************)

\* A shell that was begun is the newest job, and its pid was free.
LEMMA BashStep ==
  ASSUME BashInv, NEW c \in Callers, Bash(c)
  PROVE  BashInv'
<1> DEFINE n == nJobs + 1
<1> USE BashAssumption DEF JobTypeOK
<1>1. PICK p \in FreePids : pid' = [pid EXCEPT ![n] = p]
  BY DEF Bash
<1>2. /\ nJobs' = n /\ n \in Job /\ nJobs \in Nat
      /\ proc' = [proc EXCEPT ![n] = "running"]
      /\ open' = [open EXCEPT ![n] = TRUE]
      /\ callPc[c] = "idle"
      /\ callPc' = [callPc EXCEPT ![c] = "spawning"]
      /\ callJob' = [callJob EXCEPT ![c] = n]
      /\ UNCHANGED <<printed, logged, registry, tracked, strayed>>
  BY DEF Bash, BashInv, Job
<1>3. p \in Pids /\ p # None /\ \A k \in Job : proc[k] = "running" => pid[k] # p
  BY DEF FreePids, None
<1>4. \A j \in 1..nJobs : j \in Job /\ j # n
  BY <1>2 DEF Job
<1>5. JobTypeOK' /\ CallTypeOK'
  <2>1. JobTypeOK'
    BY <1>1, <1>2, <1>3 DEF BashInv, Job
  <2>2. CallTypeOK'
    BY <1>2 DEF BashInv, CallTypeOK, Job
  <2>3. QED
    BY <2>1, <2>2
<1> HIDE DEF n, JobTypeOK
<1>6. PidInv'
  <2>1. \A j \in Job : proc'[j] = "none" <=> j > nJobs'
    BY <1>2 DEF BashInv, PidInv, Job, JobTypeOK, n
  <2>2. \A j \in Job : proc'[j] = "none" => ~open'[j] /\ pid'[j] = None
    BY <1>1, <1>2 DEF BashInv, PidInv, JobTypeOK
  <2>3. ASSUME NEW j \in 1..n, NEW k \in 1..n, j < k, pid'[j] = pid'[k]
        PROVE  proc'[j] # "running"
    <3>1. j \in 1..nJobs
      BY <1>2, <2>3 DEF n
    <3>2. pid'[j] = pid[j] /\ proc'[j] = proc[j] /\ j \in Job
      BY <1>1, <1>2, <1>4, <3>1 DEF BashInv, JobTypeOK
    <3>3. CASE k = n
      BY <1>1, <1>2, <1>3, <2>3, <3>2, <3>3 DEF BashInv, JobTypeOK
    <3>4. CASE k # n
      <4>1. k \in 1..nJobs
        BY <1>2, <3>4 DEF n
      <4>2. pid'[k] = pid[k]
        BY <1>1, <1>4, <4>1 DEF BashInv, JobTypeOK
      <4>3. QED
        BY <2>3, <3>1, <3>2, <4>1, <4>2 DEF BashInv, PidInv
    <3>5. QED
      BY <3>3, <3>4
  <2>4. QED
    BY <1>2, <2>1, <2>2, <2>3 DEF PidInv
<1>7. tracked \subseteq 1..nJobs /\ \A j \in tracked : j < n /\ j \in Job /\ j # n
  BY <1>2, <1>4 DEF BashInv, RegistryInv, n
<1>8. RegistryInv'
  <2>1. ASSUME NEW i \in 1..Len(registry) PROVE pid'[registry[i]] = pid[registry[i]]
    <3>1. registry[i] \in tracked
      BY DEF BashInv, RegistryInv
    <3>2. QED
      BY <1>1, <1>7, <3>1 DEF BashInv, JobTypeOK
  <2>2. OnePerPid(registry)'
    BY <1>2, <2>1 DEF BashInv, RegistryInv, OnePerPid
  <2>3. Increasing(registry)'
    BY <1>2 DEF BashInv, RegistryInv, Increasing
  <2>4. QED
    BY <1>2, <1>7, <2>2, <2>3 DEF BashInv, RegistryInv, n
<1>9. CallInv'
  <2>1. \A d \in Callers \ {c} : callPc'[d] = callPc[d] /\ callJob'[d] = callJob[d]
    BY <1>2 DEF BashInv, CallTypeOK
  <2>2. callPc'[c] = "spawning" /\ callJob'[c] = n
    BY <1>2 DEF BashInv, CallTypeOK
  <2>3. n \in 1..n /\ \A j \in 1..nJobs : j \in 1..n /\ j # n
    BY <1>2 DEF n
  <2>4. QED
    BY <1>2, <1>7, <2>1, <2>2, <2>3 DEF BashInv, CallInv
<1>10. RunningIsTracked'
  <2>1. \A j \in tracked : proc'[j] = proc[j]
    BY <1>2, <1>7 DEF BashInv, JobTypeOK
  <2>2. QED
    BY <1>2, <2>1 DEF BashInv, RunningIsTracked, InRegistry
<1>11. HistoryInv'
  BY <1>2 DEF BashInv, HistoryInv
<1>12. QED
  BY <1>5, <1>6, <1>8, <1>9, <1>10, <1>11 DEF BashInv

\* Jobs become tracked in the order in which they began; what the registry drops
\* has ended, or has a full registry of newer jobs above it.
LEMMA TrackStep ==
  ASSUME BashInv, NEW c \in Callers, Track(c)
  PROVE  BashInv'
<1> DEFINE j == callJob[c]
           T == tracked \cup {j}
           e == Entered(j)
<1>1. /\ callPc[c] = "spawning"
      /\ \A d \in Callers : callPc[d] = "spawning" => j <= callJob[d]
      /\ registry' = Evicted(e) /\ tracked' = T
      /\ callPc' = [callPc EXCEPT ![c] = "bash"]
      /\ UNCHANGED <<proc, open, pid, printed, nJobs, logged, callJob, strayed>>
  BY DEF Track, jobVars
<1>2. /\ j \in 1..nJobs /\ nJobs \in 0..MaxJobs /\ j \in Job
      /\ \A i \in tracked : i < j
      /\ tracked \subseteq 1..nJobs
  <2>1. nJobs \in 0..MaxJobs /\ tracked \subseteq 1..nJobs
    BY DEF BashInv, RegistryInv, JobTypeOK
  <2>2. j \in 1..nJobs /\ \A i \in tracked : i < j
    BY <1>1 DEF BashInv, CallInv
  <2>3. QED
    BY <2>1, <2>2, BashAssumption DEF Job
<1>3. T \subseteq 1..nJobs /\ T \subseteq Int /\ j \in T
  <2>1. T \subseteq 1..nJobs
    BY <1>2
  <2>2. 1..nJobs \subseteq Int
    OBVIOUS
  <2>3. QED
    BY <2>1, <2>2
<1>4. /\ registry \in Seq(T) /\ Len(registry) <= Capacity
      /\ Increasing(registry) /\ OnePerPid(registry)
      /\ \A i \in 1..Len(registry) : registry[i] \in tracked /\ registry[i] < j
  <2>1. registry \in Seq(tracked)
    BY DEF BashInv, RegistryInv
  <2>2. registry \in Seq(T)
    BY <2>1
  <2>3. \A i \in 1..Len(registry) : registry[i] \in tracked
    BY <2>1
  <2>4. QED
    BY <1>2, <2>2, <2>3 DEF BashInv, RegistryInv
<1> HIDE DEF j, T
<1>5. /\ e \in Seq(T) /\ e # <<>> /\ Len(e) <= Len(registry) + 1
      /\ e[Len(e)] = j /\ Increasing(e) /\ OnePerPid(e)
      /\ \A i \in 1..Len(registry) :
           pid[registry[i]] # pid[j] => \E k \in 1..Len(e) : e[k] = registry[i]
  BY <1>2, <1>3, <1>4, EnteredProperties
<1> HIDE DEF e
<1>6. Len(e) <= Capacity + 1
  BY <1>4, <1>5, BashAssumption
<1>7. /\ Evicted(e) \in Seq(T) /\ Len(Evicted(e)) <= Capacity
      /\ Increasing(Evicted(e)) /\ OnePerPid(Evicted(e))
      /\ \A i \in 1..Len(e) :
           \/ \E k \in 1..Len(Evicted(e)) : Evicted(e)[k] = e[i]
           \/ i = 1 /\ Len(e) = Capacity + 1
  BY <1>3, <1>5, <1>6, EvictedProperties
<1>8. JobTypeOK' /\ CallTypeOK' /\ PidInv' /\ HistoryInv'
  BY <1>1 DEF BashInv, JobTypeOK, CallTypeOK, PidInv, HistoryInv
<1>9. RegistryInv'
  BY <1>1, <1>3, <1>7 DEF RegistryInv, Increasing, OnePerPid
<1>10. CallInv'
  <2>1. \A d \in Callers :
          /\ callPc'[d] = "spawning" => d # c /\ callPc[d] = "spawning"
          /\ callPc'[d] \in {"spawning", "bash", "gathering"}
               => callPc[d] \in {"spawning", "bash", "gathering"}
    BY <1>1 DEF BashInv, CallTypeOK
  <2>2. \A d \in Callers : callPc'[d] = "spawning" => j < callJob[d]
    <3> SUFFICES ASSUME NEW d \in Callers, callPc'[d] = "spawning" PROVE j < callJob[d]
      OBVIOUS
    <3>1. d # c /\ callPc[d] = "spawning"
      BY <2>1
    <3>2. j <= callJob[d] /\ callJob[d] # j /\ callJob[d] \in Int
      BY <1>1, <3>1 DEF BashInv, CallInv, CallTypeOK, j
    <3>3. QED
      BY <1>2, <3>2
  <2>3. \A d \in Callers : callPc'[d] = "spawning" => \A i \in tracked' : i < callJob'[d]
    BY <1>1, <2>1, <2>2 DEF BashInv, CallInv, T
  <2>4. QED
    BY <1>1, <2>1, <2>3 DEF BashInv, CallInv
<1>11. IsFiniteSet(T)
  <2>1. 1 \in Int /\ nJobs \in Int
    BY <1>2
  <2>2. IsFiniteSet(1..nJobs)
    BY <2>1, FS_Interval
  <2>3. QED
    BY <1>3, <2>2, FS_Subset
<1>12. RunningIsTracked'
  <2> SUFFICES ASSUME NEW i \in T, proc[i] = "running", ~InRegistry(i)'
               PROVE  Cardinality({k \in T : k > i}) >= Capacity
    BY <1>1 DEF RunningIsTracked
  <2>1. \A k \in 1..Len(Evicted(e)) : Evicted(e)[k] # i
    BY <1>1 DEF InRegistry
  <2>2. CASE \E k \in 1..Len(e) : e[k] = i
    <3>1. e[1] = i /\ Len(e) = Capacity + 1
      BY <1>7, <2>1, <2>2
    <3>2. Capacity \in Nat
      BY BashAssumption
    <3>3. QED
      BY <1>3, <1>5, <1>11, <3>1, <3>2, AboveTheFirst
  <2>3. CASE \A k \in 1..Len(e) : e[k] # i
    <3>1. i # j /\ i \in tracked
      <4>1. Len(e) \in 1..Len(e)
        BY <1>5
      <4>2. QED
        BY <1>5, <2>3, <4>1 DEF T
    <3>2. pid[i] # pid[j]
      BY <1>2, <3>1 DEF BashInv, PidInv
    <3>3. \A k \in 1..Len(registry) : registry[k] # i
      BY <1>5, <2>3, <3>2
    <3>4. Cardinality({k \in tracked : k > i}) >= Capacity
      BY <3>1, <3>3 DEF BashInv, RunningIsTracked, InRegistry
    <3>5. /\ IsFiniteSet({k \in T : k > i})
          /\ {k \in tracked : k > i} \subseteq {k \in T : k > i}
      BY <1>11, FS_Subset DEF T
    <3>6. /\ Cardinality({k \in tracked : k > i}) <= Cardinality({k \in T : k > i})
          /\ Cardinality({k \in tracked : k > i}) \in Nat
          /\ Cardinality({k \in T : k > i}) \in Nat
      BY <3>5, FS_Subset, FS_CardinalityType
    <3>7. QED
      BY <3>4, <3>6, BashAssumption
  <2>4. QED
    BY <2>2, <2>3
<1>13. QED
  BY <1>8, <1>9, <1>10, <1>12 DEF BashInv

\* The other steps of the calls leave the jobs and the registry alone, and no
\* call takes up another job but to wait for it.
LEMMA CallFrame ==
  ASSUME BashInv, NEW c \in Callers,
         UNCHANGED <<jobVars, logged, registry, tracked, strayed>>,
         NEW pc \in {"idle", "gathering", "wait"}, NEW j \in 0..MaxJobs,
         callPc' = [callPc EXCEPT ![c] = pc],
         callJob' = [callJob EXCEPT ![c] = j],
         pc = "gathering" => callPc[c] = "bash" /\ j = callJob[c]
  PROVE  BashInv'
<1> USE DEF BashInv, jobVars
<1>1. JobTypeOK' /\ PidInv' /\ HistoryInv'
  BY DEF JobTypeOK, PidInv, HistoryInv
<1>2. CallTypeOK'
  BY DEF CallTypeOK
<1>3. RegistryInv' /\ RunningIsTracked'
  BY DEF RegistryInv, Increasing, OnePerPid, RunningIsTracked, InRegistry
<1>4. CallInv'
  <2>1. /\ \A d \in Callers \ {c} : callPc'[d] = callPc[d] /\ callJob'[d] = callJob[d]
        /\ callPc'[c] = pc /\ callJob'[c] = j
    BY DEF CallTypeOK
  <2>2. QED
    BY <2>1 DEF CallInv
<1>5. QED
  BY <1>1, <1>2, <1>3, <1>4

\* A signal hits nobody else: the job it is for has a process, and a pid belongs
\* to one process at a time.
LEMMA KillStep ==
  ASSUME BashInv, NEW c \in Callers, Kill(c)
  PROVE  strayed' = strayed
<1>1. PICK j \in Job :
        /\ InRegistry(j) /\ Killable(j)
        /\ strayed' = strayed \cup
             {k \in Job \ {j} : proc[k] = "running" /\ pid[k] = pid[j]}
  BY DEF Kill
<1>2. j \in 1..nJobs
  <2>1. PICK i \in 1..Len(registry) : registry[i] = j
    BY <1>1 DEF InRegistry
  <2>2. registry[i] \in tracked /\ tracked \subseteq 1..nJobs
    BY DEF BashInv, RegistryInv
  <2>3. QED
    BY <2>1, <2>2
<1>3. proc[j] = "running"
  BY <1>1, <1>2 DEF Killable, Returncode, BashInv, PidInv, JobTypeOK
<1>4. ASSUME NEW k \in Job \ {j}, proc[k] = "running", pid[k] = pid[j] PROVE FALSE
  <2>1. k \in 1..nJobs /\ (k < j \/ j < k)
    BY <1>2, <1>4 DEF BashInv, PidInv, JobTypeOK, Job
  <2>2. QED
    BY <1>2, <1>3, <1>4, <2>1 DEF BashInv, PidInv
<1>5. QED
  BY <1>1, <1>4

\* A step of a job or of its pumps.
LEMMA JobStep ==
  ASSUME BashInv, NEW j \in Job, Write(j) \/ CloseOutput(j) \/ Exit(j) \/ Pump(j)
  PROVE  BashInv'
<1>1. UNCHANGED <<pid, nJobs, registry, tracked, callPc, callJob, strayed>>
  BY DEF Write, CloseOutput, Exit, Pump, jobVars, callVars
<1>2. /\ proc' \in [Job -> {"none", "running", "exited"}]
      /\ \A k \in Job : /\ proc'[k] = "none" <=> proc[k] = "none"
                        /\ proc'[k] = "running" => proc[k] = "running"
  <2>1. CASE UNCHANGED proc
    BY <2>1 DEF BashInv, JobTypeOK
  <2>2. CASE Exit(j)
    BY <2>2 DEF Exit, BashInv, JobTypeOK
  <2>3. QED
    BY <2>1, <2>2 DEF Write, CloseOutput, Pump, jobVars
<1>3. /\ open' \in [Job -> BOOLEAN]
      /\ \A k \in Job : ~open[k] => ~open'[k]
  <2>1. CASE UNCHANGED open
    BY <2>1 DEF BashInv, JobTypeOK
  <2>2. CASE CloseOutput(j)
    BY <2>2 DEF CloseOutput, BashInv, JobTypeOK
  <2>3. QED
    BY <2>1, <2>2 DEF Write, Exit, Pump, jobVars
<1>4. printed' \in [Job -> 0..MaxLines]
  <2>1. CASE UNCHANGED printed
    BY <2>1 DEF BashInv, JobTypeOK
  <2>2. CASE Write(j)
    BY <2>2, BashAssumption DEF Write, BashInv, JobTypeOK
  <2>3. QED
    BY <2>1, <2>2 DEF CloseOutput, Exit, Pump, jobVars
<1>5. logged' \in [Job -> 0..MaxLines]
  <2>1. CASE UNCHANGED logged
    BY <2>1 DEF BashInv, JobTypeOK
  <2>2. CASE Pump(j)
    BY <2>2, BashAssumption DEF Pump, BashInv, JobTypeOK
  <2>3. QED
    BY <2>1, <2>2 DEF CloseOutput, Exit, Write
<1>6. JobTypeOK' /\ CallTypeOK'
  BY <1>1, <1>2, <1>3, <1>4, <1>5 DEF BashInv, JobTypeOK, CallTypeOK
<1>7. 1..nJobs \subseteq Job
  BY BashAssumption DEF BashInv, JobTypeOK, Job
<1>8. PidInv'
  BY <1>1, <1>2, <1>3, <1>7 DEF BashInv, PidInv
<1>9. RegistryInv' /\ CallInv' /\ HistoryInv'
  BY <1>1 DEF BashInv, RegistryInv, Increasing, OnePerPid, CallInv, HistoryInv
<1>10. RunningIsTracked'
  <2>1. \A k \in tracked : k \in Job
    BY <1>7 DEF BashInv, RegistryInv
  <2>2. QED
    BY <1>1, <1>2, <2>1 DEF BashInv, RunningIsTracked, InRegistry
<1>11. QED
  BY <1>6, <1>8, <1>9, <1>10 DEF BashInv

-----------------------------------------------------------------------------

\* The inductive invariant holds in every reachable state (manager.py:114-187).
THEOREM Invariance == Spec => []BashInv
<1>1. Init => BashInv
  <2> SUFFICES ASSUME Init PROVE BashInv
    OBVIOUS
  <2>1. JobTypeOK /\ CallTypeOK
    BY BashAssumption DEF Init, JobTypeOK, CallTypeOK, None
  <2>2. RegistryInv
    BY BashAssumption DEF Init, RegistryInv, Increasing, OnePerPid
  <2>3. PidInv
    BY BashAssumption DEF Init, PidInv, Job
  <2>4. CallInv /\ HistoryInv /\ RunningIsTracked
    BY DEF Init, CallInv, HistoryInv, RunningIsTracked
  <2>5. QED
    BY <2>1, <2>2, <2>3, <2>4 DEF BashInv
<1>2. BashInv /\ [Next]_vars => BashInv'
  <2> SUFFICES ASSUME BashInv, [Next]_vars PROVE BashInv'
    OBVIOUS
  <2>1. ASSUME NEW c \in Callers, Bash(c) PROVE BashInv'
    BY <2>1, BashStep
  <2>2. ASSUME NEW c \in Callers, Track(c) PROVE BashInv'
    BY <2>2, TrackStep
  <2>3. ASSUME NEW c \in Callers, BashExited(c) PROVE BashInv'
    <3>1. callJob[c] \in 0..MaxJobs /\ callJob' = [callJob EXCEPT ![c] = callJob[c]]
      BY <2>3 DEF BashExited, BashInv, CallTypeOK
    <3>2. QED
      BY <2>3, <3>1, CallFrame DEF BashExited
  <2>4. ASSUME NEW c \in Callers, Gathered(c) \/ BashTimeout(c) \/ WaitReturn(c)
        PROVE  BashInv'
    <3>1. /\ UNCHANGED <<jobVars, logged, registry, tracked, strayed>>
          /\ callPc' = [callPc EXCEPT ![c] = "idle"]
          /\ callJob' = [callJob EXCEPT ![c] = None]
      BY <2>4 DEF Gathered, BashTimeout, WaitReturn, Return
    <3>2. None \in 0..MaxJobs
      BY BashAssumption DEF None
    <3>3. QED
      BY <3>1, <3>2, CallFrame
  <2>5. ASSUME NEW c \in Callers, Wait(c) PROVE BashInv'
    <3>1. PICK j \in Job : /\ callPc' = [callPc EXCEPT ![c] = "wait"]
                           /\ callJob' = [callJob EXCEPT ![c] = j]
      BY <2>5 DEF Wait
    <3>2. j \in 0..MaxJobs
      BY BashAssumption DEF Job
    <3>3. QED
      <4>1. UNCHANGED <<jobVars, logged, registry, tracked, strayed>>
        BY <2>5 DEF Wait
      <4>2. QED
        BY <3>1, <3>2, <4>1, CallFrame
  <2>6. CASE UNCHANGED vars
    <3>1. UNCHANGED <<proc, open, pid, printed, nJobs, logged, registry, tracked, callPc,
                      callJob, strayed>>
      BY <2>6 DEF vars, jobVars, callVars
    <3>2. JobTypeOK' /\ CallTypeOK' /\ PidInv' /\ CallInv' /\ HistoryInv'
      BY <3>1 DEF BashInv, JobTypeOK, CallTypeOK, PidInv, CallInv, HistoryInv
    <3>3. RegistryInv' /\ RunningIsTracked'
      BY <3>1 DEF BashInv, RegistryInv, Increasing, OnePerPid, RunningIsTracked, InRegistry
    <3>4. QED
      BY <3>2, <3>3 DEF BashInv
  <2>7. ASSUME NEW c \in Callers, Kill(c) PROVE BashInv'
    BY <2>6, <2>7, KillStep DEF Kill, vars
  <2>8. QED
    BY <2>1, <2>2, <2>3, <2>4, <2>5, <2>6, <2>7, JobStep DEF Next
<1>3. QED
  BY <1>1, <1>2, PTL DEF Spec

\* Type correctness; the registry never outgrows its capacity and has one entry
\* for a pid (manager.py:20-28, 161-165).
THEOREM TypeCorrect == Spec => []TypeOK
<1>1. BashInv => TypeOK
  <2> SUFFICES ASSUME BashInv PROVE TypeOK
    OBVIOUS
  <2>1. tracked \subseteq Job
    BY BashAssumption DEF BashInv, RegistryInv, JobTypeOK, Job
  <2>2. registry \in Seq(Job)
    BY <2>1, SeqMonotonic DEF BashInv, RegistryInv
  <2>3. strayed \subseteq Job
    BY DEF BashInv, HistoryInv
  <2>4. /\ Len(registry) <= Capacity
        /\ \A i, k \in 1..Len(registry) : i # k => pid[registry[i]] # pid[registry[k]]
    BY DEF BashInv, RegistryInv, OnePerPid
  <2>5. QED
    BY <2>1, <2>2, <2>3, <2>4 DEF TypeOK, BashInv, JobTypeOK, CallTypeOK
<1>2. QED
  BY <1>1, Invariance, PTL

\* A running job loses its entry only to a full registry of newer jobs
\* (manager.py:161-165).
THEOREM RunningTracked == Spec => []RunningIsTracked
<1>1. BashInv => RunningIsTracked
  BY DEF BashInv
<1>2. QED
  BY <1>1, Invariance, PTL

\* A signal never hits a job it was not meant for (manager.py:178-187).
THEOREM KillHits == Spec => []KillHitsItsJob
<1>1. BashInv => KillHitsItsJob
  BY DEF BashInv, HistoryInv, KillHitsItsJob
<1>2. QED
  BY <1>1, Invariance, PTL

=============================================================================
