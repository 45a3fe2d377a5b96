---------------------------- MODULE LogPump_proofs ----------------------------
(***************************************************************************)
(* Proofs about LogPump, for any output, chunks, limits and capacity.      *)
(***************************************************************************)
EXTENDS LogPump, TLAPS, WellFoundedInduction, SequenceTheorems

\* A set of positions has a least one.
LEMMA LeastPosition ==
  ASSUME NEW S, S \subseteq Nat, S # {}
  PROVE  Min(S) \in S /\ \A y \in S : Min(S) <= y
<1>1. PICK m \in S : \A y \in S : ~(<<y, m>> \in OpToRel(<, Nat))
  BY WFMin, NatLessThanWellFounded, Zenon
<1>2. \A y \in S : m <= y
  <2> SUFFICES ASSUME NEW y \in S, y < m
               PROVE  FALSE
    OBVIOUS
  <2>1. <<y, m>> \in OpToRel(<, Nat)
    BY DEF OpToRel
  <2>2. QED
    BY <1>1, <2>1
<1>3. QED
  BY <1>2 DEF Min

\* The position of the newline that ends the line at p of out.
EndOf(out, p) == Min({q \in p .. Len(out) : out[q] = "nl"} \cup {Len(out) + 1})

\* EndOf is what readuntil looks for.
LEMMA EndOfLine ==
  ASSUME NEW out \in Seq(Byte), NEW p \in 1 .. Len(out)
  PROVE  /\ EndOf(out, p) \in p .. Len(out) + 1
         /\ \A q \in p .. EndOf(out, p) - 1 : out[q] = "x"
         /\ EndOf(out, p) <= Len(out) => out[EndOf(out, p)] = "nl"
<1> DEFINE S == {q \in p .. Len(out) : out[q] = "nl"} \cup {Len(out) + 1}
<1>1. S \subseteq Nat /\ S # {}
  OBVIOUS
<1>2. EndOf(out, p) = Min(S)
  BY DEF EndOf
<1> HIDE DEF S
<1>3. EndOf(out, p) \in S /\ \A y \in S : EndOf(out, p) <= y
  BY <1>1, <1>2, LeastPosition
<1>4. EndOf(out, p) \in p .. Len(out) + 1 /\ (EndOf(out, p) <= Len(out) => out[EndOf(out, p)] = "nl")
  BY <1>3 DEF S
<1>5. ASSUME NEW q \in p .. EndOf(out, p) - 1
      PROVE  out[q] = "x"
  <2>1. q \in 1 .. Len(out) /\ q < EndOf(out, p)
    BY <1>4
  <2>2. out[q] \in Byte /\ out[q] # "nl"
    BY <1>3, <2>1 DEF S
  <2>3. QED
    BY <2>2 DEF Byte
<1>6. QED
  BY <1>4, <1>5

\* The entry that the bytes of s from p on make, and where the next one starts.
EntryAt(k, out, s, p) ==
  LET n == EndOf(out, p) - p
  IN  IF n > Limit \/ (k = "process" /\ n > MaxLine)
        THEN Entry(s, p, p + MaxLine - 1, TRUE)
        ELSE Entry(s, p, p + n - 1, FALSE)

After(out, p) ==
  IF EndOf(out, p) - p > Limit THEN p + MaxLine
  ELSE IF EndOf(out, p) > Len(out) THEN Len(out) + 1
  ELSE EndOf(out, p) + 1

Logged == [stream : Stream, first : Nat, last : Nat, truncated : BOOLEAN]

\* An entry is made of bytes of its line, and the next entry starts behind it.
LEMMA EntryShape ==
  ASSUME NEW k, NEW s \in Stream, NEW out \in Seq(Byte), NEW p \in 1 .. Len(out)
  PROVE  /\ EntryAt(k, out, s, p) \in Logged
         /\ EntryAt(k, out, s, p).stream = s /\ EntryAt(k, out, s, p).first = p
         /\ After(out, p) \in p + 1 .. Len(out) + 1
         /\ EntryAt(k, out, s, p).last < After(out, p)
         /\ \A q \in p .. EntryAt(k, out, s, p).last : out[q] = "x"
<1> DEFINE e == EndOf(out, p)
<1>1. /\ e \in p .. Len(out) + 1 /\ (e <= Len(out) => out[e] = "nl")
      /\ \A q \in p .. e - 1 : out[q] = "x"
  BY EndOfLine
<1>2. Len(out) \in Nat /\ MaxLine \in Nat \ {0} /\ Limit \in Nat /\ MaxLine <= Limit
  BY ParamsAssumption
<1>3. CASE e - p > Limit \/ (k = "process" /\ e - p > MaxLine)
  <2>1. EntryAt(k, out, s, p) = Entry(s, p, p + MaxLine - 1, TRUE)
    BY <1>3 DEF EntryAt
  <2>2. p + MaxLine - 1 \in Nat /\ p + MaxLine - 1 < e
    BY <1>1, <1>2, <1>3
  <2>3. After(out, p) \in p + 1 .. Len(out) + 1 /\ p + MaxLine - 1 < After(out, p)
    BY <1>1, <1>2, <1>3, <2>2 DEF After
  <2>4. \A q \in p .. p + MaxLine - 1 : out[q] = "x"
    BY <1>1, <1>2, <2>2
  <2>5. /\ EntryAt(k, out, s, p).stream = s /\ EntryAt(k, out, s, p).first = p
        /\ EntryAt(k, out, s, p).last = p + MaxLine - 1
    BY <2>1 DEF Entry
  <2>6. EntryAt(k, out, s, p) \in Logged
    BY <2>1, <2>2 DEF Entry, Logged
  <2>7. QED
    BY <2>3, <2>4, <2>5, <2>6
<1>4. CASE ~(e - p > Limit \/ (k = "process" /\ e - p > MaxLine))
  <2>0. p + (e - p) - 1 = e - 1
    BY <1>1
  <2>1. EntryAt(k, out, s, p) = Entry(s, p, e - 1, FALSE)
    BY <1>4, <2>0 DEF EntryAt
  <2>2. e - 1 \in Nat
    BY <1>1
  <2>3. After(out, p) \in p + 1 .. Len(out) + 1 /\ e - 1 < After(out, p)
    BY <1>1, <1>2, <1>4 DEF After
  <2>4. /\ EntryAt(k, out, s, p).stream = s /\ EntryAt(k, out, s, p).first = p
        /\ EntryAt(k, out, s, p).last = e - 1
    BY <2>1 DEF Entry
  <2>5. EntryAt(k, out, s, p) \in Logged
    BY <2>1, <2>2 DEF Entry, Logged
  <2>6. QED
    BY <1>1, <2>3, <2>4, <2>5
<1>5. QED
  BY <1>3, <1>4

-----------------------------------------------------------------------------
(***************************************************************************)
(* What is in the buffer, without the recursion of Entries: every entry is *)
(* the one its bytes make, the entries of a stream are in the order of     *)
(* their bytes, none is missing between two of them or behind the last,    *)
(* and none before the first as long as the buffer is not full.            *)
(***************************************************************************)

OwnBytes(k, src, q, tk) ==
  \A i \in DOMAIN q :
    /\ q[i].first \in 1 .. Len(src[q[i].stream])
    /\ q[i] = EntryAt(k, src[q[i].stream], q[i].stream, q[i].first)
    /\ q[i].last <= tk[q[i].stream]

InOrder(q) ==
  \A i, j \in DOMAIN q : i < j /\ q[i].stream = q[j].stream => q[i].last < q[j].first

Neighbours(q, i, j) ==
  /\ i < j /\ q[i].stream = q[j].stream
  /\ \A m \in DOMAIN q : i < m /\ m < j => q[m].stream # q[i].stream

NothingBetween(src, q) ==
  \A i, j \in DOMAIN q :
    Neighbours(q, i, j) => q[j].first = After(src[q[i].stream], q[i].first)

Newest(q, i) == \A j \in DOMAIN q : i < j => q[j].stream # q[i].stream

NothingBehind(src, q, tk) ==
  \A i \in DOMAIN q :
    Newest(q, i) => After(src[q[i].stream], q[i].first) = tk[q[i].stream] + 1

Oldest(q, i) == \A j \in DOMAIN q : j < i => q[j].stream # q[i].stream

NothingBefore(q, tk) ==
  /\ \A i \in DOMAIN q : Oldest(q, i) => q[i].first = 1
  /\ \A s \in Stream : (\A i \in DOMAIN q : q[i].stream # s) => tk[s] = 0

Chained(k, src, q, tk) ==
  OwnBytes(k, src, q, tk) /\ InOrder(q) /\ NothingBetween(src, q) /\ NothingBehind(src, q, tk)

\* Logging the next entry of a stream keeps the chain, and reaches as far as
\* the entry does.
LEMMA ChainAppend ==
  ASSUME NEW k, NEW src \in [Stream -> Seq(Byte)], NEW q \in Seq(Logged),
         NEW tk \in [Stream -> Nat], NEW s \in Stream,
         tk[s] < Len(src[s]), Chained(k, src, q, tk)
  PROVE  LET all == Append(q, EntryAt(k, src[s], s, tk[s] + 1))
             tk2 == [tk EXCEPT ![s] = After(src[s], tk[s] + 1) - 1]
         IN  /\ all \in Seq(Logged)
             /\ Chained(k, src, all, tk2)
             /\ NothingBefore(q, tk) => NothingBefore(all, tk2)
<1> DEFINE p == tk[s] + 1
           e == EntryAt(k, src[s], s, p)
           all == Append(q, e)
           tk2 == [tk EXCEPT ![s] = After(src[s], p) - 1]
<1>1. p \in 1 .. Len(src[s]) /\ src[s] \in Seq(Byte)
  OBVIOUS
<1>2. /\ e \in Logged /\ e.stream = s /\ e.first = p
      /\ After(src[s], p) \in p + 1 .. Len(src[s]) + 1
      /\ e.last < After(src[s], p)
  BY <1>1, EntryShape
<1>3. /\ all \in Seq(Logged) /\ Len(all) = Len(q) + 1 /\ Len(q) \in Nat
      /\ DOMAIN q = 1 .. Len(q) /\ DOMAIN all = 1 .. Len(q) + 1
      /\ \A i \in 1 .. Len(q) : all[i] = q[i] /\ q[i] \in Logged
      /\ all[Len(q) + 1] = e
  BY <1>2
<1>4. /\ tk2[s] = After(src[s], p) - 1 /\ tk2[s] >= p
      /\ \A u \in Stream \ {s} : tk2[u] = tk[u]
      /\ \A u \in Stream : tk[u] <= tk2[u] /\ tk[u] \in Nat
  BY <1>1, <1>2
<1>a. \A i \in 1 .. Len(q) + 1 : i \in 1 .. Len(q) \/ i = Len(q) + 1
  BY <1>3
<1> HIDE DEF all, p, e, tk2
<1>5. \A i \in 1 .. Len(q) : q[i].stream \in Stream /\ q[i].first \in Nat /\ q[i].last \in Nat
  BY <1>3 DEF Logged
<1>6. OwnBytes(k, src, all, tk2)
  <2> SUFFICES ASSUME NEW i \in 1 .. Len(q) + 1
               PROVE  /\ all[i].first \in 1 .. Len(src[all[i].stream])
                      /\ all[i] = EntryAt(k, src[all[i].stream], all[i].stream, all[i].first)
                      /\ all[i].last <= tk2[all[i].stream]
    BY <1>3 DEF OwnBytes
  <2>1. CASE i \in 1 .. Len(q)
    <3>1. /\ q[i].first \in 1 .. Len(src[q[i].stream])
          /\ q[i] = EntryAt(k, src[q[i].stream], q[i].stream, q[i].first)
          /\ q[i].last <= tk[q[i].stream]
      BY <1>3, <2>1 DEF Chained, OwnBytes
    <3>2. q[i].last <= tk2[q[i].stream]
      <4>1. tk[q[i].stream] <= tk2[q[i].stream] /\ tk[q[i].stream] \in Nat
        BY <1>4, <1>5, <2>1
      <4>2. CASE q[i].stream = s
        BY <1>1, <1>2, <1>4, <1>5, <2>1, <3>1, <4>1, <4>2 DEF p
      <4>3. CASE q[i].stream # s
        BY <1>4, <1>5, <2>1, <3>1, <4>3
      <4>4. QED
        BY <4>2, <4>3
    <3>3. QED
      BY <1>3, <2>1, <3>1, <3>2
  <2>2. CASE i = Len(q) + 1
    <3>1. all[i] = e
      BY <1>3, <2>2
    <3>2. e.last <= tk2[s]
      BY <1>1, <1>2, <1>4 DEF Logged
    <3>3. QED
      BY <1>1, <1>2, <3>1, <3>2 DEF p, e
  <2>3. QED
    BY <1>a, <2>1, <2>2
<1>7. InOrder(all)
  <2> SUFFICES ASSUME NEW i \in 1 .. Len(q) + 1, NEW j \in 1 .. Len(q) + 1, i < j,
                      all[i].stream = all[j].stream
               PROVE  all[i].last < all[j].first
    BY <1>3 DEF InOrder
  <2>0. i \in 1 .. Len(q) /\ all[i] = q[i]
    BY <1>3
  <2>1. CASE j \in 1 .. Len(q)
    BY <1>3, <2>0, <2>1 DEF Chained, InOrder
  <2>2. CASE j = Len(q) + 1
    <3>1. all[j] = e /\ q[i].stream = s
      BY <1>2, <1>3, <2>0, <2>2
    <3>2. q[i].last <= tk[s]
      BY <1>3, <2>0, <3>1 DEF Chained, OwnBytes
    <3>3. QED
      BY <1>2, <1>4, <1>5, <2>0, <3>1, <3>2 DEF p
  <2>3. QED
    BY <1>a, <2>1, <2>2
<1>8. NothingBetween(src, all)
  <2> SUFFICES ASSUME NEW i \in 1 .. Len(q) + 1, NEW j \in 1 .. Len(q) + 1,
                      Neighbours(all, i, j)
               PROVE  all[j].first = After(src[all[i].stream], all[i].first)
    BY <1>3 DEF NothingBetween
  <2>0. /\ i < j /\ i \in 1 .. Len(q) /\ all[i] = q[i] /\ all[i].stream = all[j].stream
        /\ \A m \in 1 .. Len(q) : i < m /\ m < j => q[m].stream # q[i].stream
    <3>1. i < j /\ all[i].stream = all[j].stream
      BY DEF Neighbours
    <3>2. i \in 1 .. Len(q) /\ all[i] = q[i]
      BY <1>3, <3>1
    <3>3. ASSUME NEW m \in 1 .. Len(q), i < m, m < j
          PROVE  q[m].stream # q[i].stream
      <4>1. m \in DOMAIN all /\ all[m] = q[m]
        BY <1>3
      <4>2. QED
        BY <3>2, <3>3, <4>1 DEF Neighbours
    <3>4. QED
      BY <3>1, <3>2, <3>3
  <2>1. CASE j \in 1 .. Len(q)
    <3>1. all[j] = q[j]
      BY <1>3, <2>1
    <3>2. Neighbours(q, i, j)
      BY <1>3, <2>0, <3>1 DEF Neighbours
    <3>3. QED
      BY <1>3, <2>0, <2>1, <3>1, <3>2 DEF Chained, NothingBetween
  <2>2. CASE j = Len(q) + 1
    <3>1. all[j] = e /\ q[i].stream = s
      BY <1>2, <1>3, <2>0, <2>2
    <3>2. Newest(q, i)
      <4> SUFFICES ASSUME NEW m \in 1 .. Len(q), i < m
                   PROVE  q[m].stream # q[i].stream
        BY <1>3 DEF Newest
      <4>1. m < j
        BY <1>3, <2>2
      <4>2. QED
        BY <2>0, <4>1
    <3>3. After(src[s], q[i].first) = p
      BY <1>3, <2>0, <3>1, <3>2 DEF Chained, NothingBehind, p
    <3>4. QED
      BY <1>2, <2>0, <3>1, <3>3
  <2>3. QED
    BY <1>a, <2>1, <2>2
<1>9. NothingBehind(src, all, tk2)
  <2> SUFFICES ASSUME NEW i \in 1 .. Len(q) + 1, Newest(all, i)
               PROVE  After(src[all[i].stream], all[i].first) = tk2[all[i].stream] + 1
    BY <1>3 DEF NothingBehind
  <2>1. CASE i \in 1 .. Len(q)
    <3>1. all[i] = q[i]
      BY <1>3, <2>1
    <3>2. q[i].stream # s
      <4>1. Len(q) + 1 \in DOMAIN all /\ i < Len(q) + 1
        BY <1>3, <2>1
      <4>2. QED
        BY <1>2, <1>3, <3>1, <4>1 DEF Newest
    <3>3. Newest(q, i)
      BY <1>3, <2>1, <3>1 DEF Newest
    <3>4. QED
      BY <1>3, <1>4, <1>5, <2>1, <3>1, <3>2, <3>3 DEF Chained, NothingBehind
  <2>2. CASE i = Len(q) + 1
    BY <1>1, <1>2, <1>3, <1>4, <2>2
  <2>3. QED
    BY <1>a, <2>1, <2>2
<1>10. ASSUME NothingBefore(q, tk)
       PROVE  NothingBefore(all, tk2)
  <2>1. ASSUME NEW i \in 1 .. Len(q) + 1, Oldest(all, i)
        PROVE  all[i].first = 1
    <3>1. CASE i \in 1 .. Len(q)
      <4>1. all[i] = q[i] /\ Oldest(q, i)
        BY <1>3, <2>1, <3>1 DEF Oldest
      <4>2. QED
        BY <1>3, <1>10, <3>1, <4>1 DEF NothingBefore
    <3>2. CASE i = Len(q) + 1
      <4>1. all[i] = e
        BY <1>3, <3>2
      <4>2. \A m \in DOMAIN q : q[m].stream # s
        BY <1>2, <1>3, <2>1, <3>2, <4>1 DEF Oldest
      <4>3. tk[s] = 0
        BY <1>10, <4>2 DEF NothingBefore
      <4>4. QED
        BY <1>2, <4>1, <4>3 DEF p
    <3>3. QED
      BY <1>3, <3>1, <3>2
  <2>2. ASSUME NEW u \in Stream, \A i \in 1 .. Len(q) + 1 : all[i].stream # u
        PROVE  tk2[u] = 0
    <3>1. u # s
      BY <1>2, <1>3, <2>2
    <3>2. \A i \in DOMAIN q : q[i].stream # u
      BY <1>3, <2>2
    <3>3. QED
      BY <1>4, <1>10, <3>1, <3>2 DEF NothingBefore
  <2>3. QED
    BY <1>3, <2>1, <2>2 DEF NothingBefore
<1>11. QED
  BY <1>3, <1>6, <1>7, <1>8, <1>9, <1>10 DEF Chained, all, p, e, tk2

\* Forgetting the oldest entry keeps the chain.
LEMMA ChainTail ==
  ASSUME NEW k, NEW src, NEW q \in Seq(Logged), NEW tk, Len(q) > 0, Chained(k, src, q, tk)
  PROVE  /\ Tail(q) \in Seq(Logged) /\ Len(Tail(q)) = Len(q) - 1
         /\ Chained(k, src, Tail(q), tk)
<1> DEFINE rest == Tail(q)
<1>1. /\ rest \in Seq(Logged) /\ Len(rest) = Len(q) - 1 /\ Len(q) \in Nat
      /\ DOMAIN q = 1 .. Len(q) /\ DOMAIN rest = 1 .. Len(q) - 1
      /\ \A i \in 1 .. Len(q) - 1 : rest[i] = q[i + 1] /\ i + 1 \in 1 .. Len(q)
  OBVIOUS
<1> HIDE DEF rest
<1>2. OwnBytes(k, src, rest, tk)
  BY <1>1 DEF Chained, OwnBytes
<1>3. InOrder(rest)
  <2> SUFFICES ASSUME NEW i \in 1 .. Len(q) - 1, NEW j \in 1 .. Len(q) - 1, i < j,
                      rest[i].stream = rest[j].stream
               PROVE  rest[i].last < rest[j].first
    BY <1>1 DEF InOrder
  <2>1. /\ i + 1 \in DOMAIN q /\ j + 1 \in DOMAIN q /\ i + 1 < j + 1
        /\ rest[i] = q[i + 1] /\ rest[j] = q[j + 1]
    BY <1>1
  <2>2. QED
    BY <2>1 DEF Chained, InOrder
<1>4. NothingBetween(src, rest)
  <2> SUFFICES ASSUME NEW i \in 1 .. Len(q) - 1, NEW j \in 1 .. Len(q) - 1,
                      Neighbours(rest, i, j)
               PROVE  rest[j].first = After(src[rest[i].stream], rest[i].first)
    BY <1>1 DEF NothingBetween
  <2>1. ASSUME NEW m \in 1 .. Len(q), i + 1 < m, m < j + 1
        PROVE  q[m].stream # q[i + 1].stream
    <3>1. m - 1 \in 1 .. Len(q) - 1 /\ i < m - 1 /\ m - 1 < j /\ (m - 1) + 1 = m
      BY <1>1, <2>1
    <3>2. QED
      BY <1>1, <3>1 DEF Neighbours
  <2>2. /\ i + 1 \in DOMAIN q /\ j + 1 \in DOMAIN q
        /\ rest[i] = q[i + 1] /\ rest[j] = q[j + 1]
    BY <1>1
  <2>3. i + 1 < j + 1 /\ q[i + 1].stream = q[j + 1].stream
    BY <2>2 DEF Neighbours
  <2>4. Neighbours(q, i + 1, j + 1)
    BY <1>1, <2>1, <2>3 DEF Neighbours
  <2>5. QED
    BY <2>2, <2>4 DEF Chained, NothingBetween
<1>5. NothingBehind(src, rest, tk)
  <2> SUFFICES ASSUME NEW i \in 1 .. Len(q) - 1, Newest(rest, i)
               PROVE  After(src[rest[i].stream], rest[i].first) = tk[rest[i].stream] + 1
    BY <1>1 DEF NothingBehind
  <2>1. ASSUME NEW m \in 1 .. Len(q), i + 1 < m
        PROVE  q[m].stream # q[i + 1].stream
    <3>1. m - 1 \in 1 .. Len(q) - 1 /\ i < m - 1 /\ (m - 1) + 1 = m
      BY <1>1, <2>1
    <3>2. QED
      BY <1>1, <3>1 DEF Newest
  <2>2. Newest(q, i + 1)
    BY <1>1, <2>1 DEF Newest
  <2>3. QED
    BY <1>1, <2>2 DEF Chained, NothingBehind
<1>6. QED
  BY <1>1, <1>2, <1>3, <1>4, <1>5 DEF Chained, rest

-----------------------------------------------------------------------------
(***************************************************************************)
(* The inductive invariant: the shape of the variables, how far reader and *)
(* pump have come, and the chain of entries.                               *)
(***************************************************************************)

Shape ==
  /\ kind \in {"process", "upstream"}
  /\ source \in [Stream -> Outputs]
  /\ fed \in [Stream -> Nat] /\ taken \in [Stream -> Nat]
  /\ eof \in [Stream -> BOOLEAN] /\ done \in [Stream -> BOOLEAN]
  /\ ring \in Seq(Logged) /\ Len(ring) <= Capacity

Position ==
  \A s \in Stream :
    /\ taken[s] <= fed[s] /\ fed[s] <= Len(source[s])
    /\ eof[s] => fed[s] = Len(source[s])
    /\ kind = "process" /\ done[s] => eof[s]

\* The buffer holds the last entries of what the pumps have taken: some are
\* missing only at the old end, and only when the buffer is full.
LogIsRecent ==
  /\ Chained(kind, source, ring, taken)
  /\ Len(ring) < Capacity => NothingBefore(ring, taken)

LogPumpInv == Shape /\ Position /\ LogIsRecent

\* Whatever has arrived of a line tells how it goes on: the newline of the line
\* if one has arrived, and if none has, that the line is longer than that.
LEMMA ArrivedLine ==
  ASSUME Shape, Position, NEW s \in Stream, taken[s] < fed[s]
  PROVE  LET e == EndOf(source[s], taken[s] + 1)
         IN  /\ taken[s] + 1 \in 1 .. Len(source[s])
             /\ e \in taken[s] + 1 .. Len(source[s]) + 1
             /\ Newlines(s) # {} => e <= fed[s] /\ LineLength(s) = e - (taken[s] + 1)
             /\ Newlines(s) = {} => e > fed[s] /\ LineLength(s) = fed[s] - taken[s]
<1> DEFINE out == source[s]
           p == taken[s] + 1
           e == EndOf(out, p)
<1>1. /\ out \in Seq(Byte) /\ fed[s] \in Nat /\ taken[s] \in Nat /\ Len(out) \in Nat
      /\ fed[s] <= Len(out) /\ p \in 1 .. Len(out)
  BY ParamsAssumption DEF Shape, Position
<1>2. /\ e \in p .. Len(out) + 1 /\ (e <= Len(out) => out[e] = "nl")
      /\ \A q \in p .. e - 1 : out[q] = "x"
  BY <1>1, EndOfLine
<1>3. Newlines(s) = {q \in p .. fed[s] : out[q] = "nl"}
  BY DEF Newlines
<1> HIDE DEF out, p, e
<1>4. e <= fed[s] => e \in Newlines(s)
  BY <1>1, <1>2, <1>3
<1>5. CASE Newlines(s) = {}
  <2>1. e > fed[s]
    BY <1>1, <1>2, <1>4, <1>5
  <2>2. LineLength(s) = fed[s] - taken[s]
    BY <1>1, <1>5 DEF LineLength
  <2>3. QED
    BY <1>1, <1>2, <1>5, <2>1, <2>2 DEF out, p, e
<1>6. CASE Newlines(s) # {}
  <2>1. Newlines(s) \subseteq Nat
    BY <1>1, <1>3
  <2>2. Min(Newlines(s)) \in Newlines(s) /\ \A y \in Newlines(s) : Min(Newlines(s)) <= y
    BY <1>6, <2>1, LeastPosition
  <2> DEFINE m == Min(Newlines(s))
  <2>a. m \in p .. fed[s] /\ out[m] = "nl" /\ (e <= fed[s] => m <= e)
    BY <1>3, <1>4, <2>2
  <2> HIDE DEF m
  <2>b. e <= m
    <3> SUFFICES ASSUME ~(e <= m) PROVE FALSE
      OBVIOUS
    <3>1. m \in p .. e - 1
      BY <1>1, <1>2, <2>a
    <3>2. QED
      BY <1>2, <2>a, <3>1
  <2>3. m = e
    BY <1>1, <1>2, <2>a, <2>b
  <2>4. LineLength(s) = e - p
    BY <1>1, <1>2, <1>6, <2>3 DEF LineLength, p, m
  <2>5. e <= fed[s]
    BY <1>1, <2>a, <2>3
  <2>6. QED
    BY <1>1, <1>2, <1>6, <2>4, <2>5 DEF out, p, e
<1>7. QED
  BY <1>5, <1>6

\* A turn of a pump that reads something logs the entry of the line it is at,
\* and goes on behind it, however much of what follows has arrived.
LEMMA ReadsTheLine ==
  ASSUME Shape, Position, NEW s \in Stream, ReadLine(s) \/ ReadPiece(s) \/ ReadPartial(s)
  PROVE  /\ taken[s] < Len(source[s])
         /\ RingAppend(EntryAt(kind, source[s], s, taken[s] + 1))
         /\ taken' = [taken EXCEPT ![s] = After(source[s], taken[s] + 1) - 1]
         /\ After(source[s], taken[s] + 1) - 1 <= fed[s]
         /\ UNCHANGED <<kind, source, fed, eof, done>>
<1> DEFINE out == source[s]
           p == taken[s] + 1
           e == EndOf(out, p)
<1>0. /\ fed[s] \in Nat /\ taken[s] \in Nat /\ Len(out) \in Nat
      /\ taken[s] <= fed[s] /\ fed[s] <= Len(out) /\ taken \in [Stream -> Nat]
      /\ MaxLine \in Nat \ {0} /\ Limit \in Nat /\ MaxLine <= Limit
  BY ParamsAssumption DEF Shape, Position
<1>1. taken[s] < fed[s]
  <2>1. CASE ReadLine(s)
    BY <1>0, <2>1 DEF ReadLine, Newlines
  <2>2. CASE ReadPiece(s)
    <3>1. CASE Newlines(s) = {}
      BY <1>0, <2>2, <3>1 DEF ReadPiece, OverLimit, LineLength
    <3>2. CASE Newlines(s) # {}
      BY <1>0, <3>2 DEF Newlines
    <3>3. QED
      BY <3>1, <3>2
  <2>3. CASE ReadPartial(s)
    BY <1>0, <2>3 DEF ReadPartial, Buffered
  <2>4. QED
    BY <2>1, <2>2, <2>3
<1>2. /\ p \in 1 .. Len(out) /\ e \in p .. Len(out) + 1
      /\ Newlines(s) # {} => e <= fed[s] /\ LineLength(s) = e - p
      /\ Newlines(s) = {} => e > fed[s] /\ LineLength(s) = fed[s] - taken[s]
  BY <1>1, ArrivedLine
<1>3. ASSUME e - p <= Limit, AppendLine(s, e - p)
      PROVE  RingAppend(EntryAt(kind, out, s, p))
  <2>1. CASE kind = "process" /\ e - p > MaxLine
    <3>1. EntryAt(kind, out, s, p) = Entry(s, p, p + MaxLine - 1, TRUE)
      BY <2>1 DEF EntryAt
    <3>2. p + MaxLine - 1 = taken[s] + MaxLine
      BY <1>0
    <3>3. QED
      BY <1>3, <2>1, <3>1, <3>2 DEF AppendLine
  <2>2. CASE ~(kind = "process" /\ e - p > MaxLine)
    <3>1. EntryAt(kind, out, s, p) = Entry(s, p, p + (e - p) - 1, FALSE)
      <4>1. ~(e - p > Limit)
        BY <1>0, <1>2, <1>3
      <4>2. QED
        BY <2>2, <4>1 DEF EntryAt
    <3>2. p + (e - p) - 1 = taken[s] + (e - p)
      BY <1>0, <1>2
    <3>3. QED
      BY <1>3, <2>2, <3>1, <3>2 DEF AppendLine
  <2>3. QED
    BY <2>1, <2>2
<1>4. ASSUME NEW n \in Nat, Took(s, n)
      PROVE  /\ taken' = [taken EXCEPT ![s] = taken[s] + n]
             /\ UNCHANGED <<kind, source, fed, eof>>
  BY <1>4 DEF Took
<1> HIDE DEF e
<1>5. CASE ReadLine(s)
  <2>1. /\ Newlines(s) # {} /\ e - p <= Limit /\ e <= fed[s]
        /\ AppendLine(s, e - p) /\ Took(s, e - p + 1) /\ UNCHANGED done
    BY <1>0, <1>2, <1>5 DEF ReadLine, OverLimit
  <2>2. After(out, p) = e + 1
    BY <1>0, <1>2, <2>1 DEF After, e
  <2>3. taken[s] + (e - p + 1) = After(out, p) - 1 /\ e - p + 1 \in Nat
    BY <1>0, <1>2, <2>2
  <2>4. RingAppend(EntryAt(kind, out, s, p))
    BY <1>3, <2>1
  <2>5. taken' = [taken EXCEPT ![s] = After(out, p) - 1] /\ UNCHANGED <<kind, source, fed, eof>>
    BY <1>4, <2>1, <2>3
  <2>6. taken[s] < Len(out) /\ After(out, p) - 1 <= fed[s]
    BY <1>0, <1>1, <1>2, <2>1, <2>2
  <2>7. QED
    BY <2>1, <2>4, <2>5, <2>6
<1>6. CASE ReadPiece(s)
  <2>1. /\ LineLength(s) > Limit /\ PieceSize(s) = Min({MaxLine, fed[s] - taken[s]})
        /\ RingAppend(Entry(s, taken[s] + 1, taken[s] + PieceSize(s), TRUE))
        /\ Took(s, PieceSize(s)) /\ UNCHANGED done
    BY <1>6 DEF ReadPiece, OverLimit, PieceSize, Buffered
  <2>2. e - p > Limit /\ fed[s] - taken[s] > MaxLine
    <3>1. CASE Newlines(s) = {}
      BY <1>0, <1>2, <2>1, <3>1
    <3>2. CASE Newlines(s) # {}
      BY <1>0, <1>2, <2>1, <3>2
    <3>3. QED
      BY <3>1, <3>2
  <2>3. PieceSize(s) = MaxLine
    <3>1. {MaxLine, fed[s] - taken[s]} \subseteq Nat /\ {MaxLine, fed[s] - taken[s]} # {}
      BY <1>0
    <3>2. /\ Min({MaxLine, fed[s] - taken[s]}) \in {MaxLine, fed[s] - taken[s]}
          /\ \A y \in {MaxLine, fed[s] - taken[s]} : Min({MaxLine, fed[s] - taken[s]}) <= y
      BY <3>1, LeastPosition
    <3>3. QED
      BY <1>0, <2>1, <2>2, <3>2
  <2>4. After(out, p) = p + MaxLine
    BY <2>2 DEF After, e
  <2>5. EntryAt(kind, out, s, p) = Entry(s, p, p + MaxLine - 1, TRUE)
    BY <2>2 DEF EntryAt, e
  <2>6. p + MaxLine - 1 = taken[s] + MaxLine
    BY <1>0
  <2>7. RingAppend(EntryAt(kind, out, s, p))
    BY <2>1, <2>3, <2>5, <2>6
  <2>8. taken' = [taken EXCEPT ![s] = After(out, p) - 1] /\ UNCHANGED <<kind, source, fed, eof>>
    BY <1>0, <1>4, <2>1, <2>3, <2>4, <2>6
  <2>9. taken[s] < Len(out) /\ After(out, p) - 1 <= fed[s]
    BY <1>0, <1>1, <2>2, <2>4
  <2>10. QED
    BY <2>1, <2>7, <2>8, <2>9
<1>7. CASE ReadPartial(s)
  <2>1. /\ Newlines(s) = {} /\ fed[s] = Len(out) /\ fed[s] - taken[s] <= Limit
        /\ AppendLine(s, fed[s] - taken[s]) /\ Took(s, fed[s] - taken[s]) /\ UNCHANGED done
    BY <1>0, <1>2, <1>7 DEF ReadPartial, OverLimit, Buffered, Position
  <2>2. e = Len(out) + 1 /\ e - p = fed[s] - taken[s] /\ e - p <= Limit
    BY <1>0, <1>2, <2>1
  <2>3. After(out, p) = Len(out) + 1
    BY <1>0, <2>2 DEF After, e
  <2>4. taken[s] + (fed[s] - taken[s]) = After(out, p) - 1 /\ fed[s] - taken[s] \in Nat
    BY <1>0, <2>1, <2>3
  <2>5. RingAppend(EntryAt(kind, out, s, p))
    BY <1>3, <2>1, <2>2 DEF e
  <2>6. taken' = [taken EXCEPT ![s] = After(out, p) - 1] /\ UNCHANGED <<kind, source, fed, eof>>
    BY <1>4, <2>1, <2>4
  <2>7. QED
    BY <1>0, <1>1, <2>1, <2>3, <2>5, <2>6
<1>8. QED
  BY <1>5, <1>6, <1>7

\* A turn of a pump that reads something preserves the invariant.
LEMMA ReadStep ==
  ASSUME LogPumpInv, NEW s \in Stream, ReadLine(s) \/ ReadPiece(s) \/ ReadPartial(s)
  PROVE  LogPumpInv'
<1> DEFINE e == EntryAt(kind, source[s], s, taken[s] + 1)
           all == Append(ring, e)
           after == After(source[s], taken[s] + 1)
<1>1. /\ taken[s] < Len(source[s]) /\ RingAppend(e)
      /\ taken' = [taken EXCEPT ![s] = after - 1] /\ after - 1 <= fed[s]
      /\ UNCHANGED <<kind, source, fed, eof, done>>
  BY ReadsTheLine DEF LogPumpInv
<1>2. /\ source \in [Stream -> Seq(Byte)] /\ taken \in [Stream -> Nat] /\ ring \in Seq(Logged)
      /\ Len(ring) <= Capacity /\ Capacity \in Nat
  BY ParamsAssumption DEF LogPumpInv, Shape
<1>3. /\ all \in Seq(Logged) /\ Chained(kind, source, all, taken')
      /\ NothingBefore(ring, taken) => NothingBefore(all, taken')
  <2>1. Chained(kind, source, ring, taken)
    BY DEF LogPumpInv, LogIsRecent
  <2>2. taken[s] < Len(source[s])
    BY <1>1
  <2>3. /\ all \in Seq(Logged)
        /\ Chained(kind, source, all, [taken EXCEPT ![s] = after - 1])
        /\ NothingBefore(ring, taken) => NothingBefore(all, [taken EXCEPT ![s] = after - 1])
    BY <1>2, <2>1, <2>2, ChainAppend
  <2> HIDE DEF all, after
  <2>4. QED
    BY <1>1, <2>3
<1>4. after \in Nat \ {0}
  <2>1. source[s] \in Seq(Byte) /\ taken[s] + 1 \in 1 .. Len(source[s])
    BY <1>1, <1>2
  <2>2. e \in Logged /\ after \in (taken[s] + 1) + 1 .. Len(source[s]) + 1
    BY <2>1, EntryShape
  <2>3. QED
    BY <1>2, <2>2
<1>5. Len(all) = Len(ring) + 1 /\ ring' = IF Len(all) > Capacity THEN Tail(all) ELSE all
  BY <1>1, <1>2 DEF RingAppend
<1> HIDE DEF e, all, after
<1>6. /\ ring' \in Seq(Logged) /\ Len(ring') <= Capacity
      /\ Chained(kind, source, ring', taken')
      /\ Len(ring') < Capacity => NothingBefore(ring', taken')
  <2>1. CASE Len(all) > Capacity
    <3>1. Len(all) > 0 /\ ring' = Tail(all)
      BY <1>2, <1>5, <2>1
    <3>2. /\ Tail(all) \in Seq(Logged) /\ Len(Tail(all)) = Len(all) - 1
          /\ Chained(kind, source, Tail(all), taken')
      BY <1>3, <3>1, ChainTail
    <3>3. QED
      BY <1>2, <1>5, <2>1, <3>1, <3>2
  <2>2. CASE ~(Len(all) > Capacity)
    <3>1. ring' = all /\ Len(ring) < Capacity /\ Len(all) <= Capacity
      BY <1>2, <1>5, <2>2
    <3>2. QED
      BY <1>3, <3>1 DEF LogPumpInv, LogIsRecent
  <2>3. QED
    BY <2>1, <2>2
<1>7. Shape'
  BY <1>1, <1>2, <1>4, <1>6 DEF LogPumpInv, Shape
<1>8. Position'
  BY <1>1, <1>2, <1>4 DEF LogPumpInv, Position, Shape
<1>9. LogIsRecent'
  BY <1>1, <1>6 DEF LogIsRecent
<1>10. QED
  BY <1>7, <1>8, <1>9 DEF LogPumpInv

\* The invariant holds of every execution.
LEMMA Invariance == Spec => []LogPumpInv
<1>1. Init => LogPumpInv
  <2> SUFFICES ASSUME Init
               PROVE  LogPumpInv
    OBVIOUS
  <2>1. Shape
    BY ParamsAssumption DEF Init, Shape, Stream
  <2>2. Position
    <3>1. ASSUME NEW s \in Stream
          PROVE  /\ source[s] \in Seq(Byte) /\ taken[s] = 0 /\ fed[s] = 0 /\ done[s] = eof[s]
                 /\ eof[s] => kind = "upstream" /\ s = "stdout" /\ source[s] = <<>>
      BY ParamsAssumption DEF Init
    <3>2. QED
      BY <3>1 DEF Position
  <2>3. LogIsRecent
    BY DEF Init, LogIsRecent, Chained, OwnBytes, InOrder, NothingBetween, NothingBehind,
           NothingBefore
  <2>4. QED
    BY <2>1, <2>2, <2>3 DEF LogPumpInv
<1>2. LogPumpInv /\ [Next]_vars => LogPumpInv'
  <2> SUFFICES ASSUME LogPumpInv, [Next]_vars
               PROVE  LogPumpInv'
    OBVIOUS
  <2> USE DEF LogPumpInv
  <2>1. ASSUME UNCHANGED <<kind, source, taken, ring>>
        PROVE  LogIsRecent'
    BY <2>1 DEF LogIsRecent
  <2>2. CASE UNCHANGED vars
    BY <2>1, <2>2 DEF vars, Shape, Position
  <2>3. ASSUME NEW s \in Stream, Feed(s)
        PROVE  LogPumpInv'
    <3>1. PICK n \in 1 .. MaxChunk : /\ fed[s] + n <= Len(source[s])
                                     /\ fed' = [fed EXCEPT ![s] = @ + n]
      BY <2>3 DEF Feed
    <3>2. ~eof[s] /\ UNCHANGED <<kind, source, eof, taken, done, ring>>
      BY <2>3 DEF Feed
    <3>3. Shape'
      BY <3>1, <3>2 DEF Shape
    <3>4. Position'
      BY <3>1, <3>2 DEF Shape, Position
    <3>5. QED
      BY <2>1, <3>2, <3>3, <3>4
  <2>4. ASSUME NEW s \in Stream, FeedEof(s)
        PROVE  LogPumpInv'
    BY <2>1, <2>4 DEF FeedEof, Shape, Position
  <2>5. ASSUME NEW s \in Stream, PumpReturn(s) \/ CancelPump(s)
        PROVE  LogPumpInv'
    BY <2>1, <2>5 DEF PumpReturn, CancelPump, AtEnd, Shape, Position
  <2>6. QED
    BY <2>2, <2>3, <2>4, <2>5, ReadStep DEF Next, Pump
<1>3. QED
  BY <1>1, <1>2, PTL DEF Spec

\* Type correctness: the pump has taken no more than the reader has, the reader
\* no more than the child printed, and an entry holds no newline and nothing
\* that has not arrived (logbuf.py:18-68).
THEOREM TypeCorrect == Spec => []TypeOK
<1>1. LogPumpInv => TypeOK
  <2> SUFFICES ASSUME LogPumpInv
               PROVE  TypeOK
    OBVIOUS
  <2> USE DEF LogPumpInv
  <2>1. ASSUME NEW i \in DOMAIN ring
        PROVE  /\ ring[i].stream \in Stream /\ ring[i].truncated \in BOOLEAN
               /\ \A p \in ring[i].first .. ring[i].last :
                    p <= taken[ring[i].stream] /\ source[ring[i].stream][p] = "x"
    <3> DEFINE s == ring[i].stream
    <3>1. s \in Stream /\ ring[i].truncated \in BOOLEAN /\ ring[i].last \in Nat
      <4>1. ring[i] \in Logged
        BY DEF Shape
      <4>2. QED
        BY <4>1 DEF Logged
    <3>2. /\ ring[i].first \in 1 .. Len(source[s]) /\ ring[i].last <= taken[s]
          /\ ring[i] = EntryAt(kind, source[s], s, ring[i].first)
      BY DEF LogIsRecent, Chained, OwnBytes
    <3>3. source[s] \in Seq(Byte) /\ taken[s] \in Nat
      BY <3>1, ParamsAssumption DEF Shape
    <3>4. \A p \in ring[i].first .. EntryAt(kind, source[s], s, ring[i].first).last :
             source[s][p] = "x"
      BY <3>1, <3>2, <3>3, EntryShape
    <3>5. QED
      BY <3>1, <3>2, <3>3, <3>4
  <2>2. \A s \in Stream :
          /\ source[s] \in Outputs
          /\ 0 <= taken[s] /\ taken[s] <= fed[s] /\ fed[s] <= Len(source[s])
          /\ eof[s] \in BOOLEAN /\ done[s] \in BOOLEAN
          /\ kind = "process" /\ done[s] => eof[s]
    BY DEF Shape, Position
  <2>3. QED
    BY <2>1, <2>2 DEF TypeOK, Shape
<1>2. QED
  BY <1>1, Invariance, PTL

\* Each entry of the ring is the one its bytes make, the next entry of the
\* stream begins where it ends (behind the newline, and behind what was cut
\* from a line) and the newest ends where the pump is, however the bytes arrived
\* and the two pumps interleaved; entries are missing only at the old end of a
\* full buffer (logbuf.py:24-68).
THEOREM OnlyTheOldIsLost == Spec => []LogIsRecent
<1>1. LogPumpInv => LogIsRecent
  BY DEF LogPumpInv
<1>2. QED
  BY <1>1, Invariance, PTL

-----------------------------------------------------------------------------
(***************************************************************************)
(* LogsAreRecent is stated with two recursive functions: OfStream over the *)
(* ring and Entries over the output.  What they compute is found by           *)
(* induction on sets of numbers, which needs no operator parameter: that    *)
(* the recursion has a result, that it has one only, and its first turn.    *)
(***************************************************************************)

\* What holds of 0, and of every number whose predecessor it holds of, holds up to n.
LEMMA Upwards ==
  ASSUME NEW n \in Nat, NEW S, 0 \in S, \A i \in 0 .. n - 1 : i \in S => i + 1 \in S
  PROVE  0 .. n \subseteq S
<1> SUFFICES ASSUME 0 .. n \ S # {} PROVE FALSE
  OBVIOUS
<1> DEFINE m == Min(0 .. n \ S)
<1>1. m \in 0 .. n \ S /\ \A y \in 0 .. n \ S : m <= y
  BY LeastPosition
<1> HIDE DEF m
<1>2. m # 0 /\ m - 1 \in 0 .. n - 1
  BY <1>1
<1>3. m - 1 \in S
  BY <1>1, <1>2
<1>4. QED
  BY <1>1, <1>2, <1>3

\* What holds of a number when it holds of all that are greater, up to n, holds
\* down to 1.
LEMMA Downwards ==
  ASSUME NEW n \in Nat, NEW S,
         \A p \in 1 .. n : (\A r \in p + 1 .. n : r \in S) => p \in S
  PROVE  1 .. n \subseteq S
<1> DEFINE T == {d \in 0 .. n : n + 1 - d .. n \subseteq S}
<1>1. 0 \in T
  OBVIOUS
<1>2. ASSUME NEW i \in 0 .. n - 1, i \in T PROVE i + 1 \in T
  <2>1. \A r \in (n - i) + 1 .. n : r \in S
    BY <1>2
  <2>2. n - i \in S
    BY <2>1
  <2>3. QED
    BY <2>1, <2>2
<1> HIDE DEF T
<1>3. n \in T
  BY <1>1, <1>2, Upwards
<1>4. QED
  BY <1>3 DEF T

-----------------------------------------------------------------------------
(***************************************************************************)
(* The entries of one stream.                                              *)
(***************************************************************************)

\* One turn of OfStream's recursion: what its first i entries amount to.
First(q, s, f, i) ==
  IF i = 0 THEN <<>>
  ELSE IF s \in {"all", q[i].stream} THEN Append(f[i - 1], q[i])
  ELSE f[i - 1]

Firsts(q, s, n, f) == f = [i \in 0 .. n |-> First(q, s, f, i)]

\* The recursion of OfStream has a result.
LEMMA FirstsExist ==
  ASSUME NEW q, NEW s, NEW n \in Nat
  PROVE  \E f : Firsts(q, s, n, f)
<1> DEFINE S == {k \in 0 .. n : \E f : Firsts(q, s, k, f)}
<1>1. 0 \in S
  <2> DEFINE g == [i \in 0 .. 0 |-> <<>>]
  <2>1. \A i \in 0 .. 0 : First(q, s, g, i) = <<>>
    BY DEF First
  <2>2. Firsts(q, s, 0, g)
    BY <2>1 DEF Firsts
  <2>3. QED
    BY <2>2
<1>2. ASSUME NEW k \in 0 .. n - 1, k \in S PROVE k + 1 \in S
  <2>1. PICK f : Firsts(q, s, k, f)
    BY <1>2
  <2> DEFINE g == [i \in 0 .. k + 1 |-> First(q, s, f, i)]
  <2>2. \A i \in 0 .. k : g[i] = f[i]
    BY <2>1 DEF Firsts
  <2>3. \A i \in 0 .. k + 1 : First(q, s, f, i) = First(q, s, g, i)
    <3>1. \A i \in 1 .. k + 1 : g[i - 1] = f[i - 1]
      BY <2>2
    <3> HIDE DEF g
    <3>2. QED
      BY <3>1 DEF First
  <2>4. Firsts(q, s, k + 1, g)
    BY <2>3 DEF Firsts
  <2> HIDE DEF g
  <2>5. QED
    BY <2>4
<1> HIDE DEF S
<1>3. n \in S
  BY <1>1, <1>2, Upwards
<1>4. QED
  BY <1>3 DEF S

\* OfStream is what its recursion makes of all entries.
LEMMA OfStreamEquation ==
  ASSUME NEW T, NEW q \in Seq(T), NEW s
  PROVE  \E f : Firsts(q, s, Len(q), f) /\ OfStream(q, s) = f[Len(q)]
<1>0. Len(q) \in Nat
  OBVIOUS
<1>1. PICK f : Firsts(q, s, Len(q), f)
  BY <1>0, FirstsExist
<1> DEFINE g == CHOOSE f1 : Firsts(q, s, Len(q), f1)
<1>2. Firsts(q, s, Len(q), g)
  BY <1>1
<1>3. OfStream(q, s) = g[Len(q)]
  BY DEF OfStream, Firsts, First
<1>4. QED
  BY <1>2, <1>3

\* The recursion makes sequences, the empty one first.
LEMMA FirstsType ==
  ASSUME NEW T, NEW q \in Seq(T), NEW s, NEW f, Firsts(q, s, Len(q), f)
  PROVE  /\ f[0] = <<>> /\ \A i \in 0 .. Len(q) : f[i] \in Seq(T)
         /\ \A i \in 1 .. Len(q) : f[i] = IF s \in {"all", q[i].stream} THEN Append(f[i - 1], q[i])
                                          ELSE f[i - 1]
<1> DEFINE S == {i \in 0 .. Len(q) : f[i] \in Seq(T)}
<1>0. Len(q) \in Nat
  OBVIOUS
<1>1. \A i \in 0 .. Len(q) : f[i] = First(q, s, f, i)
  BY DEF Firsts
<1>2. f[0] = <<>>
  BY <1>0, <1>1 DEF First
<1>3. \A i \in 1 .. Len(q) : f[i] = IF s \in {"all", q[i].stream} THEN Append(f[i - 1], q[i])
                                    ELSE f[i - 1]
  BY <1>1 DEF First
<1>4. 0 \in S
  <2>1. f[0] \in Seq(T) /\ 0 \in 0 .. Len(q)
    BY <1>0, <1>2, EmptySeq
  <2>2. QED
    BY <2>1
<1>5. ASSUME NEW i \in 0 .. Len(q) - 1, i \in S PROVE i + 1 \in S
  <2>1. /\ f[i] \in Seq(T) /\ i + 1 \in 1 .. Len(q) /\ q[i + 1] \in T /\ (i + 1) - 1 = i
    BY <1>0, <1>5
  <2>2. f[i + 1] = IF s \in {"all", q[i + 1].stream} THEN Append(f[i], q[i + 1]) ELSE f[i]
    BY <1>3, <2>1
  <2>3. f[i + 1] \in Seq(T)
    BY <2>1, <2>2
  <2>4. QED
    BY <1>0, <2>1, <2>3
<1> HIDE DEF S
<1>6. 0 .. Len(q) \subseteq S
  BY <1>0, <1>4, <1>5, Upwards
<1>7. QED
  BY <1>2, <1>3, <1>6 DEF S

\* What tail(stream) sees of a ring is entries of that ring.
LEMMA OfStreamType ==
  ASSUME NEW T, NEW q \in Seq(T), NEW s
  PROVE  OfStream(q, s) \in Seq(T)
<1>1. PICK f : Firsts(q, s, Len(q), f) /\ OfStream(q, s) = f[Len(q)]
  BY OfStreamEquation
<1>2. QED
  BY <1>1, FirstsType

\* An entry behind the others is the last one of its stream, and of no other.
LEMMA OfStreamAppend ==
  ASSUME NEW T, NEW q \in Seq(T), NEW e \in T, NEW s
  PROVE  OfStream(Append(q, e), s) =
           IF s \in {"all", e.stream} THEN Append(OfStream(q, s), e) ELSE OfStream(q, s)
<1> DEFINE all == Append(q, e)
<1>1. /\ Len(q) \in Nat /\ all \in Seq(T) /\ Len(all) = Len(q) + 1 /\ all[Len(q) + 1] = e
      /\ \A i \in 1 .. Len(q) : all[i] = q[i]
  OBVIOUS
<1> HIDE DEF all
<1>2. PICK f : Firsts(q, s, Len(q), f) /\ OfStream(q, s) = f[Len(q)]
  BY OfStreamEquation
<1>3. PICK g : Firsts(all, s, Len(all), g) /\ OfStream(all, s) = g[Len(all)]
  BY <1>1, OfStreamEquation
<1>4. /\ f[0] = <<>>
      /\ \A i \in 1 .. Len(q) : f[i] = IF s \in {"all", q[i].stream} THEN Append(f[i - 1], q[i])
                                       ELSE f[i - 1]
  BY <1>2, FirstsType
<1>5. /\ g[0] = <<>>
      /\ \A i \in 1 .. Len(all) : g[i] = IF s \in {"all", all[i].stream}
                                           THEN Append(g[i - 1], all[i]) ELSE g[i - 1]
  BY <1>1, <1>3, FirstsType
<1> DEFINE S == {i \in 0 .. Len(q) : g[i] = f[i]}
<1>6. 0 \in S
  BY <1>1, <1>4, <1>5
<1>7. ASSUME NEW i \in 0 .. Len(q) - 1, i \in S PROVE i + 1 \in S
  <2>1. i + 1 \in 1 .. Len(q) /\ i + 1 \in 1 .. Len(all) /\ (i + 1) - 1 = i /\ g[i] = f[i]
    BY <1>1, <1>7
  <2>2. f[i + 1] = IF s \in {"all", q[i + 1].stream} THEN Append(f[i], q[i + 1]) ELSE f[i]
    BY <1>4, <2>1
  <2>3. g[i + 1] = IF s \in {"all", all[i + 1].stream} THEN Append(g[i], all[i + 1]) ELSE g[i]
    BY <1>5, <2>1
  <2>4. g[i + 1] = f[i + 1]
    BY <1>1, <2>1, <2>2, <2>3
  <2>5. QED
    BY <1>1, <2>1, <2>4
<1> HIDE DEF S
<1>8. g[Len(q)] = f[Len(q)]
  <2>1. 0 .. Len(q) \subseteq S
    BY <1>1, <1>6, <1>7, Upwards
  <2>2. QED
    BY <1>1, <2>1 DEF S
<1>9. g[Len(all)] = IF s \in {"all", e.stream} THEN Append(g[Len(q)], e) ELSE g[Len(q)]
  <2>1. Len(all) \in 1 .. Len(all) /\ Len(all) - 1 = Len(q) /\ all[Len(all)] = e
    BY <1>1
  <2>2. QED
    BY <1>5, <2>1
<1>10. QED
  BY <1>2, <1>3, <1>8, <1>9 DEF all

\* The first entry is the first one of its stream, and of no other.
LEMMA OfStreamTail ==
  ASSUME NEW T, NEW q \in Seq(T), q # <<>>, NEW s
  PROVE  OfStream(q, s) =
           IF s \in {"all", q[1].stream} THEN <<q[1]>> \o OfStream(Tail(q), s)
           ELSE OfStream(Tail(q), s)
<1> DEFINE rest == Tail(q)
           n == Len(rest)
           head == IF s \in {"all", q[1].stream} THEN <<q[1]>> ELSE <<>>
<1>1. /\ n \in Nat /\ rest \in Seq(T) /\ Len(q) = n + 1 /\ q[1] \in T
      /\ \A i \in 1 .. n : rest[i] = q[i + 1] /\ rest[i] \in T
  OBVIOUS
<1> HIDE DEF rest
<1>2. PICK f : Firsts(q, s, Len(q), f) /\ OfStream(q, s) = f[Len(q)]
  BY OfStreamEquation
<1>3. PICK g : Firsts(rest, s, n, g) /\ OfStream(rest, s) = g[n]
  BY <1>1, OfStreamEquation
<1>4. /\ f[0] = <<>>
      /\ \A i \in 1 .. Len(q) : f[i] = IF s \in {"all", q[i].stream} THEN Append(f[i - 1], q[i])
                                       ELSE f[i - 1]
  BY <1>2, FirstsType
<1>5. /\ g[0] = <<>> /\ \A i \in 0 .. n : g[i] \in Seq(T)
      /\ \A i \in 1 .. n : g[i] = IF s \in {"all", rest[i].stream} THEN Append(g[i - 1], rest[i])
                                  ELSE g[i - 1]
  BY <1>1, <1>3, FirstsType
<1> HIDE DEF n
<1>6. head \in Seq(T) /\ \A t \in Seq(T), e \in T : Append(head \o t, e) = head \o Append(t, e)
  <2>1. head \in Seq(T)
    BY <1>1
  <2> HIDE DEF head
  <2>2. ASSUME NEW t \in Seq(T), NEW e \in T PROVE Append(head \o t, e) = head \o Append(t, e)
    <3>1. <<e>> \in Seq(T) /\ head \o t \in Seq(T)
      BY <2>1, ConcatProperties
    <3>2. Append(head \o t, e) = (head \o t) \o <<e>> /\ Append(t, e) = t \o <<e>>
      BY <3>1, AppendIsConcat
    <3>3. (head \o t) \o <<e>> = head \o (t \o <<e>>)
      BY <2>1, <3>1, ConcatAssociative
    <3>4. QED
      BY <3>2, <3>3
  <2>3. QED
    BY <2>1, <2>2
<1>7. f[1] = head \o g[0]
  <2>1. 1 \in 1 .. Len(q) /\ 1 - 1 = 0
    BY <1>1
  <2>2. f[1] = IF s \in {"all", q[1].stream} THEN Append(<<>>, q[1]) ELSE <<>>
    BY <1>4, <2>1
  <2>3. f[1] = head
    BY <2>2
  <2>4. QED
    BY <1>5, <1>6, <2>3, ConcatEmptySeq
<1> HIDE DEF head
<1> DEFINE S == {i \in 0 .. n : f[i + 1] = head \o g[i]}
<1>8. 0 \in S
  BY <1>1, <1>7
<1>9. ASSUME NEW i \in 0 .. n - 1, i \in S PROVE i + 1 \in S
  <2>1. /\ i + 1 \in 1 .. n /\ (i + 1) + 1 \in 1 .. Len(q) /\ (i + 1) - 1 = i
        /\ ((i + 1) + 1) - 1 = i + 1 /\ f[i + 1] = head \o g[i] /\ i \in 0 .. n
    BY <1>1, <1>9
  <2>2. rest[i + 1] = q[(i + 1) + 1] /\ rest[i + 1] \in T /\ g[i] \in Seq(T)
    BY <1>1, <1>5, <2>1
  <2>3. g[i + 1] = IF s \in {"all", rest[i + 1].stream} THEN Append(g[i], rest[i + 1]) ELSE g[i]
    BY <1>5, <2>1
  <2>4. f[(i + 1) + 1] = IF s \in {"all", rest[i + 1].stream}
                           THEN Append(f[i + 1], rest[i + 1]) ELSE f[i + 1]
    BY <1>4, <2>1, <2>2
  <2>5. f[(i + 1) + 1] = head \o g[i + 1]
    BY <1>6, <2>1, <2>2, <2>3, <2>4
  <2>6. QED
    BY <1>1, <2>1, <2>5
<1> HIDE DEF S
<1>10. f[n + 1] = head \o g[n]
  <2>1. 0 .. n \subseteq S
    BY <1>1, <1>8, <1>9, Upwards
  <2>2. QED
    BY <1>1, <2>1 DEF S
<1>11. OfStream(q, s) = head \o OfStream(rest, s) /\ OfStream(rest, s) \in Seq(T)
  BY <1>1, <1>2, <1>3, <1>5, <1>10
<1>12. QED
  BY <1>11, ConcatEmptySeq DEF head, rest

-----------------------------------------------------------------------------
(***************************************************************************)
(* The entries of an output.                                               *)
(***************************************************************************)

\* Where the entry behind the one at p begins, counting the newline of a last line
\* that has none.
Follow(out, p) ==
  IF EndOf(out, p) - p > Limit THEN p + MaxLine ELSE EndOf(out, p) + 1

\* One turn of the recursion of Entries.
Line(k, out, s, u, f, p) ==
  IF p > u THEN <<>> ELSE <<EntryAt(k, out, s, p)>> \o f[Follow(out, p)]

IsEntries(k, out, s, u, f) ==
  f = [p \in 1 .. Len(out) + 2 |-> Line(k, out, s, u, f, p)]

\* The next entry begins behind this one.
LEMMA FollowUp ==
  ASSUME NEW out \in Seq(Byte), NEW p \in 1 .. Len(out)
  PROVE  /\ Follow(out, p) \in p + 1 .. Len(out) + 2
         /\ Follow(out, p) = After(out, p) \/
              (Follow(out, p) = Len(out) + 2 /\ After(out, p) = Len(out) + 1)
<1>1. EndOf(out, p) \in p .. Len(out) + 1 /\ Len(out) \in Nat
  BY EndOfLine
<1>2. CASE EndOf(out, p) - p > Limit
  BY <1>1, <1>2, ParamsAssumption DEF Follow, After
<1>3. CASE ~(EndOf(out, p) - p > Limit)
  BY <1>1, <1>3, ParamsAssumption DEF Follow, After
<1>4. QED
  BY <1>2, <1>3

\* The recursion of Entries has a result, which is made of entries.
LEMMA EntriesExist ==
  ASSUME NEW k, NEW out \in Seq(Byte), NEW s, NEW u \in 0 .. Len(out)
  PROVE  \E f : IsEntries(k, out, s, u, f)
<1> DEFINE n == Len(out) + 2
           Partly(j, f) == f = [p \in n + 1 - j .. n |-> Line(k, out, s, u, f, p)]
           S == {j \in 0 .. n : \E f : Partly(j, f)}
<1>0. Len(out) \in Nat /\ n \in Nat /\ u \in Nat /\ u <= Len(out)
  OBVIOUS
<1>1. 0 \in S
  <2> DEFINE g == [p \in n + 1 .. n |-> <<>>]
  <2>1. \A p \in n + 1 .. n : Line(k, out, s, u, g, p) = <<>>
    BY <1>0
  <2>2. g = [p \in n + 1 - 0 .. n |-> Line(k, out, s, u, g, p)]
    BY <1>0, <2>1
  <2>3. QED
    BY <1>0, <2>2
<1>2. ASSUME NEW j \in 0 .. n - 1, j \in S PROVE j + 1 \in S
  <2>1. PICK f : Partly(j, f)
    BY <1>2
  <2> DEFINE m == n + 1 - (j + 1)
             g == [p \in m .. n |-> Line(k, out, s, u, f, p)]
  <2>2. m \in 1 .. n /\ m + 1 = n + 1 - j
    BY <1>0
  <2> HIDE DEF m
  <2>3. \A p \in m + 1 .. n : g[p] = f[p]
    <3> SUFFICES ASSUME NEW p \in m + 1 .. n PROVE g[p] = f[p]
      OBVIOUS
    <3>1. p \in n + 1 - j .. n /\ p \in m .. n
      BY <1>0, <2>2
    <3>2. QED
      BY <2>1, <3>1
  <2>4. \A p \in m .. n : Line(k, out, s, u, f, p) = Line(k, out, s, u, g, p)
    <3> HIDE DEF g
    <3> SUFFICES ASSUME NEW p \in m .. n, ~(p > u)
                 PROVE  f[Follow(out, p)] = g[Follow(out, p)]
      BY DEF Line
    <3>1. p \in 1 .. Len(out)
      BY <1>0, <2>2
    <3>2. Follow(out, p) \in p + 1 .. n
      BY <3>1, FollowUp
    <3> HIDE DEF n
    <3>3. Follow(out, p) \in m + 1 .. n
      BY <1>0, <2>2, <3>1, <3>2
    <3>4. QED
      BY <2>3, <3>3
  <2>5. g = [p \in m .. n |-> Line(k, out, s, u, g, p)]
    BY <2>4
  <2>6. Partly(j + 1, g)
    BY <2>5 DEF m
  <2> HIDE DEF Partly, g
  <2>7. QED
    BY <1>0, <2>6
<1> HIDE DEF S
<1>3. n \in S
  <2>1. 0 .. n \subseteq S
    BY <1>0, <1>1, <1>2, Upwards
  <2>2. QED
    BY <1>0, <2>1
<1>4. PICK f : Partly(n, f)
  BY <1>3 DEF S
<1>5. n + 1 - n = 1
  BY <1>0
<1>6. QED
  BY <1>4, <1>5 DEF IsEntries

\* Whatever satisfies the recursion of Entries is made of entries.
LEMMA EntriesType ==
  ASSUME NEW k, NEW out \in Seq(Byte), NEW s \in Stream, NEW u \in 0 .. Len(out),
         NEW f, IsEntries(k, out, s, u, f)
  PROVE  \A p \in 1 .. Len(out) + 2 :
           /\ f[p] \in Seq(Logged)
           /\ f[p] = IF p > u THEN <<>> ELSE <<EntryAt(k, out, s, p)>> \o f[Follow(out, p)]
<1> DEFINE n == Len(out) + 2
           S == {p \in 1 .. n : f[p] \in Seq(Logged)}
<1>0. Len(out) \in Nat /\ n \in Nat /\ u \in Nat /\ u <= Len(out)
  OBVIOUS
<1>1. \A p \in 1 .. n :
        f[p] = IF p > u THEN <<>> ELSE <<EntryAt(k, out, s, p)>> \o f[Follow(out, p)]
  BY DEF IsEntries, Line
<1>2. ASSUME NEW p \in 1 .. n, \A r \in p + 1 .. n : r \in S PROVE p \in S
  <2>1. CASE p > u
    <3>1. f[p] = <<>>
      BY <1>1, <2>1
    <3>2. f[p] \in Seq(Logged)
      BY <3>1, EmptySeq
    <3>3. QED
      BY <3>2
  <2>2. CASE ~(p > u)
    <3>1. p \in 1 .. Len(out)
      BY <1>0, <2>2
    <3>2. Follow(out, p) \in p + 1 .. n /\ EntryAt(k, out, s, p) \in Logged
      BY <3>1, FollowUp, EntryShape
    <3>3. f[Follow(out, p)] \in Seq(Logged)
      BY <1>2, <3>2
    <3>4. f[p] = <<EntryAt(k, out, s, p)>> \o f[Follow(out, p)]
      BY <1>1, <2>2
    <3>5. f[p] \in Seq(Logged)
      BY <3>2, <3>3, <3>4
    <3>6. QED
      BY <3>5
  <2>3. QED
    BY <2>1, <2>2
<1> HIDE DEF S
<1>3. 1 .. n \subseteq S
  BY <1>0, <1>2, Downwards
<1>4. QED
  BY <1>1, <1>3 DEF S

\* The recursion of Entries has one result.
LEMMA EntriesUnique ==
  ASSUME NEW k, NEW out \in Seq(Byte), NEW s \in Stream, NEW u \in 0 .. Len(out),
         NEW f, IsEntries(k, out, s, u, f), NEW g, IsEntries(k, out, s, u, g)
  PROVE  \A p \in 1 .. Len(out) + 2 : f[p] = g[p]
<1> DEFINE n == Len(out) + 2
           S == {p \in 1 .. n : f[p] = g[p]}
<1>0. Len(out) \in Nat /\ n \in Nat /\ u \in Nat /\ u <= Len(out)
  OBVIOUS
<1>1. \A p \in 1 .. n : f[p] = Line(k, out, s, u, f, p) /\ g[p] = Line(k, out, s, u, g, p)
  BY DEF IsEntries
<1>2. ASSUME NEW p \in 1 .. n, \A r \in p + 1 .. n : r \in S PROVE p \in S
  <2>1. CASE p > u
    BY <1>1, <2>1 DEF Line
  <2>2. CASE ~(p > u)
    <3>1. p \in 1 .. Len(out)
      BY <1>0, <2>2
    <3>2. Follow(out, p) \in p + 1 .. n
      BY <3>1, FollowUp
    <3>3. f[Follow(out, p)] = g[Follow(out, p)]
      BY <1>2, <3>2
    <3>4. QED
      BY <1>1, <2>2, <3>3 DEF Line
  <2>3. QED
    BY <2>1, <2>2
<1> HIDE DEF S
<1>3. 1 .. n \subseteq S
  BY <1>0, <1>2, Downwards
<1>4. QED
  BY <1>3 DEF S

\* The entries that the bytes from p up to u make.
EntriesFrom(k, out, s, u, p) == (CHOOSE f : IsEntries(k, out, s, u, f))[p]

\* One turn of the recursion, unfolded.
LEMMA EntriesFromEquation ==
  ASSUME NEW k, NEW out \in Seq(Byte), NEW s \in Stream, NEW u \in 0 .. Len(out)
  PROVE  \A p \in 1 .. Len(out) + 2 :
           /\ EntriesFrom(k, out, s, u, p) \in Seq(Logged)
           /\ EntriesFrom(k, out, s, u, p) =
                IF p > u THEN <<>>
                ELSE <<EntryAt(k, out, s, p)>> \o EntriesFrom(k, out, s, u, Follow(out, p))
<1> DEFINE f == CHOOSE f1 : IsEntries(k, out, s, u, f1)
<1>1. IsEntries(k, out, s, u, f)
  BY EntriesExist
<1>2. \A p : EntriesFrom(k, out, s, u, p) = f[p]
  BY DEF EntriesFrom
<1> HIDE DEF f
<1> SUFFICES ASSUME NEW p \in 1 .. Len(out) + 2
             PROVE  /\ f[p] \in Seq(Logged)
                    /\ f[p] = IF p > u THEN <<>> ELSE <<EntryAt(k, out, s, p)>> \o f[Follow(out, p)]
  BY <1>2
<1>3. QED
  BY <1>1, EntriesType

\* Entries are the entries that the bytes from the first one on make.
LEMMA EntriesEquation ==
  ASSUME NEW s \in Stream, source[s] \in Seq(Byte), NEW u \in 0 .. Len(source[s])
  PROVE  Entries(s, u) = EntriesFrom(kind, source[s], s, u, 1)
<1> DEFINE out == source[s]
           f == CHOOSE f1 : IsEntries(kind, out, s, u, f1)
           Turn(h, p) ==
             LET n == LineEnd(s, p) - p
             IN  IF p > u THEN <<>>
                 ELSE IF n > Limit
                   THEN <<Entry(s, p, p + MaxLine - 1, TRUE)>> \o h[p + MaxLine]
                 ELSE IF kind = "process" /\ n > MaxLine
                   THEN <<Entry(s, p, p + MaxLine - 1, TRUE)>> \o h[p + n + 1]
                 ELSE <<Entry(s, p, p + n - 1, FALSE)>> \o h[p + n + 1]
           g == CHOOSE g1 : g1 = [p \in 1 .. Len(out) + 2 |-> Turn(g1, p)]
<1>1. Entries(s, u) = g[1]
  BY DEF Entries
<1>2. ASSUME NEW h, NEW p \in 1 .. Len(out) + 2
      PROVE  Turn(h, p) = Line(kind, out, s, u, h, p)
  <2>1. CASE p > u
    BY <2>1 DEF Line
  <2>2. CASE ~(p > u)
    <3>1. p \in 1 .. Len(out) /\ EndOf(out, p) \in p .. Len(out) + 1 /\ LineEnd(s, p) = EndOf(out, p)
      <4>1. p \in 1 .. Len(out) /\ LineEnd(s, p) = EndOf(out, p)
        BY <2>2 DEF LineEnd, EndOf
      <4>2. QED
        BY <4>1, EndOfLine
    <3> DEFINE e == EndOf(out, p)
    <3>2. e \in Int /\ p \in Int /\ LineEnd(s, p) = e /\ p + (e - p) + 1 = e + 1
      BY <3>1
    <3>3. /\ Line(kind, out, s, u, h, p) = <<EntryAt(kind, out, s, p)>> \o h[Follow(out, p)]
          /\ Follow(out, p) = IF e - p > Limit THEN p + MaxLine ELSE e + 1
          /\ EntryAt(kind, out, s, p) =
               IF e - p > Limit \/ (kind = "process" /\ e - p > MaxLine)
                 THEN Entry(s, p, p + MaxLine - 1, TRUE)
                 ELSE Entry(s, p, p + (e - p) - 1, FALSE)
      BY <2>2 DEF Line, Follow, EntryAt
    <3> HIDE DEF e
    <3>4. Turn(h, p) =
            IF e - p > Limit
              THEN <<Entry(s, p, p + MaxLine - 1, TRUE)>> \o h[p + MaxLine]
            ELSE IF kind = "process" /\ e - p > MaxLine
              THEN <<Entry(s, p, p + MaxLine - 1, TRUE)>> \o h[e + 1]
            ELSE <<Entry(s, p, p + (e - p) - 1, FALSE)>> \o h[e + 1]
      BY <2>2, <3>2
    <3>5. QED
      BY <3>3, <3>4
  <2>3. QED
    BY <2>1, <2>2
<1> HIDE DEF Turn
<1>3. \A h : IsEntries(kind, out, s, u, h) <=> h = [p \in 1 .. Len(out) + 2 |-> Turn(h, p)]
  BY <1>2 DEF IsEntries
<1>4. IsEntries(kind, out, s, u, f)
  BY EntriesExist
<1>5. IsEntries(kind, out, s, u, g)
  BY <1>3, <1>4
<1>6. 1 \in 1 .. Len(out) + 2
  OBVIOUS
<1> HIDE DEF g
<1>7. g[1] = f[1]
  <2> HIDE DEF f
  <2>1. QED
    BY <1>4, <1>5, <1>6, EntriesUnique
<1>8. QED
  BY <1>1, <1>7 DEF EntriesFrom

\* The entries from p on up to w are the one at p and those behind it.
LEMMA NextLine ==
  ASSUME NEW k, NEW out \in Seq(Byte), NEW s \in Stream, NEW p \in 1 .. Len(out),
         NEW w \in After(out, p) - 1 .. Len(out)
  PROVE  EntriesFrom(k, out, s, w, p) =
           <<EntryAt(k, out, s, p)>> \o EntriesFrom(k, out, s, w, After(out, p))
<1>0. Len(out) \in Nat
  OBVIOUS
<1>1. Len(out) \in Nat /\ After(out, p) \in p + 1 .. Len(out) + 1
  BY <1>0, EntryShape
<1>2. w \in 0 .. Len(out) /\ ~(p > w) /\ p \in 1 .. Len(out) + 2
  BY <1>1
<1>3. EntriesFrom(k, out, s, w, p) =
        <<EntryAt(k, out, s, p)>> \o EntriesFrom(k, out, s, w, Follow(out, p))
  BY <1>2, EntriesFromEquation
<1>4. CASE Follow(out, p) = After(out, p)
  BY <1>3, <1>4
<1>5. CASE Follow(out, p) = Len(out) + 2 /\ After(out, p) = Len(out) + 1
  <2>1. /\ Len(out) + 2 \in 1 .. Len(out) + 2 /\ Len(out) + 1 \in 1 .. Len(out) + 2
        /\ Len(out) + 2 > w /\ Len(out) + 1 > w
    BY <1>1, <1>2
  <2>2. /\ EntriesFrom(k, out, s, w, Len(out) + 2) = <<>>
        /\ EntriesFrom(k, out, s, w, Len(out) + 1) = <<>>
    BY <1>2, <2>1, EntriesFromEquation
  <2>3. QED
    BY <1>3, <1>5, <2>2
<1>6. QED
  BY <1>4, <1>5, FollowUp

\* o is the end of l.
Ends(o, l) ==
  Len(o) <= Len(l) /\ \A i \in 1 .. Len(o) : o[i] = l[Len(l) - Len(o) + i]

\* An entry added to both keeps an end an end.
LEMMA EndsAppend ==
  ASSUME NEW T, NEW o \in Seq(T), NEW l \in Seq(T), NEW e \in T, Ends(o, l)
  PROVE  Ends(Append(o, e), Append(l, e))
<1> DEFINE o2 == Append(o, e)
           l2 == Append(l, e)
<1>1. /\ Len(o) \in Nat /\ Len(l) \in Nat /\ Len(o) <= Len(l)
      /\ Len(o2) = Len(o) + 1 /\ Len(l2) = Len(l) + 1
      /\ o2[Len(o) + 1] = e /\ l2[Len(l) + 1] = e
      /\ \A i \in 1 .. Len(o) : o2[i] = o[i]
      /\ \A i \in 1 .. Len(l) : l2[i] = l[i]
  BY DEF Ends
<1> HIDE DEF o2, l2
<1>2. ASSUME NEW i \in 1 .. Len(o2)
      PROVE  o2[i] = l2[Len(l2) - Len(o2) + i]
  <2>1. CASE i = Len(o) + 1
    <3>1. Len(l2) - Len(o2) + i = Len(l) + 1
      BY <1>1, <2>1
    <3>2. QED
      BY <1>1, <2>1, <3>1
  <2>2. CASE i # Len(o) + 1
    <3>1. /\ i \in 1 .. Len(o) /\ Len(l) - Len(o) + i \in 1 .. Len(l)
          /\ Len(l2) - Len(o2) + i = Len(l) - Len(o) + i
      BY <1>1, <2>2
    <3>2. o[i] = l[Len(l) - Len(o) + i]
      BY <3>1 DEF Ends
    <3>3. QED
      BY <1>1, <3>1, <3>2
  <2>3. QED
    BY <2>1, <2>2
<1>3. QED
  BY <1>1, <1>2 DEF Ends, o2, l2

\* An end without its first entry is one.
LEMMA EndsTail ==
  ASSUME NEW T, NEW h \in T, NEW o \in Seq(T), NEW l \in Seq(T), Ends(<<h>> \o o, l)
  PROVE  Ends(o, l)
<1> DEFINE o2 == <<h>> \o o
<1>1. /\ Len(o) \in Nat /\ Len(l) \in Nat /\ Len(o2) = Len(o) + 1
      /\ \A i \in 1 .. Len(o) : o2[i + 1] = o[i]
  OBVIOUS
<1> HIDE DEF o2
<1>2. Len(o2) <= Len(l) /\ \A i \in 1 .. Len(o2) : o2[i] = l[Len(l) - Len(o2) + i]
  BY DEF Ends, o2
<1>3. ASSUME NEW i \in 1 .. Len(o)
      PROVE  o[i] = l[Len(l) - Len(o) + i]
  <2>1. i + 1 \in 1 .. Len(o2) /\ Len(l) - Len(o2) + (i + 1) = Len(l) - Len(o) + i
    BY <1>1
  <2>2. QED
    BY <1>1, <1>2, <2>1
<1>4. QED
  BY <1>1, <1>2, <1>3 DEF Ends

\* What the ring has of a stream ends the entries of its output; their number
\* is that of the ring's unless it is full; and the entries of what has been
\* taken are the first of the whole.
Made(s) == EntriesFrom(kind, source[s], s, taken[s], 1)

EntriesInv ==
  /\ \A s \in Stream : \A w \in taken[s] .. Len(source[s]) :
       EntriesFrom(kind, source[s], s, w, 1) =
         Made(s) \o EntriesFrom(kind, source[s], s, w, taken[s] + 1)
  /\ \A s \in Stream : Ends(OfStream(ring, s), Made(s))
  /\ Len(ring) <= Len(Made("stdout")) + Len(Made("stderr"))
  /\ Len(ring) < Capacity => Len(ring) = Len(Made("stdout")) + Len(Made("stderr"))

\* A turn of a pump that reads something adds the next entry of its stream.
LEMMA EntriesStep ==
  ASSUME LogPumpInv, EntriesInv,
         NEW s \in Stream, ReadLine(s) \/ ReadPiece(s) \/ ReadPartial(s)
  PROVE  EntriesInv'
<1> DEFINE out == source[s]
           u == taken[s]
           e == EntryAt(kind, out, s, u + 1)
           v == After(out, u + 1) - 1
           all == Append(ring, e)
<1>1. /\ u < Len(out) /\ RingAppend(e) /\ taken' = [taken EXCEPT ![s] = v] /\ v <= fed[s]
      /\ kind' = kind /\ source' = source /\ fed' = fed
  BY ReadsTheLine DEF LogPumpInv
<1>2. /\ \A t \in Stream : source[t] \in Seq(Byte) /\ taken[t] \in 0 .. Len(source[t])
      /\ taken \in [Stream -> Nat] /\ ring \in Seq(Logged) /\ Len(ring) \in Nat
      /\ Len(ring) <= Capacity /\ Capacity \in Nat
  BY ParamsAssumption DEF LogPumpInv, Shape, Position
<1>3. /\ u \in Nat /\ Len(out) \in Nat /\ out \in Seq(Byte) /\ u + 1 \in 1 .. Len(out)
      /\ v \in u + 1 .. Len(out) /\ e \in Logged /\ After(out, u + 1) = v + 1
  <2>1. u + 1 \in 1 .. Len(out) /\ out \in Seq(Byte) /\ u \in Nat /\ Len(out) \in Nat
    BY <1>1, <1>2
  <2>2. e \in Logged /\ After(out, u + 1) \in (u + 1) + 1 .. Len(out) + 1
    BY <2>1, EntryShape
  <2>3. QED
    BY <2>1, <2>2
<1>4. /\ taken'[s] = v /\ \A t \in Stream : t # s => taken'[t] = taken[t]
      /\ \A t \in Stream : t # s => Made(t)' = Made(t)
      /\ Made(s)' = EntriesFrom(kind, out, s, v, 1)
  <2>1. taken'[s] = v /\ \A t \in Stream : t # s => taken'[t] = taken[t]
    BY <1>1, <1>2
  <2>2. QED
    BY <1>1, <2>1 DEF Made
<1>5. \A t \in Stream : Made(t) \in Seq(Logged)
  <2> SUFFICES ASSUME NEW t \in Stream PROVE Made(t) \in Seq(Logged)
    OBVIOUS
  <2>1. 1 \in 1 .. Len(source[t]) + 2
    BY <1>2
  <2>2. QED
    BY <1>2, <2>1, EntriesFromEquation DEF Made
<1> HIDE DEF out, u, e, v, all
<1>6. ASSUME NEW w \in v .. Len(out)
      PROVE  /\ EntriesFrom(kind, out, s, w, 1) = Made(s) \o EntriesFrom(kind, out, s, w, u + 1)
             /\ EntriesFrom(kind, out, s, w, u + 1) = <<e>> \o EntriesFrom(kind, out, s, w, v + 1)
             /\ EntriesFrom(kind, out, s, w, v + 1) \in Seq(Logged)
  <2>1. w \in u .. Len(out) /\ w \in 0 .. Len(out) /\ v + 1 \in 1 .. Len(out) + 2
    BY <1>3
  <2>2. EntriesFrom(kind, out, s, w, 1) = Made(s) \o EntriesFrom(kind, out, s, w, u + 1)
    BY <2>1 DEF EntriesInv, out, u
  <2>3. w \in After(out, u + 1) - 1 .. Len(out)
    BY <1>3
  <2>4. EntriesFrom(kind, out, s, w, u + 1) = <<e>> \o EntriesFrom(kind, out, s, w, v + 1)
    BY <1>3, <2>3, NextLine DEF e
  <2>5. EntriesFrom(kind, out, s, w, v + 1) \in Seq(Logged)
    BY <1>3, <2>1, EntriesFromEquation
  <2>6. QED
    BY <2>2, <2>4, <2>5
<1>7. Made(s)' = Append(Made(s), e)
  <2>1. v \in v .. Len(out) /\ v + 1 > v /\ v + 1 \in 1 .. Len(out) + 2 /\ v \in 0 .. Len(out)
    BY <1>3
  <2>2. EntriesFrom(kind, out, s, v, v + 1) = <<>>
    BY <1>3, <2>1, EntriesFromEquation
  <2>3. EntriesFrom(kind, out, s, v, 1) = Made(s) \o (<<e>> \o <<>>)
    BY <1>6, <2>1, <2>2
  <2>4. <<e>> \in Seq(Logged) /\ <<e>> \o <<>> = <<e>>
    BY <1>3, ConcatEmptySeq
  <2>5. Made(s) \o <<e>> = Append(Made(s), e)
    BY <1>3, <1>5
  <2>6. QED
    BY <1>4, <2>3, <2>4, <2>5
<1>8. ASSUME NEW t \in Stream, NEW w \in taken'[t] .. Len(source'[t])
      PROVE  EntriesFrom(kind', source'[t], t, w, 1) =
               Made(t)' \o EntriesFrom(kind', source'[t], t, w, taken'[t] + 1)
  <2>1. CASE t # s
    BY <1>1, <1>4, <1>8, <2>1 DEF EntriesInv
  <2>2. CASE t = s
    <3>1. w \in v .. Len(out) /\ source'[t] = out /\ kind' = kind /\ taken'[t] = v
      BY <1>1, <1>4, <1>8, <2>2 DEF out
    <3> DEFINE behind == EntriesFrom(kind, out, s, w, v + 1)
    <3>2. /\ EntriesFrom(kind, out, s, w, 1) = Made(s) \o (<<e>> \o behind)
          /\ behind \in Seq(Logged)
      BY <1>6, <3>1
    <3> HIDE DEF behind
    <3>3. Made(s) \o (<<e>> \o behind) = Append(Made(s), e) \o behind
      <4>1. Made(s) \in Seq(Logged) /\ <<e>> \in Seq(Logged)
        BY <1>3, <1>5
      <4>2. Made(s) \o (<<e>> \o behind) = (Made(s) \o <<e>>) \o behind
        BY <3>2, <4>1, ConcatAssociative
      <4>3. Made(s) \o <<e>> = Append(Made(s), e)
        BY <1>3, <4>1
      <4>4. QED
        BY <4>2, <4>3
    <3>4. QED
      BY <1>7, <2>2, <3>1, <3>2, <3>3 DEF behind
  <2>3. QED
    BY <2>1, <2>2
<1>9. /\ all \in Seq(Logged) /\ Len(all) = Len(ring) + 1
      /\ ring' = IF Len(all) > Capacity THEN Tail(all) ELSE all
  BY <1>1, <1>2, <1>3 DEF RingAppend, all
<1>10. \A t \in Stream : Ends(OfStream(all, t), Made(t)')
  <2> SUFFICES ASSUME NEW t \in Stream PROVE Ends(OfStream(all, t), Made(t)')
    OBVIOUS
  <2>1. t # "all" /\ e.stream = s
    <3>1. t # "all"
      BY DEF Stream
    <3>2. QED
      BY <1>3, <3>1, EntryShape DEF e
  <2>2. OfStream(all, t) = IF t = s THEN Append(OfStream(ring, t), e) ELSE OfStream(ring, t)
    BY <1>2, <1>3, <2>1, OfStreamAppend DEF all
  <2>3. Ends(OfStream(ring, t), Made(t)) /\ OfStream(ring, t) \in Seq(Logged)
    BY <1>2, OfStreamType DEF EntriesInv
  <2>4. CASE t = s
    BY <1>3, <1>5, <1>7, <2>2, <2>3, <2>4, EndsAppend
  <2>5. CASE t # s
    BY <1>4, <2>2, <2>3, <2>5
  <2>6. QED
    BY <2>4, <2>5
<1>11. \A t \in Stream : Ends(OfStream(ring', t), Made(t)')
  <2>1. CASE ~(Len(all) > Capacity)
    BY <1>9, <1>10, <2>1
  <2>2. CASE Len(all) > Capacity
    <3> SUFFICES ASSUME NEW t \in Stream PROVE Ends(OfStream(ring', t), Made(t)')
      OBVIOUS
    <3>1. /\ all # <<>> /\ ring' = Tail(all) /\ all[1] \in Logged /\ Tail(all) \in Seq(Logged)
          /\ OfStream(Tail(all), t) \in Seq(Logged)
      <4>1. all # <<>> /\ ring' = Tail(all) /\ all[1] \in Logged /\ Tail(all) \in Seq(Logged)
        BY <1>2, <1>9, <2>2
      <4>2. QED
        BY <4>1, OfStreamType
    <3>2. OfStream(all, t) = IF t \in {"all", all[1].stream}
                               THEN <<all[1]>> \o OfStream(Tail(all), t)
                               ELSE OfStream(Tail(all), t)
      BY <1>9, <3>1, OfStreamTail
    <3>3. Made(t)' \in Seq(Logged)
      <4>1. CASE t = s
        <5>1. Append(Made(s), e) \in Seq(Logged)
          BY <1>3, <1>5
        <5>2. QED
          BY <1>7, <4>1, <5>1
      <4>2. CASE t # s
        BY <1>4, <1>5, <4>2
      <4>3. QED
        BY <4>1, <4>2
    <3>4. CASE t \in {"all", all[1].stream}
      <4>1. Ends(<<all[1]>> \o OfStream(Tail(all), t), Made(t)')
        BY <1>10, <3>2, <3>4
      <4>2. Ends(OfStream(Tail(all), t), Made(t)')
        BY <3>1, <3>3, <4>1, EndsTail
      <4>3. QED
        BY <3>1, <4>2
    <3>5. CASE t \notin {"all", all[1].stream}
      BY <1>10, <3>1, <3>2, <3>5
    <3>6. QED
      BY <3>4, <3>5
  <2>3. QED
    BY <2>1, <2>2
<1>12. /\ Len(ring') <= Len(Made("stdout")') + Len(Made("stderr")')
       /\ Len(ring') < Capacity => Len(ring') = Len(Made("stdout")') + Len(Made("stderr")')
  <2>1. /\ Len(Made("stdout")) \in Nat /\ Len(Made("stderr")) \in Nat
        /\ Len(Append(Made(s), e)) = Len(Made(s)) + 1
    BY <1>3, <1>5 DEF Stream
  <2>2. Len(Made("stdout")') + Len(Made("stderr")') = Len(Made("stdout")) + Len(Made("stderr")) + 1
    <3>1. CASE s = "stdout"
      <4>1. Made("stderr")' = Made("stderr")
        BY <1>4, <3>1 DEF Stream
      <4>2. QED
        BY <1>7, <2>1, <3>1, <4>1
    <3>2. CASE s = "stderr"
      <4>1. Made("stdout")' = Made("stdout")
        BY <1>4, <3>2 DEF Stream
      <4>2. QED
        BY <1>7, <2>1, <3>2, <4>1
    <3>3. QED
      BY <3>1, <3>2 DEF Stream
  <2> DEFINE made == Len(Made("stdout")) + Len(Made("stderr"))
             made2 == Len(Made("stdout")') + Len(Made("stderr")')
  <2>3. /\ made \in Nat /\ made2 = made + 1
        /\ Len(ring) <= made /\ (Len(ring) < Capacity => Len(ring) = made)
    BY <2>1, <2>2 DEF EntriesInv
  <2> HIDE DEF made, made2
  <2>4. CASE Len(all) > Capacity
    <3>1. Len(ring') = Capacity /\ Len(ring) = Capacity
      BY <1>2, <1>9, <2>4
    <3>2. Len(ring') <= made2 /\ ~(Len(ring') < Capacity)
      BY <1>2, <2>3, <3>1
    <3>3. QED
      BY <3>2 DEF made2
  <2>5. CASE ~(Len(all) > Capacity)
    <3>1. Len(ring') = Len(ring) + 1 /\ Len(ring) < Capacity
      BY <1>2, <1>9, <2>5
    <3>2. Len(ring') = made2 /\ Len(ring') <= made2
      BY <1>2, <2>3, <3>1
    <3>3. QED
      BY <3>2 DEF made2
  <2>6. QED
    BY <2>4, <2>5
<1>13. QED
  BY <1>8, <1>11, <1>12 DEF EntriesInv

\* The invariant holds of every execution.
LEMMA EntriesInvariance == Spec => []EntriesInv
<1>1. Init => EntriesInv
  <2> SUFFICES ASSUME Init
               PROVE  EntriesInv
    OBVIOUS
  <2>1. \A s \in Stream : source[s] \in Seq(Byte) /\ taken[s] = 0
    BY ParamsAssumption DEF Init
  <2>2. ring = <<>> /\ ring \in Seq(Logged) /\ Len(ring) = 0
    BY EmptySeq DEF Init
  <2>3. ASSUME NEW s \in Stream PROVE Made(s) = <<>>
    <3>1. /\ source[s] \in Seq(Byte) /\ taken[s] = 0 /\ 0 \in 0 .. Len(source[s])
          /\ 1 \in 1 .. Len(source[s]) + 2 /\ 1 > 0
      BY <2>1
    <3>2. EntriesFrom(kind, source[s], s, 0, 1) = <<>>
      BY <3>1, EntriesFromEquation
    <3>3. QED
      BY <3>1, <3>2 DEF Made
  <2>4. ASSUME NEW s \in Stream, NEW w \in taken[s] .. Len(source[s])
        PROVE  EntriesFrom(kind, source[s], s, w, 1) =
                 Made(s) \o EntriesFrom(kind, source[s], s, w, taken[s] + 1)
    <3>1. /\ source[s] \in Seq(Byte) /\ taken[s] = 0 /\ w \in 0 .. Len(source[s])
          /\ taken[s] + 1 = 1 /\ 1 \in 1 .. Len(source[s]) + 2
      BY <2>1
    <3>2. EntriesFrom(kind, source[s], s, w, 1) \in Seq(Logged)
      BY <3>1, EntriesFromEquation
    <3>3. QED
      BY <2>3, <3>1, <3>2, ConcatEmptySeq
  <2>5. ASSUME NEW s \in Stream PROVE Ends(OfStream(ring, s), Made(s))
    <3>1. OfStream(ring, s) = <<>>
      <4>1. PICK f : Firsts(ring, s, Len(ring), f) /\ OfStream(ring, s) = f[Len(ring)]
        BY <2>2, OfStreamEquation
      <4>2. ring \in Seq(Logged)
        BY <2>2
      <4>3. f[0] = <<>>
        BY <4>1, <4>2, FirstsType
      <4>4. QED
        BY <2>2, <4>1, <4>3
    <3>2. QED
      BY <2>3, <3>1 DEF Ends
  <2>6. Len(Made("stdout")) = 0 /\ Len(Made("stderr")) = 0
    BY <2>3 DEF Stream
  <2>7. QED
    BY <2>2, <2>4, <2>5, <2>6 DEF EntriesInv
<1>2. LogPumpInv /\ EntriesInv /\ [Next]_vars => EntriesInv'
  <2> SUFFICES ASSUME LogPumpInv, EntriesInv, [Next]_vars
               PROVE  EntriesInv'
    OBVIOUS
  <2>1. ASSUME UNCHANGED <<kind, source, taken, ring>>
        PROVE  EntriesInv'
    BY <2>1 DEF EntriesInv, Made
  <2>2. CASE UNCHANGED vars
    BY <2>1, <2>2 DEF vars
  <2>3. ASSUME NEW s \in Stream, Feed(s) \/ FeedEof(s) \/ PumpReturn(s) \/ CancelPump(s)
        PROVE  EntriesInv'
    BY <2>1, <2>3 DEF Feed, FeedEof, PumpReturn, CancelPump
  <2>4. QED
    BY <2>2, <2>3, EntriesStep DEF Next, Pump
<1>3. QED
  BY <1>1, <1>2, Invariance, PTL DEF Spec

-----------------------------------------------------------------------------
(***************************************************************************)
(* What tail returns.                                                      *)
(***************************************************************************)

\* tail(n) of the buffer is its end, of n entries if there are as many.
LEMMA KeptProperties ==
  ASSUME NEW T, NEW o \in Seq(T), NEW n \in Nat \ {0}
  PROVE  /\ Kept(o, n) \in Seq(T) /\ Ends(Kept(o, n), o)
         /\ Len(Kept(o, n)) = Min({n, Len(o)})
<1> DEFINE S == {1, Len(o) - n + 1}
           m == CHOOSE x \in S : \A y \in S : x >= y
           t == SubSeq(o, m, Len(o))
<1>1. Len(o) \in Nat
  OBVIOUS
<1>2. m \in S /\ \A y \in S : m >= y
  <2>1. \E x \in S : \A y \in S : x >= y
    <3>1. CASE Len(o) - n + 1 <= 1
      BY <1>1, <3>1
    <3>2. CASE Len(o) - n + 1 > 1
      BY <1>1, <3>2
    <3>3. QED
      BY <1>1, <3>1, <3>2
  <2> HIDE DEF S
  <2>2. QED
    BY <2>1
<1>3. Kept(o, n) = t
  <2>1. Max(S) = m
    BY DEF Max
  <2>2. Kept(o, n) = SubSeq(o, Max(S), Len(o))
    <3>1. n > 0
      OBVIOUS
    <3>2. QED
      BY <3>1, Zenon DEF Kept
  <2> HIDE DEF S, m
  <2>3. QED
    BY <2>1, <2>2
<1> HIDE DEF m
<1>4. m \in 1 .. Len(o) + 1 /\ Len(o) - m + 1 = IF n <= Len(o) THEN n ELSE Len(o)
  BY <1>1, <1>2
<1>5. Min({n, Len(o)}) = IF n <= Len(o) THEN n ELSE Len(o)
  <2>1. {n, Len(o)} \subseteq Nat /\ {n, Len(o)} # {}
    BY <1>1
  <2>2. Min({n, Len(o)}) \in {n, Len(o)} /\ \A y \in {n, Len(o)} : Min({n, Len(o)}) <= y
    BY <2>1, LeastPosition
  <2>3. QED
    BY <1>1, <2>2
<1>6. /\ t \in Seq(T) /\ Len(t) = Len(o) - m + 1
      /\ \A i \in 1 .. Len(o) - m + 1 : t[i] = o[m + i - 1]
  BY <1>1, <1>4
<1> HIDE DEF t
<1>7. Len(t) <= Len(o) /\ \A i \in 1 .. Len(t) : t[i] = o[Len(o) - Len(t) + i]
  <2>1. Len(t) <= Len(o)
    BY <1>1, <1>4, <1>6
  <2>2. ASSUME NEW i \in 1 .. Len(t) PROVE t[i] = o[Len(o) - Len(t) + i]
    <3>1. Len(o) - Len(t) + i = m + i - 1 /\ i \in 1 .. Len(o) - m + 1
      BY <1>1, <1>4, <1>6
    <3>2. QED
      BY <1>6, <3>1
  <2>3. QED
    BY <2>1, <2>2
<1>8. QED
  BY <1>3, <1>4, <1>5, <1>6, <1>7 DEF Ends

\* The end of an end is one, and so is a suffix.
LEMMA EndsIsSuffix ==
  ASSUME NEW T, NEW a \in Seq(T), NEW b \in Seq(T), NEW c \in Seq(T), Ends(a, b), Ends(b, c)
  PROVE  IsSuffix(a, c)
<1>1. /\ Len(a) \in Nat /\ Len(b) \in Nat /\ Len(c) \in Nat
      /\ Len(a) <= Len(b) /\ Len(b) <= Len(c)
  BY DEF Ends
<1>2. ASSUME NEW i \in 1 .. Len(a)
      PROVE  a[i] = c[Len(c) - Len(a) + i]
  <2>1. /\ Len(b) - Len(a) + i \in 1 .. Len(b)
        /\ Len(c) - Len(b) + (Len(b) - Len(a) + i) = Len(c) - Len(a) + i
    BY <1>1
  <2>2. a[i] = b[Len(b) - Len(a) + i] /\ b[Len(b) - Len(a) + i] = c[Len(c) - Len(a) + i]
    BY <2>1 DEF Ends
  <2>3. QED
    BY <2>2
<1> DEFINE ra == Reverse(a)
           rc == Reverse(c)
<1>3. /\ ra \in Seq(T) /\ Len(ra) = Len(a) /\ \A i \in 1 .. Len(a) : ra[i] = a[Len(a) - i + 1]
      /\ rc \in Seq(T) /\ Len(rc) = Len(c) /\ \A i \in 1 .. Len(c) : rc[i] = c[Len(c) - i + 1]
  BY <1>1 DEF Reverse
<1> HIDE DEF ra, rc
<1>4. \A i \in 1 .. Len(a) : ra[i] = rc[i]
  <2> SUFFICES ASSUME NEW i \in 1 .. Len(a) PROVE ra[i] = rc[i]
    OBVIOUS
  <2>1. /\ Len(a) - i + 1 \in 1 .. Len(a) /\ i \in 1 .. Len(c)
        /\ Len(c) - Len(a) + (Len(a) - i + 1) = Len(c) - i + 1
    BY <1>1
  <2>2. QED
    BY <1>2, <1>3, <2>1
<1>5. SubSeq(ra, 1, Len(ra)) = SubSeq(rc, 1, Len(ra))
  <2> DEFINE x == SubSeq(ra, 1, Len(ra))
             y == SubSeq(rc, 1, Len(ra))
  <2>1. x \in Seq(T) /\ Len(x) = Len(a) /\ \A i \in 1 .. Len(a) : x[i] = ra[i]
    BY <1>1, <1>3
  <2>2. y \in Seq(T) /\ Len(y) = Len(a) /\ \A i \in 1 .. Len(a) : y[i] = rc[i]
    BY <1>1, <1>3
  <2> HIDE DEF x, y
  <2>3. x = y
    BY <1>4, <2>1, <2>2, SeqEqual
  <2>4. QED
    BY <2>3 DEF x, y
<1>6. QED
  BY <1>1, <1>3, <1>5 DEF IsSuffix, IsPrefix, ra, rc

\* logs(target, n, stream) returns the latest of the entries that the child's
\* output on the stream amounts to, in order, each once, however the bytes
\* arrived and the two pumps interleaved; entries are missing only at the old
\* end, and only when the buffer is full (logbuf.py:24-68).  An entry is a line,
\* or one piece of a line longer than the limit of the reader.
THEOREM LogsRecent == Spec => []LogsAreRecent
<1>1. LogPumpInv /\ EntriesInv => LogsAreRecent
  <2> SUFFICES ASSUME LogPumpInv, EntriesInv
               PROVE  LogsAreRecent
    OBVIOUS
  <2>1. ring \in Seq(Logged) /\ Len(ring) \in Nat /\ Len(ring) <= Capacity /\ Capacity \in Nat
    BY ParamsAssumption DEF LogPumpInv, Shape
  <2>2. ASSUME NEW s \in Stream
        PROVE  Entries(s, taken[s]) = Made(s) /\ Made(s) \in Seq(Logged)
    <3>1. /\ source[s] \in Seq(Byte) /\ taken[s] \in 0 .. Len(source[s])
          /\ 1 \in 1 .. Len(source[s]) + 2
      BY ParamsAssumption DEF LogPumpInv, Shape, Position
    <3>2. Made(s) \in Seq(Logged)
      BY <3>1, EntriesFromEquation DEF Made
    <3>3. Entries(s, taken[s]) = Made(s)
      BY <3>1, EntriesEquation DEF Made
    <3>4. QED
      BY <3>2, <3>3
  <2>3. ASSUME NEW s \in Stream, NEW n \in 1 .. Capacity + 1
        PROVE  /\ IsSuffix(RingTail(n, s), Entries(s, taken[s]))
               /\ Len(RingTail(n, s)) = Min({n, Len(RingTail(0, s))})
    <3> DEFINE o == OfStream(ring, s)
    <3>1. o \in Seq(Logged) /\ Ends(o, Made(s)) /\ n \in Nat \ {0}
      BY <2>1, OfStreamType DEF EntriesInv
    <3>2. RingTail(n, s) = Kept(o, n) /\ RingTail(0, s) = o
      BY DEF RingTail, Kept
    <3> HIDE DEF o
    <3>3. /\ Kept(o, n) \in Seq(Logged) /\ Ends(Kept(o, n), o)
          /\ Len(Kept(o, n)) = Min({n, Len(o)})
      BY <3>1, KeptProperties
    <3>4. IsSuffix(Kept(o, n), Made(s))
      BY <2>2, <3>1, <3>3, EndsIsSuffix
    <3>5. QED
      BY <2>2, <3>2, <3>3, <3>4
  <2>4. Len(ring) = Min({Capacity, Len(Entries("stdout", taken["stdout"]))
                                     + Len(Entries("stderr", taken["stderr"]))})
    <3> DEFINE made == Len(Made("stdout")) + Len(Made("stderr"))
    <3>1. /\ made \in Nat
          /\ Entries("stdout", taken["stdout"]) = Made("stdout")
          /\ Entries("stderr", taken["stderr"]) = Made("stderr")
      BY <2>2 DEF Stream
    <3>2. Len(ring) <= made /\ (Len(ring) < Capacity => Len(ring) = made)
      BY DEF EntriesInv
    <3>3. Len(ring) = Min({Capacity, made})
      <4> HIDE DEF made
      <4>1. {Capacity, made} \subseteq Nat /\ {Capacity, made} # {}
        BY <2>1, <3>1
      <4>2. Min({Capacity, made}) \in {Capacity, made}
            /\ \A y \in {Capacity, made} : Min({Capacity, made}) <= y
        BY <4>1, LeastPosition
      <4>3. QED
        BY <2>1, <3>1, <3>2, <4>2
    <3>4. QED
      BY <3>1, <3>3
  <2>5. QED
    BY <2>3, <2>4 DEF LogsAreRecent
<1>2. QED
  BY <1>1, Invariance, EntriesInvariance, PTL

=============================================================================
