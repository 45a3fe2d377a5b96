------------------------------- MODULE LogPump -------------------------------
(***************************************************************************)
(* From the bytes a child prints to the entries `logs` returns: the pumps   *)
(* (logbuf.py:43-68; proxy.py:22-42 for the stderr of an upstream) on top   *)
(* of asyncio's StreamReader, and the ring buffer they share                *)
(* (logbuf.py:18-40).                                                       *)
(*                                                                          *)
(* A child prints `source`; the bytes reach the reader in chunks of any     *)
(* size, and the pump runs in between as it pleases.  Two kinds of bytes    *)
(* are enough.  The message of an entry is the interval [first, last] of    *)
(* `source` it was cut from, so that two entries are the same message only  *)
(* when they are the same bytes.  An entry is a line, or one piece of a line *)
(* that is longer than the limit of the reader.                             *)
(***************************************************************************)
EXTENDS Integers, SequencesExt

\* A definition whose name starts with "Bug" is a mutated form of the one that
\* follows it; nothing uses it but PROJECT.json.

CONSTANTS
  Outputs,   \* what a child may print on one stream: sequences of Byte
  MaxLine,   \* MAX_LINE_BYTES, 8 KB
  Limit,     \* the limit of the StreamReader, 64 KB
  MaxChunk,  \* bound of the model: bytes that arrive at once
  Capacity   \* log_buffer, the maxlen of the deque

Byte == {"x", "nl"}
Stream == {"stdout", "stderr"}

ASSUME ParamsAssumption ==
  /\ \A out \in Outputs : out \in Seq(Byte)
  /\ MaxLine \in Nat \ {0} /\ Limit \in Nat /\ MaxLine <= Limit
  /\ MaxChunk \in Nat \ {0} /\ Capacity \in Nat

VARIABLES
  kind,    \* "process" (named tool, bash job) or "upstream"
  source,  \* source[s]: what the child prints on s until it closes s
  fed,     \* fed[s]: how many bytes of it have reached the reader
  eof,     \* eof[s]: the reader has seen the end of s
  taken,   \* taken[s]: how many bytes the pump has taken out of the reader
  done,    \* done[s]: the pump of s has returned or was cancelled
  ring     \* RingBuffer._dq
vars == <<kind, source, fed, eof, taken, done, ring>>

-----------------------------------------------------------------------------

Entry(s, first, last, truncated) ==
  [stream |-> s, first |-> first, last |-> last, truncated |-> truncated]

\* Only the stderr of an upstream is pumped: stdout carries the protocol.
Init ==
  /\ kind \in {"process", "upstream"}
  /\ source \in [Stream -> Outputs]
  /\ kind = "upstream" => source["stdout"] = <<>>
  /\ fed = [s \in Stream |-> 0]
  /\ eof = [s \in Stream |-> kind = "upstream" /\ s = "stdout"]
  /\ taken = [s \in Stream |-> 0]
  /\ done = eof
  /\ ring = <<>>

(***************************************************************************)
(* The reader: asyncio.StreamReader.  It stops reading the pipe while more  *)
(* than twice the limit is buffered.                                        *)
(***************************************************************************)

Buffered(s) == fed[s] - taken[s]

Feed(s) ==
  /\ ~eof[s] /\ ~done[s] /\ Buffered(s) <= 2 * Limit
  /\ \E n \in 1..MaxChunk :
       /\ fed[s] + n <= Len(source[s])
       /\ fed' = [fed EXCEPT ![s] = @ + n]
  /\ UNCHANGED <<kind, source, eof, taken, done, ring>>

\* The supervisor holds the writing end of an upstream's stderr until it
\* cancels the pump (proxy.py:133-134, 165-168).
FeedEof(s) ==
  /\ kind = "process"
  /\ ~eof[s] /\ fed[s] = Len(source[s])
  /\ eof' = [eof EXCEPT ![s] = TRUE]
  /\ UNCHANGED <<kind, source, fed, taken, done, ring>>

Newlines(s) == {p \in taken[s] + 1 .. fed[s] : source[s][p] = "nl"}

\* How long the buffered line is as far as readuntil can tell.
LineLength(s) ==
  (IF Newlines(s) = {} THEN fed[s] + 1 ELSE Min(Newlines(s))) - taken[s] - 1

\* LimitOverrunError, with or without a newline in the buffer.
OverLimit(s) == LineLength(s) > Limit

(***************************************************************************)
(* The ring buffer.                                                         *)
(***************************************************************************)

RingAppend(e) ==
  LET all == Append(ring, e)
  IN  ring' = IF Len(all) > Capacity THEN Tail(all) ELSE all

Kept(items, n) == IF n > 0 THEN SubSeq(items, Max({1, Len(items) - n + 1}), Len(items))
                           ELSE items
\* The comprehension of tail, entry by entry: those of one stream, or "all".
OfStream(items, s) ==
  LET first[i \in 0 .. Len(items)] ==
        IF i = 0 THEN <<>>
        ELSE IF s \in {"all", items[i].stream} THEN Append(first[i - 1], items[i])
        ELSE first[i - 1]
  IN  first[Len(items)]

BugCutFirst(n, s) == OfStream(Kept(ring, n), s)
\* RingBuffer.tail: n <= 0 asks for everything.
RingTail(n, s) == Kept(OfStream(ring, s), n)

(***************************************************************************)
(* The pump.                                                                *)
(***************************************************************************)

Took(s, n) ==
  /\ taken' = [taken EXCEPT ![s] = @ + n]
  /\ UNCHANGED <<kind, source, fed, eof>>

\* A line of n bytes.  pump_stream cuts it to MAX_LINE_BYTES and flags it;
\* the pump of an upstream logs it as it is.
AppendLine(s, n) ==
  LET cut == kind = "process" /\ n > MaxLine
  IN  RingAppend(Entry(s, taken[s] + 1, taken[s] + (IF cut THEN MaxLine ELSE n), cut))

ReadLine(s) ==
  /\ ~done[s] /\ Newlines(s) # {} /\ ~OverLimit(s)
  /\ AppendLine(s, LineLength(s))
  /\ Took(s, LineLength(s) + 1)
  /\ UNCHANGED done

BugPieceSize(s) == Buffered(s)
\* reader.read(8192): what is there, up to that many bytes.
PieceSize(s) == Min({MaxLine, Buffered(s)})

\* The line is longer than the limit: a piece of it is logged as a line of
\* its own, and what follows is read as if it were the next line
\* (_truncate_remaining_line does nothing).
ReadPiece(s) ==
  /\ ~done[s] /\ OverLimit(s)
  /\ RingAppend(Entry(s, taken[s] + 1, taken[s] + PieceSize(s), TRUE))
  /\ Took(s, PieceSize(s))
  /\ UNCHANGED done

\* IncompleteReadError with something in it: a last line without a newline.
ReadPartial(s) ==
  /\ ~done[s] /\ eof[s] /\ Newlines(s) = {} /\ ~OverLimit(s)
  /\ Buffered(s) > 0
  /\ AppendLine(s, Buffered(s))
  /\ Took(s, Buffered(s))
  /\ UNCHANGED done

BugPartialLost(s) == eof[s] /\ Newlines(s) = {}
AtEnd(s) == eof[s] /\ Buffered(s) = 0

PumpReturn(s) ==
  /\ ~done[s] /\ AtEnd(s)
  /\ done' = [done EXCEPT ![s] = TRUE]
  /\ UNCHANGED <<kind, source, fed, eof, taken, ring>>

\* _run, at the end of a connection: what has not been read yet is lost, an
\* unfinished line always.
CancelPump(s) ==
  /\ kind = "upstream" /\ ~done[s]
  /\ done' = [done EXCEPT ![s] = TRUE]
  /\ UNCHANGED <<kind, source, fed, eof, taken, ring>>

Pump(s) == ReadLine(s) \/ ReadPiece(s) \/ ReadPartial(s) \/ PumpReturn(s)

Next == \E s \in Stream : Feed(s) \/ FeedEof(s) \/ Pump(s) \/ CancelPump(s)

\* The event loop runs a pump that can go on.  When bytes arrive, and
\* whether the child ever closes the stream, is up to the child.
Fairness == \A s \in Stream : WF_vars(Pump(s))

Spec == Init /\ [][Next]_vars /\ Fairness

-----------------------------------------------------------------------------

TypeOK ==
  /\ kind \in {"process", "upstream"}
  /\ \A s \in Stream :
       /\ source[s] \in Outputs
       /\ 0 <= taken[s] /\ taken[s] <= fed[s] /\ fed[s] <= Len(source[s])
       /\ eof[s] \in BOOLEAN /\ done[s] \in BOOLEAN
       /\ kind = "process" /\ done[s] => eof[s]
  /\ Len(ring) <= Capacity
  /\ \A i \in DOMAIN ring :
       /\ ring[i].stream \in Stream /\ ring[i].truncated \in BOOLEAN
       /\ \A p \in ring[i].first .. ring[i].last :
            p <= taken[ring[i].stream] /\ source[ring[i].stream][p] = "x"

(***************************************************************************)
(* What the output of a child amounts to, chunks or no chunks: an entry for *)
(* each line, cut and flagged by pump_stream if it is longer than MaxLine,  *)
(* and never by the pump of an upstream; but a line longer than the limit   *)
(* becomes entries of MaxLine bytes and one of what is left.  README.md:178 *)
(* ("Lines >8 KB are truncated and flagged") and logbuf.py:72 ("discard     *)
(* until newline") promise one truncated entry for any long line: this is   *)
(* the code, not that promise.                                              *)
(***************************************************************************)

LineEnd(s, p) ==
  Min({q \in p .. Len(source[s]) : source[s][q] = "nl"} \cup {Len(source[s]) + 1})

\* The entries the first `upTo` bytes of s should have made.
Entries(s, upTo) ==
  LET from[p \in 1 .. Len(source[s]) + 2] ==
        LET n == LineEnd(s, p) - p
        IN  IF p > upTo THEN <<>>
            ELSE IF n > Limit
              THEN <<Entry(s, p, p + MaxLine - 1, TRUE)>> \o from[p + MaxLine]
            ELSE IF kind = "process" /\ n > MaxLine
              THEN <<Entry(s, p, p + MaxLine - 1, TRUE)>> \o from[p + n + 1]
            ELSE <<Entry(s, p, p + n - 1, FALSE)>> \o from[p + n + 1]
  IN  from[1]

\* logs(target, n, stream) returns the latest of the entries that the child's
\* output on the stream amounts to (Entries), in order, each once, however the
\* bytes arrived and the two pumps interleaved; entries are missing only at
\* the old end, and only when the buffer is full (logbuf.py:24-68).  It says
\* nothing of how long lines should be cut.
LogsAreRecent ==
  /\ \A s \in Stream :
       LET kept == Len(RingTail(0, s))
       IN  \A n \in 1 .. Capacity + 1 :
             /\ IsSuffix(RingTail(n, s), Entries(s, taken[s]))
             /\ Len(RingTail(n, s)) = Min({n, kept})
  /\ Len(ring) =
       Min({Capacity, Len(Entries("stdout", taken["stdout"]))
                        + Len(Entries("stderr", taken["stderr"]))})

\* A complete line that has arrived is logged, and once the child has closed
\* a stream its pump returns with everything logged: bash waits for that
\* before it answers (logbuf.py:48-68, manager.py:147).
OutputIsLogged ==
  \A s \in Stream :
    /\ []<>(done[s] \/ Newlines(s) = {})
    /\ eof[s] ~> done[s] /\ taken[s] = Len(source[s])

=============================================================================
