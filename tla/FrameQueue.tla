----------------------------- MODULE FrameQueue -----------------------------
(***************************************************************************)
(* The frame queue between a protocol control and the main loop (m_queue   *)
(* of CDMRSlot; the other controls have the same one).  Frames of several  *)
(* lengths share one byte Fifo: a length byte, then that many bytes.  Only *)
(* the order of the bytes says which of them is a length, so losing one    *)
(* byte would make every later frame unreadable.                           *)
(***************************************************************************)
EXTENDS Integers, Sequences

CONSTANTS QueueLength, \* m_length of the Fifo
          Lens,        \* the lengths of the frames written
          Junk         \* values a payload byte may have (read as a length, if ever)

ASSUME QueueAssumption == /\ QueueLength \in Nat \ {0}
                          /\ Lens \subseteq Nat \ {0}
                          /\ Junk \subseteq Nat

VARIABLES queue,    \* the bytes queued, oldest first
          call      \* the last call: which, the frame length, and its success

queueVars == <<queue, call>>

Byte == [role : {"len", "data"}, val : Nat]

LenByte(n) == << [role |-> "len", val |-> n] >>

Payloads(n) == [1 .. n -> [role : {"data"}, val : Junk]]

Free(bytes) == QueueLength - Len(bytes)

\* CRingBuffer::addData: a write that does not fit clears the buffer.
AddData(bytes, items) == IF Len(items) >= Free(bytes) THEN << >>
                                                      ELSE bytes \o items

QueueInit == /\ queue = << >>
             /\ call = [op |-> "clear", len |-> 0, ok |-> TRUE]

\* Mutants: no space check, and one that forgets the length byte.
writeQueue_Unchecked(n) ==
  \E payload \in Payloads(n) :
    /\ call' = [op |-> "write", len |-> n, ok |-> TRUE]
    /\ queue' = AddData(AddData(queue, LenByte(n)), payload)

writeQueue_CheckShort(n) ==
  \E payload \in Payloads(n) :
    IF Free(queue) < n
      THEN /\ call' = [op |-> "write", len |-> n, ok |-> FALSE]
           /\ UNCHANGED queue
      ELSE /\ call' = [op |-> "write", len |-> n, ok |-> TRUE]
           /\ queue' = AddData(AddData(queue, LenByte(n)), payload)

\* A write that gets as far as the queue (writeQueueRF first gives way to the
\* network).  The space check asks for n + 1 bytes; addData wants one more than that.
writeQueue(n) ==
  \E payload \in Payloads(n) :
    IF Free(queue) < n + 1
      THEN /\ call' = [op |-> "write", len |-> n, ok |-> FALSE]
           /\ UNCHANGED queue
      ELSE /\ call' = [op |-> "write", len |-> n, ok |-> TRUE]
           /\ queue' = AddData(AddData(queue, LenByte(n)), payload)

\* A second getData that asks for more than is there takes nothing, and its
\* result is not looked at.
readModem ==
  /\ queue # << >>
  /\ LET n == queue[1].val
         rest == Tail(queue)
     IN IF n <= Len(rest)
          THEN /\ call' = [op |-> "read", len |-> n, ok |-> TRUE]
               /\ queue' = SubSeq(rest, n + 1, Len(rest))
          ELSE /\ call' = [op |-> "read", len |-> n, ok |-> FALSE]
               /\ queue' = rest

\* m_queue.clear() when a control is disabled or the network call is aborted.
clearQueue == /\ queue' = << >>
              /\ call' = [op |-> "clear", len |-> 0, ok |-> TRUE]

QueueNext == \/ \E n \in Lens : writeQueue(n)
             \/ readModem
             \/ clearQueue

QueueSpec == QueueInit /\ [][QueueNext]_queueVars

-----------------------------------------------------------------------------
QueueTypeOK == /\ queue \in Seq(Byte)
               /\ Len(queue) < QueueLength
               /\ call \in [op : {"write", "read", "clear"}, len : Nat, ok : BOOLEAN]

\* The queue is a row of whole frames: it starts with a length byte, every
\* length byte is followed by exactly that many payload bytes, and these by
\* the next length byte.  The space check of writeQueue is what keeps the
\* length byte from being swallowed by an overflow its payload survives.
Framed == /\ queue # << >> => queue[1].role = "len"
          /\ \A i \in 1 .. Len(queue) : queue[i].role = "len" =>
               /\ i + queue[i].val <= Len(queue)
               /\ \A j \in i + 1 .. i + queue[i].val : queue[j].role = "data"
               /\ i + queue[i].val < Len(queue) => queue[i + queue[i].val + 1].role = "len"

\* readModem never hands out a frame it could not take whole, and the length it
\* believes is a length somebody wrote.
ReadsWholeFrames == call.op = "read" => call.ok /\ call.len \in Lens

Keeps(after, before) == /\ Len(before) <= Len(after)
                        /\ SubSeq(after, 1, Len(before)) = before

\* Queued frames survive every write, but one: a write into exactly n + 1 free
\* bytes passes the check of writeQueue and overflows in addData, which throws
\* the whole queue away.  No other write ever loses a queued byte.
LossOnlyAtBoundary ==
  [][(call'.op = "write" /\ ~Keeps(queue', queue)) => Free(queue) = call'.len + 1]_queueVars

=============================================================================
