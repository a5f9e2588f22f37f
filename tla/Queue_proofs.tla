---------------------------- MODULE Queue_proofs ----------------------------
(***************************************************************************)
(* Proofs about the queues under the host.  RingBuffer keeps its indices   *)
(* inside the array and implements Fifo, for every item set, array length  *)
(* and call length.  FrameQueue, the frames with their length bytes in     *)
(* such a Fifo of bytes, never loses its framing, for every queue size and *)
(* every set of frame lengths: a reader of whole frames always finds one.  *)
(***************************************************************************)
EXTENDS RingBuffer, FrameQueue, SequenceTheorems, TLAPS

LEMMA CallsAreSeqs == \A items \in Calls : items \in Seq(T) /\ Len(items) <= MaxCall
  BY RingAssumption, SMT DEF Calls

\* What the index arithmetic of the class returns.
LEMMA IndexArithmetic ==
  ASSUME NEW p \in Slots, NEW n \in 0 .. Length
  PROVE  /\ Advance(p, n) \in Slots
         /\ \A q \in Slots : Ahead(p, q) \in 0 .. Length - 1 /\ Advance(p, Ahead(p, q)) = q
         /\ n < Length => Ahead(p, Advance(p, n)) = n
  BY RingAssumption, SMT DEF Slots, Advance, Ahead

LEMMA SizeBounds ==
  ASSUME m_iPtr \in Slots, m_oPtr \in Slots
  PROVE  /\ FreeSpace \in 1 .. Length
         /\ DataSize \in 0 .. Length - 1
         /\ DataSize = Ahead(m_oPtr, m_iPtr)
         /\ FreeSpace = Length - DataSize
  BY RingAssumption, SMT DEF Slots, FreeSpace, DataSize, Ahead

\* The slots handed to a reader are items.
LEMMA FrontType ==
  ASSUME m_buffer \in [Slots -> T], m_oPtr \in Slots, NEW n \in 0 .. Length
  PROVE  Front(n) \in [1 .. n -> T] /\ Front(n) \in Seq(T) /\ Len(Front(n)) = n
<1>1. ASSUME NEW k \in 1 .. n PROVE m_buffer[Advance(m_oPtr, k - 1)] \in T
  <2>1. Advance(m_oPtr, k - 1) \in Slots
    BY IndexArithmetic, RingAssumption
  <2> QED BY <2>1
<1> QED BY <1>1, SMT DEF Front

-----------------------------------------------------------------------------
LEMMA InitType == Init => TypeOK
  BY RingAssumption, SMT DEF Init, TypeOK, Blank, Slots, Success

LEMMA StepType == TypeOK /\ [Next]_vars => TypeOK'
<1> SUFFICES ASSUME TypeOK, [Next]_vars PROVE TypeOK'
  OBVIOUS
<1> USE RingAssumption
<1>1. ASSUME NEW items \in Calls, addData(items) PROVE TypeOK'
  <2>1. items \in Seq(T) /\ Len(items) \in 0 .. Length
    BY <1>1, CallsAreSeqs, SizeBounds, SMT DEF addData, TypeOK
  <2>2. Advance(m_iPtr, Len(items)) \in Slots
    BY <2>1, IndexArithmetic DEF TypeOK
  <2>3. ASSUME NEW s \in Slots, Ahead(m_iPtr, s) < Len(items)
        PROVE  items[Ahead(m_iPtr, s) + 1] \in T
    <3>1. 0 \in 0 .. Length
      BY SMT
    <3>2. Ahead(m_iPtr, s) \in 0 .. Length - 1
      BY <2>3, <3>1, IndexArithmetic DEF TypeOK
    <3> QED BY <2>1, <2>3, <3>2, SMT
  <2>4. Stored(items) \in [Slots -> T]
    BY <2>3 DEF Stored, TypeOK
  <2> QED BY <1>1, <2>2, <2>4, SMT DEF addData, TypeOK, Success
<1>2. ASSUME NEW items \in Calls, addDataOverflow(items) PROVE TypeOK'
  BY <1>2, SMT DEF addDataOverflow, Reset, Blank, TypeOK, Failure, Slots
<1>3. ASSUME NEW n \in 0 .. MaxCall, getData(n) PROVE TypeOK'
  <2>1. n \in 0 .. Length
    BY <1>3, SizeBounds, SMT DEF getData, TypeOK
  <2>2. Advance(m_oPtr, n) \in Slots /\ Front(n) \in Seq(T)
    BY <2>1, IndexArithmetic, FrontType DEF TypeOK
  <2> QED BY <1>3, <2>2, SMT DEF getData, TypeOK, Success
<1>4. ASSUME NEW n \in 0 .. MaxCall, peek(n) PROVE TypeOK'
  <2>1. n \in 0 .. Length
    BY <1>4, SizeBounds, SMT DEF peek, TypeOK
  <2>2. Front(n) \in Seq(T)
    BY <2>1, FrontType DEF TypeOK
  <2> QED BY <1>4, <2>2, SMT DEF peek, TypeOK, Success
<1>5. ASSUME NEW n \in 0 .. MaxCall, underflow(n) PROVE TypeOK'
  BY <1>5, SMT DEF underflow, TypeOK, Failure
<1>6. CASE clear
  BY <1>6, SMT DEF clear, Reset, Blank, TypeOK, Success, Slots
<1>7. CASE UNCHANGED vars
  BY <1>7 DEF vars, TypeOK
<1> QED BY <1>1, <1>2, <1>3, <1>4, <1>5, <1>6, <1>7 DEF Next

\* The write and read indices stay inside the array and every slot holds an
\* item, however addData, getData and clear are interleaved.
THEOREM TypeCorrect == Spec => []TypeOK
<1>1. Init => TypeOK
  BY InitType
<1>2. TypeOK /\ [Next]_vars => TypeOK'
  BY StepType
<1> QED BY <1>1, <1>2, PTL DEF Spec

-----------------------------------------------------------------------------
\* Where a write of n items lands, seen from the read index.
LEMMA WriteGeometry ==
  ASSUME NEW i \in Slots, NEW o \in Slots, NEW n \in Nat, Ahead(o, i) + n < Length
  PROVE  /\ Ahead(o, Advance(i, n)) = Ahead(o, i) + n
         /\ \A k \in 0 .. Ahead(o, i) - 1 : Ahead(i, Advance(o, k)) >= n
         /\ \A k \in Ahead(o, i) .. Ahead(o, i) + n - 1 :
                Ahead(i, Advance(o, k)) = k - Ahead(o, i)
  BY RingAssumption, SMT DEF Slots, Advance, Ahead

\* What a read of n items leaves, seen from the new read index.
LEMMA ReadGeometry ==
  ASSUME NEW i \in Slots, NEW o \in Slots, NEW n \in 0 .. Ahead(o, i)
  PROVE  /\ Ahead(Advance(o, n), i) = Ahead(o, i) - n
         /\ \A k \in 0 .. Ahead(o, i) - n - 1 :
                Advance(Advance(o, n), k) = Advance(o, n + k)
  BY RingAssumption, SMT DEF Slots, Advance, Ahead

LEMMA ContentsType == TypeOK => Contents \in Seq(T) /\ Len(Contents) = DataSize
<1> SUFFICES ASSUME TypeOK PROVE Contents \in Seq(T) /\ Len(Contents) = DataSize
  OBVIOUS
<1>1. DataSize \in 0 .. Length
  BY SizeBounds, RingAssumption, SMT DEF TypeOK
<1> QED BY <1>1, FrontType DEF Contents, TypeOK

LEMMA ContentsTypeAfter == TypeOK' => Contents' \in Seq(T) /\ Len(Contents') = DataSize'
<1>1. TypeOK' => (Contents \in Seq(T) /\ Len(Contents) = DataSize)'
  BY ContentsType, PTL
<1> QED BY <1>1

LEMMA FrontOfContents ==
  ASSUME TypeOK, NEW n \in 0 .. DataSize
  PROVE  Front(n) = SubSeq(Contents, 1, n)
<1>1. DataSize \in 0 .. Length - 1 /\ n \in 0 .. Length
  BY SizeBounds, RingAssumption, SMT DEF TypeOK
<1>2. Front(n) \in Seq(T) /\ Len(Front(n)) = n
  BY <1>1, FrontType DEF TypeOK
<1>3. Contents \in Seq(T) /\ Len(Contents) = DataSize
  BY ContentsType
<1>4. /\ SubSeq(Contents, 1, n) \in Seq(T)
      /\ Len(SubSeq(Contents, 1, n)) = n
      /\ \A k \in 1 .. n : SubSeq(Contents, 1, n)[k] = Contents[k]
  BY <1>1, <1>3, SMT
<1>5. \A k \in 1 .. n : Front(n)[k] = Contents[k]
  BY <1>1, SMT DEF Front, Contents
<1> QED BY <1>2, <1>4, <1>5, SeqEqual

LEMMA InitRefines == Init => Queue!Init
  BY RingAssumption, SMT DEF Init, Queue!Init, Contents, Front, DataSize, FreeSpace,
                             Success, Queue!Success

LEMMA addDataRefines ==
  ASSUME TypeOK, NEW items \in Calls, addData(items)
  PROVE  Queue!Accept(items)
<1> DEFINE D == DataSize
           n == Len(items)
<1>1. items \in Seq(T) /\ n \in Nat
  BY CallsAreSeqs
<1>2. D = Ahead(m_oPtr, m_iPtr) /\ D \in 0 .. Length - 1 /\ D + n < Length
  BY <1>1, SizeBounds, RingAssumption, SMT DEF addData, TypeOK
<1>3. TypeOK'
  BY StepType DEF Next
<1>4. DataSize' = D + n
  <2>1. DataSize' = Ahead(m_oPtr', m_iPtr')
    BY <1>3, SMT, RingAssumption DEF TypeOK, DataSize, FreeSpace, Ahead, Slots
  <2>2. Ahead(m_oPtr, Advance(m_iPtr, n)) = D + n
    BY <1>1, <1>2, WriteGeometry DEF TypeOK
  <2> QED BY <2>1, <2>2 DEF addData
<1>5. \A k \in 1 .. D + n : Contents'[k] = IF k <= D THEN Contents[k] ELSE items[k - D]
  <2> SUFFICES ASSUME NEW k \in 1 .. D + n
               PROVE  Contents'[k] = IF k <= D THEN Contents[k] ELSE items[k - D]
    OBVIOUS
  <2> DEFINE s == Advance(m_oPtr, k - 1)
  <2>1. k - 1 \in 0 .. Length
    BY <1>1, <1>2, RingAssumption, SMT
  <2>2. s \in Slots
    BY <2>1, IndexArithmetic DEF TypeOK
  <2>3. Contents'[k] = Stored(items)[s]
    BY <1>4 DEF Contents, Front, addData
  <2>4. Contents'[k] = IF Ahead(m_iPtr, s) < n THEN items[Ahead(m_iPtr, s) + 1]
                                               ELSE m_buffer[s]
    BY <2>2, <2>3 DEF Stored
  <2>5. CASE k <= D
    <3>1. k \in 1 .. D /\ k - 1 \in 0 .. Ahead(m_oPtr, m_iPtr) - 1
      BY <1>1, <1>2, <2>5, SMT
    <3>2. Ahead(m_iPtr, s) >= n
      BY <1>1, <1>2, <3>1, WriteGeometry DEF TypeOK
    <3>3. Ahead(m_iPtr, s) \in Int
      BY <2>2, SMT, RingAssumption DEF Ahead, TypeOK, Slots
    <3>4. ~ (Ahead(m_iPtr, s) < n)
      BY <1>1, <3>2, <3>3, SMT
    <3>5. Contents[k] = m_buffer[s]
      BY <3>1 DEF Contents, Front
    <3> QED BY <2>4, <2>5, <3>4, <3>5
  <2>6. CASE k > D
    <3>1. k - 1 \in Ahead(m_oPtr, m_iPtr) .. Ahead(m_oPtr, m_iPtr) + n - 1
      BY <1>1, <1>2, <2>6, SMT
    <3>2. Ahead(m_iPtr, s) = (k - 1) - D
      BY <1>1, <1>2, <3>1, WriteGeometry DEF TypeOK
    <3>3. Ahead(m_iPtr, s) < n /\ Ahead(m_iPtr, s) + 1 = k - D /\ ~(k <= D)
      BY <1>1, <1>2, <2>6, <3>2, SMT
    <3> QED BY <2>4, <3>3
  <2> QED BY <1>1, <1>2, <2>5, <2>6, SMT
<1>6. Contents' \in Seq(T) /\ Len(Contents') = D + n
  <2>1. Contents' \in Seq(T) /\ Len(Contents') = DataSize'
    BY <1>3, ContentsTypeAfter
  <2> QED BY <1>4, <2>1
<1>7. Contents \in Seq(T) /\ Len(Contents) = D
  BY ContentsType
<1>8. /\ Contents \o items \in Seq(T)
      /\ Len(Contents \o items) = D + n
      /\ \A k \in 1 .. D + n :
            (Contents \o items)[k] = IF k <= D THEN Contents[k] ELSE items[k - D]
  BY <1>1, <1>7, ConcatProperties
<1>9. Contents' = Contents \o items
  BY <1>5, <1>6, <1>8, SeqEqual
<1>10. n < Queue!Free
  BY <1>1, <1>2, <1>7, RingAssumption, SMT DEF Queue!Free
<1> QED BY <1>9, <1>10 DEF addData, Queue!Accept, Success, Queue!Success

LEMMA EmptyContents ==
  ASSUME Reset PROVE Contents' = << >>
  BY RingAssumption, SMT DEF Reset, Contents, Front, DataSize, FreeSpace

LEMMA addDataOverflowRefines ==
  ASSUME TypeOK, NEW items \in Calls, addDataOverflow(items)
  PROVE  Queue!Overflow(items)
<1>1. Len(items) \in Nat /\ Len(Contents) = DataSize /\ FreeSpace = Length - DataSize
  BY CallsAreSeqs, ContentsType, SizeBounds DEF TypeOK
<1>2. Len(items) >= Queue!Free
  BY <1>1 DEF addDataOverflow, Queue!Free
<1>3. Contents' = << >>
  BY EmptyContents DEF addDataOverflow
<1> QED BY <1>2, <1>3 DEF addDataOverflow, Queue!Overflow, Failure, Queue!Failure

LEMMA getDataRefines ==
  ASSUME TypeOK, NEW n \in 0 .. MaxCall, getData(n)
  PROVE  Queue!Remove(n)
<1> DEFINE D == DataSize
<1>1. n \in 0 .. D /\ D \in 0 .. Length - 1 /\ D = Ahead(m_oPtr, m_iPtr)
  BY SizeBounds, RingAssumption, SMT DEF getData, TypeOK
<1>2. TypeOK'
  BY StepType DEF Next
<1>3. DataSize' = D - n
  <2>1. DataSize' = Ahead(m_oPtr', m_iPtr')
    BY <1>2, SMT, RingAssumption DEF TypeOK, DataSize, FreeSpace, Ahead, Slots
  <2>2. Ahead(Advance(m_oPtr, n), m_iPtr) = D - n
    BY <1>1, ReadGeometry DEF TypeOK
  <2> QED BY <2>1, <2>2 DEF getData
<1>4. Contents \in Seq(T) /\ Len(Contents) = D
  BY ContentsType
<1>5. \A k \in 1 .. D - n : Contents'[k] = Contents[n + k]
  <2> SUFFICES ASSUME NEW k \in 1 .. D - n PROVE Contents'[k] = Contents[n + k]
    OBVIOUS
  <2>1. n + k \in 1 .. D /\ k - 1 \in 0 .. Ahead(m_oPtr, m_iPtr) - n - 1
        /\ n + (k - 1) = (n + k) - 1
    BY <1>1, SMT
  <2>2. Contents'[k] = m_buffer[Advance(Advance(m_oPtr, n), k - 1)]
    BY <1>3 DEF Contents, Front, getData
  <2>3. Advance(Advance(m_oPtr, n), k - 1) = Advance(m_oPtr, (n + k) - 1)
    BY <1>1, <2>1, ReadGeometry DEF TypeOK
  <2> QED BY <2>1, <2>2, <2>3 DEF Contents, Front
<1>6. Contents' \in Seq(T) /\ Len(Contents') = D - n
  <2>1. Contents' \in Seq(T) /\ Len(Contents') = DataSize'
    BY <1>2, ContentsTypeAfter
  <2> QED BY <1>3, <2>1
<1>7. /\ SubSeq(Contents, n + 1, Len(Contents)) \in Seq(T)
      /\ Len(SubSeq(Contents, n + 1, Len(Contents))) = D - n
      /\ \A k \in 1 .. D - n : SubSeq(Contents, n + 1, Len(Contents))[k] = Contents[n + k]
  BY <1>1, <1>4, SMT
<1>8. Contents' = SubSeq(Contents, n + 1, Len(Contents))
  BY <1>5, <1>6, <1>7, SeqEqual
<1>9. Front(n) = SubSeq(Contents, 1, n)
  BY <1>1, FrontOfContents
<1>10. n <= Len(Contents)
  BY <1>1, <1>4, SMT
<1> QED BY <1>8, <1>9, <1>10 DEF getData, Queue!Remove, Success, Queue!Success

LEMMA peekRefines ==
  ASSUME TypeOK, NEW n \in 0 .. MaxCall, peek(n)
  PROVE  Queue!Look(n)
<1>1. n \in 0 .. DataSize /\ Len(Contents) = DataSize
  BY SizeBounds, ContentsType, RingAssumption, SMT DEF peek, TypeOK
<1>2. Front(n) = SubSeq(Contents, 1, n)
  BY <1>1, FrontOfContents
<1>3. n <= Len(Contents)
  BY <1>1, SizeBounds, SMT DEF TypeOK
<1>4. Contents' = Contents
  BY DEF peek, Contents, Front, DataSize, FreeSpace
<1> QED BY <1>2, <1>3, <1>4 DEF peek, Queue!Look, Success, Queue!Success

LEMMA underflowRefines ==
  ASSUME TypeOK, NEW n \in 0 .. MaxCall, underflow(n)
  PROVE  Queue!Underflow(n)
<1>1. n > Len(Contents)
  BY ContentsType, SizeBounds, RingAssumption, SMT DEF underflow, TypeOK
<1>2. Contents' = Contents
  BY DEF underflow, Contents, Front, DataSize, FreeSpace
<1> QED BY <1>1, <1>2 DEF underflow, Queue!Underflow, Failure, Queue!Failure

LEMMA clearRefines == clear => Queue!Clear
  BY EmptyContents DEF clear, Queue!Clear, Success, Queue!Success

LEMMA StepRefines == TypeOK /\ [Next]_vars => [Queue!Next]_(Queue!vars)
<1> SUFFICES ASSUME TypeOK, [Next]_vars PROVE [Queue!Next]_(Queue!vars)
  OBVIOUS
<1>1. Calls = Queue!Calls
  BY DEF Calls, Queue!Calls
<1>2. ASSUME NEW items \in Calls, addData(items) PROVE Queue!Next
  BY <1>1, <1>2, addDataRefines DEF Queue!Next
<1>3. ASSUME NEW items \in Calls, addDataOverflow(items) PROVE Queue!Next
  BY <1>1, <1>3, addDataOverflowRefines DEF Queue!Next
<1>4. ASSUME NEW n \in 0 .. MaxCall, getData(n) PROVE Queue!Next
  BY <1>4, getDataRefines DEF Queue!Next
<1>5. ASSUME NEW n \in 0 .. MaxCall, peek(n) PROVE Queue!Next
  BY <1>5, peekRefines DEF Queue!Next
<1>6. ASSUME NEW n \in 0 .. MaxCall, underflow(n) PROVE Queue!Next
  BY <1>6, underflowRefines DEF Queue!Next
<1>7. CASE clear
  BY <1>7, clearRefines DEF Queue!Next
<1>8. CASE UNCHANGED vars
  BY <1>8 DEF vars, Queue!vars, Contents, Front, DataSize, FreeSpace
<1> QED BY <1>2, <1>3, <1>4, <1>5, <1>6, <1>7, <1>8 DEF Next

\* The circular array is a Fifo: for every length and every sequence of calls,
\* wrapping round the end of the array loses, repeats and reorders nothing,
\* and a write discards the queue exactly when it would have filled it.
THEOREM RingBufferImplementsFifo == Spec => ImplementsFifo
<1>1. Init => Queue!Init
  BY InitRefines
<1>2. TypeOK /\ [Next]_vars => [Queue!Next]_(Queue!vars)
  BY StepRefines
<1> QED BY <1>1, <1>2, TypeCorrect, PTL DEF Spec, ImplementsFifo, Queue!Spec

-----------------------------------------------------------------------------
(* The frames.                                                             *)

\* Framed says where the length bytes are; this says what they may hold.
KnownLengths == \A i \in 1 .. Len(queue) : queue[i].role = "len" => queue[i].val \in Lens

FramesInv == QueueTypeOK /\ Framed /\ KnownLengths /\ ReadsWholeFrames

LEMMA PayloadType ==
  ASSUME NEW n \in Lens, NEW payload \in Payloads(n)
  PROVE  /\ payload \in Seq(Byte) /\ Len(payload) = n
         /\ \A j \in 1 .. n : payload[j].role = "data"
<1>1. n \in Nat \ {0} /\ Junk \subseteq Nat
  BY QueueAssumption
<1>2. payload \in [1 .. n -> [role : {"data"}, val : Junk]]
  BY DEF Payloads
<1>3. \A j \in 1 .. n : payload[j] \in [role : {"data"}, val : Junk]
  BY <1>2
<1>4. \A j \in 1 .. n : payload[j] \in Byte /\ payload[j].role = "data"
  BY <1>1, <1>3 DEF Byte
<1>5. payload \in [1 .. n -> Byte]
  BY <1>2, <1>4
<1> QED BY <1>1, <1>4, <1>5, SMT

LEMMA LenByteType ==
  ASSUME NEW n \in Lens
  PROVE  /\ LenByte(n) \in Seq(Byte) /\ Len(LenByte(n)) = 1
         /\ LenByte(n)[1] = [role |-> "len", val |-> n]
  BY QueueAssumption, SMT DEF LenByte, Byte

\* A write that passed the space check leaves the queue with its frame at the
\* end, or empty.
LEMMA CheckedWrite ==
  ASSUME QueueTypeOK, NEW n \in Lens, NEW payload \in Payloads(n), Free(queue) >= n + 1
  PROVE  \/ /\ AddData(AddData(queue, LenByte(n)), payload) = << >>
            /\ Free(queue) = n + 1
         \/ /\ AddData(AddData(queue, LenByte(n)), payload) = (queue \o LenByte(n)) \o payload
            /\ Len(queue) + 1 + n < QueueLength
<1>1. n \in Nat \ {0} /\ QueueLength \in Nat /\ Len(queue) \in Nat
  BY QueueAssumption, LenProperties DEF QueueTypeOK
<1>2. Len(LenByte(n)) = 1 /\ LenByte(n) \in Seq(Byte) /\ queue \in Seq(Byte)
  BY LenByteType DEF QueueTypeOK
<1>3. AddData(queue, LenByte(n)) = queue \o LenByte(n)
  BY <1>1, <1>2, SMT DEF AddData, Free
<1>4. Len(queue \o LenByte(n)) = Len(queue) + 1
  <2>1. \A s, t \in Seq(Byte) : Len(s \o t) = Len(s) + Len(t)
    BY ConcatProperties
  <2>2. Len(queue \o LenByte(n)) = Len(queue) + Len(LenByte(n))
    BY <1>2, <2>1, Zenon
  <2> QED BY <1>2, <2>2
<1>5. Len(payload) = n
  BY PayloadType
<1> DEFINE u == queue \o LenByte(n)
<1>6. Len(u) = Len(queue) + 1
  BY <1>4
<1> HIDE DEF u
<1>7. CASE n >= QueueLength - Len(u)
  <2>1. Free(queue) = n + 1
    BY <1>1, <1>6, <1>7, SMT DEF Free
  <2> QED BY <1>3, <1>5, <1>7, <2>1 DEF AddData, Free, u
<1>8. CASE ~(n >= QueueLength - Len(u))
  <2>1. Len(queue) + 1 + n < QueueLength
    BY <1>1, <1>6, <1>8, SMT
  <2> QED BY <1>3, <1>5, <1>8, <2>1 DEF AddData, Free, u
<1> QED BY <1>7, <1>8

LEMMA EmptyFramed ==
  ASSUME queue' = << >>
  PROVE  /\ queue' \in Seq(Byte) /\ Len(queue') = 0
         /\ Framed' /\ KnownLengths'
  BY SMT DEF Framed, KnownLengths

\* Where the bytes of an appended frame are.
LEMMA AppendedBytes ==
  ASSUME NEW s \in Seq(Byte), NEW h \in Seq(Byte), Len(h) = 1, NEW t \in Seq(Byte)
  PROVE  /\ (s \o h) \o t \in Seq(Byte) /\ Len((s \o h) \o t) = Len(s) + 1 + Len(t)
         /\ \A i \in 1 .. Len(s) : ((s \o h) \o t)[i] = s[i]
         /\ ((s \o h) \o t)[Len(s) + 1] = h[1]
         /\ \A i \in Len(s) + 2 .. Len(s) + 1 + Len(t) :
               ((s \o h) \o t)[i] = t[i - (Len(s) + 1)]
<1> DEFINE S == Byte
           u == s \o h
           r == u \o t
           L == Len(s)
           n == Len(t)
<1>0. L \in Nat /\ n \in Nat
  BY LenProperties
<1>1. /\ u \in Seq(S) /\ Len(u) = L + 1
      /\ \A i \in 1 .. L + 1 : u[i] = IF i <= L THEN s[i] ELSE h[i - L]
  <2>1. /\ u \in Seq(S) /\ Len(u) = Len(s) + Len(h)
        /\ \A i \in 1 .. Len(s) + Len(h) : u[i] = IF i <= Len(s) THEN s[i] ELSE h[i - Len(s)]
    BY ConcatProperties, Zenon
  <2> QED BY <2>1
<1> HIDE DEF u
<1>2. /\ r \in Seq(S) /\ Len(r) = (L + 1) + n
      /\ \A i \in 1 .. (L + 1) + n : r[i] = IF i <= L + 1 THEN u[i] ELSE t[i - (L + 1)]
  <2>1. /\ r \in Seq(S) /\ Len(r) = Len(u) + Len(t)
        /\ \A i \in 1 .. Len(u) + Len(t) : r[i] = IF i <= Len(u) THEN u[i] ELSE t[i - Len(u)]
    <3>1. u \in Seq(S) /\ t \in Seq(S)
      BY <1>1
    <3> QED BY <3>1, ConcatProperties, ZenonT(30)
  <2> QED BY <1>1, <2>1
<1> HIDE DEF L, n, r
<1>3. \A i \in 1 .. L : r[i] = s[i]
  BY <1>0, <1>1, <1>2, SMT
<1>4. r[L + 1] = h[1]
  <2>1. L + 1 \in 1 .. (L + 1) + n /\ L + 1 \in 1 .. L + 1 /\ ~(L + 1 <= L) /\ (L + 1) - L = 1
    BY <1>0, SMT
  <2>2. r[L + 1] = u[L + 1] /\ u[L + 1] = h[(L + 1) - L]
    BY <1>1, <1>2, <2>1
  <2> QED BY <2>1, <2>2
<1>5. \A i \in L + 2 .. L + 1 + n : r[i] = t[i - (L + 1)]
  BY <1>0, <1>2, SMT
<1> QED BY <1>2, <1>3, <1>4, <1>5 DEF L, n, r, u

\* Where the bytes left by a read of n + 1 of them come from.
LEMMA RemainingBytes ==
  ASSUME NEW S, NEW s \in Seq(S), NEW L \in Nat, Len(s) = L, NEW n \in Nat, n + 1 <= L
  PROVE  LET r == SubSeq(Tail(s), n + 1, Len(Tail(s)))
         IN  /\ Len(Tail(s)) = L - 1
             /\ r \in Seq(S) /\ Len(r) = L - (n + 1)
             /\ \A i \in 1 .. L - (n + 1) : r[i] = s[i + n + 1]
<1> DEFINE u == Tail(s)
           r == SubSeq(u, n + 1, Len(u))
<1>1. u \in Seq(S) /\ Len(u) = L - 1 /\ \A i \in 1 .. L - 1 : u[i] = s[i + 1]
  BY SMT
<1> HIDE DEF u
<1>2. r \in Seq(S) /\ Len(r) = L - (n + 1) /\ \A i \in 1 .. L - (n + 1) : r[i] = u[i + n]
  BY <1>1, SMT
<1> HIDE DEF r
<1>3. ASSUME NEW i \in 1 .. L - (n + 1) PROVE r[i] = s[i + n + 1]
  <2>1. i + n \in 1 .. L - 1 /\ (i + n) + 1 = i + n + 1
    BY SMT
  <2> QED BY <1>1, <1>2, <2>1
<1> QED BY <1>1, <1>2, <1>3 DEF r, u

\* Framed and KnownLengths as they bear on the length byte at position i.
FrameAt(bytes, i) ==
  /\ bytes[i].val \in Lens
  /\ i + bytes[i].val <= Len(bytes)
  /\ \A j \in i + 1 .. i + bytes[i].val : bytes[j].role = "data"
  /\ i + bytes[i].val < Len(bytes) => bytes[i + bytes[i].val + 1].role = "len"

FramesIn(bytes) ==
  /\ bytes # << >> => bytes[1].role = "len"
  /\ \A i \in 1 .. Len(bytes) : bytes[i].role = "len" => FrameAt(bytes, i)

LEMMA FramesInIsFramed == FramesIn(queue) <=> Framed /\ KnownLengths
  BY Zenon DEF FramesIn, FrameAt, Framed, KnownLengths

LEMMA FramesInIsFramedAfter == FramesIn(queue') <=> Framed' /\ KnownLengths'
  BY Zenon DEF FramesIn, FrameAt, Framed, KnownLengths

LEMMA AppendFramed ==
  ASSUME NEW s \in Seq(Byte), FramesIn(s), NEW L \in Nat, Len(s) = L, NEW n \in Lens,
         NEW r \in Seq(Byte), Len(r) = L + 1 + n,
         \A i \in 1 .. L : r[i] = s[i],
         r[L + 1] = [role |-> "len", val |-> n],
         \A i \in L + 2 .. L + 1 + n : r[i].role = "data"
  PROVE  FramesIn(r)
<1>1. n \in Nat \ {0}
  BY QueueAssumption
<1>2. L = 0 => s = << >>
  BY EmptySeq
<1>6. r[1].role = "len"
  <2>1. CASE L = 0
    <3>1. L + 1 = 1
      BY <2>1, SMT
    <3> QED BY <3>1
  <2>2. CASE L # 0
    <3>1. 1 \in 1 .. L /\ s # << >>
      BY <2>2, EmptySeq, SMT
    <3> QED BY <3>1 DEF FramesIn
  <2> QED BY <2>1, <2>2
<1>7. ASSUME NEW i \in 1 .. L + 1 + n, r[i].role = "len" PROVE FrameAt(r, i)
  <2>1. CASE i \in 1 .. L
    <3>1. r[i] = s[i] /\ FrameAt(s, i)
      BY <1>7, <2>1 DEF FramesIn
    <3> DEFINE v == s[i].val
    <3>2. /\ v \in Lens /\ v \in Nat /\ i + v <= L
          /\ \A j \in i + 1 .. i + v : s[j].role = "data"
          /\ i + v < L => s[i + v + 1].role = "len"
      BY <3>1, QueueAssumption DEF FrameAt
    <3>3. r[i].val = v
      BY <3>1
    <3> HIDE DEF v
    <3>4. ASSUME NEW j \in i + 1 .. i + v PROVE r[j].role = "data"
      <4>1. j \in 1 .. L
        BY <2>1, <3>2, <3>4, SMT
      <4> QED BY <3>2, <3>4, <4>1
    <3>5. r[i + v + 1].role = "len"
      <4>1. CASE i + v = L
        BY <4>1
      <4>2. CASE i + v < L
        <5>1. i + v + 1 \in 1 .. L
          BY <2>1, <3>2, <4>2, SMT
        <5> QED BY <3>2, <4>2, <5>1
      <4>3. i + v = L \/ i + v < L
        BY <2>1, <3>2, SMT
      <4> QED BY <4>1, <4>2, <4>3
    <3>6. i + v <= Len(r)
      BY <1>1, <2>1, <3>2, SMT
    <3> QED BY <3>2, <3>3, <3>4, <3>5, <3>6 DEF FrameAt
  <2>2. CASE i = L + 1
    <3>1. r[i].val = n /\ i + n = L + 1 + n /\ i + 1 = L + 2
      BY <1>1, <2>2, SMT
    <3>2. i + n <= Len(r) /\ ~(i + n < Len(r))
      BY <1>1, <3>1, SMT
    <3> QED BY <3>1, <3>2 DEF FrameAt
  <2>3. CASE i \in L + 2 .. L + 1 + n
    BY <1>7, <2>3
  <2>4. i \in 1 .. L \/ i = L + 1 \/ i \in L + 2 .. L + 1 + n
    BY <1>1, SMT
  <2> QED BY <2>1, <2>2, <2>3, <2>4
<1> QED BY <1>6, <1>7 DEF FramesIn

LEMMA FirstFrame ==
  ASSUME NEW s \in Seq(Byte), FramesIn(s), s # << >>
  PROVE  /\ s[1].val \in Lens /\ 1 + s[1].val <= Len(s)
         /\ 1 + s[1].val < Len(s) => s[1 + s[1].val + 1].role = "len"
<1>1. 1 \in 1 .. Len(s)
  BY EmptySeq, SMT
<1>2. FrameAt(s, 1)
  BY <1>1 DEF FramesIn
<1> QED BY <1>2 DEF FrameAt

LEMMA RemoveFramed ==
  ASSUME NEW s \in Seq(Byte), FramesIn(s), NEW L \in Nat, Len(s) = L,
         NEW n \in Nat, 1 + n <= L, 1 + n < L => s[1 + n + 1].role = "len",
         NEW r \in Seq(Byte), NEW m \in Nat, m = L - (n + 1), Len(r) = m,
         \A i \in 1 .. m : r[i] = s[i + n + 1]
  PROVE  FramesIn(r)
<1>1. m = 0 <=> r = << >>
  BY EmptySeq
<1>2. r # << >> => r[1].role = "len"
  <2> SUFFICES ASSUME m # 0 PROVE r[1].role = "len"
    BY <1>1
  <2>1. 1 \in 1 .. m /\ 1 + n < L /\ 1 + n + 1 = n + 1 + 1
    BY SMT
  <2> QED BY <2>1
<1>3. ASSUME NEW i \in 1 .. m, r[i].role = "len" PROVE FrameAt(r, i)
  <2> DEFINE p == i + n + 1
             v == s[p].val
  <2>1. p \in 1 .. L /\ r[i] = s[p]
    BY SMT
  <2>2. FrameAt(s, p)
    BY <1>3, <2>1 DEF FramesIn
  <2>3. /\ v \in Lens /\ v \in Nat /\ p + v <= L
        /\ \A j \in p + 1 .. p + v : s[j].role = "data"
        /\ p + v < L => s[p + v + 1].role = "len"
    BY <2>2, QueueAssumption DEF FrameAt
  <2>4. r[i].val = v
    BY <2>1
  <2>5. p = i + n + 1
    OBVIOUS
  <2> HIDE DEF p, v
  <2>6. i + v <= m
    BY <2>3, <2>5, SMT
  <2>7. ASSUME NEW j \in i + 1 .. i + v PROVE r[j].role = "data"
    <3>1. j \in 1 .. m /\ j + n + 1 \in p + 1 .. p + v
      BY <2>3, <2>5, <2>6, <2>7, SMT
    <3> QED BY <2>3, <3>1
  <2>8. ASSUME i + v < m PROVE r[i + v + 1].role = "len"
    <3>1. i + v + 1 \in 1 .. m /\ p + v < L /\ (i + v + 1) + n + 1 = p + v + 1
      BY <2>3, <2>5, <2>8, SMT
    <3> QED BY <2>3, <3>1
  <2> QED BY <2>3, <2>4, <2>6, <2>7, <2>8 DEF FrameAt
<1> QED BY <1>2, <1>3 DEF FramesIn

LEMMA WritePreserves == ASSUME FramesInv, NEW n \in Lens, writeQueue(n) PROVE FramesInv'
<1>1. n \in Nat \ {0} /\ QueueLength \in Nat \ {0} /\ Len(queue) \in Nat /\ queue \in Seq(Byte)
  BY QueueAssumption, LenProperties DEF FramesInv, QueueTypeOK
<1>2. \/ call' = [op |-> "write", len |-> n, ok |-> FALSE]
      \/ call' = [op |-> "write", len |-> n, ok |-> TRUE]
  BY DEF writeQueue
<1>3. call' \in [op : {"write", "read", "clear"}, len : Nat, ok : BOOLEAN] /\ call'.op = "write"
  <2>1. ASSUME NEW b \in BOOLEAN, call' = [op |-> "write", len |-> n, ok |-> b]
        PROVE  call' \in [op : {"write", "read", "clear"}, len : Nat, ok : BOOLEAN]
               /\ call'.op = "write"
    BY <1>1, <2>1
  <2> QED BY <1>2, <2>1
<1>4. CASE UNCHANGED queue
  BY <1>3, <1>4 DEF FramesInv, QueueTypeOK, Framed, KnownLengths, ReadsWholeFrames
<1>5. ASSUME NEW payload \in Payloads(n), Free(queue) >= n + 1,
             queue' = AddData(AddData(queue, LenByte(n)), payload)
      PROVE  FramesInv'
  <2>1. CASE queue' = << >>
    BY <1>1, <1>3, <2>1, EmptyFramed DEF FramesInv, QueueTypeOK, ReadsWholeFrames
  <2>2. CASE queue' = (queue \o LenByte(n)) \o payload /\ Len(queue) + 1 + n < QueueLength
    <3>1. /\ queue' \in Seq(Byte) /\ Len(queue') = Len(queue) + 1 + n
          /\ \A i \in 1 .. Len(queue) : queue'[i] = queue[i]
          /\ queue'[Len(queue) + 1] = [role |-> "len", val |-> n]
          /\ \A i \in Len(queue) + 2 .. Len(queue) + 1 + n : queue'[i] = payload[i - (Len(queue) + 1)]
      <4>1. LenByte(n) \in Seq(Byte) /\ Len(LenByte(n)) = 1 /\ n \in Nat
            /\ LenByte(n)[1] = [role |-> "len", val |-> n]
            /\ payload \in Seq(Byte) /\ Len(payload) = n
        BY <1>1, LenByteType, PayloadType
      <4>2. queue \in Seq(Byte) /\ Len(queue) \in Nat
        BY <1>1
      <4> DEFINE h == LenByte(n)
                 r == (queue \o h) \o payload
      <4>3. h \in Seq(Byte) /\ Len(h) = 1 /\ h[1] = [role |-> "len", val |-> n] /\ queue' = r
        BY <2>2, <4>1
      <4> HIDE DEF h
      <4>4. /\ r \in Seq(Byte) /\ Len(r) = Len(queue) + 1 + Len(payload)
            /\ \A i \in 1 .. Len(queue) : r[i] = queue[i]
            /\ r[Len(queue) + 1] = h[1]
            /\ \A i \in Len(queue) + 2 .. Len(queue) + 1 + Len(payload) :
                  r[i] = payload[i - (Len(queue) + 1)]
        BY <4>1, <4>2, <4>3, AppendedBytes, ZenonT(30)
      <4> HIDE DEF r
      <4> QED BY <4>1, <4>3, <4>4
    <3>2. \A i \in Len(queue) + 2 .. Len(queue) + 1 + n : i - (Len(queue) + 1) \in 1 .. n
      BY <1>1, SMT
    <3>3. \A i \in Len(queue) + 2 .. Len(queue) + 1 + n : queue'[i].role = "data"
      <4>1. \A j \in 1 .. n : payload[j].role = "data"
        BY PayloadType
      <4>2. \A i \in Len(queue) + 2 .. Len(queue) + 1 + n : queue'[i] = payload[i - (Len(queue) + 1)]
        BY <3>1
      <4> QED BY <3>2, <4>1, <4>2, Zenon
    <3>4. FramesIn(queue')
      BY <1>1, <3>1, <3>3, AppendFramed, FramesInIsFramed DEF FramesInv
    <3> QED BY <1>3, <2>2, <3>1, <3>4, FramesInIsFramedAfter DEF FramesInv, QueueTypeOK, ReadsWholeFrames
  <2> QED BY <1>5, <2>1, <2>2, CheckedWrite DEF FramesInv
<1> QED
  <2>1. ~(Free(queue) < n + 1) <=> Free(queue) >= n + 1
    BY <1>1, SMT DEF Free
  <2> QED BY <1>4, <1>5, <2>1 DEF writeQueue

LEMMA ReadPreserves == ASSUME FramesInv, readModem PROVE FramesInv'
<1> DEFINE n == queue[1].val
<1>1. queue \in Seq(Byte) /\ queue # << >> /\ FramesIn(queue) /\ Len(queue) \in Nat /\ Len(queue) < QueueLength
      /\ QueueLength \in Nat
  BY QueueAssumption, FramesInIsFramed, LenProperties DEF FramesInv, QueueTypeOK, readModem
<1>2. /\ n \in Lens /\ n \in Nat /\ 1 + n <= Len(queue) /\ n + 1 <= Len(queue)
      /\ 1 + n < Len(queue) => queue[1 + n + 1].role = "len"
      /\ Len(queue) - (n + 1) \in Nat
  <2>1. /\ n \in Lens /\ 1 + n <= Len(queue)
        /\ 1 + n < Len(queue) => queue[1 + n + 1].role = "len"
    BY <1>1, FirstFrame
  <2>2. n \in Nat
    BY <2>1, QueueAssumption
  <2> HIDE DEF n
  <2>3. n + 1 <= Len(queue) /\ Len(queue) - (n + 1) \in Nat
    BY <1>1, <2>1, <2>2, SMT
  <2> QED BY <2>1, <2>2, <2>3
<1> HIDE DEF n
<1> DEFINE r == SubSeq(Tail(queue), n + 1, Len(Tail(queue)))
<1>3. /\ Len(Tail(queue)) = Len(queue) - 1
      /\ r \in Seq(Byte) /\ Len(r) = Len(queue) - (n + 1)
      /\ \A i \in 1 .. Len(queue) - (n + 1) : r[i] = queue[i + n + 1]
  BY <1>1, <1>2, RemainingBytes
<1>4. n <= Len(Tail(queue)) /\ Len(r) < QueueLength
  <2>1. ASSUME NEW t, t = Len(queue) - 1, NEW m, m = Len(queue) - (n + 1)
        PROVE  n <= t /\ m < QueueLength
    BY <1>1, <1>2, <2>1, SMT
  <2> QED BY <1>3, <2>1
<1>5. call' = [op |-> "read", len |-> n, ok |-> TRUE] /\ queue' = r
  BY <1>4 DEF readModem, n
<1>7. FramesIn(r)
  BY <1>1, <1>2, <1>3, RemoveFramed
<1>6. call' \in [op : {"write", "read", "clear"}, len : Nat, ok : BOOLEAN]
      /\ call'.ok /\ call'.len \in Lens
  BY <1>2, <1>5
<1> QED BY <1>3, <1>4, <1>5, <1>6, <1>7, FramesInIsFramedAfter DEF FramesInv, QueueTypeOK, ReadsWholeFrames

LEMMA ClearPreserves == ASSUME FramesInv, clearQueue PROVE FramesInv'
<1>1. queue' = << >> /\ call' = [op |-> "clear", len |-> 0, ok |-> TRUE] /\ 0 < QueueLength
  BY QueueAssumption, SMT DEF clearQueue
<1> QED BY <1>1, EmptyFramed DEF FramesInv, QueueTypeOK, ReadsWholeFrames

LEMMA FramesAlways ==
  QueueSpec => []FramesInv
<1>1. QueueInit => FramesInv
  BY QueueAssumption, SMT DEF QueueInit, FramesInv, QueueTypeOK, Framed, KnownLengths, ReadsWholeFrames
<1>2. FramesInv /\ [QueueNext]_queueVars => FramesInv'
  <2> SUFFICES ASSUME FramesInv, [QueueNext]_queueVars PROVE FramesInv'
    OBVIOUS
  <2>1. CASE UNCHANGED queueVars
    BY <2>1 DEF queueVars, FramesInv, QueueTypeOK, Framed, KnownLengths, ReadsWholeFrames
  <2> QED BY <2>1, WritePreserves, ReadPreserves, ClearPreserves DEF QueueNext
<1> QED BY <1>1, <1>2, PTL DEF QueueSpec

\* The framing theorem: the queue is at all times a row of whole frames, and
\* the reader takes each of them whole, for every size of the queue, mixture of
\* frame lengths and interleaving of writes, reads and clears.  It rests on the
\* space check of writeQueue: without it an overflow can swallow a length byte
\* and keep its payload.
THEOREM FramingHolds ==
  QueueSpec => [](QueueTypeOK /\ Framed /\ ReadsWholeFrames)
<1>1. FramesInv => QueueTypeOK /\ Framed /\ ReadsWholeFrames
  BY DEF FramesInv
<1> QED BY <1>1, FramesAlways, PTL

-----------------------------------------------------------------------------
\* What was queued is still in front of a frame that was appended.
LEMMA AppendKeeps ==
  ASSUME FramesInv, NEW n \in Lens, NEW payload \in Payloads(n),
         queue' = (queue \o LenByte(n)) \o payload
  PROVE  Keeps(queue', queue)
<1> DEFINE h == LenByte(n)
           r == (queue \o h) \o payload
<1>1. h \in Seq(Byte) /\ Len(h) = 1 /\ payload \in Seq(Byte) /\ Len(payload) = n
  BY LenByteType, PayloadType
<1>2. queue \in Seq(Byte) /\ Len(queue) \in Nat /\ n \in Nat
  BY QueueAssumption, LenProperties DEF FramesInv, QueueTypeOK
<1>3. queue' = r
  OBVIOUS
<1> HIDE DEF h
<1>4. /\ r \in Seq(Byte) /\ Len(r) = Len(queue) + 1 + Len(payload)
      /\ \A i \in 1 .. Len(queue) : r[i] = queue[i]
  BY <1>1, <1>2, AppendedBytes, ZenonT(30)
<1> HIDE DEF r
<1>5. Len(queue) <= Len(r)
  BY <1>1, <1>2, <1>4
<1>6. /\ SubSeq(r, 1, Len(queue)) \in Seq(Byte)
      /\ Len(SubSeq(r, 1, Len(queue))) = Len(queue)
      /\ \A i \in 1 .. Len(queue) : SubSeq(r, 1, Len(queue))[i] = r[i]
  BY <1>2, <1>4, <1>5, SMT
<1>7. SubSeq(r, 1, Len(queue)) = queue
  BY <1>2, <1>4, <1>6, SeqEqual
<1> QED BY <1>3, <1>5, <1>7 DEF Keeps

LEMMA Stays ==
  ASSUME FramesInv, UNCHANGED queue
  PROVE  Keeps(queue', queue)
<1>1. queue \in Seq(Byte) /\ Len(queue) \in Nat
  BY LenProperties DEF FramesInv, QueueTypeOK
<1>2. /\ SubSeq(queue, 1, Len(queue)) \in Seq(Byte)
      /\ Len(SubSeq(queue, 1, Len(queue))) = Len(queue)
      /\ \A i \in 1 .. Len(queue) : SubSeq(queue, 1, Len(queue))[i] = queue[i]
  BY <1>1, SMT
<1>3. SubSeq(queue, 1, Len(queue)) = queue
  BY <1>1, <1>2, SeqEqual
<1> QED BY <1>1, <1>3, SMT DEF Keeps

\* No write loses what was queued before it but the one of a frame that leaves no byte of
\* the queue free: writeQueue lets it pass, and addData throws everything away.
THEOREM LostAtBoundary ==
  QueueSpec => LossOnlyAtBoundary
<1> DEFINE Loss == (call'.op = "write" /\ ~Keeps(queue', queue))
                      => Free(queue) = call'.len + 1
<1>1. ASSUME FramesInv, [QueueNext]_queueVars PROVE [Loss]_queueVars
  <2>1. ASSUME NEW n \in Lens, writeQueue(n) PROVE Loss
    <3>1. \/ call' = [op |-> "write", len |-> n, ok |-> FALSE] /\ UNCHANGED queue
          \/ call' = [op |-> "write", len |-> n, ok |-> TRUE]
      BY <2>1 DEF writeQueue
    <3>2. call'.len = n
      BY <3>1
    <3>3. PICK payload \in Payloads(n) :
            \/ UNCHANGED queue
            \/ /\ ~(Free(queue) < n + 1)
               /\ queue' = AddData(AddData(queue, LenByte(n)), payload)
      BY <2>1 DEF writeQueue
    <3>4. CASE UNCHANGED queue
      BY <1>1, <3>4, Stays
    <3>5. CASE ~(Free(queue) < n + 1)
               /\ queue' = AddData(AddData(queue, LenByte(n)), payload)
      <4>1. Free(queue) >= n + 1
        <5>1. n \in Nat /\ QueueLength \in Nat /\ Len(queue) \in Nat
          BY <1>1, QueueAssumption, LenProperties DEF FramesInv, QueueTypeOK
        <5> QED BY <3>5, <5>1, SMT DEF Free
      <4>2. Free(queue) = n + 1 \/ queue' = (queue \o LenByte(n)) \o payload
        BY <1>1, <3>5, <4>1, CheckedWrite DEF FramesInv
      <4> QED BY <1>1, <3>2, <4>2, AppendKeeps
    <3> QED BY <3>3, <3>4, <3>5
  <2>2. ASSUME readModem \/ clearQueue PROVE Loss
    <3>1. call'.op # "write"
      BY <2>2 DEF readModem, clearQueue
    <3> QED BY <3>1
  <2> QED BY <1>1, <2>1, <2>2 DEF QueueNext
<1>2. QueueSpec => []FramesInv
  BY FramesAlways
<1> QED BY <1>1, <1>2, PTL DEF QueueSpec, LossOnlyAtBoundary

=============================================================================
