----------------------------- MODULE RingBuffer -----------------------------
(***************************************************************************)
(* CRingBuffer<T> (RingBuffer.h): the circular array with a write index    *)
(* and a read index under every frame queue of the host.  Equal indices    *)
(* mean empty, so the array may never fill; addData clears everything when *)
(* it would.  The specification implements Fifo.                           *)
(***************************************************************************)
EXTENDS Integers, Sequences

CONSTANTS T, Length, MaxCall,
          Zero      \* the item memset leaves behind

ASSUME RingAssumption == /\ Length \in Nat \ {0}
                         /\ MaxCall \in Nat
                         /\ Zero \in T

VARIABLES m_buffer, m_iPtr, m_oPtr,
          reply     \* what the last call returned and copied out

vars == <<m_buffer, m_iPtr, m_oPtr, reply>>

Slots == 0 .. Length - 1

Calls == UNION {[1 .. n -> T] : n \in 0 .. MaxCall}

Success(items) == [ok |-> TRUE, data |-> items]
Failure        == [ok |-> FALSE, data |-> << >>]

\* The index n <= Length slots after p: incremented, and reset to 0 at the end.
Advance(p, n) == IF p + n >= Length THEN p + n - Length ELSE p + n

\* How many increments take index p to index q.
Ahead(p, q) == IF q >= p THEN q - p ELSE q - p + Length

FreeSpace == IF m_oPtr > m_iPtr THEN m_oPtr - m_iPtr
             ELSE Length - (m_iPtr - m_oPtr)

DataSize == Length - FreeSpace

Blank == [s \in Slots |-> Zero]

Stored(items) ==
  [s \in Slots |-> IF Ahead(m_iPtr, s) < Len(items)
                     THEN items[Ahead(m_iPtr, s) + 1]
                     ELSE m_buffer[s]]

Front(n) == [k \in 1 .. n |-> m_buffer[Advance(m_oPtr, k - 1)]]

-----------------------------------------------------------------------------
Init == /\ m_buffer = Blank
        /\ m_iPtr = 0
        /\ m_oPtr = 0
        /\ reply = Success(<< >>)

Reset == /\ m_buffer' = Blank
         /\ m_iPtr' = 0
         /\ m_oPtr' = 0

\* Mutant: the last free slot is used as well.
addData_Full(items) == /\ Len(items) <= FreeSpace
                       /\ m_buffer' = Stored(items)
                       /\ m_iPtr' = Advance(m_iPtr, Len(items))
                       /\ reply' = Success(<< >>)
                       /\ UNCHANGED m_oPtr

addData(items) == /\ Len(items) < FreeSpace
                  /\ m_buffer' = Stored(items)
                  /\ m_iPtr' = Advance(m_iPtr, Len(items))
                  /\ reply' = Success(<< >>)
                  /\ UNCHANGED m_oPtr

addDataOverflow(items) == /\ Len(items) >= FreeSpace
                          /\ Reset
                          /\ reply' = Failure

getData(n) == /\ DataSize >= n
              /\ reply' = Success(Front(n))
              /\ m_oPtr' = Advance(m_oPtr, n)
              /\ UNCHANGED <<m_buffer, m_iPtr>>

peek(n) == /\ DataSize >= n
           /\ reply' = Success(Front(n))
           /\ UNCHANGED <<m_buffer, m_iPtr, m_oPtr>>

\* getData and peek alike.
underflow(n) == /\ DataSize < n
                /\ reply' = Failure
                /\ UNCHANGED <<m_buffer, m_iPtr, m_oPtr>>

clear == Reset /\ UNCHANGED reply

Next == \/ \E items \in Calls : addData(items) \/ addDataOverflow(items)
        \/ \E n \in 0 .. MaxCall : getData(n) \/ peek(n) \/ underflow(n)
        \/ clear

Spec == Init /\ [][Next]_vars

-----------------------------------------------------------------------------
Contents == Front(DataSize)

Queue == INSTANCE Fifo WITH contents <- Contents

\* Both indices stay inside the array, whatever the calls and wherever they
\* wrap.
TypeOK == /\ m_buffer \in [Slots -> T]
          /\ m_iPtr \in Slots
          /\ m_oPtr \in Slots
          /\ reply \in [ok : BOOLEAN, data : Seq(T)]

\* Read from m_oPtr to m_iPtr round the end of the array, the buffer is the
\* first-in first-out queue its users take it for: no call loses, repeats or
\* reorders an item, except that a write that would make the two indices meet
\* (and a full buffer look empty) discards everything.
ImplementsFifo == Queue!Spec

=============================================================================
