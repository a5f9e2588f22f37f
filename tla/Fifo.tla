-------------------------------- MODULE Fifo --------------------------------
(***************************************************************************)
(* What a CRingBuffer<T> promises its callers: a first-in first-out queue  *)
(* of at most Length - 1 items in which a write that does not fit discards *)
(* the whole queue, and a read that asks for too much takes nothing.       *)
(* Every frame queue of the host (Modem, the protocol controls, the        *)
(* network clients) is one of these.                                       *)
(***************************************************************************)
EXTENDS Integers, Sequences

CONSTANTS T,        \* the items (bytes, in every use but the POCSAG codewords)
          Length,   \* m_length, the size given to the constructor
          MaxCall   \* bound: the longest run of items in one call

VARIABLES contents,  \* the queued items, oldest first
          reply      \* what the last call returned and copied out

vars == <<contents, reply>>

Calls == UNION {[1 .. n -> T] : n \in 0 .. MaxCall}

Success(items) == [ok |-> TRUE, data |-> items]
Failure        == [ok |-> FALSE, data |-> << >>]

Init == /\ contents = << >>
        /\ reply = Success(<< >>)

Free == Length - Len(contents)

\* The queue never fills: one slot always stays free.
Accept(items) == /\ Len(items) < Free
                 /\ contents' = contents \o items
                 /\ reply' = Success(<< >>)

Overflow(items) == /\ Len(items) >= Free
                   /\ contents' = << >>
                   /\ reply' = Failure

Remove(n) == /\ n <= Len(contents)
             /\ reply' = Success(SubSeq(contents, 1, n))
             /\ contents' = SubSeq(contents, n + 1, Len(contents))

Look(n) == /\ n <= Len(contents)
           /\ reply' = Success(SubSeq(contents, 1, n))
           /\ UNCHANGED contents

Underflow(n) == /\ n > Len(contents)
                /\ reply' = Failure
                /\ UNCHANGED contents

Clear == /\ contents' = << >>
         /\ UNCHANGED reply

Next == \/ \E items \in Calls : Accept(items) \/ Overflow(items)
        \/ \E n \in 0 .. MaxCall : Remove(n) \/ Look(n) \/ Underflow(n)
        \/ Clear

Spec == Init /\ [][Next]_vars

=============================================================================
