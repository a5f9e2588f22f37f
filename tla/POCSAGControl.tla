--------------------------- MODULE POCSAGControl ----------------------------
(***************************************************************************)
(* CPOCSAGControl: pages, from the network or from a remote command, to    *)
(* the radios.  They go out in batches; the slot of a batch in which a     *)
(* page may begin follows from its address (the RIC), so that the pager    *)
(* need listen to no other.  No radio is received.                         *)
(***************************************************************************)
EXTENDS Integers, Sequences, Observers

CONSTANTS Slots,      \* of a batch, each of two words (POCSAG_FRAME_ADDRESSES, 8)
          MaxBlocks,  \* bound: slots a page takes
          MaxPages    \* bound: pages that wait

VARIABLES duplex, enabled,
          rf,      \* state; data: m_data, the pages that wait
          net,     \* state: m_state; buffer: what m_buffer holds, in slots; slot: the one
                   \* m_ric begins in
          stream, radio

vars == <<duplex, enabled, rf, net, stream, radio>>

Init == /\ duplex = TRUE
        /\ enabled = TRUE
        /\ rf = [state |-> "LISTENING", data |-> <<>>]
        /\ net = [state |-> "IDLE", buffer |-> 0, slot |-> 0]
        /\ stream = "closed"
        /\ radio = "quiet"

\* The words of a page are made an even number: whole slots.
Pages == [slot : 0 .. Slots - 1, length : 1 .. MaxBlocks]

-----------------------------------------------------------------------------
(* sendPage, sendPageBCD, sendPageAlert1, sendPageAlert2.                  *)

sendPage == /\ enabled
            /\ Len(rf.data) < MaxPages
            /\ \E p \in Pages : rf' = [rf EXCEPT !.data = Append(@, p)]
            /\ UNCHANGED <<duplex, enabled, net, stream, radio>>

-----------------------------------------------------------------------------
(* clock.                                                                  *)

\* processData: the next page, if one waits, is the one to be sent.
processData(b, none) ==
  IF b.data = <<>> THEN [b EXCEPT !.net.state = none]
  ELSE [b EXCEPT !.data = Tail(@),
                 !.net = [state |-> "WAITING", buffer |-> Head(b.data).length,
                          slot |-> Head(b.data).slot]]

\* What is sent in slot i: the beginning of the page in its own slot, the rest of it
\* in those that follow, and one idle slot behind it, in which the next is taken up.
Slot(b, i) ==
  CASE b.net.state = "WAITING" /\ i = b.net.slot ->
         [b EXCEPT !.net.state = "SENDING", !.net.buffer = @ - 1,
                   !.radio = HearHeaded(@, "net", "header")]
    [] b.net.state = "SENDING" /\ b.net.buffer > 0 ->
         [b EXCEPT !.net.buffer = @ - 1, !.radio = HearHeaded(@, "net", "frame")]
    [] b.net.state = "SENDING" /\ b.net.buffer = 0 ->
         processData([b EXCEPT !.radio = HearHeaded(@, "net", "end")], "ENDING")
    [] OTHER -> b

Batch(b) == LET sent[i \in 0 .. Slots] == IF i = 0 THEN b ELSE Slot(sent[i - 1], i - 1)
            IN sent[Slots]

\* A batch that does not fit into the queue is lost as a whole; the sending goes on.
Sent(b) ==
  /\ rf' = [rf EXCEPT !.data = b.data]
  /\ net' = [b.net EXCEPT !.state = IF @ = "ENDING" THEN "IDLE" ELSE @]
  /\ radio' \in {b.radio, Cut(b.radio, "net")}

\* With nothing to send the network is read.  What comes while switched off is dropped.
Turn(data) ==
  LET b == [data |-> data, net |-> net, radio |-> radio]
      c == IF net.state = "IDLE" THEN processData(b, "IDLE") ELSE b
  IN IF c.net.state = "IDLE"
       THEN rf' = [rf EXCEPT !.data = data] /\ UNCHANGED <<net, radio>>
       ELSE Sent(Batch(c))

NetHeard == /\ net.state = "IDLE"
            /\ enabled
            /\ \E p \in Pages : Turn(Append(rf.data, p))
            /\ UNCHANGED <<duplex, enabled, stream>>

NetUnheard == Turn(rf.data) /\ UNCHANGED <<duplex, enabled, stream>>

clock == NetHeard \/ NetUnheard

enable(on) == /\ enabled' = on
              /\ IF enabled /\ ~on
                   THEN /\ rf' = [rf EXCEPT !.data = <<>>]
                        /\ net' = [net EXCEPT !.state = "IDLE"]
                        /\ radio' = "quiet"
                   ELSE UNCHANGED <<rf, net, radio>>
              /\ UNCHANGED <<duplex, stream>>

Next == sendPage \/ clock \/ \E on \in BOOLEAN : enable(on)

-----------------------------------------------------------------------------

\* A page that is due has not been sent in part: what is taken from the buffer is
\* there, and the page begins with its address.
Coherent == /\ net.state = "WAITING" => net.buffer > 0
            /\ ~enabled => rf.data = <<>>

=============================================================================
