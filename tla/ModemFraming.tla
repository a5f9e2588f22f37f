---------------------------- MODULE ModemFraming ----------------------------
(***************************************************************************)
(* How CModem cuts the byte stream of the modem into frames.               *)
(* getResponse is called once per loop and picks up where the last call    *)
(* ran out of bytes; between two calls clock may load m_buffer, the very   *)
(* buffer a frame is being collected in, with a frame to transmit.  Every  *)
(* byte on the wire carries, as a ghost, the frame it was sent in, its     *)
(* place there and the size of that frame, so that what is dispatched can  *)
(* be compared with what was sent.                                         *)
(***************************************************************************)
EXTENDS Integers, Sequences

CONSTANTS ShortMax,     \* the largest length one byte is used for (255)
          FrameStart,   \* MMDVM_FRAME_START
          Version,      \* MMDVM_GET_VERSION
          OtherTypes,   \* the types of the frames the modem sends unasked
          Links,        \* the links to check, see Link
          Reply,        \* the payload of its answer to GET_VERSION
          MaxFrames,    \* bound: frames sent
          MaxReopens    \* bound: times the modem falls silent

\* A port and what is on it: whether m_port->read may return fewer bytes than are
\* asked for, the payloads the modem sends (sequences of byte values), the lengths
\* of the frames transmitted to it, and (a bound) how many reads may fail.
Link == [splits : BOOLEAN, payloads : SUBSET Seq(Nat), tx : SUBSET Nat, errors : Nat]

\* The largest value of a byte, and the largest length two of them can name.
MaxByte == IF FrameStart > ShortMax THEN FrameStart ELSE ShortMax
BufferLength == ShortMax + MaxByte

\* A payload that a frame can carry.
Sendable(payload) == payload \in Seq(0 .. MaxByte) /\ Len(payload) + 4 <= BufferLength

\* One whose frame has no other byte that a frame could start with: neither in the
\* payload nor in the length.
Clear(payload) == /\ \A i \in DOMAIN payload : payload[i] # FrameStart
                  /\ Len(payload) + 3 # FrameStart
                  /\ Len(payload) + 4 # ShortMax + FrameStart

VARIABLES link,         \* the link in use
          wire,         \* the bytes sent and not read yet
          sent,         \* frames sent
          dispatched,   \* the frames acted upon: their number, 0 if not as sent
          opening,      \* in open(), waiting for the version
          spoilt,       \* the frame half read was written over by one transmitted
          m_state, m_length, m_offset, m_type, m_buffer,
          errors, reopens

reader == <<m_state, m_length, m_offset, m_type, m_buffer>>
vars == <<link, wire, sent, dispatched, opening, spoilt, reader, errors, reopens>>

\* A byte the modem did not send.  Its value matters only where a short frame
\* has its type, and no frame transmitted is a GET_VERSION.
Foreign == [val |-> FrameStart, frame |-> 0, pos |-> 0, size |-> 0]

\* A frame as the modem sends it: the long form only when the short one does
\* not suffice, as the host's own writeFMData does it.
Header(n, type) ==
  IF n + 3 > ShortMax THEN << FrameStart, 0, n + 4 - ShortMax, type >>
                      ELSE << FrameStart, n + 3, type >>

Encode(f, type, payload) ==
  LET vals == Header(Len(payload), type) \o payload
  IN [i \in 1 .. Len(vals) |-> [val |-> vals[i], frame |-> f, pos |-> i,
                                  size |-> Len(vals)]]

Init == /\ link \in Links
        /\ wire = << >>
        /\ sent = 0
        /\ dispatched = << >>
        /\ opening = TRUE
        /\ spoilt = FALSE
        /\ m_state = "START"
        /\ m_length = 0
        /\ m_offset = 0
        /\ m_type = Foreign
        /\ m_buffer = [i \in 0 .. BufferLength |-> Foreign]
        /\ errors = 0
        /\ reopens = 0

-----------------------------------------------------------------------------
(* The modem.                                                              *)

Send(type, payload) == /\ sent < MaxFrames
                       /\ sent' = sent + 1
                       /\ wire' = wire \o Encode(sent + 1, type, payload)
                       /\ UNCHANGED <<link, dispatched, opening, spoilt, reader,
                                       errors, reopens>>

\* Status, data and the rest, once the modem is in use.
ModemSends == /\ ~opening
              /\ \E type \in OtherTypes, payload \in link.payloads : Send(type, payload)

\* A frame read to its end is acted upon in the same call of getResponse.
Whole == m_state = "DATA" /\ m_offset >= m_length

\* readVersion asks, and asks again when nothing came of its last question.
ModemAnswers == /\ opening
                /\ ~Whole
                /\ wire = << >>
                /\ Send(Version, Reply)

-----------------------------------------------------------------------------
(* getResponse, one action for each of its stages.  A call runs through as *)
(* many of them as there are bytes for.                                    *)

\* Take one byte, as m_port->read(buffer, 1).
Take1 == /\ wire # << >>
         /\ wire' = Tail(wire)

Counters == <<link, sent, errors, reopens>>

\* A byte that starts no frame is dropped.
ReadStart ==
  /\ m_state = "START"
  /\ Take1
  /\ m_buffer' = [m_buffer EXCEPT ![0] = wire[1]]
  /\ IF wire[1].val # FrameStart
       THEN UNCHANGED <<m_state, m_length>>
       ELSE /\ m_state' = "LENGTH1"
            /\ m_length' = 1
  /\ UNCHANGED <<m_offset, m_type, dispatched, opening, spoilt, Counters>>

ReadLength1 ==
  /\ m_state = "LENGTH1"
  /\ Take1
  /\ m_buffer' = [m_buffer EXCEPT ![1] = wire[1]]
  /\ m_length' = wire[1].val
  /\ m_offset' = 2
  /\ m_state' = IF wire[1].val = 0 THEN "LENGTH2" ELSE "TYPE"
  /\ UNCHANGED <<m_type, dispatched, opening, spoilt, Counters>>

ReadLength2 ==
  /\ m_state = "LENGTH2"
  /\ Take1
  /\ m_buffer' = [m_buffer EXCEPT ![2] = wire[1]]
  /\ m_length' = wire[1].val + ShortMax
  /\ m_offset' = 3
  /\ m_state' = "TYPE"
  /\ UNCHANGED <<m_type, dispatched, opening, spoilt, Counters>>

ReadType ==
  /\ m_state = "TYPE"
  /\ Take1
  /\ m_type' = wire[1]
  /\ m_buffer' = [m_buffer EXCEPT ![m_offset] = wire[1]]
  /\ m_offset' = m_offset + 1
  /\ m_state' = "DATA"
  /\ spoilt' = FALSE
  /\ UNCHANGED <<m_length, dispatched, opening, Counters>>

\* How many bytes m_port->read can return of want.  The serial port waits for
\* the rest once the first byte is there; a UDP port returns what it has.
\* Mutant: the serial port does not wait either.
Returned_Parts(want) == 1 .. (IF Len(wire) < want THEN Len(wire) ELSE want)

Returned(want) == IF link.splits THEN 1 .. (IF Len(wire) < want THEN Len(wire) ELSE want)
                            ELSE IF Len(wire) < want THEN {} ELSE {want}

ReadData ==
  /\ m_state = "DATA"
  /\ m_offset < m_length
  /\ \E n \in Returned(m_length - m_offset) :
       /\ m_buffer' = [i \in DOMAIN m_buffer |->
                         IF i \in m_offset .. m_offset + n - 1
                           THEN wire[i - m_offset + 1] ELSE m_buffer[i]]
       /\ m_offset' = m_offset + n
       /\ wire' = SubSeq(wire, n + 1, Len(wire))
  /\ UNCHANGED <<m_state, m_length, m_type, dispatched, opening, spoilt, Counters>>

\* Where the payload begins.
PayloadStart(length) == IF length > ShortMax THEN 4 ELSE 3

\* The number of the frame that was read, if the type and the payload the
\* handlers of clock see are exactly those that were sent with that number; of a
\* frame that was written over while it was half read the type alone is compared.
Origin ==
  LET first == PayloadStart(m_length)
  IN IF /\ m_type.pos = first
        /\ m_type.size = m_length
        /\ spoilt \/ \A i \in first .. m_length - 1 : /\ m_buffer[i].frame = m_type.frame
                                                      /\ m_buffer[i].pos = i + 1
       THEN m_type.frame ELSE 0

\* readVersion wants GET_VERSION where a short frame has its type; clock
\* dispatches by m_type.
Accepted == opening => m_buffer[2].val = Version

\* The frame is complete: OK is returned and the caller acts on the frame.
\* readVersion leaves other frames alone; with the answer open() completes and
\* sets m_offset to 0.
Complete ==
  /\ Whole
  /\ m_state' = "START"
  /\ dispatched' = IF Accepted THEN Append(dispatched, Origin) ELSE dispatched
  /\ m_offset' = IF opening /\ Accepted THEN 0 ELSE PayloadStart(m_length)
  /\ opening' = (opening /\ ~Accepted)
  /\ UNCHANGED <<wire, spoilt, m_length, m_type, m_buffer, Counters>>

\* A read fails, and may lose a byte: the frame begun is given up.  Mutant: it is
\* carried on with.
ReadFails_Carry ==
  /\ errors < link.errors
  /\ ~Whole
  /\ wire # << >>
  /\ \E n \in 0 .. 1 : wire' = SubSeq(wire, n + 1, Len(wire))
  /\ errors' = errors + 1
  /\ UNCHANGED <<link, sent, dispatched, opening, spoilt, reader, reopens>>

ReadFails ==
  /\ errors < link.errors
  /\ ~Whole
  /\ wire # << >>
  /\ \E n \in 0 .. 1 : wire' = SubSeq(wire, n + 1, Len(wire))
  /\ errors' = errors + 1
  /\ m_state' = "START"
  /\ UNCHANGED <<link, sent, dispatched, opening, spoilt, m_length, m_offset, m_type,
                 m_buffer, reopens>>

-----------------------------------------------------------------------------
\* The later part of clock, which comes after any getResponse that is not through
\* with a frame: a frame to transmit is taken into m_buffer, over the payload read so far.
Transmit ==
  /\ ~opening /\ ~Whole
  /\ \E n \in link.tx :
       /\ m_buffer' = [i \in DOMAIN m_buffer |-> IF i < n THEN Foreign ELSE m_buffer[i]]
       /\ spoilt' = (spoilt \/ (/\ m_state = "DATA"
                                /\ PayloadStart(m_length) < m_offset
                                /\ PayloadStart(m_length) < n))
  /\ UNCHANGED <<link, wire, sent, dispatched, opening, m_state, m_length, m_offset,
                 m_type, errors, reopens>>

\* The inactivity timer has expired: the port is closed and opened, and what it
\* held is gone.  m_state is not: a frame half read stays half read.
Reopen == /\ ~opening /\ ~Whole
          /\ reopens < MaxReopens
          /\ reopens' = reopens + 1
          /\ opening' = TRUE
          /\ wire' = << >>
          /\ UNCHANGED <<link, sent, dispatched, spoilt, reader, errors>>

getResponse == \/ ReadStart \/ ReadLength1 \/ ReadLength2 \/ ReadType
               \/ ReadData \/ Complete

Next == \/ ModemSends \/ ModemAnswers
        \/ ReadStart \/ ReadLength1 \/ ReadLength2 \/ ReadType \/ ReadData \/ Complete
        \/ ReadFails
        \/ Transmit
        \/ Reopen

\* The main loop calls clock, and with it getResponse, on every turn; the modem
\* answers when asked.
Spec == Init /\ [][Next]_vars /\ WF_vars(getResponse) /\ WF_vars(ModemAnswers)

-----------------------------------------------------------------------------
\* What is read can be told: nothing escapes a byte that looks like the start of a
\* frame, so a reader that has lost its place, after a failed read or with a frame half
\* read when the port was closed, finds the next frame for certain only where no other
\* byte has that value.
Findable == /\ errors > 0 => \A p \in link.payloads : Clear(p)
            /\ errors > 0 \/ reopens > 0 => Clear(Reply)

\* As long as no byte is mistaken for the start of a frame, what clock acts upon is
\* what the modem sent, byte for byte and in the order it was sent, however the bytes
\* trickle in and although a frame half read survives the reopening of the port;
\* except that a frame transmitted while one is half read is written over it, which
\* can happen only where a read returns parts.  On a serial port it never does.
FramesIntact ==
  Findable => /\ \A i \in DOMAIN dispatched :
                   /\ dispatched[i] # 0
                   /\ i > 1 => dispatched[i - 1] < dispatched[i]
              /\ spoilt => link.splits

\* Nothing is under way: the modem's bytes are read and no frame is open.
Quiet == ~opening /\ wire = << >> /\ m_state = "START"

\* As long as no byte is mistaken for the start of a frame, a failed read costs the
\* frame it falls into and no other: getResponse finds the next one by itself.
ErrorCostsOneFrame ==
  (Findable /\ Quiet /\ reopens = 0) => Len(dispatched) + errors >= sent

=============================================================================
