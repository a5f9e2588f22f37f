------------------------------- MODULE Modem -------------------------------
(***************************************************************************)
(* The three views of CModem side by side: the bytes of its frames         *)
(* (ModemFraming), its opening, configuration and recovery (ModemLink),    *)
(* and the queues on either side of it (ModemQueues).  Each abstracts what *)
(* the others are about, so a behaviour is that of one of them, part, and  *)
(* the variables of the others stay as they were.                          *)
(***************************************************************************)
EXTENDS Integers, Sequences

CONSTANTS ShortMax, FrameStart, Version, OtherTypes, Links, Reply, MaxFrames, MaxReopens,
          Modes, FMParameters, Protocols, MaxResponses, Attempts, SilenceTime, MaxElapse,
          MaxOutages, MaxRefusals, MaxOthers, MaxReconfigures, MaxBusyPorts, MaxStalls,
          MaxBadWrites, MaxTroubles, MaxTransit,
          Fits, Length, Payload, Room

VARIABLES part,
          link, wire, sent, dispatched, opening, spoilt, m_state, m_length, m_offset, m_type,
          m_buffer, errors, reopens,
          step, tries, ours, wanted, protocol, fm, m_inactivityTimer, reconf, modem, heard, lost,
          left,
          fit, turn, rx, tx, space, room, fed, ahead, received, handed, got, taken, excused,
          toModem, toHost

framingVars == <<link, wire, sent, dispatched, opening, spoilt, m_state, m_length, m_offset,
                 m_type, m_buffer, errors, reopens>>
linkVars    == <<step, tries, ours, wanted, protocol, fm, m_inactivityTimer, reconf, modem,
                 heard, lost, left>>
queueVars   == <<fit, turn, rx, tx, space, room, fed, ahead, received, handed, got, taken,
                 excused>>
transit     == <<toModem, toHost>>

vars == <<part, framingVars, linkVars, queueVars, transit>>

Framing == INSTANCE ModemFraming
Link    == INSTANCE ModemLink
Queues  == INSTANCE ModemQueues

\* A queue holds more than the longest record, with a length of up to four bytes and a tag.
ASSUME ModemAssumption ==
  /\ Links \subseteq Framing!Link
  /\ FMParameters \subseteq 0 .. 4
  /\ MaxResponses \in Nat
  /\ Fits \subseteq Queues!Fit
  /\ Payload \in Nat
  /\ \A p \in UNION {f.protocols : f \in Fits} :
       /\ Length[p] \in Nat /\ Length[p] > Payload + 5
       /\ Room[p] \in Nat

\* The values of MMDVMDefines.h, and frames the modem can send.
ASSUME FramingAssumption ==
  /\ ShortMax \in Nat /\ ShortMax > 3
  /\ FrameStart \in Nat /\ FrameStart > 1
  /\ Version \in {0, 1}
  /\ OtherTypes \subseteq (0 .. Framing!MaxByte) \ {Version, FrameStart}
  /\ Framing!Sendable(Reply) /\ Len(Reply) + 3 <= ShortMax
  /\ \A l \in Links : \A p \in l.payloads : Framing!Sendable(p)

-----------------------------------------------------------------------------
\* What a part that is not looked at holds.
NoFraming ==
  /\ link = 0 /\ wire = << >> /\ sent = 0 /\ dispatched = << >> /\ opening = FALSE
  /\ spoilt = FALSE
  /\ m_state = "DATA" /\ m_length = 0 /\ m_offset = 0 /\ m_type = 0 /\ m_buffer = 0
  /\ errors = 0 /\ reopens = 0

NoLink ==
  /\ step = "EXITED" /\ tries = 0 /\ ours = << >> /\ wanted = {} /\ protocol = 0 /\ fm = 0
  /\ m_inactivityTimer = 0 /\ reconf = 0 /\ modem = [alive |-> TRUE, modes |-> {}]
  /\ heard = FALSE /\ lost = {} /\ left = 0

NoQueues ==
  /\ fit = [protocols |-> {}] /\ turn = "NONE" /\ rx = << >> /\ tx = << >> /\ space = << >> /\ room = << >>
  /\ fed = << >> /\ ahead = << >> /\ received = << >> /\ handed = << >> /\ got = << >>
  /\ taken = << >> /\ excused = {}

NoTransit == toModem = << >> /\ toHost = << >>

Init == \/ part = "framing" /\ Framing!Init /\ NoLink /\ NoQueues /\ NoTransit
        \/ part = "link" /\ Link!Init /\ NoFraming /\ NoQueues
        \/ part = "queues" /\ Queues!Init /\ NoFraming /\ NoLink

FramingOnly == part = "framing" /\ UNCHANGED <<part, linkVars, queueVars, transit>>
LinkOnly    == part = "link" /\ UNCHANGED <<part, framingVars, queueVars>>
QueuesOnly  == part = "queues" /\ UNCHANGED <<part, framingVars, linkVars>>

Next == \/ FramingOnly /\ Framing!Next
        \/ LinkOnly /\ Link!Next
        \/ QueuesOnly /\ Queues!Next

\* What each of them assumes of the loop, and of a modem that is there.
Fairness ==
  /\ WF_vars(LinkOnly /\ Link!Loop)
  /\ WF_vars(LinkOnly /\ Link!ReconfigureReads)
  /\ WF_vars(LinkOnly /\ Link!ModemTakes)
  /\ WF_vars(QueuesOnly /\ Queues!Turn)
  /\ SF_vars(QueuesOnly /\ Queues!Asks)
  /\ SF_vars(QueuesOnly /\ Queues!Feed)
  /\ WF_vars(QueuesOnly /\ Queues!ModemTakes)
  /\ WF_vars(QueuesOnly /\ Queues!ModemDrains)

Spec == Init /\ [][Next]_vars /\ Fairness

-----------------------------------------------------------------------------
(* Properties.                                                             *)

\* As long as no byte is mistaken for the start of a frame, what clock acts upon is
\* what the modem sent, byte for byte and in order, however the bytes trickle in and
\* although a frame half read survives the reopening of the port; except that over a
\* port whose reads return parts what is transmitted is written over a frame half read.
FramesIntact == part = "framing" => Framing!FramesIntact

\* As long as no byte is mistaken for the start of a frame (nothing escapes one in a
\* payload), a failed read costs the frame it falls into and no other.
ErrorCostsOneFrame == part = "framing" => Framing!ErrorCostsOneFrame

\* While the modem is in use, no command is about to write to it and no configuration
\* is under way, it is configured for the modes the host means it to have, wherever in
\* clock or open() a command came and whoever read its answer; see ModemLink for what is
\* excused: a refusal that is overlooked, a failed or overtaken write, an absence.
ModesAgree == part = "link" => Link!ModesAgree

\* A modem in use that answered once and then falls silent is reset; unless it fell
\* silent in the midst of a payload and the main thread waits for the rest of it.
SilenceNoticed == Link!SilenceNoticed

\* A modem that is there for good is in use for good in the end, whatever resets
\* there were before; unless the program has ended over a failed open or a command, or
\* the main thread waits for the rest of a frame.
ComesBack == Link!ComesBack

\* What the modem received reaches the host, and what the host hands over reaches
\* the modem, in whole records, in order and without a gap, although nothing checks
\* that a received frame fits; see ModemQueues for what is excused.
FramesKept == part = "queues" => Queues!FramesKept

\* What is under way to the modem exceeds the room it has by no more than was ever fed
\* while a status was under way, less the unit that is kept in hand: nothing is lost as
\* long as that is one unit; a D-Star header takes four, and nothing keeps the host from
\* feeding two frames in the time.
FrameFits == part = "queues" => Queues!FrameFits

\* Every frame handed over is fed to the modem in the end: the queues run dry again
\* and again.
AllFed == Queues!AllFed

=============================================================================
