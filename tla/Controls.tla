------------------------------ MODULE Controls ------------------------------
(***************************************************************************)
(* The protocol controls side by side.  The host runs one of them at a     *)
(* time, and they share nothing: a behaviour is that of one of them, unit. *)
(* Their variables have the same names; rf and net are records of what     *)
(* each keeps of the radio's and of the network's transmission.            *)
(***************************************************************************)
EXTENDS Integers

CONSTANTS Timeouts,      \* of a transmission, 0 for none
          WatchdogTime,  \* of the network's transmissions
          ReplyTime,     \* D-Star: m_ackTimer and m_errTimer
          Counts,        \* YSF: of the frames that are numbered
          MaxBlocks,     \* of a data transmission
          Pieces,        \* in which a header comes during a transmission
          Slots,         \* POCSAG: batches in a period
          MaxPages,      \* bound: POCSAG pages that wait
          MaxElapse      \* bound: time between two calls of clock

\* Every one of them is an unsigned number of the configuration or of the protocol.
ASSUME ControlsAssumption ==
  /\ Timeouts \subseteq Nat
  /\ {WatchdogTime, ReplyTime, Counts, MaxBlocks, MaxElapse} \subseteq Nat
  /\ Pieces \in Nat /\ Pieces >= 2
  /\ Slots \in Nat \ {0}

VARIABLES unit, duplex, enabled, rf, net, stream, radio

vars == <<unit, duplex, enabled, rf, net, stream, radio>>

YSF    == INSTANCE YSFControl
P25    == INSTANCE P25Control
NXDN   == INSTANCE NXDNControl
DStar  == INSTANCE DStarControl
M17    == INSTANCE M17Control
POCSAG == INSTANCE POCSAGControl

Init == \/ unit = "YSF" /\ YSF!Init
        \/ unit = "P25" /\ P25!Init
        \/ unit = "NXDN" /\ NXDN!Init
        \/ unit = "DStar" /\ DStar!Init
        \/ unit = "M17" /\ M17!Init
        \/ unit = "POCSAG" /\ POCSAG!Init

Step == \/ unit = "YSF" /\ YSF!Next
        \/ unit = "P25" /\ P25!Next
        \/ unit = "NXDN" /\ NXDN!Next
        \/ unit = "DStar" /\ DStar!Next
        \/ unit = "M17" /\ M17!Next
        \/ unit = "POCSAG" /\ POCSAG!Next

NetUnheard == \/ unit = "YSF" /\ YSF!NetUnheard
              \/ unit = "P25" /\ P25!NetUnheard
              \/ unit = "NXDN" /\ NXDN!NetUnheard
              \/ unit = "DStar" /\ DStar!NetUnheard
              \/ unit = "M17" /\ M17!NetUnheard
              \/ unit = "POCSAG" /\ POCSAG!NetUnheard

NetHeard == \/ unit = "YSF" /\ YSF!NetHeard
            \/ unit = "P25" /\ P25!NetHeard
            \/ unit = "NXDN" /\ NXDN!NetHeard
            \/ unit = "DStar" /\ DStar!NetHeard
            \/ unit = "M17" /\ M17!NetHeard
            \/ unit = "POCSAG" /\ POCSAG!NetHeard

Next == Step /\ UNCHANGED unit

\* The loop clocks every control on every turn: unless the network sends for ever, the
\* clock is called for ever without a frame of the network.
Spec == Init /\ [][Next]_vars /\ WF_vars(NetUnheard /\ UNCHANGED unit)

-----------------------------------------------------------------------------
(* Properties.                                                             *)

\* Whoever is passed on is known, however the transmission was entered and whatever
\* came before: see each of the controls.
Coherent == CASE unit = "YSF" -> YSF!Coherent
              [] unit = "P25" -> P25!Coherent
              [] unit = "NXDN" -> NXDN!Coherent
              [] unit = "DStar" -> DStar!Coherent
              [] unit = "M17" -> M17!Coherent
              [] unit = "POCSAG" -> POCSAG!Coherent

\* The network is told a transmission only from its header on, and no end of one it
\* was not told.  (Every frame M17 tells the network is a header as well.)
ToldWhole == stream # "headless"

\* The radios never hear two at once, and where the control makes up headers nothing of
\* a transmission that has none.  Two controls break this, each in one way, and no
\* further: P25 repeats a radio between the frames of the network, though not beyond the
\* network's transmission; NXDN sends the radios a message of the network while nobody
\* transmits, and what comes next begins with its header all the same.
HeardWhole ==
  /\ radio \notin {"mixed", "headless"}
  /\ radio = "doubled" => unit = "P25" /\ duplex /\ net.state # "IDLE"
  /\ radio = "stray" => unit = "NXDN" /\ net.state = "IDLE"

\* A network that keeps the channel for its voice for ever never ceases to send.  Nothing
\* of the kind holds of its data, which NXDN and M17 never give up for want of an end.
NetworkReleased == []<>(net.state # "AUDIO") \/ []<><<NetHeard /\ UNCHANGED unit>>_vars

Channel == INSTANCE Exchange WITH
             holder <- IF net.state # "IDLE" THEN "network"
                       ELSE IF rf.state \in {"AUDIO", "DATA"} THEN "radio" ELSE "nobody"

\* Every control keeps to the arbitration of Exchange.
ImplementsExchange == Channel!Spec

=============================================================================
