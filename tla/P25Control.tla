----------------------------- MODULE P25Control -----------------------------
(***************************************************************************)
(* CP25Control: P25 between the radios, the network and the radios again.  *)
(* Voice comes as two kinds of logical data unit in turn, LDU1 with the    *)
(* link control and LDU2; the network sends each as nine records.  A frame *)
(* whose NID cannot be read counts as one that may follow the last.        *)
(* Frames the state has no use for change nothing and are left out.        *)
(***************************************************************************)
EXTENDS Timers, Observers, Sequences

CONSTANTS Timeouts,      \* of a transmission; 0 for none
          WatchdogTime,  \* silence after which the network is given up (1500 ms)
          MaxBlocks,     \* bound: frames of a packet of data
          MaxElapse      \* bound: time between two calls of clock

VARIABLES duplex, enabled,
          rf,      \* state, timer: m_rfTimeout, lc: whether m_rfData is that of a voice
                   \* transmission, ldu: the unit in m_rfLDU the network has not been
                   \* told yet, pdu: frames of the packet still to come
          net,     \* state, timer: m_netTimeout, dog: m_networkWatchdog, lc: whether
                   \* m_netData is set, ldu1, ldu2: whether records wait in m_netLDU1, 2,
                   \* frames: m_netFrames, "none" until a first transmission begins and
                   \* "some" ever after; "fatal" once a division by it has ended the program
          stream, radio

vars == <<duplex, enabled, rf, net, stream, radio>>

Init == /\ duplex \in BOOLEAN
        /\ enabled = TRUE
        /\ \E t \in Timeouts :
             /\ rf = [state |-> "LISTENING", timer |-> SetTimeout(Unset, t), lc |-> FALSE,
                      ldu |-> "none", pdu |-> 0]
             /\ net = [state |-> "IDLE", timer |-> SetTimeout(Unset, t),
                       dog |-> SetTimeout(Unset, WatchdogTime), lc |-> FALSE,
                       ldu1 |-> FALSE, ldu2 |-> FALSE, frames |-> "none"]
        /\ stream = "closed"
        /\ radio = "quiet"

-----------------------------------------------------------------------------
(* What goes out of what a radio sends.                                    *)

\* writeQueueRF.  Unlike those of the other controls it does not look at the network:
\* a radio is repeated between the network's frames.
writeQueueRF(r, timer, f) ==
  CASE ~duplex -> {r}
    [] duplex /\ net.state # "IDLE" -> IF HasExpired(timer) THEN {r} ELSE {r, "doubled"}
    [] duplex /\ net.state = "IDLE" -> IF HasExpired(timer) THEN {Cut(r, "rf")}
                                      ELSE {HearHeaded(r, "rf", f), Cut(r, "rf")}

\* A frame that is a transmission of its own, if it goes out at all.
Alone(r) == {r} \cup (IF ~duplex \/ HasExpired(rf.timer) THEN {}
                      ELSE IF net.state # "IDLE" THEN {"doubled"}
                      ELSE {HearHeaded(HearHeaded(r, "rf", "header"), "rf", "end")})

StopsRepeating == IF net.state = "IDLE" THEN Quiet(radio, "rf") ELSE radio

\* writeNetwork: a unit is told when the next one, or the end, comes.  Without a
\* unit there is no end either.
Tells(s, end) ==
  LET t == IF rf.ldu = "LDU1" THEN Tell(s, "header") ELSE Tell(s, "frame")
  IN IF end THEN Tell(t, "end") ELSE t

writeNetwork(end) == stream' = IF HasExpired(rf.timer) \/ rf.ldu = "none" THEN stream
                               ELSE Tells(stream, end)

-----------------------------------------------------------------------------
(* writeModem: a frame received from a radio.                              *)

Over == [rf EXCEPT !.state = "LISTENING", !.timer = Stop(@), !.lc = FALSE, !.ldu = "none"]

LostVoice == /\ enabled
             /\ rf.state = "AUDIO"
             /\ writeNetwork(TRUE)
             /\ rf' = Over
             /\ radio' = StopsRepeating
             /\ UNCHANGED <<duplex, enabled, net>>

LostData == /\ enabled
            /\ rf.state = "DATA"
            /\ rf' = [rf EXCEPT !.state = "LISTENING", !.pdu = 0]
            /\ UNCHANGED <<duplex, enabled, net, stream, radio>>

\* A header only resets what is known; a transmission begins with its first LDU1.
Header == /\ enabled
          /\ rf.state = "LISTENING"
          /\ rf' = [rf EXCEPT !.lc = FALSE]
          /\ UNCHANGED <<duplex, enabled, net, stream, radio>>

\* An LDU1 that is decoded and accepted: a header is made up for the radios.  One
\* that is not only resets what is known.
LDU1Begins == /\ enabled
              /\ rf.state = "LISTENING"
              /\ LET timer == Start(rf.timer)
                 IN /\ rf' = [rf EXCEPT !.state = "AUDIO", !.timer = timer, !.lc = TRUE,
                                        !.ldu = "LDU1"]
                    /\ \E r \in writeQueueRF(radio, timer, "header") :
                         radio' \in writeQueueRF(r, timer, "frame")
              /\ UNCHANGED <<duplex, enabled, net, stream>>

LDU(ldu) == /\ enabled
            /\ rf.state = "AUDIO"
            /\ writeNetwork(FALSE)
            /\ rf' = [rf EXCEPT !.ldu = ldu]
            /\ radio' \in writeQueueRF(radio, rf.timer, "frame")
            /\ UNCHANGED <<duplex, enabled, net>>

\* What data puts an end to: voice, without a word to anybody and with its timer
\* running on.
Abandoned(state, pdu) == rf' = [rf EXCEPT !.state = state, !.lc = FALSE, !.ldu = "none",
                                          !.pdu = pdu]

LeftOff == IF rf.state = "AUDIO" THEN StopsRepeating ELSE radio

\* A signalling frame is answered at once, or repeated; one that cannot be decoded
\* leaves the state as if data had begun.
TSDU == /\ enabled
        /\ \/ Abandoned("LISTENING", rf.pdu) /\ radio' \in Alone(LeftOff)
           \/ /\ Abandoned("DATA", IF rf.state = "DATA" THEN rf.pdu ELSE 0)
              /\ radio' = LeftOff
        /\ UNCHANGED <<duplex, enabled, net, stream>>

Terminator == /\ enabled
              /\ rf.state = "AUDIO"
              /\ writeNetwork(TRUE)
              /\ rf' = Over
              /\ radio' \in writeQueueRF(radio, Stop(rf.timer), "end")
              /\ UNCHANGED <<duplex, enabled, net>>

\* The first frame of a packet says how long it is, unless it cannot be decoded.
\* The last one has the packet repeated.
PDU == /\ enabled
       /\ LET first == rf.state # "DATA" \/ rf.pdu = 0
          IN \E left \in IF first THEN 0 .. MaxBlocks - 1 ELSE {rf.pdu - 1} :
               /\ Abandoned(IF left = 0 THEN "LISTENING" ELSE "DATA", left)
               /\ radio' \in IF left = 0 THEN Alone(LeftOff) ELSE {LeftOff}
       /\ UNCHANGED <<duplex, enabled, net, stream>>

writeModem == \/ LostVoice \/ LostData
              \/ Header \/ LDU1Begins \/ LDU("LDU1") \/ LDU("LDU2")
              \/ TSDU \/ Terminator \/ PDU

-----------------------------------------------------------------------------
(* writeNetwork, without arguments: a record of the network.               *)

\* Those of an LDU1 and the last of them, those of an LDU2 and the last, the end;
\* and what is none.
Records == {"ldu1", "last1", "ldu2", "last2", "end", "other"}

Heeded == enabled /\ (rf.state = "LISTENING" \/ net.state # "IDLE")

\* The units a record completes.  One that lacks its last record is found when
\* a record of the other kind comes (checkNetLDU1, checkNetLDU2).  The second unit
\* begins a transmission: the header and the first unit are then made of whatever
\* has been collected of that one.
Built(rec) ==
  IF rec = "end" THEN <<"end">>
  ELSE IF net.state = "IDLE" THEN IF rec = "last2" THEN <<"header", "ldu1", "ldu2">> ELSE <<>>
  ELSE CASE rec \in {"ldu1", "last1"} -> (IF net.ldu2 THEN <<"ldu2">> ELSE <<>>)
                                           \o (IF rec = "last1" THEN <<"ldu1">> ELSE <<>>)
         [] rec \in {"ldu2", "last2"} -> (IF net.ldu1 THEN <<"ldu1">> ELSE <<>>)
                                           \o (IF rec = "last2" THEN <<"ldu2">> ELSE <<>>)
         [] OTHER -> <<>>

Builds(rec, unit) == \E i \in DOMAIN Built(rec) : Built(rec)[i] = unit

\* createNetTerminator, and what the watchdog does.  What has been collected of a
\* unit stays for the next transmission.
NetOver(x) == [x EXCEPT !.state = "IDLE", !.timer = Stop(@), !.dog = Stop(@), !.lc = FALSE]

\* Any record restarts the watchdog.
Received(rec) ==
  LET x == [net EXCEPT !.dog = Start(@),
              !.ldu1 = (@ \/ rec \in {"ldu1", "last1"}) /\ ~Builds(rec, "ldu1"),
              !.ldu2 = (@ \/ rec \in {"ldu2", "last2"}) /\ ~Builds(rec, "ldu2")]
  IN CASE rec = "end" -> NetOver(x)
       [] Builds(rec, "header") -> [x EXCEPT !.state = "AUDIO", !.timer = Start(@), !.lc = TRUE,
                                             !.frames = "some"]
       [] OTHER -> x

\* Mutant: a transmission of the network begins with its first voice.
HeardFrom_NoHeader(rec) ==
  IF HasExpired(net.timer) THEN {Cut(radio, "net")}
  ELSE IF Built(rec) = <<>> THEN {radio}
  ELSE {HearHeaded(radio, "net", IF rec = "end" THEN "end" ELSE "frame")}

\* writeQueueNet for each of them.
HeardFrom(rec) ==
  LET f == IF Builds(rec, "header") THEN "header" ELSE IF rec = "end" THEN "end" ELSE "frame"
  IN IF Built(rec) = <<>> THEN {radio}
     ELSE IF HasExpired(net.timer) /\ f # "header" THEN {Cut(radio, "net")}
     ELSE {HearHeaded(radio, "net", f), Cut(radio, "net")}

-----------------------------------------------------------------------------
(* clock.                                                                  *)

ClockNet(x, ms) ==
  LET y == [x EXCEPT !.timer = Clock(@, ms),
                     !.dog = IF x.state = "AUDIO" THEN Clock(@, ms) ELSE @]
  IN IF y.state = "AUDIO" /\ HasExpired(y.dog) THEN NetOver(y) ELSE y

\* When the network is over and a radio has begun meanwhile, the radios have not
\* heard all of it.
After(r, x) ==
  IF x.state # "IDLE" \/ (net.state = "IDLE" /\ r \notin {"net", "doubled"}) THEN r
  ELSE LET s == IF r = "doubled" THEN "net" ELSE r
       IN IF rf.state = "AUDIO" THEN Cut(s, "net") ELSE Quiet(s, "net")

ClockRest(x, r, ms) ==
  IF enabled
    THEN /\ rf' = [rf EXCEPT !.timer = Clock(@, ms)]
         /\ net' = ClockNet(x, ms)
         /\ radio' = After(r, net')
    ELSE rf' = rf /\ net' = x /\ radio' = r

ClockHeard(ms) == /\ Heeded
                  /\ \E rec \in Records : \E r \in HeardFrom(rec) :
                       ClockRest(Received(rec), r, ms)
                  /\ UNCHANGED <<duplex, enabled, stream>>

ClockUnheard(ms) == /\ ClockRest(net, radio, ms)
                    /\ UNCHANGED <<duplex, enabled, stream>>

Alive == net.frames # "fatal"

NetHeard == Alive /\ \E ms \in 1 .. MaxElapse : ClockHeard(ms)

NetUnheard == Alive /\ \E ms \in 1 .. MaxElapse : ClockUnheard(ms)

\* An end before there was any transmission: what is logged of it is divided by
\* m_netFrames, which is zero.  Where the processor does not mind, the end is taken
\* like any other.
StrayEnd == /\ Heeded
            /\ net.frames = "none"
            /\ net' = [net EXCEPT !.frames = "fatal"]
            /\ UNCHANGED <<duplex, enabled, rf, stream, radio>>

clock == NetHeard \/ NetUnheard \/ StrayEnd

\* enable.  The packet that was being collected stays as it is; its first frame will
\* be another one's.
enable(on) == /\ enabled' = on
              /\ IF enabled /\ ~on
                   THEN /\ rf' = Over
                        /\ net' = NetOver(net)
                        /\ radio' = "quiet"
                   ELSE UNCHANGED <<rf, net, radio>>
              /\ UNCHANGED <<duplex, stream>>

Next == Alive /\ (writeModem \/ clock \/ \E on \in BOOLEAN : enable(on))

-----------------------------------------------------------------------------

\* Whoever is passed on is known: the link control the units are built from is set.
Coherent == /\ rf.state = "AUDIO" => rf.lc /\ rf.ldu # "none"
            /\ net.state = "AUDIO" => net.lc

=============================================================================
