---------------------------- MODULE NXDNControl -----------------------------
(***************************************************************************)
(* CNXDNControl: NXDN between the radios, the network and the radios       *)
(* again.  Voice begins with a call message (VCALL) and ends with a        *)
(* release (TX_REL); its frames carry the call message too, a piece at a   *)
(* time (the SACCH) or whole in stolen audio (a FACCH1).  Data begins with *)
(* a header and ends with a release.  Frames the state has no use for      *)
(* change nothing and are left out.                                        *)
(***************************************************************************)
EXTENDS Timers, Observers

CONSTANTS Timeouts,      \* of a voice transmission; 0 for none
          WatchdogTime,  \* silence after which the network is given up (1500 ms)
          Pieces,        \* of the call message in the SACCHs of a superframe (4)
          MaxElapse      \* bound: time between two calls of clock

VARIABLES duplex, enabled,
          rf,      \* state, timer: m_rfTimeoutTimer, mask: m_rfMask, call: whether
                   \* m_rfLayer3 is a whole call message
          net,     \* state, timer: m_netTimeoutTimer, dog: m_networkWatchdog,
                   \* mask: m_netMask
          stream, radio

vars == <<duplex, enabled, rf, net, stream, radio>>

Init == /\ duplex \in BOOLEAN
        /\ enabled = TRUE
        /\ \E t \in Timeouts :
             /\ rf = [state |-> "LISTENING", timer |-> SetTimeout(Unset, t), mask |-> {},
                      call |-> FALSE]
             /\ net = [state |-> "IDLE", timer |-> SetTimeout(Unset, t),
                       dog |-> SetTimeout(Unset, WatchdogTime), mask |-> {}]
        /\ stream = "closed"
        /\ radio = "quiet"

\* The pieces of a call message collected; the first one drops those before it, and
\* is dropped itself if it begins another message.
Collected(mask, piece, call) == IF piece > 1 THEN mask \cup {piece}
                                ELSE IF call THEN {1} ELSE {}

Whole(mask) == mask = 1 .. Pieces

-----------------------------------------------------------------------------
(* What goes out of what a radio sends.                                    *)

\* writeQueueRF: nothing while the network transmits or after the timeout.
writeQueueRF(r, timer, f) ==
  IF ~duplex \/ net.state # "IDLE" THEN {r}
  ELSE IF HasExpired(timer) THEN {Cut(r, "rf")}
  ELSE {HearHeaded(r, "rf", f), Cut(r, "rf")}

\* writeNetwork: nothing after the timeout.
writeNetwork(timer, f) == stream' = IF HasExpired(timer) THEN stream ELSE Tell(stream, f)

PassOn(f) == writeNetwork(rf.timer, f) /\ radio' \in writeQueueRF(radio, rf.timer, f)

\* A header is made up; it goes before the frame.
PassOnLate(timer) == /\ writeNetwork(timer, "header")
                     /\ \E r \in writeQueueRF(radio, timer, "header") :
                          radio' \in writeQueueRF(r, timer, "frame")

Silent == UNCHANGED <<stream, radio>>

StopsRepeating == IF net.state = "IDLE" THEN Quiet(radio, "rf") ELSE radio

-----------------------------------------------------------------------------
(* writeModem: a frame received from a radio.                              *)

Listening == [rf EXCEPT !.state = "LISTENING", !.mask = {}, !.call = FALSE]

writeEndRF == [Listening EXCEPT !.timer = Stop(@)]

Lost == /\ enabled
        /\ rf' = IF rf.state \in {"AUDIO", "DATA"} THEN writeEndRF ELSE Listening
        /\ radio' = StopsRepeating
        /\ UNCHANGED <<duplex, enabled, net, stream>>

\* A call message of its own.  Only while listening is it looked at whether to reject
\* it: in a rejected transmission the second one is accepted.  During a transmission
\* it is passed on again, and the time starts anew.
VCall == /\ enabled
         /\ \/ /\ rf.state = "LISTENING"
               /\ rf' = [rf EXCEPT !.state = "REJECTED"]
               /\ Silent
            \/ /\ PassOn("header")
               /\ rf' = [rf EXCEPT !.state = "AUDIO", !.timer = Start(@), !.call = TRUE]
         /\ UNCHANGED <<duplex, enabled, net>>

TxRel == /\ enabled
         /\ IF rf.state = "AUDIO" THEN rf' = writeEndRF /\ PassOn("end")
            ELSE rf' = Listening /\ radio' = StopsRepeating /\ UNCHANGED stream
         /\ UNCHANGED <<duplex, enabled, net>>

Voice == /\ enabled
         /\ rf.state = "AUDIO"
         /\ PassOn("frame")
         /\ UNCHANGED <<duplex, enabled, rf, net>>

\* The call message is known from a frame of voice.
LateEntry(mask) ==
  \/ /\ rf' = [rf EXCEPT !.state = "REJECTED", !.mask = mask]
     /\ Silent
  \/ /\ rf' = [rf EXCEPT !.state = "AUDIO", !.timer = Start(@), !.mask = mask, !.call = TRUE]
     /\ PassOnLate(Start(rf.timer))

VoiceFACCH1 == /\ enabled
               /\ rf.state = "LISTENING"
               /\ LateEntry(rf.mask)
               /\ UNCHANGED <<duplex, enabled, net>>

VoiceSACCH(piece, call) ==
  /\ enabled
  /\ rf.state = "LISTENING"
  /\ LET mask == Collected(rf.mask, piece, call)
     IN IF Whole(mask) THEN LateEntry(mask)
        ELSE rf' = [rf EXCEPT !.mask = mask] /\ Silent
  /\ UNCHANGED <<duplex, enabled, net>>

\* Data, whose header can be damaged only when it is not the first frame.
DataBegins == /\ enabled
              /\ rf.state = "LISTENING"
              /\ rf' = [rf EXCEPT !.state = "DATA", !.call = TRUE]
              /\ PassOn("header")
              /\ UNCHANGED <<duplex, enabled, net>>

DataFrame == /\ enabled
             /\ rf.state = "DATA"
             /\ \/ PassOn("frame") /\ UNCHANGED rf
                \/ PassOn("end") /\ rf' = writeEndRF
             /\ UNCHANGED <<duplex, enabled, net>>

writeModem == \/ Lost \/ VCall \/ TxRel \/ Voice \/ VoiceFACCH1
              \/ \E piece \in 1 .. Pieces, call \in BOOLEAN : VoiceSACCH(piece, call)
              \/ DataBegins \/ DataFrame

-----------------------------------------------------------------------------
(* writeNetwork, without arguments: a frame of the network.                *)

\* A mutant: the network is let in on a radio's transmission.
Heeded_Always == enabled

Heeded == enabled /\ (rf.state = "LISTENING" \/ net.state # "IDLE")

Frames == [kind : {"data header", "data", "data end", "call", "release", "other"}]
            \cup [kind : {"voice"}, piece : 1 .. Pieces, call : BOOLEAN]

writeEndNet(x) == [x EXCEPT !.state = "IDLE", !.timer = Stop(@), !.dog = Stop(@), !.mask = {}]

\* Voice of a transmission whose call message was missed.
Late(f) == f.kind = "voice" /\ net.state = "IDLE"

Entered(f) == Late(f) /\ Whole(Collected(net.mask, f.piece, f.call))

\* What comes of a frame, and what the radios hear of it.  A message that is neither
\* call nor release goes out whether or not there is a transmission.
Outcome(f) ==
  LET x     == [net EXCEPT !.dog = Start(@)]
      begun == [x EXCEPT !.state = "AUDIO", !.timer = Start(@)]
      idle  == net.state = "IDLE"
  IN CASE f.kind = "data header" /\ idle -> [net |-> [x EXCEPT !.state = "DATA"], out |-> "header"]
       [] f.kind \in {"data header", "data"} /\ net.state = "DATA" -> [net |-> x, out |-> "frame"]
       [] f.kind = "data end" /\ net.state = "DATA" -> [net |-> writeEndNet(x), out |-> "end"]
       [] f.kind = "call" /\ idle -> [net |-> begun, out |-> "header"]
       [] f.kind = "release" /\ ~idle -> [net |-> writeEndNet(x), out |-> "end"]
       [] f.kind = "voice" /\ ~idle -> [net |-> x, out |-> "frame"]
       [] f.kind = "other" -> [net |-> x, out |-> IF idle THEN "stray" ELSE "frame"]
       [] Late(f) -> IF Entered(f) THEN [net |-> [begun EXCEPT !.mask = 1 .. Pieces],
                                         out |-> "header"]
                     ELSE [net |-> [x EXCEPT !.mask = Collected(@, f.piece, f.call)],
                           out |-> "nothing"]
       [] OTHER -> [net |-> x, out |-> "nothing"]

\* writeQueueNet: nothing after the timeout.
writeQueueNet(out) ==
  CASE out = "nothing" -> {radio}
    [] out = "stray" -> IF HasExpired(net.timer) THEN {radio} ELSE {radio, "stray"}
    [] OTHER -> IF HasExpired(net.timer) THEN {Cut(radio, "net")}
                ELSE {HearHeaded(radio, "net", out), Cut(radio, "net")}

-----------------------------------------------------------------------------
(* clock.                                                                  *)

\* The watchdog is looked at for voice only: data whose end is missed keeps the
\* channel until some release comes.
ClockNet(x, ms) ==
  LET y == [x EXCEPT !.timer = Clock(@, ms),
                     !.dog = IF x.state = "AUDIO" THEN Clock(@, ms) ELSE @]
  IN IF y.state = "AUDIO" /\ HasExpired(y.dog) THEN writeEndNet(y) ELSE y

\* When the network is over and a radio has begun meanwhile, the radios have not
\* heard all of it.
After(r, x) == IF x.state # "IDLE" \/ (net.state = "IDLE" /\ r # "net") THEN r
               ELSE IF rf.state \in {"AUDIO", "DATA"} THEN Cut(r, "net") ELSE Quiet(r, "net")

ClockRest(x, r, ms) ==
  IF enabled
    THEN /\ rf' = [rf EXCEPT !.timer = Clock(@, ms)]
         /\ net' = ClockNet(x, ms)
         /\ radio' = After(r, net')
    ELSE rf' = rf /\ net' = x /\ radio' = r

ClockHeard(ms) == /\ Heeded
                  /\ \E f \in Frames : \E r \in writeQueueNet(Outcome(f).out) :
                       ClockRest(Outcome(f).net, r, ms)
                  /\ UNCHANGED <<duplex, enabled, stream>>

ClockUnheard(ms) == /\ ClockRest(net, radio, ms)
                    /\ UNCHANGED <<duplex, enabled, stream>>

NetHeard == \E ms \in 1 .. MaxElapse : ClockHeard(ms)

NetUnheard == \E ms \in 1 .. MaxElapse : ClockUnheard(ms)

clock == NetHeard \/ NetUnheard

enable(on) == /\ enabled' = on
              /\ IF enabled /\ ~on
                   THEN /\ rf' = writeEndRF
                        /\ net' = writeEndNet(net)
                        /\ radio' = "quiet"
                   ELSE UNCHANGED <<rf, net, radio>>
              /\ UNCHANGED <<duplex, stream>>

Next == writeModem \/ clock \/ \E on \in BOOLEAN : enable(on)

-----------------------------------------------------------------------------

\* Whoever is passed on is known: a whole call message has been accepted, and is what
\* the end is built from.
Coherent == rf.state \in {"AUDIO", "DATA"} => rf.call

=============================================================================
