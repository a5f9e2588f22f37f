----------------------------- MODULE M17Control -----------------------------
(***************************************************************************)
(* CM17Control: M17 between the radios, the network and the radios again.  *)
(* A transmission begins with a link setup frame (LSF) and every frame of  *)
(* it carries a fragment of that, so that one whose beginning was missed   *)
(* is entered late.  To the network every frame carries all of it.         *)
(* "AUDIO" stands for AUDIO and DATA_AUDIO, which differ in the payload.   *)
(* Frames the state has no use for change nothing and are left out.        *)
(***************************************************************************)
EXTENDS Timers, Observers, Sequences

CONSTANTS Timeouts,      \* of a transmission; 0 for none
          WatchdogTime,  \* silence after which the network is given up (1500 ms)
          Pieces,        \* fragments an LSF takes (6)
          MaxElapse      \* bound: time between two calls of clock

VARIABLES duplex, enabled,
          rf,      \* state; timer: m_rfTimeoutTimer; lsf: m_rfCurrentNetLSF, the fragments
                   \* set; source: whose call m_source is
          net,     \* state; timer: m_netTimeoutTimer; dog: m_networkWatchdog
          stream, radio

vars == <<duplex, enabled, rf, net, stream, radio>>

Init == /\ duplex \in BOOLEAN
        /\ enabled = TRUE
        /\ \E t \in Timeouts :
             /\ rf = [state |-> "LISTENING", timer |-> SetTimeout(Unset, t), lsf |-> {},
                      source |-> "none"]
             /\ net = [state |-> "IDLE", timer |-> SetTimeout(Unset, t),
                       dog |-> SetTimeout(Unset, WatchdogTime)]
        /\ stream = "closed"
        /\ radio = "quiet"

Fragments == 1 .. Pieces

-----------------------------------------------------------------------------
(* What goes out of what a radio sends.                                    *)

\* writeQueueRF: nothing while the network transmits or after the timeout.
writeQueueRF(r, timer, f) ==
  IF ~duplex \/ net.state # "IDLE" THEN {r}
  ELSE IF HasExpired(timer) THEN {Cut(r, "rf")}
  ELSE {HearHeaded(r, "rf", f), Cut(r, "rf")}

\* The network is told only while the timer runs: nothing at all where there is none.
ToNetwork(timer, f) ==
  stream' = IF ~IsRunning(timer) \/ HasExpired(timer) THEN stream
            ELSE IF f = "end" THEN "closed" ELSE "open"

Silent == UNCHANGED <<stream, radio>>

-----------------------------------------------------------------------------
(* writeModem: a frame received from a radio.                              *)

Stopped == [rf EXCEPT !.state = "LISTENING", !.timer = Stop(@)]

writeEndRF == [Stopped EXCEPT !.lsf = {}, !.source = "none"]

Lost == /\ enabled
        /\ rf' = IF rf.state = "LATE_ENTRY" THEN [rf EXCEPT !.state = "LISTENING"] ELSE writeEndRF
        /\ rf.state # "LISTENING"
        /\ radio' = IF net.state = "IDLE" THEN Quiet(radio, "rf") ELSE radio
        /\ UNCHANGED <<duplex, enabled, net, stream>>

\* processRFHeader.  What is a packet, or for another CAN or of an unknown type, is as
\* if it had not been; what is encrypted or of somebody else's is rejected.
Ignored(x) == [x EXCEPT !.lsf = {}]

Known(s) == [rf EXCEPT !.state = s, !.timer = Start(@), !.lsf = Fragments, !.source = "rf"]

Header ==
  /\ enabled
  /\ rf.state = "LISTENING"
  /\ \/ /\ \/ \E source \in {"rf", rf.source} : rf' = [Ignored(rf) EXCEPT !.source = source]
           \/ rf' = [rf EXCEPT !.state = "LATE_ENTRY", !.lsf = {}]
           \/ rf' = Known("REJECTED")
        /\ Silent
     \/ \E s \in {"AUDIO", "DATA"} :
          /\ rf' = Known(s)
          /\ radio' \in writeQueueRF(radio, rf'.timer, "header")
          /\ UNCHANGED stream
  /\ UNCHANGED <<duplex, enabled, net>>

\* A fragment is added to those since the last transmission was lost; whether they
\* are of one LSF is seen when there are all of them.
LateEntry ==
  /\ enabled
  /\ rf.state \in {"LISTENING", "LATE_ENTRY"}
  /\ \/ /\ rf' = [rf EXCEPT !.state = "LATE_ENTRY",
                            !.lsf = IF rf.state = "LISTENING" THEN {} ELSE @]
        /\ Silent
     \/ \E n \in Fragments :
          LET lsf == {n} \cup IF rf.state = "LISTENING" THEN {} ELSE rf.lsf
              x   == [rf EXCEPT !.state = "LATE_ENTRY", !.lsf = lsf]
          IN \/ rf' = x /\ Silent
             \/ /\ lsf = Fragments
                /\ \/ \E source \in {"rf", rf.source} :
                        rf' = [Ignored(x) EXCEPT !.source = source] /\ Silent
                   \/ rf' = Known("REJECTED") /\ Silent
                   \/ /\ rf' = Known("DATA")
                      /\ radio' \in writeQueueRF(radio, rf'.timer, "header")
                      /\ UNCHANGED stream
                   \/ /\ rf' = Known("AUDIO")
                      /\ \E r \in writeQueueRF(radio, rf'.timer, "header") :
                           radio' \in writeQueueRF(r, rf'.timer, "frame")
                      /\ ToNetwork(rf'.timer, "frame")
  /\ UNCHANGED <<duplex, enabled, net>>

Audio == /\ enabled
         /\ rf.state = "AUDIO"
         /\ radio' \in writeQueueRF(radio, rf.timer, "frame")
         /\ ToNetwork(rf.timer, "frame")
         /\ UNCHANGED <<duplex, enabled, rf, net>>

\* Only audio ends with an EOT: data, and what is rejected, end when they are lost.
EOT == /\ enabled
       /\ rf.state = "AUDIO"
       /\ rf' = writeEndRF
       /\ radio' \in writeQueueRF(radio, rf.timer, "end")
       /\ ToNetwork(rf.timer, "end")
       /\ UNCHANGED <<duplex, enabled, net>>

writeModem == Lost \/ Header \/ LateEntry \/ Audio \/ EOT

-----------------------------------------------------------------------------
(* writeNetwork: a frame of the network.                                   *)

Heeded == enabled /\ (rf.state \in {"LISTENING", "LATE_ENTRY"} \/ net.state # "IDLE")

\* Audio, the last frame of it, data; and what is encrypted or of an unknown type.
Frames == {"audio", "eot", "data", "encrypted", "unknown"}

writeEndNet(x) == [x EXCEPT !.state = "IDLE", !.timer = Stop(@), !.dog = Stop(@)]

\* A frame that begins a transmission is preceded by an LSF that is made of it.  Once
\* it has begun, frames are what the first one was: after data nothing goes out, and
\* what is audio ends with the last frame.
Outcome(f) ==
  LET x     == [net EXCEPT !.dog = Start(@)]
      begun == [x EXCEPT !.state = IF f = "data" THEN "DATA" ELSE "AUDIO", !.timer = Start(@)]
      y     == IF net.state = "IDLE" THEN begun ELSE x
  IN CASE f = "encrypted" \/ (f = "unknown" /\ net.state = "IDLE") -> x
       [] f = "eot" /\ y.state = "AUDIO" -> writeEndNet(y)
       [] OTHER -> y

Out(f) == IF f = "encrypted" \/ net.state = "DATA" THEN <<>>
          ELSE IF net.state = "AUDIO" THEN IF f = "eot" THEN <<"frame", "end">> ELSE <<"frame">>
          ELSE CASE f = "unknown" -> <<>>
                 [] f = "data" -> <<"header">>
                 [] f = "eot" -> <<"header", "frame", "end">>
                 [] OTHER -> <<"header", "frame">>

\* writeQueueNet: nothing after the timeout.
writeQueueNet(r, f) == IF HasExpired(net.timer) THEN {Cut(r, "net")}
                       ELSE {HearHeaded(r, "net", f), Cut(r, "net")}

\* What the radios hear of the first n of the frames that go out.
Hears(out) ==
  LET heard[n \in 0 .. Len(out)] ==
        IF n = 0 THEN {radio} ELSE UNION {writeQueueNet(r, out[n]) : r \in heard[n - 1]}
  IN heard[Len(out)]

\* m_source is whose transmission came last, of the network or of a radio.
SourceAfter(f, x) ==
  IF net.state # "IDLE" /\ x.state = "IDLE" THEN "none"
  ELSE IF net.state = "IDLE" /\ f # "encrypted" THEN IF x.state = "IDLE" /\ f = "eot" THEN "none" ELSE "net"
  ELSE rf.source

-----------------------------------------------------------------------------
(* clock.                                                                  *)

\* The watchdog is looked at for audio only: data keeps the channel.
ClockNet(x, ms) ==
  LET y == [x EXCEPT !.timer = Clock(@, ms),
                     !.dog = IF x.state = "AUDIO" THEN Clock(@, ms) ELSE @]
  IN IF y.state = "AUDIO" /\ HasExpired(y.dog) THEN writeEndNet(y) ELSE y

\* When the network is over and a radio has begun meanwhile, the radios have not
\* heard all of it.
After(r, x) == IF x.state # "IDLE" \/ (net.state = "IDLE" /\ r # "net") THEN r
               ELSE IF rf.state \in {"AUDIO", "DATA"} THEN Cut(r, "net") ELSE Quiet(r, "net")

ClockRest(x, source, r, ms) ==
  IF enabled
    THEN /\ net' = ClockNet(x, ms)
         /\ rf' = [rf EXCEPT !.timer = Clock(@, ms),
                             !.source = IF x.state # "IDLE" /\ net'.state = "IDLE" THEN "none"
                                        ELSE source]
         /\ radio' = After(r, net')
    ELSE rf' = rf /\ net' = x /\ radio' = r

ClockHeard(ms) == /\ Heeded
                  /\ \E f \in Frames : \E r \in Hears(Out(f)) :
                       ClockRest(Outcome(f), SourceAfter(f, Outcome(f)), r, ms)
                  /\ UNCHANGED <<duplex, enabled, stream>>

ClockUnheard(ms) == /\ ClockRest(net, rf.source, radio, ms)
                    /\ UNCHANGED <<duplex, enabled, stream>>

NetHeard == \E ms \in 1 .. MaxElapse : ClockHeard(ms)

NetUnheard == \E ms \in 1 .. MaxElapse : ClockUnheard(ms)

clock == NetHeard \/ NetUnheard

enable(on) == /\ enabled' = on
              /\ IF enabled /\ ~on
                   THEN /\ rf' = Stopped
                        /\ net' = writeEndNet(net)
                        /\ radio' = "quiet"
                   ELSE UNCHANGED <<rf, net, radio>>
              /\ UNCHANGED <<duplex, stream>>

Next == writeModem \/ clock \/ \E on \in BOOLEAN : enable(on)

-----------------------------------------------------------------------------

\* Whoever is passed on is known: there is a whole LSF to build the frames from.  And
\* m_source, which is put into them, is never that of the network's transmission.
Coherent == rf.state \in {"AUDIO", "DATA"} => rf.lsf = Fragments /\ rf.source # "net"

=============================================================================
