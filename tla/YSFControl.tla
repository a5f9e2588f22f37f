----------------------------- MODULE YSFControl -----------------------------
(***************************************************************************)
(* CYSFControl: System Fusion between the radios, the network and the      *)
(* radios again.  A frame received is a header, a terminator or one of     *)
(* communications, of one of three kinds: "VW", full rate voice, "DN",     *)
(* voice with data, "FR", full rate data; a frame whose FICH cannot be     *)
(* read counts as the next one of the kind received last.  What the        *)
(* payload says is open.  Frames the state has no use for change nothing   *)
(* and are left out.                                                       *)
(***************************************************************************)
EXTENDS Timers, Observers

CONSTANTS Timeouts,      \* of a transmission; 0 for none
          WatchdogTime,  \* silence after which the network is given up (1500 ms)
          Counts,        \* how many network frames before their count wraps (128)
          MaxElapse      \* bound: time between two calls of clock

VARIABLES duplex, enabled,
          rf,      \* state, timer: m_rfTimeoutTimer, known: the callsigns m_rfPayload
                   \* has, talker: whether m_rfSource and m_rfDest point to callsigns
          net,     \* state, timer: m_netTimeoutTimer, dog: m_networkWatchdog, n: m_netN
                   \* while frames are compared with it
          stream, radio

vars == <<duplex, enabled, rf, net, stream, radio>>

Init == /\ duplex \in BOOLEAN
        /\ enabled = TRUE
        /\ \E t \in Timeouts :
             /\ rf = [state |-> "LISTENING", timer |-> SetTimeout(Unset, t),
                      known |-> {}, talker |-> FALSE]
             /\ net = [state |-> "IDLE", timer |-> SetTimeout(Unset, t),
                       dog |-> SetTimeout(Unset, WatchdogTime), n |-> 0]
        /\ stream = "closed"
        /\ radio = "quiet"

-----------------------------------------------------------------------------
(* What goes out of what a radio sends.                                    *)

\* writeQueueRF: nothing while the network transmits or after the timeout; a frame
\* for which there is no room is dropped.
writeQueueRF(f) == IF ~duplex \/ net.state # "IDLE" THEN UNCHANGED radio
                   ELSE IF HasExpired(rf.timer) THEN radio' = Cut(radio, "rf")
                   ELSE radio' \in {Hear(radio, "rf", f), Cut(radio, "rf")}

\* writeNetwork: nothing after the timeout.
writeNetwork(f) == IF HasExpired(rf.timer) THEN UNCHANGED stream
                   ELSE stream' = Tell(stream, f)

PassOn(f) == writeNetwork(f) /\ writeQueueRF(f)

Silent == UNCHANGED <<stream, radio>>

-----------------------------------------------------------------------------
(* writeModem: a frame received from a radio.                              *)

Both == {"source", "dest"}

\* The callsigns a frame gives, if it can be read: a header both, in voice with data
\* the first frame of a superframe both (mode 1), or each of its first two one (mode 2).
\* What the others carry concerns nobody.
processHeaderData == Both

processVDMode1Data == {Both}

processVDMode2Data == {{"dest"}, {"source"}}

\* m_rfPayload.reset: the callsigns go, and what pointed to them points nowhere.
Reset == [rf EXCEPT !.state = "LISTENING", !.known = {}, !.talker = FALSE]

writeEndRF == [Reset EXCEPT !.timer = Stop(@)]

\* A transmission that is lost while it is data leaves the timer as it is.
Lost == /\ enabled
        /\ rf' = IF rf.state = "AUDIO" THEN writeEndRF ELSE Reset
        /\ radio' = Quiet(radio, "rf")
        /\ UNCHANGED <<duplex, enabled, net, stream>>

On(kind) == IF kind = "FR" THEN "DATA" ELSE "AUDIO"

\* The transmission is accepted; only voice has a timeout.
Begins(kind, known) ==
  /\ rf' = [rf EXCEPT !.state = On(kind), !.known = known, !.talker = TRUE,
                      !.timer = IF kind = "FR" THEN @ ELSE Start(@)]
  /\ PassOn("header")

Rejected(known) == rf' = [rf EXCEPT !.state = "REJECTED", !.known = known] /\ Silent

Header(kind) == /\ enabled
                /\ rf.state = "LISTENING"
                /\ Begins(kind, processHeaderData) \/ Rejected(processHeaderData)
                /\ UNCHANGED <<duplex, enabled, net>>

Terminator(kind) == /\ enabled
                    /\ \/ rf.state = "REJECTED" /\ rf' = Reset /\ Silent
                       \/ rf.state = On(kind) /\ rf' = writeEndRF /\ PassOn("end")
                    /\ UNCHANGED <<duplex, enabled, net>>

Frame(kind) == /\ enabled
               /\ rf.state = On(kind)
               /\ PassOn("frame")
               /\ UNCHANGED <<duplex, enabled, rf, net>>

\* Mutant: late entry does not wait for the destination.
LateEntry_Source(found, group) ==
  /\ enabled
  /\ rf.state = "LISTENING"
  /\ LET known == rf.known \cup found
     IN IF "source" \in known
          THEN /\ rf' = [rf EXCEPT !.state = "AUDIO", !.known = known, !.timer = Start(@),
                                   !.talker = group \/ "dest" \in known]
               /\ PassOn("header")
          ELSE rf' = [rf EXCEPT !.known = known] /\ Silent
  /\ UNCHANGED <<duplex, enabled, net>>

\* Late entry, into voice with data only; a group call needs no destination.  A header is made up and goes before
\* the frame.  Callsigns found of a transmission that ended before they were complete
\* are still there for the next.
LateEntry(found, group) ==
  /\ enabled
  /\ rf.state = "LISTENING"
  /\ LET known == rf.known \cup found
     IN IF "source" \in known /\ (group \/ "dest" \in known)
          THEN Begins("DN", known) \/ Rejected(known)
          ELSE rf' = [rf EXCEPT !.known = known] /\ Silent
  /\ UNCHANGED <<duplex, enabled, net>>

Handled(kind) == Header(kind) \/ Terminator(kind) \/ Frame(kind)

processVWData == Handled("VW")

processDNData ==
  \/ Handled("DN")
  \/ \E found \in processVDMode1Data \cup processVDMode2Data, group \in BOOLEAN :
       LateEntry(found, group)

processFRData == Handled("FR")

writeModem == Lost \/ processVWData \/ processDNData \/ processFRData

-----------------------------------------------------------------------------
(* writeNetwork, without arguments: a frame of the network.                *)

NetFrame == [n : 0 .. Counts - 1, end : BOOLEAN]

Heeded == enabled /\ (rf.state = "LISTENING" \/ net.state # "IDLE")

\* A transmission is one as long as its timer runs: without a timeout every frame
\* begins one, and none ends it but the watchdog.
Taken(f) == IF IsRunning(net.timer) THEN f.n # net.n ELSE ~f.end

writeEndNet(x) == [x EXCEPT !.state = "IDLE", !.timer = Stop(@), !.dog = Stop(@), !.n = 0]

\* Any frame restarts the watchdog, also one that is then dropped.
Received(f) ==
  LET x == [net EXCEPT !.dog = Start(@)]
      y == IF IsRunning(net.timer) THEN x ELSE [x EXCEPT !.state = "AUDIO", !.timer = Start(@)]
  IN IF ~Taken(f) THEN x
     ELSE IF f.end THEN writeEndNet(y)
     ELSE [y EXCEPT !.n = IF IsRunning(y.timer) THEN f.n ELSE 0]

writeQueueNet(f) == IF HasExpired(net.timer) THEN {Cut(radio, "net")}
                    ELSE {Hear(radio, "net", IF f.end THEN "end" ELSE "frame"),
                          Cut(radio, "net")}

-----------------------------------------------------------------------------
(* clock.                                                                  *)

\* Mutant: the watchdog is not looked at.
ClockNet_NoWatchdog(x, ms) == [x EXCEPT !.timer = Clock(@, ms)]

ClockNet(x, ms) ==
  LET y == [x EXCEPT !.timer = Clock(@, ms),
                     !.dog = IF x.state = "AUDIO" THEN Clock(@, ms) ELSE @]
  IN IF y.state = "AUDIO" /\ HasExpired(y.dog) THEN writeEndNet(y) ELSE y

\* What the radios hear of a network that is given up just stops.
ClockRest(x, r, ms) ==
  IF enabled
    THEN /\ rf' = [rf EXCEPT !.timer = Clock(@, ms)]
         /\ net' = ClockNet(x, ms)
         /\ radio' = IF x.state # "IDLE" /\ net'.state = "IDLE" THEN Quiet(r, "net") ELSE r
    ELSE rf' = rf /\ net' = x /\ radio' = r

\* A frame of the network is taken first, then the timers are clocked.
ClockHeard(ms) == /\ Heeded
                  /\ \E f \in NetFrame :
                       \E r \in IF Taken(f) THEN writeQueueNet(f) ELSE {radio} :
                         ClockRest(Received(f), r, ms)
                  /\ UNCHANGED <<duplex, enabled, stream>>

\* No frame, or one that is not heeded.
ClockUnheard(ms) == /\ ClockRest(net, radio, ms)
                    /\ UNCHANGED <<duplex, enabled, stream>>

NetHeard == \E ms \in 1 .. MaxElapse : ClockHeard(ms)

NetUnheard == \E ms \in 1 .. MaxElapse : ClockUnheard(ms)

clock == NetHeard \/ NetUnheard

\* enable: switching off clears the queue and says nothing to anybody.
enable(on) == /\ enabled' = on
              /\ IF enabled /\ ~on
                   THEN /\ rf' = writeEndRF
                        /\ net' = writeEndNet(net)
                        /\ radio' = Quiet(Quiet(radio, "rf"), "net")
                   ELSE UNCHANGED <<rf, net, radio>>
              /\ UNCHANGED <<duplex, stream>>

Next == writeModem \/ clock \/ \E on \in BOOLEAN : enable(on)

-----------------------------------------------------------------------------

\* Whoever is passed on is known: source and destination are those of a payload that
\* is still there.
Coherent == rf.state \in {"AUDIO", "DATA"} => rf.talker

=============================================================================
