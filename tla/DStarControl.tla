---------------------------- MODULE DStarControl ----------------------------
(***************************************************************************)
(* CDStarControl: D-Star between the radios, the network and the radios    *)
(* again.  A transmission begins with a header and ends with an EOT; one   *)
(* whose header was missed is entered late, when the header has been       *)
(* collected from the slow data between two syncs.  The first frame of a   *)
(* transmission is held back until the second one has shown whether it is  *)
(* voice or fast data.  A transmission is answered, when it is over.       *)
(* Frames the state has no use for change nothing and are left out.        *)
(***************************************************************************)
EXTENDS Timers, Observers

CONSTANTS Timeouts,      \* of a transmission; 0 for none
          WatchdogTime,  \* silence after which the network is given up (1500 ms)
          ReplyTime,     \* from the end of a transmission to the answer (ackTime)
          Pieces,        \* frames of slow data a header takes (18)
          MaxElapse      \* bound: time between two calls of clock

VARIABLES duplex, enabled,
          rf,      \* state; timer: m_rfTimeoutTimer; ack, err: m_ackTimer, m_errTimer;
                   \* replies: m_ackReply, m_errorReply; header: m_rfHeader, "ours" if it
                   \* was accepted, "gateway" if with m_net; held: m_rfDataLookBackIndex,
                   \* sync: the frame held back is one; blocks: collected by m_rfSlowData,
                   \* followed while a header is looked for
          net,     \* state, timer: m_netTimeoutTimer, dog: m_networkWatchdog,
                   \* held: m_netDataLookBackIndex
          stream, radio

vars == <<duplex, enabled, rf, net, stream, radio>>

Init == /\ duplex \in BOOLEAN
        /\ enabled = TRUE
        /\ \E t \in Timeouts, replies \in {{}, {"ack"}, {"ack", "error"}} :
             /\ rf = [state |-> "LISTENING", timer |-> SetTimeout(Unset, t),
                      ack |-> SetTimeout(Unset, ReplyTime),
                      err |-> SetTimeout(Unset, ReplyTime), replies |-> replies,
                      header |-> "other", held |-> 0, sync |-> FALSE, blocks |-> 0]
             /\ net = [state |-> "IDLE", timer |-> SetTimeout(Unset, t),
                       dog |-> SetTimeout(Unset, WatchdogTime), held |-> 0]
        /\ stream = "closed"
        /\ radio = "quiet"

Active == {"AUDIO", "DATA"}

-----------------------------------------------------------------------------
(* What goes out of what a radio sends.                                    *)

\* writeQueueHeaderRF, writeQueueDataRF, writeQueueEOTRF: nothing while the network
\* transmits or after the timeout.
writeQueueRF(r, timer, f) ==
  IF ~duplex \/ net.state # "IDLE" THEN {r}
  ELSE IF HasExpired(timer) THEN {Cut(r, "rf")}
  ELSE {HearHeaded(r, "rf", f), Cut(r, "rf")}

\* writeNetworkHeaderRF, writeNetworkDataRF: nothing after the timeout, and nothing of
\* a transmission that is not for the gateway.
writeNetworkRF(s, x, f) == IF x.header = "gateway" /\ ~HasExpired(x.timer) THEN Tell(s, f) ELSE s

PassOn(x, f) == /\ stream' = writeNetworkRF(stream, x, f)
                /\ radio' \in writeQueueRF(radio, x.timer, f)

\* Two frames, one after the other.
PassOnBoth(x, f, g) == /\ stream' = writeNetworkRF(writeNetworkRF(stream, x, f), x, g)
                       /\ \E r \in writeQueueRF(radio, x.timer, f) :
                            radio' \in writeQueueRF(r, x.timer, g)

Silent == UNCHANGED <<stream, radio>>

StopsRepeating == IF net.state = "IDLE" THEN Quiet(radio, "rf") ELSE radio

-----------------------------------------------------------------------------
(* writeModem: a frame received from a radio.                              *)

writeEndRF == [rf EXCEPT !.state = "LISTENING", !.timer = Stop(@),
                         !.ack = IF net.state = "IDLE" THEN Start(@) ELSE @]

\* The end of a transmission that was not for this repeater.
Invalid == [rf EXCEPT !.state = "LISTENING",
                      !.err = IF net.state = "IDLE" /\ "error" \in rf.replies
                                THEN Start(@) ELSE @]

Ended == IF rf.state = "INVALID" THEN Invalid ELSE [rf EXCEPT !.state = "LISTENING"]

Lost == /\ enabled
        /\ IF rf.state \in Active THEN rf' = writeEndRF /\ radio' = StopsRepeating
           ELSE rf' = Ended /\ UNCHANGED radio
        /\ UNCHANGED <<duplex, enabled, net, stream>>

\* Only a timer that is not running is started: what a transmission that was broken
\* off left of its time is what the next one has.
Accepted(h) == [rf EXCEPT !.state = "AUDIO", !.header = h, !.held = 0, !.blocks = 0,
                          !.timer = IF IsRunning(@) THEN @ ELSE Start(@),
                          !.ack = Stop(@), !.err = Stop(@)]

Refused(s) == [rf EXCEPT !.state = s, !.header = "other", !.blocks = 0]

\* A header that is not accepted breaks off the transmission before it.
Header == /\ enabled
          /\ \/ /\ \E s \in {"INVALID", "REJECTED"} :
                     rf' = Refused(s)
                /\ radio' = StopsRepeating
                /\ UNCHANGED stream
             \/ \E h \in {"ours", "gateway"} :
                  rf' = Accepted(h) /\ PassOn(Accepted(h), "header")
          /\ UNCHANGED <<duplex, enabled, net>>

EOT == /\ enabled
       /\ IF rf.state \in Active THEN rf' = writeEndRF /\ PassOn(rf, "end")
          ELSE /\ rf.state \in {"REJECTED", "INVALID"}
               /\ rf' = Ended
               /\ Silent
       /\ UNCHANGED <<duplex, enabled, net>>

\* m_rfSlowData: a sync begins it anew; each of its blocks comes in two frames, and
\* blocks past the length of a header are not taken.
Added(x, sync) ==
  [x EXCEPT !.blocks = IF sync \/ x.state # "LATE_ENTRY" THEN 0
                       ELSE IF @ < Pieces THEN @ + 1 ELSE @]

\* m_rfSlowData.getHeader: the blocks are there; whether they are of a header, and sound,
\* is open.
MayHaveHeader(x) == x.blocks = Pieces

\* A mutant: no header is made up for a transmission that is entered late.
LateEntry_NoHeader ==
  \E h \in {"ours", "gateway"} : rf' = Accepted(h) /\ PassOn(Accepted(h), "frame")

\* The header is known.  It goes before the frame it came with.
LateEntry ==
  \/ /\ \E s \in {"INVALID", "REJECTED"} : rf' = Refused(s)
     /\ Silent
  \/ \E h \in {"ours", "gateway"} :
       rf' = Accepted(h) /\ PassOnBoth(Accepted(h), "header", "frame")

\* What the first frame after a header, or the very first one, is kept for.
HoldBack(sync) == /\ rf.held = 0
                  /\ rf' = [Added(rf, sync) EXCEPT !.held = 1, !.sync = sync]
                  /\ Silent

\* The frame that was held back is handled before this one.  A transmission cannot
\* be entered late while one is held back.
Release(sync) ==
  LET x == Added(Added([rf EXCEPT !.held = 2, !.sync = FALSE], sync), rf.sync)
  IN /\ rf.held = 1
     /\ IF rf.state \in Active
          THEN /\ \E s \in Active : rf' = [x EXCEPT !.state = s]
               /\ PassOnBoth(rf, "frame", "frame")
          ELSE /\ rf' = IF rf.sync THEN Added([x EXCEPT !.state = "LATE_ENTRY"], sync)
                        ELSE [x EXCEPT !.state = IF sync THEN "LATE_ENTRY" ELSE @]
               /\ Silent

Frame(sync) ==
  LET x == Added(rf, sync)
  IN /\ rf.held = 2
     /\ \/ /\ rf.state \in Active
           /\ \E s \in Active : rf' = [x EXCEPT !.state = s]
           /\ PassOn(rf, "frame")
        \/ /\ rf.state \in {"LISTENING", "LATE_ENTRY"}
           /\ rf' = [x EXCEPT !.state = IF sync THEN "LATE_ENTRY" ELSE @]
           /\ Silent
        \/ /\ rf.state = "LATE_ENTRY"
           /\ ~sync
           /\ MayHaveHeader(x)
           /\ LateEntry

Data == /\ enabled
        /\ rf.state \notin {"REJECTED", "INVALID"}
        /\ \E sync \in BOOLEAN : HoldBack(sync) \/ Release(sync) \/ Frame(sync)
        /\ UNCHANGED <<duplex, enabled, net>>

writeModem == Lost \/ Header \/ EOT \/ Data

-----------------------------------------------------------------------------
(* writeNetwork: a frame of the network.                                   *)

Heeded == enabled /\ (rf.state \notin Active \/ net.state # "IDLE")

\* Frames of voice or of fast data; a stale one is voice from the past.
Frames == {"header", "eot", "stale", "AUDIO", "DATA"}

writeEndNet(x) == [x EXCEPT !.state = "IDLE", !.timer = Stop(@), !.dog = Stop(@), !.held = 0]

\* Voice or data.  What is lost between two frames of voice is filled with silence;
\* fast data goes on in any order it comes.
writeNetworkData(x, f) ==
  IF x.state = "IDLE" THEN [net |-> x, out |-> "nothing"]
  ELSE IF x.held = 0 THEN [net |-> [x EXCEPT !.held = 1], out |-> "nothing"]
  ELSE IF f = "stale" THEN [net |-> [x EXCEPT !.held = 2, !.state = "AUDIO"], out |-> "nothing"]
  ELSE [net |-> [x EXCEPT !.held = 2, !.state = f], out |-> "frame"]

\* What comes of a frame, and what the radios hear of it.
Outcome(f) ==
  LET x    == [net EXCEPT !.dog = Start(@)]
      idle == net.state = "IDLE"
  IN CASE f = "header" /\ idle ->
            [net |-> [x EXCEPT !.state = "AUDIO", !.timer = Start(@), !.held = 0],
             out |-> "header"]
       [] f = "eot" /\ ~idle -> [net |-> writeEndNet(x), out |-> "end"]
       [] f \notin {"header", "eot"} -> writeNetworkData(x, f)
       [] OTHER -> [net |-> x, out |-> "nothing"]

\* writeQueueHeaderNet, writeQueueDataNet, writeQueueEOTNet: nothing after the timeout.
writeQueueNet(r, timer, out) == IF out = "nothing" THEN {r}
                                ELSE IF HasExpired(timer) THEN {Cut(r, "net")}
                                ELSE {HearHeaded(r, "net", out), Cut(r, "net")}

-----------------------------------------------------------------------------
(* clock.                                                                  *)

\* An answer is a transmission of its own, in simplex too; to the radios it would be
\* another's if it came between the frames of one.
Answer(r) == {Hear(Hear(r, "reply", "header"), "reply", "end"), Cut(r, "reply")}

\* Not while the network transmits; the timeout is reset before.
sendAck(x, y, r) == IF "ack" \in y.replies /\ x.state = "IDLE" THEN Answer(r) ELSE {r}

\* Not while the network transmits, nor after the timeout.
sendError(x, timer, r) == IF x.state = "IDLE" /\ ~HasExpired(timer) THEN Answer(r) ELSE {r}

Replies(x, y, r, ms) ==
  LET acked  == HasExpired(Clock(y.ack, ms))
      failed == HasExpired(Clock(y.err, ms))
      timer  == IF acked THEN Stop(y.timer) ELSE y.timer
      first  == IF acked THEN sendAck(x, y, r) ELSE {r}
  IN IF failed THEN UNION {sendError(x, timer, s) : s \in first} ELSE first

Fired(t, ms) == IF HasExpired(Clock(t, ms)) THEN Stop(t) ELSE Clock(t, ms)

ClockRF(y, ms) ==
  [y EXCEPT !.ack = Fired(@, ms), !.err = Fired(@, ms),
            !.timer = IF HasExpired(Clock(y.ack, ms)) THEN Stop(@) ELSE Clock(@, ms)]

ClockNet(x, ms) ==
  LET y == [x EXCEPT !.timer = Clock(@, ms),
                     !.dog = IF x.state \in Active THEN Clock(@, ms) ELSE @]
  IN IF y.state \in Active /\ HasExpired(y.dog) THEN writeEndNet(y) ELSE y

\* When the network is over and a radio has begun meanwhile, the radios have not
\* heard all of it.
After(r, x) == IF x.state # "IDLE" \/ (net.state = "IDLE" /\ r # "net") THEN r
               ELSE IF rf.state \in Active THEN Cut(r, "net") ELSE Quiet(r, "net")

\* While the network is late its voice is filled with silence.
Filled(x, r) == {r} \cup IF x.state = "AUDIO" THEN writeQueueNet(r, x.timer, "frame") ELSE {}

ClockRest(x, y, r, ms) ==
  IF enabled
    THEN /\ rf' = ClockRF(y, ms)
         /\ net' = ClockNet(x, ms)
         /\ \E s \in Replies(x, y, After(r, x), ms) :
              \E t \in Filled(net', s) : radio' = After(t, net')
    ELSE rf' = y /\ net' = x /\ radio' = r

\* A header of the network takes the place of the answers.
ClockHeard(ms) == /\ Heeded
                  /\ \E f \in Frames : \E r \in writeQueueNet(radio, net.timer, Outcome(f).out) :
                       LET y == IF f = "header" /\ net.state = "IDLE"
                                  THEN [rf EXCEPT !.ack = Stop(@), !.err = Stop(@)] ELSE rf
                       IN ClockRest(Outcome(f).net, y, r, ms)
                  /\ UNCHANGED <<duplex, enabled, stream>>

ClockUnheard(ms) == /\ ClockRest(net, rf, radio, ms)
                    /\ UNCHANGED <<duplex, enabled, stream>>

NetHeard == \E ms \in 1 .. MaxElapse : ClockHeard(ms)

NetUnheard == \E ms \in 1 .. MaxElapse : ClockUnheard(ms)

clock == NetHeard \/ NetUnheard

enable(on) == /\ enabled' = on
              /\ IF enabled /\ ~on
                   THEN /\ rf' = [rf EXCEPT !.state = "LISTENING", !.timer = Stop(@)]
                        /\ net' = writeEndNet(net)
                        /\ radio' = "quiet"
                   ELSE UNCHANGED <<rf, net, radio>>
              /\ UNCHANGED <<duplex, stream>>

Next == writeModem \/ clock \/ \E on \in BOOLEAN : enable(on)

-----------------------------------------------------------------------------

\* Whoever is passed on has a header that was accepted; and a transmission is entered
\* late only when no frame is held back, for to enter one drops the frame held back
\* while it is being handled.
Coherent == /\ rf.state \in Active => rf.header # "other"
            /\ rf.state = "LATE_ENTRY" => rf.held = 2

=============================================================================
