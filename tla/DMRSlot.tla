------------------------------ MODULE DMRSlot ------------------------------
(***************************************************************************)
(* CDMRSlot: one slot of the DMR control, between the radios (frames the   *)
(* modem has received), the network, and the radios again (m_queue).  The  *)
(* network, once transmitting, has the slot: what is received from a radio *)
(* meanwhile goes nowhere.                                                 *)
(*                                                                         *)
(* Frames are reduced to their kind and, for voice, their place in the     *)
(* superframe; what decoding and access control make of one is open.       *)
(* Three observers see what comes out: radio, who listens to the queue,    *)
(* stream, the network that is told, and activity, the short LC.           *)
(***************************************************************************)
EXTENDS Timers

CONSTANTS Superframe,    \* voice frames in a superframe (6): a first one, those with
                         \* the fragments of a link control, and one more
          JitterSlots,   \* frames inserted when the network is late
          JitterTime,    \* how late it must be
          Timeouts,      \* of a transmission; 0 for none
          WatchdogTime,  \* silence after which the network is given up (1500 ms)
          PacketTime,    \* how often lateness is looked at (50 ms)
          LastNumber,    \* the largest number a gateway can give a frame (15, four bits)
          MaxBlocks,     \* bound: blocks of a data transmission
          MaxElapse      \* bound: time between two calls of clock

ASSUME SlotAssumption == /\ Superframe \in Nat /\ Superframe > 3
                         /\ {WatchdogTime, PacketTime, MaxBlocks, JitterTime}
                              \subseteq Nat \ {0}
                         /\ {JitterSlots, LastNumber, MaxElapse} \cup Timeouts \subseteq Nat

Seqs == 0 .. Superframe - 1
Numbers == 0 .. LastNumber

VARIABLES duplex, enabled,
          rfState, netState,
          rfLC, netLC,           \* whether m_rfLC, m_netLC point to a link control
          lastrfN,
          embedded,              \* m_rfEmbeddedLC while it is being collected; what it
                                 \* holds at other times is reset before it is looked at
          rfFrames, netFrames,   \* blocks to come; for voice, whether any came
          netN,
          rfTimeoutTimer, netTimeoutTimer, rfTimeout, netTimeout,
          networkWatchdog, packetTimer, elapsed,
          radio, stream, activity

rfVars  == <<rfState, rfLC, lastrfN, embedded, rfFrames, rfTimeoutTimer, rfTimeout>>
netVars == <<netState, netLC, netFrames, netN, netTimeoutTimer, netTimeout,
             networkWatchdog, packetTimer, elapsed>>
vars    == <<duplex, enabled, rfVars, netVars, radio, stream, activity>>

NoFragments == [got |-> 0, valid |-> FALSE]

\* The radios: waiting for a header, or for the next one.
Quiet == [phase |-> "quiet", n |-> 0, fault |-> "none"]
Cut   == [phase |-> "cut", n |-> 0, fault |-> "none"]

Init == /\ duplex \in BOOLEAN
        /\ enabled = TRUE
        /\ rfState = "LISTENING" /\ netState = "IDLE"
        /\ rfLC = FALSE /\ netLC = FALSE
        /\ lastrfN = 0 /\ netN = 0
        /\ embedded = NoFragments
        /\ rfFrames = 0 /\ netFrames = 0
        /\ rfTimeoutTimer \in {SetTimeout(Unset, t) : t \in Timeouts}
        /\ netTimeoutTimer = rfTimeoutTimer
        /\ rfTimeout = FALSE /\ netTimeout = FALSE
        /\ networkWatchdog = SetTimeout(Unset, WatchdogTime)
        /\ packetTimer = SetTimeout(Unset, PacketTime)
        /\ elapsed = 0
        /\ radio = Quiet
        /\ stream = "closed"
        /\ activity = "none"

-----------------------------------------------------------------------------
(* What comes out.                                                         *)

\* A radio that listens to the slot.  It can follow the network's voice when a
\* header was sent and each frame is the next of its superframe.  Voice it has
\* no header for is "headless", voice out of step "garbled" until the next header,
\* end or data; where the slot lets frames go on purpose ("cut") it waits for the
\* next header.
Hear(r, f) ==
  CASE f.kind = "header" -> [phase |-> "voice", n |-> Superframe - 1, fault |-> "none"]
    [] f.kind = "voice" /\ f.count > 0 /\ r.phase = "voice" ->
         [phase |-> IF f.n = (r.n + 1) % Superframe THEN "voice" ELSE "garbled",
          n |-> (f.n + f.count - 1) % Superframe, fault |-> r.fault]
    [] f.kind = "voice" /\ f.count > 0 /\ r.phase = "quiet" ->
         [phase |-> "headless", n |-> 0, fault |-> "none"]
    [] f.kind \in {"end", "data"} -> Quiet
    [] OTHER -> r

\* What may put a radio that follows out of step, from here on until the next header.
Misled(r, why) == IF r.phase = "voice" THEN [phase |-> "voice", n |-> r.n, fault |-> why]
                  ELSE r

Frame(kind) == [kind |-> kind]
Voice(n, count) == [kind |-> "voice", n |-> n, count |-> count]

\* writeQueueNet: a frame for which there is no room is dropped
writeQueueNet(f) == radio' = Hear(radio, f) \/ radio' = Cut

\* writeQueueRF: nothing while the network transmits.  What a radio hears of
\* another radio is not followed: it has gaps the slot does not fill.
writeQueueRF == IF netState = "IDLE" THEN radio' = Cut ELSE UNCHANGED radio

\* m_queue.clear and writeDMRAbort cut off what was being heard
CutOff == radio' = Cut

\* writeNetworkRF, and the stream id CDMRNetwork::write gives the frame: a header,
\* a CSBK and a data header begin a new stream.  A voice transmission that began
\* while the network had the slot is "loose": it has no header, and what is left
\* of it when the network ends goes through.
writeNetworkRF(kind) ==
  IF netState # "IDLE"
    THEN stream' = IF kind = "header" THEN "loose" ELSE stream
  ELSE stream' = CASE kind = "header" -> "open"
                   [] kind = "end" -> "closed"
                   [] kind = "begin" -> IF stream = "closed" THEN "closed" ELSE "split"
                   [] kind = "voice" /\ stream = "closed" -> "headless"
                   [] OTHER -> stream

\* setShortLC
setShortLC(act) == activity' = act
\* Mutant: the end of a radio's transmission is reported while the network transmits.
setShortLCUnlessNet_Always(act) == setShortLC(act)

setShortLCUnlessNet(act) == IF netState = "IDLE" THEN setShortLC(act) ELSE UNCHANGED activity

-----------------------------------------------------------------------------
(* Ends.                                                                   *)

\* writeEndRF, without the dummy terminator of a lost transmission
writeEndRF == /\ rfState' = "LISTENING"
              /\ rfTimeoutTimer' = Stop(rfTimeoutTimer)
              /\ rfTimeout' = FALSE
              /\ rfFrames' = 0
              /\ rfLC' = FALSE
              /\ embedded' = NoFragments
              /\ UNCHANGED lastrfN

\* writeEndNet, without the dummy terminator
writeEndNet == /\ netState' = "IDLE"
               /\ networkWatchdog' = Stop(networkWatchdog)
               /\ netTimeoutTimer' = Stop(netTimeoutTimer)
               /\ packetTimer' = Stop(packetTimer)
               /\ netTimeout' = FALSE
               /\ netFrames' = 0
               /\ netN' = 0
               /\ netLC' = FALSE

-----------------------------------------------------------------------------
(* writeModem: a frame received from a radio.  A frame that cannot be      *)
(* decoded, or that the state has no use for, changes nothing.             *)

LostVoice == /\ enabled
             /\ rfState = "AUDIO"
             /\ IF ~rfTimeout /\ duplex THEN writeQueueRF ELSE UNCHANGED radio
             /\ setShortLCUnlessNet("none")
             /\ writeEndRF
             /\ UNCHANGED <<duplex, enabled, netVars, stream>>

LostData == /\ enabled
            /\ rfState = "DATA"
            /\ setShortLCUnlessNet("none")
            /\ writeEndRF
            /\ UNCHANGED <<duplex, enabled, netVars, radio, stream>>

\* A lost frame in any other state, and any header, CSBK or link control that
\* access control refuses: back to listening, whatever was going on.
Refused(states) == /\ enabled
                   /\ rfState \in states
                   /\ rfState' = "LISTENING"
                   /\ embedded' = NoFragments
                   /\ UNCHANGED <<duplex, enabled, rfLC, lastrfN, rfFrames, rfTimeoutTimer,
                                  rfTimeout, netVars, radio, stream, activity>>

LostOther    == Refused({"LISTENING", "LATE_ENTRY"})
VoiceRefused == Refused({"LISTENING", "LATE_ENTRY", "DATA"})
DataRefused  == Refused({"LISTENING", "LATE_ENTRY", "AUDIO"})
CSBKRefused  == Refused({"LISTENING", "LATE_ENTRY", "AUDIO", "DATA"})

\* The link control is known: what a header, and late entry, set up.  In duplex
\* the queue is emptied for the headers even when the network has it.
RFBegins == /\ rfLC' = TRUE
            /\ rfTimeoutTimer' = Start(rfTimeoutTimer)
            /\ rfTimeout' = FALSE
            /\ rfFrames' = 0
            /\ IF duplex THEN CutOff ELSE UNCHANGED radio

RFVoiceHeader == /\ enabled
                 /\ rfState # "AUDIO"
                 /\ RFBegins
                 /\ embedded' = NoFragments
                 /\ writeNetworkRF("header")
                 /\ rfState' = "AUDIO"
                 /\ setShortLCUnlessNet("voice")
                 /\ UNCHANGED <<duplex, enabled, lastrfN, netVars>>

\* With m_protect a privacy header is passed on like a voice frame; without it
\* nothing changes.
RFVoicePIHeader == /\ enabled
                   /\ rfState = "AUDIO"
                   /\ IF duplex THEN writeQueueRF ELSE UNCHANGED radio
                   /\ writeNetworkRF("voice")
                   /\ UNCHANGED <<duplex, enabled, rfVars, netVars, activity>>

RFTerminator == /\ enabled
                /\ rfState = "AUDIO"
                /\ IF rfTimeout THEN UNCHANGED <<radio, stream>>
                   ELSE /\ writeNetworkRF("end")
                        /\ IF duplex THEN writeQueueRF ELSE UNCHANGED radio
                /\ setShortLCUnlessNet("none")
                /\ writeEndRF
                /\ UNCHANGED <<duplex, enabled, netVars>>

\* A header with no blocks to follow is a transmission of its own.
RFDataHeader ==
  /\ enabled
  /\ rfState # "DATA"
  /\ IF duplex THEN writeQueueRF ELSE UNCHANGED radio
  /\ writeNetworkRF("begin")
  /\ \E blocks \in 0 .. MaxBlocks :
       IF blocks = 0
         THEN setShortLCUnlessNet("none") /\ writeEndRF
         ELSE /\ rfState' = "DATA"
              /\ rfLC' = TRUE
              /\ rfFrames' = blocks
              /\ setShortLCUnlessNet("data")
              /\ embedded' = NoFragments
              /\ UNCHANGED <<lastrfN, rfTimeoutTimer, rfTimeout>>
  /\ UNCHANGED <<duplex, enabled, netVars>>

RFCSBK == /\ enabled
          /\ IF duplex THEN writeQueueRF ELSE UNCHANGED radio
          /\ writeNetworkRF("begin")
          /\ \/ UNCHANGED activity
             \/ setShortLCUnlessNet("data")    \* a data preamble
          /\ UNCHANGED <<duplex, enabled, rfVars, netVars>>

RFData == /\ enabled
          /\ rfState = "DATA"
          /\ rfFrames > 0
          /\ IF duplex THEN writeQueueRF ELSE UNCHANGED radio
          /\ writeNetworkRF("data")
          /\ IF rfFrames = 1
               THEN setShortLCUnlessNet("none") /\ writeEndRF
               ELSE /\ rfFrames' = rfFrames - 1
                    /\ UNCHANGED <<rfState, rfLC, lastrfN, embedded, rfTimeoutTimer,
                                   rfTimeout, activity>>
          /\ UNCHANGED <<duplex, enabled, netVars>>

\* The first frame of a superframe; when nothing is known of the transmission it
\* belongs to, its link control is collected from here on.
RFVoiceSync == /\ enabled
               /\ rfState = "AUDIO"
               /\ lastrfN' = 0
               /\ IF rfTimeout THEN UNCHANGED <<radio, stream>>
                  ELSE /\ IF duplex THEN writeQueueRF ELSE UNCHANGED radio
                       /\ writeNetworkRF("voice")
               /\ UNCHANGED <<duplex, enabled, rfState, rfLC, embedded, rfFrames,
                              rfTimeoutTimer, rfTimeout, netVars, activity>>

RFSyncUnknown == /\ enabled
                 /\ rfState = "LISTENING"
                 /\ embedded' = NoFragments
                 /\ rfState' = "LATE_ENTRY"
                 /\ UNCHANGED <<duplex, enabled, rfLC, lastrfN, rfFrames, rfTimeoutTimer,
                                rfTimeout, netVars, radio, stream, activity>>

\* Only the frame that follows the last one is taken: after a gap, none until the
\* next superframe.
RFVoice(n) == /\ enabled
              /\ rfState = "AUDIO"
              /\ n = lastrfN + 1
              /\ lastrfN' = n
              /\ IF rfTimeout THEN UNCHANGED <<radio, stream>>
                 ELSE /\ writeNetworkRF("voice")
                      /\ IF duplex THEN writeQueueRF ELSE UNCHANGED radio
              /\ UNCHANGED <<duplex, enabled, rfState, rfLC, embedded, rfFrames,
                             rfTimeoutTimer, rfTimeout, netVars, activity>>

\* CDMREmbeddedData::addData: the fragments come in the frames after the first, all
\* but the last of which carry one, and count only in this order; what they add up
\* to may be damaged.
Fragments == Superframe - 2

addData(e, n) ==
  CASE n = 1 -> {[got |-> 1, valid |-> FALSE]}
    [] n \in 2 .. Fragments - 1 /\ e.got = n - 1 -> {[e EXCEPT !.got = n]}
    [] n = Fragments /\ e.got = n - 1 -> [got : {0}, valid : BOOLEAN]
    [] OTHER -> {e}

\* Mutant: no header is made up for the network.
LateEntry_NoHeader(n) ==
  /\ enabled
  /\ rfState = "LATE_ENTRY"
  /\ \E e \in addData(embedded, n) :
       IF ~e.valid
         THEN /\ embedded' = e
              /\ UNCHANGED <<rfState, rfLC, lastrfN, rfFrames, rfTimeoutTimer, rfTimeout,
                             radio, stream, activity>>
         ELSE /\ embedded' = NoFragments
              /\ RFBegins
              /\ writeNetworkRF("voice")
              /\ lastrfN' = n
              /\ rfState' = "AUDIO"
              /\ setShortLCUnlessNet("voice")
  /\ UNCHANGED <<duplex, enabled, netVars>>

\* A frame of a transmission whose header was missed.  When the link control is
\* complete, a header is made up and the frame goes out behind it - unless it has
\* the number of the last frame taken before, in the last transmission: then the
\* slot is still in late entry and makes up another header with the next frame.
LateEntry(n) ==
  /\ enabled
  /\ rfState = "LATE_ENTRY"
  /\ \E e \in addData(embedded, n) :
       \/ /\ embedded' = e
          /\ ~e.valid
          /\ UNCHANGED <<rfState, rfLC, lastrfN, rfFrames, rfTimeoutTimer, rfTimeout,
                         radio, stream, activity>>
       \/ /\ e.valid
          /\ rfState' = "LISTENING"       \* refused
          /\ embedded' = NoFragments
          /\ UNCHANGED <<rfLC, lastrfN, rfFrames, rfTimeoutTimer, rfTimeout, radio,
                         stream, activity>>
       \/ /\ e.valid
          /\ RFBegins
          /\ writeNetworkRF("header")
          /\ IF n = lastrfN
               THEN embedded' = e /\ UNCHANGED <<rfState, lastrfN, activity>>
               ELSE
                  /\ embedded' = NoFragments
                  /\ lastrfN' = n
                  /\ rfState' = "AUDIO"
                  /\ setShortLCUnlessNet("voice")
  /\ UNCHANGED <<duplex, enabled, netVars>>

writeModem == \/ LostVoice \/ LostData \/ LostOther
              \/ VoiceRefused \/ DataRefused \/ CSBKRefused
              \/ RFVoiceHeader \/ RFVoicePIHeader \/ RFTerminator
              \/ RFDataHeader \/ RFCSBK \/ RFData
              \/ RFVoiceSync \/ RFSyncUnknown
              \/ \E n \in Seqs \ {0} : RFVoice(n) \/ LateEntry(n)

-----------------------------------------------------------------------------
(* writeNetwork.  While a radio transmits and the network does not, the    *)
(* network is not heard.                                                   *)

Heeded == enabled /\ (rfState = "LISTENING" \/ netState # "IDLE")

\* Any frame restarts the watchdog, also one that is then ignored.
NetIgnored == /\ Heeded
              /\ networkWatchdog' = Start(networkWatchdog)
              /\ UNCHANGED <<duplex, enabled, rfVars, netState, netLC, netFrames, netN,
                             netTimeoutTimer, netTimeout, packetTimer, elapsed, radio,
                             stream, activity>>

\* What every beginning of a voice transmission does.  It leaves the packet timer
\* alone.
NetBegins == /\ netLC' = TRUE
             /\ netTimeoutTimer' = Start(netTimeoutTimer)
             /\ netTimeout' = FALSE
             /\ netState' = "AUDIO"
             /\ setShortLC("voice")

\* The packet timer is left alone: if it runs on from an older transmission (voice
\* that data took the place of), PacketLate may make frames up behind the header.
NetVoiceHeader == /\ Heeded
                  /\ netState # "AUDIO"
                  /\ networkWatchdog' = Start(networkWatchdog)
                  /\ NetBegins
                  /\ netFrames' = 0
                  /\ writeQueueNet(Frame("header"))
                  /\ UNCHANGED <<duplex, enabled, rfVars, netN, packetTimer, elapsed, stream>>

\* A privacy header may come first.  The header made up for it goes through
\* writeQueueRF, which refuses it if the network was transmitting data; the privacy
\* header itself is queued in any state.
NetVoicePIHeader ==
  /\ Heeded
  /\ networkWatchdog' = Start(networkWatchdog)
  /\ IF netState = "AUDIO"
       THEN /\ writeQueueNet(Frame("privacy"))
            /\ UNCHANGED <<netState, netLC, netFrames, netTimeoutTimer, netTimeout, activity>>
       ELSE /\ NetBegins
            /\ netFrames' = 0
            /\ IF netState = "IDLE" THEN writeQueueNet(Frame("header"))
               ELSE IF duplex THEN CutOff
               ELSE writeQueueNet(Frame("privacy"))
  /\ UNCHANGED <<duplex, enabled, rfVars, netN, packetTimer, elapsed, stream>>

NetTerminator == /\ Heeded
                 /\ netState = "AUDIO"
                 /\ IF netTimeout THEN UNCHANGED radio ELSE writeQueueNet(Frame("end"))
                 /\ setShortLC("none")
                 /\ writeEndNet
                 /\ UNCHANGED <<duplex, enabled, rfVars, elapsed, stream>>

NetDataHeader ==
  /\ Heeded
  /\ netState # "DATA"
  /\ writeQueueNet(Frame("data"))
  /\ \E blocks \in 0 .. MaxBlocks :
       IF blocks = 0
         THEN setShortLC("none") /\ writeEndNet
         ELSE /\ netFrames' = blocks
              /\ netState' = "DATA"
              /\ setShortLC("data")
              /\ networkWatchdog' = Start(networkWatchdog)
              /\ UNCHANGED <<netLC, netN, netTimeoutTimer, netTimeout, packetTimer>>
  /\ UNCHANGED <<duplex, enabled, rfVars, elapsed, stream>>

\* Mutant: the difference is taken the wrong way round.
Missing_Swapped(last, n) == (((last + 1) % Superframe) - n + Superframe) % Superframe

\* insertSilence: how many frames lie between the last one and this one, in a
\* superframe.  A repeated frame is the one case that is not counted as loss.
Missing(last, n) == (n - ((last + 1) % Superframe) + Superframe) % Superframe

\* A voice frame from the network, that a radio takes for the given place of the
\* superframe: what is missing before it is replaced, even when the transmission has
\* timed out and the frame itself is withheld.
NetVoiceFrame(n, place) ==
  LET last   == IF netFrames = 0 THEN Superframe - 1 ELSE netN
      filled == Hear(IF n = place THEN radio ELSE Misled(radio, "number"),
                     Voice((last + 1) % Superframe, Missing(last, n)))
  IN /\ IF n = last THEN UNCHANGED radio
        ELSE radio' \in {Cut, IF netTimeout THEN filled ELSE Hear(filled, Voice(place, 1))}
     /\ netN' = n
     /\ netFrames' = 1
     /\ packetTimer' = Start(packetTimer)
     /\ elapsed' = 0

\* A frame with the sync is the first one.  The others are what the gateway numbers
\* them, unchecked; on the air a number with no fragment of the link control
\* (CDMREmbeddedData::getData) is the last place.
NetVoice(n) == /\ Heeded
               /\ netState = "AUDIO"
               /\ networkWatchdog' = Start(networkWatchdog)
               /\ \/ n = 0 /\ NetVoiceFrame(0, 0)
                  \/ NetVoiceFrame(n, IF n \in 1 .. Fragments THEN n ELSE Superframe - 1)
               /\ UNCHANGED <<duplex, enabled, rfVars, netState, netLC, netTimeoutTimer,
                              netTimeout, stream, activity>>

\* Mutant: late entry does not set the link control up.
NetVoiceSync_NoLC == /\ Heeded
                     /\ netState = "IDLE"
                     /\ networkWatchdog' = Start(networkWatchdog)
                     /\ netState' = "AUDIO"
                     /\ setShortLC("voice")
                     /\ writeQueueNet(Frame("header"))
                     /\ UNCHANGED <<duplex, enabled, rfVars, netLC, netTimeoutTimer, netTimeout,
                                    netN, netFrames, packetTimer, elapsed, stream>>

\* The first frame of a superframe may begin a transmission; its number is the
\* first one's, so nothing is missing before it.
NetVoiceSync == /\ Heeded
                /\ netState = "IDLE"
                /\ networkWatchdog' = Start(networkWatchdog)
                /\ NetBegins
                /\ \/ radio' = Hear(Hear(radio, Frame("header")), Voice(0, 1))
                   \/ radio' = Cut
                /\ netN' = 0
                /\ netFrames' = 1
                /\ packetTimer' = Start(packetTimer)
                /\ elapsed' = 0
                /\ UNCHANGED <<duplex, enabled, rfVars, stream>>

\* CSBK, MBC header and MBC continuation: queued in any state; a preamble is
\* reported as data.
NetCSBK == /\ Heeded
           /\ networkWatchdog' = Start(networkWatchdog)
           /\ writeQueueNet(Frame("csbk"))
           /\ setShortLC("data") \/ UNCHANGED activity
           /\ UNCHANGED <<duplex, enabled, rfVars, netState, netLC, netFrames, netN,
                          netTimeoutTimer, netTimeout, packetTimer, elapsed, stream>>

NetData == /\ Heeded
           /\ netState = "DATA"
           /\ writeQueueNet(Frame("data"))
           /\ IF netFrames = 1
                THEN setShortLC("none") /\ writeEndNet
                ELSE /\ netFrames' = netFrames - 1
                     /\ networkWatchdog' = Start(networkWatchdog)
                     /\ UNCHANGED <<netState, netLC, netN, netTimeoutTimer, netTimeout,
                                    packetTimer, activity>>
           /\ UNCHANGED <<duplex, enabled, rfVars, elapsed, stream>>

\* A data frame that belongs to no data transmission ends whatever there is,
\* voice included, and without a terminator.
NetStrayData == /\ Heeded
                /\ netState # "DATA"
                /\ setShortLC("none")
                /\ writeEndNet
                /\ UNCHANGED <<duplex, enabled, rfVars, elapsed, radio, stream>>

writeNetwork == \/ NetIgnored
                \/ NetVoiceHeader \/ NetVoicePIHeader \/ NetTerminator
                \/ NetDataHeader \/ NetData \/ NetStrayData
                \/ NetVoiceSync \/ NetCSBK
                \/ \E n \in Numbers : NetVoice(n)

-----------------------------------------------------------------------------
(* clock.                                                                  *)

\* The network is given up: a terminator for voice, nothing for data.
WatchdogBites(r, timedOut) ==
  /\ IF netState = "AUDIO" /\ ~timedOut
       THEN radio' \in {Hear(r, Frame("end")), Cut}
       ELSE radio' = r
  /\ setShortLC("none")
  /\ writeEndNet
  /\ UNCHANGED elapsed

\* How long ago m_elapsed was started, as far as anybody asks: only while the
\* packet timer, started with it, is running.
ElapsedAfter(ms) == IF ~IsRunning(packetTimer) THEN elapsed
                    ELSE IF elapsed + ms >= JitterTime THEN JitterTime ELSE elapsed + ms

\* insertSilence(m_jitterSlots): made up from where the last voice frame was, also if
\* that was the last transmission's and this one has had none yet.
Filled(r) ==
  /\ radio' \in {Cut, Hear(IF netFrames = 0 THEN Misled(r, "early") ELSE r,
                           Voice((netN + 1) % Superframe, JitterSlots))}
  /\ netN' = IF JitterSlots = 0 THEN netN ELSE (netN + JitterSlots) % Superframe
  /\ netFrames' = IF JitterSlots = 0 THEN netFrames ELSE 1

\* Every time the packet timer runs out, the network may be late: then a whole
\* jitter buffer of frames is made up.
PacketLate(r, ms) ==
  IF ~HasExpired(Clock(packetTimer, ms))
    THEN /\ packetTimer' = Clock(packetTimer, ms)
         /\ elapsed' = ElapsedAfter(ms)
         /\ radio' = r
         /\ UNCHANGED <<netN, netFrames>>
    ELSE /\ packetTimer' = Start(packetTimer)
         /\ IF ElapsedAfter(ms) >= JitterTime
              THEN Filled(r) /\ elapsed' = 0
              ELSE /\ elapsed' = ElapsedAfter(ms)
                   /\ radio' = r
                   /\ UNCHANGED <<netN, netFrames>>

\* Mutant: the watchdog runs for voice only.
NetClock_VoiceOnly(ms) ==
  LET dog == Clock(networkWatchdog, ms)
  IN IF netState = "AUDIO" /\ HasExpired(dog)
       THEN WatchdogBites(radio, FALSE)
       ELSE /\ networkWatchdog' = IF netState = "AUDIO" THEN dog ELSE networkWatchdog
            /\ UNCHANGED <<netState, netLC, netN, netFrames, netTimeoutTimer, netTimeout,
                           packetTimer, elapsed, radio, activity>>

\* A transmission of the network that has timed out is withheld from the radios.
NetClock(ms) ==
  LET timer    == Clock(netTimeoutTimer, ms)
      timedOut == netTimeout \/ HasExpired(timer)
      dog      == Clock(networkWatchdog, ms)
      r        == IF timedOut THEN Cut ELSE radio
  IN IF netState # "IDLE" /\ HasExpired(dog)
       THEN WatchdogBites(r, timedOut)
       ELSE /\ networkWatchdog' = IF netState = "IDLE" THEN networkWatchdog ELSE dog
            /\ netTimeoutTimer' = timer
            /\ netTimeout' = timedOut
            /\ IF netState = "AUDIO" THEN PacketLate(r, ms)
               ELSE /\ elapsed' = ElapsedAfter(ms)
                    /\ radio' = r
                    /\ UNCHANGED <<packetTimer, netN, netFrames>>
            /\ UNCHANGED <<netState, netLC, activity>>

\* The timeouts only set flags: a transmission that is too long still ends when it
\* ends.  They run on while the slot is disabled, but were stopped with it.
clock(ms) ==
  /\ rfTimeoutTimer' = Clock(rfTimeoutTimer, ms)
  /\ rfTimeout' = (rfTimeout \/ HasExpired(rfTimeoutTimer'))
  /\ IF enabled THEN NetClock(ms) ELSE UNCHANGED <<netVars, radio, activity>>
  /\ UNCHANGED <<duplex, enabled, rfState, rfLC, lastrfN, embedded, rfFrames, stream>>

-----------------------------------------------------------------------------

\* enable: called by setMode.  A transmission is broken off without a word to the
\* radios or the network, and the short LC stays.
enable(on) ==
  /\ enabled' = on
  /\ IF enabled /\ ~on
       THEN /\ CutOff
            /\ writeEndRF
            /\ writeEndNet
            /\ UNCHANGED elapsed
       ELSE UNCHANGED <<radio, rfVars, netVars>>
  /\ UNCHANGED <<duplex, stream, activity>>

Next == \/ writeModem
        \/ writeNetwork
        \/ \E ms \in 1 .. MaxElapse : clock(ms)
        \/ \E on \in BOOLEAN : enable(on)

\* The loop clocks the control on every turn.
Spec == Init /\ [][Next]_vars /\ WF_vars(\E ms \in 1 .. MaxElapse : clock(ms))

-----------------------------------------------------------------------------
(* Properties.                                                             *)

\* Whoever is transmitting has a link control, which every frame, every end and
\* every made-up frame is built from (m_rfLC->..., m_netLC->...): whatever was
\* refused, broken off, disabled or replaced by data before.
LinkControlKnown == /\ rfState \in {"AUDIO", "DATA"} => rfLC
                    /\ netState = "AUDIO" => netLC

\* However the network's voice frames are lost, repeated, late or out of order, a
\* radio that heard the header gets whole superframes: every frame put into the
\* queue, received or made up, is the next one.  Two things break it.  "early": a
\* packet timer no end has stopped, since data took the place of voice, makes frames
\* up behind the header of the next voice, before its first frame, from where the old
\* voice was (clock after writeNetwork's voice header).  "number": the gateway gives a
\* frame a number the superframe does not have, or the first one's without its sync.
\* Either lasts until the next header.
SuperframesWhole == radio.phase = "garbled" => radio.fault # "none"

\* The network is told voice only behind a header, whichever way the slot came to
\* know the transmission.  Two streams are not judged: one the radio began while the
\* network had the slot ("loose"), and one that a CSBK or a data header of the same
\* transmission gives a new stream id in the middle ("split").
StreamHasHeader == stream # "headless"

\* What the modem announces in the short LC is not "no activity" while the network
\* transmits, although either side reports its beginnings and ends.
ActivityShown == netState # "IDLE" => activity # "none"

\* The network does not keep the slot without sending: a slot it never gives back
\* is one it never ceases to send frames for, whatever timers still run.
SlotReleased == []<>(netState = "IDLE") \/ []<><<writeNetwork>>_vars

=============================================================================
