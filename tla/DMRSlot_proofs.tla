---------------------------- MODULE DMRSlot_proofs ----------------------------
(***************************************************************************)
(* Proofs about DMRSlot, for superframes, timeouts and jitter buffers of   *)
(* any length: whoever transmits has a link control, the network is told   *)
(* voice only behind a header, the short LC shows the network's activity,  *)
(* and a radio that follows the network gets whole superframes.            *)
(***************************************************************************)
EXTENDS DMRSlot, TLAPS

-----------------------------------------------------------------------------
(* Link controls.                                                          *)

LEMMA LinkControlStep ==
  ASSUME LinkControlKnown, [Next]_vars
  PROVE  LinkControlKnown'
<1> USE DEF LinkControlKnown
<1>1. CASE writeModem
  <2> USE DEF netVars
  <2>1. CASE LostVoice \/ LostData \/ LostOther
    BY <2>1 DEF LostVoice, LostData, LostOther, Refused, writeEndRF
  <2>2. CASE VoiceRefused \/ DataRefused \/ CSBKRefused
    BY <2>2 DEF VoiceRefused, DataRefused, CSBKRefused, Refused
  <2>3. CASE RFVoiceHeader \/ RFVoicePIHeader \/ RFTerminator
    BY <2>3 DEF RFVoiceHeader, RFVoicePIHeader, RFTerminator, RFBegins, writeEndRF, rfVars
  <2>4. CASE RFDataHeader \/ RFCSBK \/ RFData
    BY <2>4 DEF RFDataHeader, RFCSBK, RFData, writeEndRF, rfVars
  <2>5. CASE RFVoiceSync \/ RFSyncUnknown
    BY <2>5 DEF RFVoiceSync, RFSyncUnknown
  <2>6. ASSUME NEW n \in Seqs \ {0}, RFVoice(n) \/ LateEntry(n) PROVE LinkControlKnown'
    BY <2>6 DEF RFVoice, LateEntry, RFBegins
  <2> QED
    BY <1>1, <2>1, <2>2, <2>3, <2>4, <2>5, <2>6 DEF writeModem
<1>2. CASE writeNetwork
  <2> USE DEF rfVars
  <2>1. CASE NetIgnored \/ NetVoiceHeader \/ NetVoicePIHeader
    BY <2>1 DEF NetIgnored, NetVoiceHeader, NetVoicePIHeader, NetBegins
  <2>2. CASE NetTerminator \/ NetDataHeader \/ NetData \/ NetStrayData
    BY <2>2 DEF NetTerminator, NetDataHeader, NetData, NetStrayData, writeEndNet
  <2>3. CASE NetVoiceSync \/ NetCSBK
    BY <2>3 DEF NetVoiceSync, NetCSBK, NetBegins
  <2>4. ASSUME NEW n \in Numbers, NetVoice(n) PROVE LinkControlKnown'
    BY <2>4 DEF NetVoice
  <2> QED
    BY <1>2, <2>1, <2>2, <2>3, <2>4 DEF writeNetwork
<1>3. ASSUME NEW ms \in 1 .. MaxElapse, clock(ms) PROVE LinkControlKnown'
  <2>1. CASE enabled
    <3>1. NetClock(ms)
      BY <1>3, <2>1 DEF clock
    <3>2. CASE netState # "IDLE" /\ HasExpired(Clock(networkWatchdog, ms))
      BY <1>3, <3>1, <3>2 DEF clock, NetClock, WatchdogBites, writeEndNet
    <3>3. CASE ~(netState # "IDLE" /\ HasExpired(Clock(networkWatchdog, ms)))
      BY <1>3, <3>1, <3>3 DEF clock, NetClock
    <3> QED
      BY <3>2, <3>3
  <2>2. CASE ~enabled
    BY <1>3, <2>2 DEF clock, netVars
  <2> QED
    BY <2>1, <2>2
<1>4. ASSUME NEW on \in BOOLEAN, enable(on) PROVE LinkControlKnown'
  BY <1>4 DEF enable, writeEndRF, writeEndNet, rfVars, netVars
<1>5. CASE UNCHANGED vars
  BY <1>5 DEF vars, rfVars, netVars
<1> QED
  BY <1>1, <1>2, <1>3, <1>4, <1>5 DEF Next

\* However a transmission was entered, refused, broken off or replaced by data: while
\* the slot is in it, m_rfLC or m_netLC points to its link control.
THEOREM TransmitterKnown == Spec => []LinkControlKnown
<1>1. Init => LinkControlKnown
  BY DEF Init, LinkControlKnown
<1>2. LinkControlKnown /\ [Next]_vars => LinkControlKnown'
  BY LinkControlStep
<1> QED
  BY <1>1, <1>2, PTL DEF Spec

-----------------------------------------------------------------------------
(* The short LC.                                                           *)

LEMMA ActivityStep ==
  ASSUME ActivityShown, [Next]_vars
  PROVE  ActivityShown'
<1> USE DEF ActivityShown
<1>1. CASE writeModem
  <2> USE DEF netVars, setShortLCUnlessNet, setShortLC
  <2>1. CASE LostVoice \/ LostData \/ LostOther
    BY <2>1 DEF LostVoice, LostData, LostOther, Refused
  <2>2. CASE VoiceRefused \/ DataRefused \/ CSBKRefused
    BY <2>2 DEF VoiceRefused, DataRefused, CSBKRefused, Refused
  <2>3. CASE RFVoiceHeader \/ RFVoicePIHeader \/ RFTerminator
    BY <2>3 DEF RFVoiceHeader, RFVoicePIHeader, RFTerminator
  <2>4. CASE RFDataHeader \/ RFCSBK \/ RFData
    BY <2>4 DEF RFDataHeader, RFCSBK, RFData
  <2>5. CASE RFVoiceSync \/ RFSyncUnknown
    BY <2>5 DEF RFVoiceSync, RFSyncUnknown
  <2>6. ASSUME NEW n \in Seqs \ {0}, RFVoice(n) \/ LateEntry(n) PROVE ActivityShown'
    BY <2>6 DEF RFVoice, LateEntry
  <2> QED
    BY <1>1, <2>1, <2>2, <2>3, <2>4, <2>5, <2>6 DEF writeModem
<1>2. CASE writeNetwork
  <2> USE DEF setShortLC
  <2>1. CASE NetIgnored \/ NetVoiceHeader \/ NetVoicePIHeader
    BY <2>1 DEF NetIgnored, NetVoiceHeader, NetVoicePIHeader, NetBegins
  <2>2. CASE NetTerminator \/ NetDataHeader \/ NetData \/ NetStrayData
    BY <2>2 DEF NetTerminator, NetDataHeader, NetData, NetStrayData, writeEndNet
  <2>3. CASE NetVoiceSync \/ NetCSBK
    BY <2>3 DEF NetVoiceSync, NetCSBK, NetBegins
  <2>4. ASSUME NEW n \in Numbers, NetVoice(n) PROVE ActivityShown'
    BY <2>4 DEF NetVoice
  <2> QED
    BY <1>2, <2>1, <2>2, <2>3, <2>4 DEF writeNetwork
<1>3. ASSUME NEW ms \in 1 .. MaxElapse, clock(ms) PROVE ActivityShown'
  <2>1. CASE enabled
    <3>1. NetClock(ms)
      BY <1>3, <2>1 DEF clock
    <3>2. CASE netState # "IDLE" /\ HasExpired(Clock(networkWatchdog, ms))
      BY <3>1, <3>2 DEF NetClock, WatchdogBites, writeEndNet
    <3>3. CASE ~(netState # "IDLE" /\ HasExpired(Clock(networkWatchdog, ms)))
      BY <3>1, <3>3 DEF NetClock
    <3> QED
      BY <3>2, <3>3
  <2>2. CASE ~enabled
    BY <1>3, <2>2 DEF clock, netVars
  <2> QED
    BY <2>1, <2>2
<1>4. ASSUME NEW on \in BOOLEAN, enable(on) PROVE ActivityShown'
  BY <1>4 DEF enable, writeEndNet, netVars
<1>5. CASE UNCHANGED vars
  BY <1>5 DEF vars, netVars
<1> QED
  BY <1>1, <1>2, <1>3, <1>4, <1>5 DEF Next

\* The radio's side never reports "no activity" over the network's transmission, and
\* the network's side only with its end.
THEOREM NetworkShown == Spec => []ActivityShown
<1>1. Init => ActivityShown
  BY DEF Init, ActivityShown
<1>2. ActivityShown /\ [Next]_vars => ActivityShown'
  BY ActivityStep
<1> QED
  BY <1>1, <1>2, PTL DEF Spec

-----------------------------------------------------------------------------
(* What the network is told.                                               *)

\* StreamHasHeader is not inductive: a voice frame goes out in AUDIO only, and a stream
\* that is told of then must be one that was begun.
StreamInv == /\ StreamHasHeader
             /\ rfState = "AUDIO" => stream # "closed"

LEMMA StreamStep ==
  ASSUME StreamInv, [Next]_vars
  PROVE  StreamInv'
<1> USE DEF StreamInv, StreamHasHeader
<1>1. CASE writeModem
  <2> USE DEF netVars, rfVars
  <2>1. CASE LostVoice \/ LostData \/ LostOther
    BY <2>1 DEF LostVoice, LostData, LostOther, Refused, writeEndRF
  <2>2. CASE VoiceRefused \/ DataRefused \/ CSBKRefused
    BY <2>2 DEF VoiceRefused, DataRefused, CSBKRefused, Refused
  <2>3. CASE RFVoiceHeader
    BY <2>3 DEF RFVoiceHeader, writeNetworkRF
  <2>4. CASE RFVoicePIHeader
    BY <2>4 DEF RFVoicePIHeader, writeNetworkRF
  <2>5. CASE RFTerminator
    BY <2>5 DEF RFTerminator, writeNetworkRF, writeEndRF
  <2>6. CASE RFDataHeader
    BY <2>6 DEF RFDataHeader, writeNetworkRF, writeEndRF
  <2>7. CASE RFCSBK
    BY <2>7 DEF RFCSBK, writeNetworkRF
  <2>8. CASE RFData
    BY <2>8 DEF RFData, writeNetworkRF, writeEndRF
  <2>9. CASE RFVoiceSync \/ RFSyncUnknown
    BY <2>9 DEF RFVoiceSync, RFSyncUnknown, writeNetworkRF
  <2>10. ASSUME NEW n \in Seqs \ {0}, RFVoice(n) PROVE StreamInv'
    BY <2>10 DEF RFVoice, writeNetworkRF
  <2>11. ASSUME NEW n \in Seqs \ {0}, LateEntry(n) PROVE StreamInv'
    BY <2>11 DEF LateEntry, writeNetworkRF
  <2> QED
    BY <1>1, <2>1, <2>2, <2>3, <2>4, <2>5, <2>6, <2>7, <2>8, <2>9, <2>10, <2>11 DEF writeModem
<1>2. CASE writeNetwork
  <2> USE DEF rfVars
  <2>1. CASE NetIgnored \/ NetVoiceHeader \/ NetVoicePIHeader
    BY <2>1 DEF NetIgnored, NetVoiceHeader, NetVoicePIHeader
  <2>2. CASE NetTerminator \/ NetDataHeader \/ NetData \/ NetStrayData
    BY <2>2 DEF NetTerminator, NetDataHeader, NetData, NetStrayData
  <2>3. CASE NetVoiceSync \/ NetCSBK
    BY <2>3 DEF NetVoiceSync, NetCSBK
  <2>4. ASSUME NEW n \in Numbers, NetVoice(n) PROVE StreamInv'
    BY <2>4 DEF NetVoice
  <2> QED
    BY <1>2, <2>1, <2>2, <2>3, <2>4 DEF writeNetwork
<1>3. ASSUME NEW ms \in 1 .. MaxElapse, clock(ms) PROVE StreamInv'
  BY <1>3 DEF clock
<1>4. ASSUME NEW on \in BOOLEAN, enable(on) PROVE StreamInv'
  BY <1>4 DEF enable, writeEndRF, rfVars
<1>5. CASE UNCHANGED vars
  BY <1>5 DEF vars, rfVars
<1> QED
  BY <1>1, <1>2, <1>3, <1>4, <1>5 DEF Next

\* Voice goes to the network behind a header, also where the header was made up in
\* late entry, and after data, refusals and the network's own transmissions.
THEOREM StreamsBegin == Spec => []StreamHasHeader
<1>1. Init => StreamInv
  BY DEF Init, StreamInv, StreamHasHeader
<1>2. StreamInv /\ [Next]_vars => StreamInv'
  BY StreamStep
<1>3. StreamInv => StreamHasHeader
  BY DEF StreamInv
<1> QED
  BY <1>1, <1>2, <1>3, PTL DEF Spec

-----------------------------------------------------------------------------
(* Superframes.                                                            *)

\* The places of a superframe follow each other in a circle.
LEMMA Around ==
  ASSUME NEW s \in Nat \ {0}, NEW a \in 0 .. s - 1
  PROVE  /\ a % s = a
         /\ (a + s) % s = a
         /\ (a + 1) % s = IF a = s - 1 THEN 0 ELSE a + 1
OBVIOUS

LEMMA Before ==
  ASSUME NEW s \in Nat \ {0}, NEW n \in 0 .. s - 1, n > 0
  PROVE  /\ (((n - 1) % s) + 1) % s = n
         /\ (((n - 1 + s) % s) + 1) % s = n
<1> DEFINE m == n - 1
<1>1. m \in 0 .. s - 1 /\ m # s - 1 /\ m + 1 = n
  OBVIOUS
<1> HIDE DEF m
<1>2. m % s = m /\ (m + s) % s = m /\ (m + 1) % s = m + 1
  BY <1>1, Around
<1>3. ((m % s) + 1) % s = n /\ (((m + s) % s) + 1) % s = n
  BY <1>1, <1>2
<1> QED
  BY <1>3 DEF m

LEMMA Divided ==
  ASSUME NEW s \in Nat, s > 0, NEW x \in Int
  PROVE  x = s * (x \div s) + (x % s)
BY Z3

LEMMA AroundAgain ==
  ASSUME NEW s \in Nat \ {0}, NEW x \in Nat
  PROVE  /\ (x + s) % s = x % s
         /\ x % s \in 0 .. s - 1
<1>1. x = s * (x \div s) + (x % s) /\ x + s = s * ((x + s) \div s) + ((x + s) % s)
  BY Divided
<1>2. (x + s) \div s = x \div s + 1
  OBVIOUS
<1>3. x \div s \in Int /\ x % s \in Int /\ (x + s) % s \in Int
  OBVIOUS
<1>4. s * (x \div s + 1) = s * (x \div s) + s
  BY <1>3
<1>5. x % s \in 0 .. s - 1
  OBVIOUS
<1> QED
  BY <1>1, <1>2, <1>3, <1>4, <1>5

LEMMA Lengths == /\ Superframe \in Nat \ {0} /\ Superframe > 3
                 /\ JitterSlots \in Nat /\ LastNumber \in Nat
BY SlotAssumption DEF SlotAssumption

\* insertSilence fills a gap exactly: the frame that follows what was made up is n.
LEMMA MissingFills ==
  ASSUME NEW last \in Seqs, NEW n \in Seqs
  PROVE  LET gap   == Missing(last, n)
             first == (last + 1) % Superframe
         IN /\ gap \in Nat /\ first \in Seqs
            /\ gap = 0 => n = first
            /\ gap > 0 => n = (((first + gap - 1) % Superframe) + 1) % Superframe
<1> DEFINE s == Superframe
           first == (last + 1) % s
<1>1. s \in Nat \ {0} /\ s > 3 /\ last \in 0 .. s - 1 /\ n \in 0 .. s - 1
  BY Lengths DEF Seqs
<1>2. first = IF last = s - 1 THEN 0 ELSE last + 1
  BY <1>1, Around
<1>3. first \in 0 .. s - 1
  BY <1>1, <1>2
<1> HIDE DEF first
<1>4. CASE n >= first
  <2>1. n - first \in 0 .. s - 1
    BY <1>1, <1>3, <1>4
  <2>2. Missing(last, n) = n - first
    BY <1>1, <2>1, Around DEF Missing, first
  <2>3. n - first > 0 => (((first + (n - first) - 1) % s) + 1) % s = n
    <3> SUFFICES ASSUME n - first > 0 PROVE (((first + (n - first) - 1) % s) + 1) % s = n
      OBVIOUS
    <3>1. n > 0 /\ first + (n - first) - 1 = n - 1
      BY <1>1, <1>3
    <3> QED
      BY <1>1, <3>1, Before
  <2> QED
    BY <1>1, <1>3, <2>1, <2>2, <2>3 DEF Seqs, first
<1>5. CASE n < first
  <2>1. n - first + s \in 0 .. s - 1 /\ n - first + s > 0
    BY <1>1, <1>3, <1>5
  <2>2. (n - first + s) % s = n - first + s
    BY <1>1, <2>1, Around
  <2>3. Missing(last, n) = n - first + s
    BY <2>2 DEF Missing, first
  <2>4. first + (n - first + s) - 1 = n + s - 1
    BY <1>1, <1>3
  <2>5. (((n + s - 1) % s) + 1) % s = n
    <3>1. CASE n = 0
      <4>1. n + s - 1 = s - 1 /\ s - 1 \in 0 .. s - 1
        BY <1>1, <3>1
      <4>2. (s - 1) % s = s - 1 /\ (s - 1 + 1) % s = 0
        BY <1>1, <4>1, Around
      <4> QED
        BY <3>1, <4>1, <4>2
    <3>2. CASE n > 0
      <4>1. n + s - 1 = (n - 1) + s
        BY <1>1
      <4> QED
        BY <1>1, <3>2, <4>1, Before
    <3> QED
      BY <1>1, <3>1, <3>2
  <2> QED
    BY <1>1, <1>3, <2>1, <2>3, <2>4, <2>5 DEF Seqs, first
<1> QED
  BY <1>1, <1>3, <1>4, <1>5

\* A jitter buffer of frames made up ends at the place netN is moved to.
LEMMA JitterFills ==
  ASSUME NEW n \in Seqs
  PROVE  /\ (n + JitterSlots) % Superframe \in Seqs
         /\ JitterSlots > 0 => (((n + 1) % Superframe) + JitterSlots - 1) % Superframe
                                 = (n + JitterSlots) % Superframe
<1> DEFINE s == Superframe
<1>1. s \in Nat \ {0} /\ n \in 0 .. s - 1 /\ JitterSlots \in Nat
  BY Lengths DEF Seqs
<1>2. (n + JitterSlots) % s \in 0 .. s - 1
  BY <1>1, AroundAgain
<1>3. (n + 1) % s = IF n = s - 1 THEN 0 ELSE n + 1
  BY <1>1, Around
<1>4. CASE n # s - 1
  BY <1>1, <1>2, <1>3, <1>4 DEF Seqs
<1>5. CASE n = s - 1 /\ JitterSlots > 0
  <2>1. ((JitterSlots - 1) + s) % s = (JitterSlots - 1) % s
    <3>1. JitterSlots - 1 \in Nat
      BY <1>1, <1>5
    <3> QED
      BY <1>1, <3>1, AroundAgain
  <2>2. JitterSlots - 1 + s = n + JitterSlots
    BY <1>1, <1>5
  <2> QED
    BY <1>1, <1>2, <1>3, <1>5, <2>1, <2>2 DEF Seqs
<1> QED
  BY <1>1, <1>2, <1>4, <1>5 DEF Seqs

\* The place of the last frame the network's transmission has put into the queue.
Last == IF netFrames = 0 THEN Superframe - 1 ELSE netN

\* What SuperframesWhole rests on: a radio that follows the network, and that nothing
\* has misled since the header, has heard what the slot takes to be its last frame, one
\* of the superframe; and nothing is heard once the transmission has timed out.
InStep == /\ netState = "AUDIO"
          /\ ~netTimeout
          /\ Last \in Seqs
          /\ radio.n = Last

Following(r) == r.phase = "voice" /\ r.fault = "none"

\* While the slot is idle a radio may still wait for voice: stray data has ended the
\* transmission without a word.  Nobody waits for voice during the network's data.
SuperframeInv == /\ SuperframesWhole
                 /\ netN \in Nat
                 /\ netState \notin {"IDLE", "AUDIO"} => radio.phase \notin {"voice", "garbled"}
                 /\ Following(radio) /\ netState # "IDLE" => InStep

LEMMA InitInStep == Init => SuperframeInv
BY DEF Init, SuperframeInv, SuperframesWhole, Following, Quiet

\* What a radio does leaves the network's side alone, and what it does to the radios at
\* most cuts them off.
LEMMA RadioStep ==
  ASSUME writeModem
  PROVE  UNCHANGED netVars /\ radio' \in {radio, Cut}
<1> USE DEF CutOff, writeQueueRF
<1>1. CASE LostVoice \/ LostData \/ LostOther
  BY <1>1 DEF LostVoice, LostData, LostOther, Refused
<1>2. CASE VoiceRefused \/ DataRefused \/ CSBKRefused
  BY <1>2 DEF VoiceRefused, DataRefused, CSBKRefused, Refused
<1>3. CASE RFVoiceHeader \/ RFVoicePIHeader \/ RFTerminator
  BY <1>3 DEF RFVoiceHeader, RFVoicePIHeader, RFTerminator, RFBegins
<1>4. CASE RFDataHeader \/ RFCSBK \/ RFData
  BY <1>4 DEF RFDataHeader, RFCSBK, RFData
<1>5. CASE RFVoiceSync \/ RFSyncUnknown
  BY <1>5 DEF RFVoiceSync, RFSyncUnknown
<1>6. ASSUME NEW n \in Seqs \ {0}, RFVoice(n) \/ LateEntry(n)
      PROVE  UNCHANGED netVars /\ radio' \in {radio, Cut}
  BY <1>6 DEF RFVoice, LateEntry, RFBegins
<1> QED
  BY <1>1, <1>2, <1>3, <1>4, <1>5, <1>6 DEF writeModem

\* A radio that does not follow does not begin to with a voice frame, and one that was
\* misled stays so.
LEMMA VoiceHeard ==
  ASSUME NEW r, NEW n, NEW count
  PROVE  LET h == Hear(r, Voice(n, count))
         IN /\ h.phase \in {"voice", "garbled"} =>
                 r.phase \in {"voice", "garbled"} /\ h.fault = r.fault
            /\ h.phase = "voice" => r.phase = "voice"
BY DEF Hear, Voice

\* A radio that nothing need be shown about.
Lost(r) == /\ r.phase = "garbled" => r.fault # "none"
           /\ ~Following(r)

LEMMA LostStays ==
  ASSUME NEW r, Lost(r), NEW n, NEW count
  PROVE  Lost(Hear(r, Voice(n, count)))
BY VoiceHeard DEF Lost, Following

LEMMA MisledLost ==
  ASSUME NEW r, r.phase = "garbled" => r.fault # "none",
         NEW why \in {"early", "number"}
  PROVE  Lost(Misled(r, why))
BY DEF Misled, Lost, Following

\* A voice frame: with what is made up before it, or withheld with it.
LEMMA FrameStep ==
  ASSUME SuperframeInv, NEW n \in Numbers, NEW place \in Seqs,
         netState = "AUDIO", netState' = "AUDIO", netTimeout' = netTimeout,
         NetVoiceFrame(n, place)
  PROVE  SuperframeInv'
<1> DEFINE last   == Last
           first  == (last + 1) % Superframe
           gap    == Missing(last, n)
           base   == IF n = place THEN radio ELSE Misled(radio, "number")
           filled == Hear(base, Voice(first, gap))
           after  == Hear(filled, Voice(place, 1))
<1>1. /\ netN' = n /\ netFrames' = 1 /\ n \in Nat
      /\ IF n = last THEN radio' = radio
         ELSE radio' \in {Cut, IF netTimeout THEN filled ELSE after}
  BY Lengths DEF NetVoiceFrame, Last, Numbers
<1>2. SuperframeInv' <=> Lost(radio') \/ (~netTimeout /\ n \in Seqs /\ radio'.n = n
                                         /\ Following(radio'))
  BY <1>1 DEF SuperframeInv, SuperframesWhole, Lost, Following, InStep, Last
<1>3. CASE radio' = Cut
  BY <1>2, <1>3 DEF Lost, Following, Cut
<1>4. CASE Lost(radio) /\ radio' # Cut
  <2>1. Lost(base)
    BY <1>4, MisledLost DEF Lost
  <2>2. Lost(filled) /\ Lost(after)
    <3> HIDE DEF base
    <3>1. Lost(filled)
      BY <2>1, LostStays
    <3> HIDE DEF filled
    <3> QED
      BY <3>1, LostStays
  <2> QED
    BY <1>1, <1>2, <1>4, <2>2
<1>5. CASE ~Lost(radio) /\ radio' # Cut
  <2>1. Following(radio) /\ ~netTimeout /\ last \in Seqs /\ radio.n = last
    BY <1>5 DEF SuperframeInv, SuperframesWhole, Lost, InStep
  <2>2. CASE n = last
    BY <1>1, <1>2, <2>1, <2>2
  <2>3. CASE n # last /\ n # place
    <3>1. Lost(base)
      BY <2>1, <2>3, MisledLost DEF Following
    <3>2. Lost(filled) /\ Lost(after)
      <4> HIDE DEF base
      <4>1. Lost(filled)
        BY <3>1, LostStays
      <4> HIDE DEF filled
      <4> QED
        BY <4>1, LostStays
    <3> QED
      BY <1>1, <1>2, <1>5, <2>1, <2>3, <3>2
  <2>4. CASE n # last /\ n = place
    <3>1. /\ gap \in Nat /\ first \in Seqs
          /\ gap = 0 => n = first
          /\ gap > 0 => n = (((first + gap - 1) % Superframe) + 1) % Superframe
      BY <2>1, <2>4, MissingFills
    <3>2. radio' = after /\ base = radio
      BY <1>1, <1>5, <2>1, <2>4
    <3>3. radio.phase = "voice" /\ radio.fault = "none" /\ radio.n = last
      BY <2>1 DEF Following
    <3>4. /\ filled.phase = "voice" /\ filled.fault = "none"
          /\ n = (filled.n + 1) % Superframe
      <4> HIDE DEF gap
      <4>1. CASE gap = 0
        <5>1. filled = radio
          BY <3>2, <4>1 DEF Hear, Voice
        <5> QED
          BY <3>1, <3>3, <4>1, <5>1
      <4>2. CASE gap > 0
        <5>1. filled = [phase |-> "voice", n |-> (first + gap - 1) % Superframe,
                        fault |-> "none"]
          BY <3>2, <3>3, <4>2 DEF Hear, Voice
        <5> QED
          BY <3>1, <4>2, <5>1
      <4> QED
        BY <3>1, <4>1, <4>2
    <3>5. (n + 1 - 1) % Superframe = n
      <4>1. n \in 0 .. Superframe - 1 /\ n + 1 - 1 = n
        BY <2>4 DEF Seqs
      <4> QED
        BY <4>1, Lengths, Around
    <3>6. after = [phase |-> "voice", n |-> n, fault |-> "none"]
      <4> HIDE DEF filled
      <4> QED
        BY <2>4, <3>4, <3>5 DEF Hear, Voice
    <3> QED
      BY <1>2, <2>1, <2>4, <3>2, <3>6 DEF Following
  <2> QED
    BY <2>2, <2>3, <2>4
<1> QED
  BY <1>3, <1>4, <1>5

LEMMA VoiceStep ==
  ASSUME SuperframeInv, NEW n \in Numbers, NetVoice(n)
  PROVE  SuperframeInv'
<1>1. netState = "AUDIO" /\ netState' = "AUDIO" /\ netTimeout' = netTimeout
  BY DEF NetVoice
<1>2. CASE n = 0 /\ NetVoiceFrame(0, 0)
  <2>1. 0 \in Seqs
    BY Lengths DEF Seqs
  <2> QED
    BY <1>1, <1>2, <2>1, FrameStep
<1>3. CASE NetVoiceFrame(n, IF n \in 1 .. Fragments THEN n ELSE Superframe - 1)
  <2> DEFINE place == IF n \in 1 .. Fragments THEN n ELSE Superframe - 1
  <2>1. place \in Seqs
    BY Lengths DEF Seqs, Fragments
  <2>2. NetVoiceFrame(n, place)
    BY <1>3
  <2> HIDE DEF place
  <2> QED
    BY <1>1, <2>1, <2>2, FrameStep
<1> QED
  BY <1>2, <1>3 DEF NetVoice

\* The other frames of the network.
LEMMA NetStep ==
  ASSUME SuperframeInv, writeNetwork
  PROVE  SuperframeInv'
<1> USE DEF SuperframeInv, SuperframesWhole, Following
<1> DEFINE begun == [phase |-> "voice", n |-> Superframe - 1, fault |-> "none"]
<1>0. Superframe - 1 \in Seqs /\ 0 \in Seqs /\ Superframe - 1 \in Nat
  BY Lengths DEF Seqs
<1>1. CASE NetIgnored
  BY <1>1 DEF NetIgnored, InStep, Last
<1>2. CASE NetVoiceHeader
  <2>1. radio' \in {Cut, begun}
    BY <1>2 DEF NetVoiceHeader, writeQueueNet, Hear, Frame
  <2> QED
    BY <1>0, <1>2, <2>1 DEF NetVoiceHeader, NetBegins, Cut, InStep, Last
<1>3. CASE NetVoicePIHeader
  <2>1. CASE netState = "AUDIO"
    <3>1. radio' \in {Cut, radio}
      BY <1>3, <2>1 DEF NetVoicePIHeader, writeQueueNet, Hear, Frame
    <3> QED
      BY <1>3, <2>1, <3>1 DEF NetVoicePIHeader, Cut, InStep, Last
  <2>2. CASE netState = "IDLE"
    <3>1. radio' \in {Cut, begun}
      BY <1>3, <2>2 DEF NetVoicePIHeader, writeQueueNet, Hear, Frame
    <3> QED
      BY <1>0, <1>3, <2>2, <3>1 DEF NetVoicePIHeader, NetBegins, Cut, InStep, Last
  <2>3. CASE netState \notin {"AUDIO", "IDLE"}
    <3>1. radio' \in {Cut, radio}
      BY <1>3, <2>3 DEF NetVoicePIHeader, CutOff, writeQueueNet, Hear, Frame
    <3>2. radio.phase \notin {"voice", "garbled"}
      BY <2>3
    <3> QED
      BY <1>3, <3>1, <3>2 DEF NetVoicePIHeader, NetBegins, Cut
  <2> QED
    BY <2>1, <2>2, <2>3
<1>4. CASE NetTerminator
  <2>1. radio'.phase \notin {"voice", "garbled"} \/ radio' = radio
    BY <1>4 DEF NetTerminator, writeQueueNet, Hear, Frame, Cut, Quiet
  <2> QED
    BY <1>4, <2>1 DEF NetTerminator, writeEndNet
<1>5. CASE NetDataHeader \/ NetData
  <2>1. radio'.phase \notin {"voice", "garbled"}
    BY <1>5 DEF NetDataHeader, NetData, writeQueueNet, Hear, Frame, Cut, Quiet
  <2>2. netN' \in Nat
    BY <1>5 DEF NetDataHeader, NetData, writeEndNet
  <2> QED
    BY <2>1, <2>2
<1>6. CASE NetStrayData
  BY <1>6 DEF NetStrayData, writeEndNet
<1>7. CASE NetVoiceSync
  <2>1. Hear(Hear(radio, Frame("header")), Voice(0, 1))
          = [phase |-> "voice", n |-> 0, fault |-> "none"]
    <3>1. Hear(radio, Frame("header")) = begun
      BY DEF Hear, Frame
    <3>2. (Superframe - 1 + 1) % Superframe = 0 /\ (0 + 1 - 1) % Superframe = 0
      BY Lengths, Around
    <3> QED
      BY <3>1, <3>2 DEF Hear, Voice
  <2> QED
    BY <1>0, <1>7, <2>1 DEF NetVoiceSync, NetBegins, Cut, InStep, Last
<1>8. CASE NetCSBK
  <2>1. radio' \in {radio, Cut}
    BY <1>8 DEF NetCSBK, writeQueueNet, Hear, Frame
  <2> QED
    BY <1>8, <2>1 DEF NetCSBK, Cut, InStep, Last
<1>9. ASSUME NEW n \in Numbers, NetVoice(n) PROVE SuperframeInv'
  BY <1>9, VoiceStep
<1> QED
  BY <1>1, <1>2, <1>3, <1>4, <1>5, <1>6, <1>7, <1>8, <1>9 DEF writeNetwork

\* What is made up for a late network.
LEMMA FilledStep ==
  ASSUME SuperframeInv, netState = "AUDIO", netState' = "AUDIO",
         NEW r, r.phase = "garbled" => r.fault # "none",
         Following(r) => r = radio /\ ~netTimeout',
         Filled(r)
  PROVE  SuperframeInv'
<1> DEFINE base == IF netFrames = 0 THEN Misled(r, "early") ELSE r
           made == Hear(base, Voice((netN + 1) % Superframe, JitterSlots))
<1>1. /\ radio' \in {Cut, made}
      /\ netN' = IF JitterSlots = 0 THEN netN ELSE (netN + JitterSlots) % Superframe
      /\ netFrames' = IF JitterSlots = 0 THEN netFrames ELSE 1
  BY DEF Filled
<1>2. netN' \in Nat /\ netN \in Nat
  <2>1. netN + JitterSlots \in Nat /\ netN \in Nat
    BY Lengths DEF SuperframeInv
  <2>2. (netN + JitterSlots) % Superframe \in 0 .. Superframe - 1
    BY <2>1, Lengths, AroundAgain
  <2> QED
    BY <1>1, <2>1, <2>2
<1>3. SuperframeInv' <=> Lost(radio') \/ (Following(radio') /\ InStep')
  BY <1>2 DEF SuperframeInv, SuperframesWhole, Lost, Following
<1>4. CASE radio' = Cut
  BY <1>3, <1>4 DEF Lost, Following, Cut
<1>5. CASE radio' = made /\ Lost(base)
  <2> HIDE DEF base
  <2> QED
    BY <1>3, <1>5, LostStays
<1>6. CASE radio' = made /\ ~Lost(base)
  <2>1. netFrames # 0 /\ base = r
    BY <1>6, MisledLost
  <2>2. Following(r)
    BY <1>6, <2>1 DEF Lost
  <2>3. r = radio /\ InStep /\ ~netTimeout'
    BY <2>2 DEF SuperframeInv
  <2>4. netN \in Seqs /\ r.n = netN
    BY <2>1, <2>3 DEF InStep, Last
  <2>5. CASE JitterSlots = 0
    <3>1. radio' = radio
      BY <1>6, <2>1, <2>3, <2>5 DEF Hear, Voice
    <3> QED
      BY <1>1, <1>3, <2>1, <2>2, <2>3, <2>4, <2>5, <3>1 DEF InStep, Last
  <2>6. CASE JitterSlots > 0
    <3>1. radio' = [phase |-> "voice",
                    n |-> (((netN + 1) % Superframe) + JitterSlots - 1) % Superframe,
                    fault |-> "none"]
      BY <1>6, <2>1, <2>2, <2>4, <2>6 DEF Hear, Voice, Following
    <3>2. radio'.n = netN' /\ netN' \in Seqs
      BY <1>1, <2>4, <2>6, <3>1, JitterFills
    <3>3. netFrames' = 1
      BY <1>1, <2>6
    <3> QED
      BY <1>3, <2>3, <3>1, <3>2, <3>3 DEF InStep, Last, Following
  <2> QED
    BY <2>5, <2>6, Lengths
<1> QED
  BY <1>1, <1>4, <1>5, <1>6

\* The clock: the timeout, the watchdog, and what is made up for a late network.
LEMMA ClockStep ==
  ASSUME SuperframeInv, NEW ms \in 1 .. MaxElapse, clock(ms)
  PROVE  SuperframeInv'
<1> USE DEF SuperframesWhole, Following
<1>1. CASE ~enabled
  BY <1>1 DEF SuperframeInv, clock, netVars, InStep, Last
<1>2. CASE enabled
  <2> DEFINE timer == Clock(netTimeoutTimer, ms)
             timedOut == netTimeout \/ HasExpired(timer)
             dog == Clock(networkWatchdog, ms)
             r == IF timedOut THEN Cut ELSE radio
  <2>1. NetClock(ms)
    BY <1>2 DEF clock
  <2>2. /\ r.phase = "garbled" => r.fault # "none"
        /\ r.phase \in {"voice", "garbled"} => ~timedOut /\ r = radio
        /\ netState \notin {"IDLE", "AUDIO"} => r.phase \notin {"voice", "garbled"}
    BY DEF Cut, SuperframeInv
  <2>3. CASE netState # "IDLE" /\ HasExpired(dog)
    <3>1. WatchdogBites(r, timedOut)
      BY <2>1, <2>3 DEF NetClock
    <3>2. radio'.phase # "garbled" \/ radio' = r
      BY <2>2, <3>1 DEF WatchdogBites, Hear, Frame, Cut, Quiet
    <3> QED
      BY <2>2, <3>1, <3>2 DEF SuperframeInv, WatchdogBites, writeEndNet
  <2>4. CASE ~(netState # "IDLE" /\ HasExpired(dog))
    <3>1. netTimeout' = timedOut /\ netState' = netState
      BY <2>1, <2>4 DEF NetClock
    <3>2. CASE radio' = r /\ netN' = netN /\ netFrames' = netFrames
      BY <2>2, <3>1, <3>2 DEF SuperframeInv, InStep, Last
    <3>3. CASE netState = "AUDIO" /\ Filled(r)
      <4>1. netState' = "AUDIO" /\ (Following(r) => r = radio /\ ~netTimeout')
        BY <2>2, <3>1, <3>3
      <4> HIDE DEF r, timedOut
      <4> QED
        BY <2>2, <3>3, <4>1, FilledStep
    <3>4. \/ radio' = r /\ netN' = netN /\ netFrames' = netFrames
          \/ netState = "AUDIO" /\ Filled(r)
      <4>1. CASE netState # "AUDIO"
        BY <2>1, <2>4, <4>1 DEF NetClock
      <4>2. CASE netState = "AUDIO"
        <5>1. PacketLate(r, ms)
          BY <2>1, <2>4, <4>2 DEF NetClock
        <5> QED
          BY <4>2, <5>1 DEF PacketLate
      <4> QED
        BY <4>1, <4>2
    <3> QED
      BY <3>2, <3>3, <3>4
  <2> QED
    BY <2>3, <2>4
<1> QED
  BY <1>1, <1>2

\* However the network's frames are lost, repeated, late or out of order, and whatever
\* the jitter buffer and a radio do meanwhile: a radio that follows is put out of step
\* by nothing but a frame the gateway has numbered wrongly, or frames made up behind a
\* header before the first one of its transmission.
THEOREM SuperframesKept == Spec => []SuperframesWhole
<1>1. SuperframeInv /\ [Next]_vars => SuperframeInv'
  <2> SUFFICES ASSUME SuperframeInv, [Next]_vars PROVE SuperframeInv'
    OBVIOUS
  <2>1. CASE writeModem
    BY <2>1, RadioStep DEF SuperframeInv, SuperframesWhole, Following, InStep, Last, netVars, Cut
  <2>2. CASE writeNetwork
    BY <2>2, NetStep
  <2>3. ASSUME NEW ms \in 1 .. MaxElapse, clock(ms) PROVE SuperframeInv'
    BY <2>3, ClockStep
  <2>4. ASSUME NEW on \in BOOLEAN, enable(on) PROVE SuperframeInv'
    <3>1. CASE enabled /\ ~on
      BY <2>4, <3>1
        DEF enable, CutOff, Cut, writeEndNet, SuperframeInv, SuperframesWhole, Following
    <3>2. CASE ~(enabled /\ ~on)
      BY <2>4, <3>2 DEF enable, netVars, SuperframeInv, SuperframesWhole, Following, InStep, Last
    <3> QED
      BY <3>1, <3>2
  <2>5. CASE UNCHANGED vars
    BY <2>5 DEF vars, netVars, SuperframeInv, SuperframesWhole, Following, InStep, Last
  <2> QED
    BY <2>1, <2>2, <2>3, <2>4, <2>5 DEF Next
<1>2. SuperframeInv => SuperframesWhole
  BY DEF SuperframeInv
<1> QED
  BY InitInStep, <1>1, <1>2, PTL DEF Spec

=============================================================================
