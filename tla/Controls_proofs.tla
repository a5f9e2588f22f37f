--------------------------- MODULE Controls_proofs --------------------------
(***************************************************************************)
(* Proofs about the protocol controls side by side: whoever is passed on   *)
(* is known, the network is told and the radios hear whole transmissions,  *)
(* and every control keeps to the arbitration of Exchange.  For any        *)
(* timeouts, any number of pieces of a header and of slots of a batch, and *)
(* any time between two calls of clock.                                    *)
(***************************************************************************)
EXTENDS Controls, Sequences, WellFoundedInduction, TLAPS

\* A timer.  One that was given a timeout has at least one tick more.
Clocks == [timeout : Nat \ {1}, timer : Nat]

Passing == rf.state \in {"AUDIO", "DATA"}

\* Whom the radios follow when they hear r and the network is in state x: the network
\* while it has the channel, else a radio that is passed on and repeated; and they have
\* had its header, or know that they have not had all of it.
Followed(r, x, passing) ==
  r \in IF x.state # "IDLE" THEN {"net", "cut"}
        ELSE IF passing /\ duplex THEN {"rf", "cut"}
        ELSE {"quiet", "cut"}

-----------------------------------------------------------------------------
(* YSF.                                                                    *)

YSFType == /\ duplex \in BOOLEAN /\ enabled \in BOOLEAN
           /\ rf \in [state : {"LISTENING", "AUDIO", "DATA", "REJECTED"}, timer : Clocks,
                      known : SUBSET {"source", "dest"}, talker : BOOLEAN]
           /\ net \in [state : {"IDLE", "AUDIO"}, timer : Clocks, dog : Clocks, n : Nat]

\* The radios of YSF can follow a transmission from any frame of it.  The network's is
\* one as long as its timer runs.
YSFFollowed == /\ net.state = "IDLE" => net.timer.timer = 0
               /\ radio \in {"quiet", "cut", "rf", "net"}
               /\ radio = "rf" => Passing /\ duplex /\ net.state = "IDLE"
               /\ radio = "net" => net.state # "IDLE"

\* The timer of a radio's transmission runs for voice only, so that a transmission
\* that begins finds it stopped and is told to the network.
YSFTold == /\ stream # "headless"
           /\ Passing => stream = "open"
           /\ rf.state # "AUDIO" => rf.timer.timer = 0

YSFInv == YSFType /\ YSFFollowed /\ YSFTold /\ YSF!Coherent

LEMMA YSFTimers ==
  ASSUME NEW t \in Clocks, NEW n \in Nat
  PROVE  /\ YSF!SetTimeout(t, n) \in Clocks
         /\ YSF!Start(t) \in Clocks
         /\ YSF!Stop(t) \in Clocks /\ YSF!Stop(t).timer = 0
         /\ YSF!Clock(t, n) \in Clocks
         /\ t.timer = 0 => YSF!Clock(t, n).timer = 0
         /\ t.timer = 0 => ~YSF!HasExpired(t)
BY DEF Clocks, YSF!SetTimeout, YSF!Unset, YSF!Start, YSF!Stop, YSF!Clock, YSF!IsRunning,
       YSF!HasExpired

LEMMA YSFInit == ASSUME YSF!Init PROVE YSFInv
<1>1. PICK t \in Timeouts :
        /\ rf = [state |-> "LISTENING", timer |-> YSF!SetTimeout(YSF!Unset, t),
                 known |-> {}, talker |-> FALSE]
        /\ net = [state |-> "IDLE", timer |-> YSF!SetTimeout(YSF!Unset, t),
                  dog |-> YSF!SetTimeout(YSF!Unset, WatchdogTime), n |-> 0]
  BY DEF YSF!Init
<1>2. t \in Nat /\ WatchdogTime \in Nat
  BY ControlsAssumption DEF ControlsAssumption
<1>3. YSF!Unset \in Clocks /\ YSF!SetTimeout(YSF!Unset, t).timer = 0
  BY <1>2 DEF Clocks, YSF!Unset, YSF!SetTimeout
<1>4. YSFType
  BY <1>1, <1>2, <1>3, YSFTimers DEF YSFType, YSF!Init
<1> QED
  BY <1>1, <1>3, <1>4 DEF YSFInv, YSFFollowed, YSFTold, YSF!Coherent, Passing, YSF!Init

\* What comes of a frame of a radio.
LEMMA YSFPassOn ==
  ASSUME YSFInv, NEW f \in {"header", "frame", "end"}, YSF!PassOn(f),
         f = "header" => rf.timer.timer = 0,
         f # "header" => stream = "open"
  PROVE  /\ stream' # "headless"
         /\ f # "end" => stream' = "open"
         /\ radio' \in {"quiet", "cut", "rf", "net"}
         /\ radio' = "rf" => duplex /\ net.state = "IDLE" /\ f # "end"
         /\ radio' = "net" => net.state # "IDLE"
<1>1. stream' # "headless" /\ (f # "end" => stream' = "open")
  BY DEF YSFInv, YSFType, YSFTold, YSF!PassOn, YSF!writeNetwork, YSF!Tell, YSF!HasExpired,
         Clocks
<1>2. /\ radio' \in {"quiet", "cut", "rf", "net"}
      /\ radio' = "rf" => duplex /\ net.state = "IDLE" /\ f # "end"
      /\ radio' = "net" => net.state # "IDLE"
  BY DEF YSFInv, YSFFollowed, YSF!PassOn, YSF!writeQueueRF, YSF!Hear, YSF!Cut, YSF!Hushed
<1> QED
  BY <1>1, <1>2

LEMMA YSFRadio == ASSUME YSFInv, YSF!writeModem PROVE YSFInv'
<1> USE DEF YSFInv, YSFType
<1>0. UNCHANGED <<duplex, enabled, net>>
  BY DEF YSF!writeModem, YSF!Lost, YSF!processVWData, YSF!processDNData, YSF!processFRData,
         YSF!Handled, YSF!Header, YSF!Terminator, YSF!Frame, YSF!LateEntry
<1>1. CASE YSF!Lost
  <2>1. YSFType'
    BY <1>0, <1>1, YSFTimers DEF YSF!Lost, YSF!writeEndRF, YSF!Reset
  <2>2. rf'.state = "LISTENING" /\ rf'.timer.timer = 0
    BY <1>1, YSFTimers DEF YSF!Lost, YSF!writeEndRF, YSF!Reset, YSFTold
  <2>3. /\ radio' \in {"quiet", "cut", "net"} /\ stream' = stream
        /\ radio' = "net" => net.state # "IDLE"
    BY <1>1 DEF YSF!Lost, YSF!Quiet, YSF!Hushed, YSFFollowed
  <2> QED
    BY <1>0, <2>1, <2>2, <2>3 DEF YSFFollowed, YSFTold, YSF!Coherent, Passing
<1>2. ASSUME NEW kind \in {"VW", "DN", "FR"}, NEW known \in SUBSET {"source", "dest"},
             rf.state = "LISTENING", YSF!Begins(kind, known)
      PROVE  YSFInv'
  <2>1. /\ YSFType' /\ Passing' /\ rf'.talker
        /\ rf'.state # "AUDIO" => rf'.timer.timer = 0
    BY <1>0, <1>2, YSFTimers DEF YSF!Begins, YSF!On, YSFTold, Passing
  <2>2. YSF!PassOn("header") /\ rf.timer.timer = 0
    BY <1>2 DEF YSF!Begins, YSFTold
  <2>3. /\ stream' = "open" /\ radio' \in {"quiet", "cut", "rf", "net"}
        /\ radio' = "rf" => duplex /\ net.state = "IDLE"
        /\ radio' = "net" => net.state # "IDLE"
    BY <2>2, YSFPassOn
  <2> QED
    BY <1>0, <2>1, <2>3 DEF YSFFollowed, YSFTold, YSF!Coherent
<1>3. ASSUME NEW x \in [state : {"LISTENING", "REJECTED"}, timer : Clocks,
                        known : SUBSET {"source", "dest"}, talker : BOOLEAN],
             ~Passing, x.timer = rf.timer, rf' = x, YSF!Silent
      PROVE  YSFInv'
  BY <1>0, <1>3 DEF YSF!Silent, YSFFollowed, YSFTold, YSF!Coherent, Passing
<1>4. ASSUME NEW kind \in {"VW", "DN", "FR"}, YSF!Handled(kind)
      PROVE  YSFInv'
  <2>1. CASE YSF!Header(kind)
    BY <1>2, <1>3, <2>1, YSF!Both \in SUBSET {"source", "dest"}
       DEF YSF!Header, YSF!Rejected, YSF!processHeaderData, YSF!Both, Passing
  <2>2. CASE YSF!Terminator(kind)
    <3>1. CASE rf.state = "REJECTED"
      BY <1>3, <2>2, <3>1 DEF YSF!Terminator, YSF!Reset, YSF!On, Passing
    <3>2. CASE rf.state # "REJECTED"
      <4>1. /\ YSFType' /\ rf'.state = "LISTENING" /\ rf'.timer.timer = 0
        BY <1>0, <2>2, <3>2, YSFTimers DEF YSF!Terminator, YSF!writeEndRF, YSF!Reset
      <4>2. Passing /\ YSF!PassOn("end")
        BY <2>2, <3>2 DEF YSF!Terminator, YSF!On, Passing
      <4>3. /\ stream' # "headless" /\ radio' \in {"quiet", "cut", "net"}
            /\ radio' = "net" => net.state # "IDLE"
        BY <4>2, YSFPassOn DEF YSFTold
      <4> QED
        BY <1>0, <4>1, <4>3 DEF YSFFollowed, YSFTold, YSF!Coherent, Passing
    <3> QED
      BY <3>1, <3>2
  <2>3. CASE YSF!Frame(kind)
    <3>1. Passing /\ YSF!PassOn("frame") /\ rf' = rf
      BY <2>3 DEF YSF!Frame, YSF!On, Passing
    <3>2. /\ stream' = "open" /\ radio' \in {"quiet", "cut", "rf", "net"}
          /\ radio' = "rf" => duplex /\ net.state = "IDLE"
          /\ radio' = "net" => net.state # "IDLE"
      BY <3>1, YSFPassOn DEF YSFTold
    <3> QED
      BY <1>0, <3>1, <3>2 DEF YSFFollowed, YSFTold, YSF!Coherent, Passing
  <2> QED
    BY <1>4, <2>1, <2>2, <2>3 DEF YSF!Handled
<1>5. ASSUME NEW found \in SUBSET {"source", "dest"}, NEW group \in BOOLEAN,
             YSF!LateEntry(found, group)
      PROVE  YSFInv'
  <2> DEFINE known == rf.known \cup found
  <2>1. known \in SUBSET {"source", "dest"} /\ rf.state = "LISTENING"
    BY <1>5 DEF YSF!LateEntry
  <2>2. \/ YSF!Begins("DN", known)
        \/ rf' = [rf EXCEPT !.state = "REJECTED", !.known = known] /\ YSF!Silent
        \/ rf' = [rf EXCEPT !.known = known] /\ YSF!Silent
    BY <1>5 DEF YSF!LateEntry, YSF!Rejected
  <2> HIDE DEF known
  <2> QED
    BY <1>2, <1>3, <2>1, <2>2 DEF Passing
<1> QED
  BY <1>1, <1>4, <1>5 DEF YSF!writeModem, YSF!processVWData, YSF!processDNData,
     YSF!processFRData, YSF!processVDMode1Data, YSF!processVDMode2Data, YSF!Both

LEMMA YSFClock == ASSUME YSFInv, YSF!clock PROVE YSFInv'
<1> USE DEF YSFInv, YSFType
<1>1. PICK ms \in 1 .. MaxElapse : YSF!ClockHeard(ms) \/ YSF!ClockUnheard(ms)
  BY DEF YSF!clock, YSF!NetHeard, YSF!NetUnheard
<1>2. ms \in Nat
  BY ControlsAssumption DEF ControlsAssumption
<1>3. UNCHANGED <<duplex, enabled, stream>>
  BY <1>1 DEF YSF!ClockHeard, YSF!ClockUnheard
\* The clock after a frame that leaves the network at x and the radios at r.
<1>4. ASSUME NEW x \in [state : {"IDLE", "AUDIO"}, timer : Clocks, dog : Clocks, n : Nat],
             NEW r \in {"quiet", "cut", "rf", "net"},
             r = "rf" => Passing /\ duplex /\ net.state = "IDLE" /\ x = net,
             r = "net" => x.state # "IDLE",
             x.state = "IDLE" => x.timer.timer = 0,
             YSF!ClockRest(x, r, ms)
      PROVE  YSFInv'
  <2>1. /\ rf' \in [state : {"LISTENING", "AUDIO", "DATA", "REJECTED"}, timer : Clocks,
                    known : SUBSET {"source", "dest"}, talker : BOOLEAN]
        /\ rf'.state = rf.state /\ rf'.talker = rf.talker
        /\ rf.timer.timer = 0 => rf'.timer.timer = 0
    <3>1. /\ YSF!Clock(rf.timer, ms) \in Clocks
          /\ rf.timer.timer = 0 => YSF!Clock(rf.timer, ms).timer = 0
      BY <1>2, YSFTimers
    <3>2. rf' = rf \/ rf' = [rf EXCEPT !.timer = YSF!Clock(rf.timer, ms)]
      BY <1>4 DEF YSF!ClockRest
    <3> QED
      BY <3>1, <3>2
  <2>2. /\ YSF!ClockNet(x, ms) \in [state : {"IDLE", "AUDIO"}, timer : Clocks, dog : Clocks,
                                    n : Nat]
        /\ x.state = "IDLE" => YSF!ClockNet(x, ms).state = "IDLE"
        /\ YSF!ClockNet(x, ms).state = "IDLE" => YSF!ClockNet(x, ms).timer.timer = 0
    <3>1. /\ YSF!Clock(x.timer, ms) \in Clocks /\ YSF!Clock(x.dog, ms) \in Clocks
          /\ x.timer.timer = 0 => YSF!Clock(x.timer, ms).timer = 0
      BY <1>2, <1>4, YSFTimers
    <3>2. \A t \in Clocks : YSF!Stop(t) \in Clocks /\ YSF!Stop(t).timer = 0
      BY <1>2, YSFTimers
    <3> QED
      BY <1>4, <3>1, <3>2 DEF YSF!ClockNet, YSF!writeEndNet
  <2>3. /\ net' \in [state : {"IDLE", "AUDIO"}, timer : Clocks, dog : Clocks, n : Nat]
        /\ x.state = "IDLE" => net'.state = "IDLE"
        /\ net'.state = "IDLE" => net'.timer.timer = 0
    BY <1>4, <2>2 DEF YSF!ClockRest
  <2>4. /\ radio' \in {"quiet", "cut", "rf", "net"}
        /\ radio' = "rf" => r = "rf"
        /\ radio' = "net" => net'.state # "IDLE"
    BY <1>4, <2>3 DEF YSF!ClockRest, YSF!Quiet, YSF!Hushed
  <2>5. radio' = "rf" => Passing' /\ duplex' /\ net'.state = "IDLE"
    BY <1>3, <1>4, <2>1, <2>3, <2>4 DEF Passing
  <2> QED
    BY <1>3, <2>1, <2>3, <2>4, <2>5 DEF YSFFollowed, YSFTold, YSF!Coherent, Passing
<1>5. CASE YSF!ClockUnheard(ms)
  BY <1>4, <1>5 DEF YSF!ClockUnheard, YSFFollowed
<1>6. CASE YSF!ClockHeard(ms)
  <2>0. PICK f \in YSF!NetFrame :
          \E r \in IF YSF!Taken(f) THEN YSF!writeQueueNet(f) ELSE {radio} :
            YSF!ClockRest(YSF!Received(f), r, ms)
    BY <1>6 DEF YSF!ClockHeard
  <2>1. PICK r \in IF YSF!Taken(f) THEN YSF!writeQueueNet(f) ELSE {radio} :
          YSF!ClockRest(YSF!Received(f), r, ms)
    BY <2>0
  <2>2. f.n \in Nat /\ f.end \in BOOLEAN
    BY DEF YSF!NetFrame
  <2>3. radio # "rf"
    BY <1>6 DEF YSF!ClockHeard, YSF!Heeded, YSFFollowed, Passing
  <2>4. YSF!Received(f) \in [state : {"IDLE", "AUDIO"}, timer : Clocks, dog : Clocks, n : Nat]
    BY <1>2, <2>2, YSFTimers DEF YSF!Received, YSF!writeEndNet
  <2>7. YSF!Received(f).state = "IDLE" => YSF!Received(f).timer.timer = 0
    <3>1. /\ \A t \in Clocks : YSF!Stop(t).timer = 0 /\ YSF!Start(t) \in Clocks
      BY <1>2, YSFTimers
    <3> QED
      BY <2>2, <3>1 DEF YSF!Received, YSF!writeEndNet, YSFFollowed
  <2>5. CASE YSF!Taken(f)
    <3>1. r \in {"quiet", "cut", "net"} /\ (f.end => r # "net")
      BY <2>1, <2>2, <2>3, <2>5 DEF YSF!writeQueueNet, YSF!Hear, YSF!Cut, YSF!Hushed, YSFFollowed
    <3>2. ~f.end => YSF!Received(f).state # "IDLE"
      <4>1. net.state # "IDLE" \/ ~YSF!IsRunning(net.timer)
        BY DEF YSFFollowed, YSF!IsRunning
      <4> QED
        BY <2>2, <2>5, <4>1 DEF YSF!Received
    <3> QED
      BY <1>4, <2>1, <2>4, <2>7, <3>1, <3>2
  <2>6. CASE ~YSF!Taken(f)
    <3>1. r = radio /\ YSF!Received(f).state = net.state
      BY <2>1, <2>6 DEF YSF!Received
    <3> QED
      BY <1>4, <2>1, <2>3, <2>4, <2>7, <3>1 DEF YSFFollowed
  <2> QED
    BY <2>5, <2>6
<1> QED
  BY <1>1, <1>5, <1>6

LEMMA YSFStep == ASSUME YSFInv, YSF!Next PROVE YSFInv'
<1>1. ASSUME NEW on \in BOOLEAN, YSF!enable(on) PROVE YSFInv'
  <2>1. CASE enabled /\ ~on
    <3>1. /\ YSFType' /\ rf'.state = "LISTENING" /\ rf'.timer.timer = 0
          /\ net'.state = "IDLE" /\ net'.timer.timer = 0
      <4>1. \A t \in Clocks : YSF!Stop(t) \in Clocks /\ YSF!Stop(t).timer = 0
        BY YSFTimers, 0 \in Nat
      <4>2. rf' = YSF!writeEndRF /\ net' = YSF!writeEndNet(net) /\ enabled' \in BOOLEAN
            /\ duplex' = duplex
        BY <1>1, <2>1 DEF YSF!enable
      <4> QED
        BY <4>1, <4>2 DEF YSF!writeEndRF, YSF!Reset, YSF!writeEndNet, YSFInv, YSFType
    <3>2. radio' \in {"quiet", "cut"} /\ stream' = stream
      BY <1>1, <2>1 DEF YSF!enable, YSF!Quiet, YSF!Hushed, YSFInv, YSFFollowed
    <3> QED
      BY <3>1, <3>2 DEF YSFInv, YSFFollowed, YSFTold, YSF!Coherent, Passing
  <2>2. CASE ~(enabled /\ ~on)
    BY <1>1, <2>2 DEF YSF!enable, YSFInv, YSFType, YSFFollowed, YSFTold, YSF!Coherent, Passing
  <2> QED
    BY <2>1, <2>2
<1> QED
  BY <1>1, YSFRadio, YSFClock DEF YSF!Next

-----------------------------------------------------------------------------
(* P25.                                                                    *)

P25RF == [state : {"LISTENING", "AUDIO", "DATA"}, timer : Clocks, lc : BOOLEAN,
          ldu : {"none", "LDU1", "LDU2"}, pdu : Int]

P25Net == [state : {"IDLE", "AUDIO"}, timer : Clocks, dog : Clocks, lc : BOOLEAN,
           ldu1 : BOOLEAN, ldu2 : BOOLEAN, frames : {"none", "some", "fatal"}]

P25Type == duplex \in BOOLEAN /\ enabled \in BOOLEAN /\ rf \in P25RF /\ net \in P25Net

\* Once a unit has been followed by another the network has been told the first one,
\* unless there was no time left; and then there is none for the rest.
P25Told == /\ stream # "headless"
           /\ rf.ldu = "LDU2" => stream = "open" \/ P25!HasExpired(rf.timer)

\* A radio that is repeated between the frames of the network is heard with it.
P25Followed(r, x, passing) == \/ Followed(r, x, passing)
                              \/ r = "doubled" /\ x.state # "IDLE" /\ duplex

P25Inv == P25Type /\ P25Told /\ P25Followed(radio, net, rf.state = "AUDIO") /\ P25!Coherent

LEMMA P25Timers ==
  ASSUME NEW t \in Clocks, NEW n \in Nat
  PROVE  /\ P25!SetTimeout(t, n) \in Clocks
         /\ P25!Start(t) \in Clocks
         /\ P25!Stop(t) \in Clocks
         /\ P25!Clock(t, n) \in Clocks
         /\ P25!HasExpired(t) => P25!HasExpired(P25!Clock(t, n))
BY DEF Clocks, P25!SetTimeout, P25!Unset, P25!Start, P25!Stop, P25!Clock, P25!IsRunning,
       P25!HasExpired

LEMMA P25Init == ASSUME P25!Init PROVE P25Inv
<1>1. PICK t \in Timeouts :
        /\ rf = [state |-> "LISTENING", timer |-> P25!SetTimeout(P25!Unset, t), lc |-> FALSE,
                 ldu |-> "none", pdu |-> 0]
        /\ net = [state |-> "IDLE", timer |-> P25!SetTimeout(P25!Unset, t),
                  dog |-> P25!SetTimeout(P25!Unset, WatchdogTime), lc |-> FALSE,
                  ldu1 |-> FALSE, ldu2 |-> FALSE, frames |-> "none"]
  BY DEF P25!Init
<1>2. t \in Nat /\ WatchdogTime \in Nat
  BY ControlsAssumption DEF ControlsAssumption
<1>3. P25!Unset \in Clocks
  BY DEF Clocks, P25!Unset
<1>4. P25Type
  BY <1>1, <1>2, <1>3, P25Timers DEF P25Type, P25RF, P25Net, P25!Init
<1> QED
  BY <1>1, <1>4 DEF P25Inv, P25Told, P25Followed, Followed, P25!Coherent, P25!Init

\* What the radios hear of a frame of a radio, and when one is lost.
LEMMA P25Repeats ==
  ASSUME NEW p \in BOOLEAN, NEW r, P25Followed(r, net, p), NEW timer,
         NEW f \in {"header", "frame", "end"}, f = "header" \/ p,
         NEW s \in P25!writeQueueRF(r, timer, f)
  PROVE  P25Followed(s, net, f # "end")
BY DEF P25Followed, Followed, P25!writeQueueRF, P25!HearHeaded, P25!Hear, P25!Cut, P25!Hushed

LEMMA P25Stops ==
  ASSUME NEW p \in BOOLEAN, P25Followed(radio, net, p)
  PROVE  P25Followed(P25!StopsRepeating, net, FALSE)
BY DEF P25Followed, Followed, P25!StopsRepeating, P25!Quiet, P25!Hushed

LEMMA P25Alone ==
  ASSUME NEW r, P25Followed(r, net, FALSE), NEW s \in P25!Alone(r)
  PROVE  P25Followed(s, net, FALSE)
BY DEF P25Followed, Followed, P25!Alone, P25!HearHeaded, P25!Hear

LEMMA P25LeftOff ==
  ASSUME P25Inv
  PROVE  P25Followed(P25!LeftOff, net, FALSE)
BY P25Stops DEF P25Inv, P25Type, P25RF, P25!LeftOff, P25Followed, Followed

LEMMA P25Tells ==
  ASSUME P25Inv, NEW end \in BOOLEAN, P25!writeNetwork(end)
  PROVE  /\ stream' # "headless"
         /\ rf.ldu # "none" /\ ~end => stream' = "open" \/ P25!HasExpired(rf.timer)
BY DEF P25Inv, P25Type, P25RF, P25Told, P25!writeNetwork, P25!Tells, P25!Tell

LEMMA P25Radio == ASSUME P25Inv, P25!writeModem PROVE P25Inv'
<1> USE DEF P25Inv, P25Type
<1>0. UNCHANGED <<duplex, enabled, net>>
  BY DEF P25!writeModem, P25!LostVoice, P25!LostData, P25!Header, P25!LDU1Begins, P25!LDU,
         P25!TSDU, P25!Terminator, P25!PDU
<1>1. \A t \in Clocks : P25!Stop(t) \in Clocks /\ P25!Start(t) \in Clocks
  BY P25Timers, 0 \in Nat
\* The radio is not passed on, before or after.
<1>2. ASSUME rf' \in P25RF, rf'.state # "AUDIO", rf'.ldu = "none", stream' # "headless",
             P25Followed(radio', net, FALSE)
      PROVE  P25Inv'
  BY <1>0, <1>2 DEF P25Told, P25Followed, Followed, P25!Coherent
<1>3. CASE P25!LostVoice
  BY <1>1, <1>2, <1>3, P25Tells, P25Stops
     DEF P25!LostVoice, P25!Over, P25RF
<1>4. CASE P25!Terminator
  <2>1. \A s \in P25!writeQueueRF(radio, P25!Stop(rf.timer), "end") : P25Followed(s, net, FALSE)
    BY <1>4, P25Repeats DEF P25!Terminator
  <2> QED
    BY <1>1, <1>2, <1>4, <2>1, P25Tells DEF P25!Terminator, P25!Over, P25RF
<1>5. CASE P25!LostData
  <2>0. rf' = [rf EXCEPT !.state = "LISTENING", !.pdu = 0] /\ UNCHANGED <<stream, radio>>
    BY <1>5 DEF P25!LostData
  <2>1. /\ rf' \in P25RF /\ rf'.state = "LISTENING" /\ rf'.ldu = rf.ldu
        /\ rf'.timer = rf.timer
    <3>1. /\ rf'.state = "LISTENING" /\ rf'.ldu = rf.ldu /\ rf'.lc = rf.lc /\ rf'.pdu = 0
          /\ rf'.timer = rf.timer
      BY <2>0 DEF P25RF
    <3>2. \A n \in Int : [rf EXCEPT !.state = "LISTENING", !.pdu = n] \in P25RF
      BY DEF P25RF
    <3>3. 0 \in Int
      OBVIOUS
    <3>4. [rf EXCEPT !.state = "LISTENING", !.pdu = 0] \in P25RF
      BY ONLY <3>2, <3>3, Zenon
    <3> QED
      BY ONLY <2>0, <3>1, <3>4, Zenon
  <2> QED
    BY <1>0, <1>5, <2>0, <2>1 DEF P25!LostData, P25Told, P25!Coherent, P25!HasExpired, P25Followed, Followed
<1>6. CASE P25!Header
  <2>1. /\ rf' \in P25RF /\ rf'.state = "LISTENING" /\ rf'.ldu = rf.ldu
        /\ rf'.timer = rf.timer /\ UNCHANGED <<stream, radio>>
    BY <1>6 DEF P25!Header, P25RF
  <2> QED
    BY <1>0, <1>6, <2>1 DEF P25!Header, P25Told, P25!Coherent, P25!HasExpired, P25Followed, Followed
<1>7. CASE P25!LDU1Begins
  <2>1. PICK r \in P25!writeQueueRF(radio, P25!Start(rf.timer), "header") :
          radio' \in P25!writeQueueRF(r, P25!Start(rf.timer), "frame")
    BY <1>7 DEF P25!LDU1Begins
  <2>2. P25Followed(r, net, TRUE)
    BY <2>1, P25Repeats
  <2>3. P25Followed(radio', net, TRUE)
    BY <2>1, <2>2, P25Repeats
  <2>4. /\ rf' \in P25RF /\ rf'.state = "AUDIO" /\ rf'.ldu = "LDU1" /\ rf'.lc
        /\ stream' = stream
    BY <1>1, <1>7 DEF P25!LDU1Begins, P25RF
  <2> QED
    BY <1>0, <2>3, <2>4 DEF P25Told, P25!Coherent, P25Followed, Followed
<1>8. ASSUME NEW ldu \in {"LDU1", "LDU2"}, P25!LDU(ldu) PROVE P25Inv'
  <2>1. P25Followed(radio', net, TRUE)
    BY <1>8, P25Repeats DEF P25!LDU
  <2>2. stream' # "headless" /\ (stream' = "open" \/ P25!HasExpired(rf.timer))
    BY <1>8, P25Tells DEF P25!LDU, P25!Coherent
  <2>3. /\ rf' \in P25RF /\ rf'.state = "AUDIO" /\ rf'.ldu = ldu /\ rf'.lc = rf.lc
        /\ rf'.timer = rf.timer
    BY <1>8 DEF P25!LDU, P25RF
  <2> QED
    BY <1>0, <1>8, <2>1, <2>2, <2>3 DEF P25Told, P25!Coherent, P25!LDU, P25Followed, Followed, P25!HasExpired
<1>9. ASSUME NEW state \in {"LISTENING", "DATA"}, NEW pdu \in Int, P25!Abandoned(state, pdu),
             stream' = stream, radio' \in P25!Alone(P25!LeftOff) \cup {P25!LeftOff}
      PROVE  P25Inv'
  <2>1. P25Followed(radio', net, FALSE)
    BY <1>9, P25LeftOff, P25Alone
  <2> QED
    BY <1>2, <1>9, <2>1 DEF P25!Abandoned, P25RF, P25Told
<1>10. CASE P25!TSDU
  BY <1>9, <1>10 DEF P25!TSDU, P25RF
<1>11. CASE P25!PDU
  <2>1. MaxBlocks \in Nat
    BY ControlsAssumption DEF ControlsAssumption
  <2> QED
    BY <1>9, <1>11, <2>1 DEF P25!PDU, P25RF
<1> QED
  BY <1>3, <1>4, <1>5, <1>6, <1>7, <1>8, <1>10, <1>11 DEF P25!writeModem

\* Only the last record of an LDU2, and only to a network that is idle, brings a header;
\* to a network that is idle nothing else brings a frame.
LEMMA P25Units ==
  ASSUME P25Inv, NEW rec \in P25!Records
  PROVE  /\ P25!Builds(rec, "header") <=> rec = "last2" /\ net.state = "IDLE"
         /\ net.state = "IDLE" /\ rec \notin {"end", "last2"} => P25!Built(rec) = <<>>
         /\ rec = "end" \/ (rec = "last2" /\ net.state = "IDLE") => P25!Built(rec) # <<>>
BY DEF P25Inv, P25Type, P25Net, P25!Records, P25!Builds, P25!Built

\* What the radios follow when the frame that was taken leaves the network at x, and the
\* clock at y.
LEMMA P25Follows ==
  ASSUME NEW x, NEW y, NEW r,
         x.state = "IDLE" => y.state = "IDLE",
         x.state # "IDLE" => P25Followed(r, x, FALSE),
         x.state = "IDLE" /\ net.state # "IDLE" => r \in {"quiet", "net", "cut", "doubled"},
         x.state = "IDLE" /\ net.state = "IDLE" => P25Followed(r, net, rf.state = "AUDIO")
  PROVE  P25Followed(P25!After(r, y), y, rf.state = "AUDIO")
BY DEF P25Followed, Followed, P25!After, P25!Quiet, P25!Cut, P25!Hushed

LEMMA P25Clock == ASSUME P25Inv, P25!clock PROVE P25Inv'
<1> USE DEF P25Inv, P25Type
<1>0. CASE P25!StrayEnd
  BY <1>0 DEF P25!StrayEnd, P25Net, P25Told, P25!Coherent, P25!HasExpired, P25Followed, Followed
<1> SUFFICES ASSUME ~P25!StrayEnd PROVE P25Inv'
  BY <1>0
<1>1. PICK ms \in 1 .. MaxElapse : P25!ClockHeard(ms) \/ P25!ClockUnheard(ms)
  BY DEF P25!clock, P25!NetHeard, P25!NetUnheard
<1>2. ms \in Nat
  BY ControlsAssumption DEF ControlsAssumption
<1>3. UNCHANGED <<duplex, enabled, stream>>
  BY <1>1 DEF P25!ClockHeard, P25!ClockUnheard
<1>4. \A t \in Clocks : /\ P25!Start(t) \in Clocks /\ P25!Stop(t) \in Clocks
                        /\ P25!Clock(t, ms) \in Clocks
                        /\ P25!HasExpired(t) => P25!HasExpired(P25!Clock(t, ms))
  BY <1>2, P25Timers
<1>5. ASSUME NEW x \in P25Net, NEW r, P25!ClockRest(x, r, ms),
             x.state = "AUDIO" => x.lc,
             enabled \/ (x = net /\ r = radio),
             x.state # "IDLE" => P25Followed(r, x, FALSE),
             x.state = "IDLE" /\ net.state # "IDLE" => r \in {"quiet", "net", "cut", "doubled"},
             x.state = "IDLE" /\ net.state = "IDLE" => P25Followed(r, net, rf.state = "AUDIO")
      PROVE  P25Inv'
  <2>1. /\ rf' \in P25RF /\ rf'.state = rf.state /\ rf'.ldu = rf.ldu /\ rf'.lc = rf.lc
        /\ rf'.timer = rf.timer \/ rf'.timer = P25!Clock(rf.timer, ms)
    BY <1>4, <1>5 DEF P25!ClockRest, P25RF
  <2>2. P25!HasExpired(rf.timer) => P25!HasExpired(rf'.timer)
    BY <1>4, <2>1 DEF P25RF
  <2>3. /\ P25!ClockNet(x, ms) \in P25Net
        /\ x.state = "IDLE" => P25!ClockNet(x, ms).state = "IDLE"
        /\ P25!ClockNet(x, ms).state = "AUDIO" => P25!ClockNet(x, ms).lc
    BY <1>4, <1>5 DEF P25!ClockNet, P25!NetOver, P25Net
  <2>4. /\ net' \in P25Net
        /\ net'.state = "AUDIO" => net'.lc
    BY <1>5, <2>3 DEF P25!ClockRest
  <2>5. P25Followed(radio', net', rf.state = "AUDIO")
    <3>1. CASE enabled
      <4>1. net' = P25!ClockNet(x, ms) /\ radio' = P25!After(r, net')
        BY <1>5, <3>1 DEF P25!ClockRest
      <4>2. P25Followed(P25!After(r, net'), net', rf.state = "AUDIO")
        BY <1>5, <2>3, <4>1, P25Follows
      <4> QED
        BY <4>1, <4>2
    <3>2. CASE ~enabled
      BY <1>5, <3>2 DEF P25!ClockRest
    <3> QED
      BY <3>1, <3>2
  <2> QED
    BY <1>3, <2>1, <2>2, <2>4, <2>5 DEF P25Told, P25!Coherent, P25Followed, Followed
<1>6. CASE P25!ClockUnheard(ms)
  BY <1>5, <1>6 DEF P25!ClockUnheard, P25!Coherent, P25Followed, Followed
<1>7. CASE P25!ClockHeard(ms)
  <2>1. PICK rec \in P25!Records : \E r \in P25!HeardFrom(rec) :
          P25!ClockRest(P25!Received(rec), r, ms)
    BY <1>7 DEF P25!ClockHeard
  <2>2. PICK r \in P25!HeardFrom(rec) : P25!ClockRest(P25!Received(rec), r, ms)
    BY <2>1
  <2>3. enabled /\ (net.state = "IDLE" => rf.state # "AUDIO")
    BY <1>7 DEF P25!ClockHeard, P25!Heeded
  <2>4. /\ P25!Received(rec) \in P25Net
        /\ P25!Received(rec).state = IF rec = "end" THEN "IDLE"
                                     ELSE IF rec = "last2" THEN "AUDIO" ELSE net.state
        /\ P25!Received(rec).state = "AUDIO" => P25!Received(rec).lc
    <3>1. P25!Builds(rec, "ldu1") \in BOOLEAN /\ P25!Builds(rec, "ldu2") \in BOOLEAN
      BY DEF P25!Builds
    <3>2. P25!Builds(rec, "header") <=> rec = "last2" /\ net.state = "IDLE"
      BY P25Units
    <3> QED
      BY <1>4, <3>1, <3>2 DEF P25!Received, P25!NetOver, P25Net, P25!Records, P25!Coherent
  <2>5. /\ P25!Received(rec).state # "IDLE" => P25Followed(r, P25!Received(rec), FALSE)
        /\ P25!Received(rec).state = "IDLE" /\ net.state # "IDLE" =>
             r \in {"quiet", "net", "cut", "doubled"}
        /\ P25!Received(rec).state = "IDLE" /\ net.state = "IDLE" =>
             P25Followed(r, net, rf.state = "AUDIO")
    <3>1. CASE net.state = "IDLE" /\ rec \notin {"end", "last2"}
      BY <2>2, <2>3, <2>4, <3>1, P25Units DEF P25!HeardFrom
    <3>2. CASE net.state = "IDLE" /\ rec = "last2"
      BY <2>2, <2>3, <2>4, <3>2, P25Units
         DEF P25!HeardFrom, P25!HearHeaded, P25!Hear, P25!Cut, P25!Hushed, P25Followed, Followed
    <3>3. CASE net.state = "IDLE" /\ rec = "end"
      <4>1. ~P25!Builds(rec, "header") /\ radio \in {"quiet", "cut"}
        BY <2>3, <3>3, P25Units DEF P25Followed, Followed
      <4>2. r \in {"quiet", "cut"}
        BY <2>2, <3>3, <4>1
           DEF P25!HeardFrom, P25!HearHeaded, P25!Hear, P25!Cut, P25!Hushed
      <4> QED
        BY <2>3, <2>4, <3>3, <4>2 DEF P25Followed, Followed
    <3>4. CASE net.state # "IDLE"
      <4>1. ~P25!Builds(rec, "header") /\ radio \in {"net", "cut", "doubled"}
        BY <3>4, P25Units DEF P25Followed, Followed
      <4>2. /\ r \in {"quiet", "net", "cut", "doubled"} /\ (rec # "end" => r # "quiet")
            /\ r = "doubled" => duplex
        BY <2>2, <3>4, <4>1
           DEF P25Followed, Followed, P25!HeardFrom, P25!HearHeaded, P25!Hear, P25!Cut, P25!Hushed
      <4> QED
        BY <2>3, <2>4, <3>4, <4>2 DEF P25Followed, Followed
    <3> QED
      BY <3>1, <3>2, <3>3, <3>4
  <2> QED
    BY <1>5, <2>2, <2>3, <2>4, <2>5
<1> QED
  BY <1>1, <1>6, <1>7

LEMMA P25Step == ASSUME P25Inv, P25!Next PROVE P25Inv'
<1>1. ASSUME NEW on \in BOOLEAN, P25!enable(on) PROVE P25Inv'
  <2>1. CASE enabled /\ ~on
    <3>1. \A t \in Clocks : P25!Stop(t) \in Clocks
      BY P25Timers, 0 \in Nat
    <3>2. /\ rf' = P25!Over /\ net' = P25!NetOver(net) /\ enabled' \in BOOLEAN
          /\ duplex' = duplex /\ stream' = stream /\ radio' = "quiet"
      BY <1>1, <2>1 DEF P25!enable
    <3>3. /\ rf' \in P25RF /\ rf'.state = "LISTENING" /\ rf'.ldu = "none"
          /\ net' \in P25Net /\ net'.state = "IDLE"
      BY <3>1, <3>2 DEF P25!Over, P25!NetOver, P25Inv, P25Type, P25RF, P25Net
    <3> QED
      BY <3>2, <3>3 DEF P25Inv, P25Type, P25Told, P25!Coherent, P25Followed, Followed
  <2>2. CASE ~(enabled /\ ~on)
    BY <1>1, <2>2 DEF P25!enable, P25Inv, P25Type, P25Told, P25!Coherent, P25Followed, Followed, P25!HasExpired
  <2> QED
    BY <2>1, <2>2
<1> QED
  BY <1>1, P25Radio, P25Clock DEF P25!Next

-----------------------------------------------------------------------------
(* NXDN.                                                                   *)

NXDNRF == [state : {"LISTENING", "REJECTED", "AUDIO", "DATA"}, timer : Clocks,
           mask : SUBSET Int, call : BOOLEAN]

NXDNNet == [state : {"IDLE", "AUDIO", "DATA"}, timer : Clocks, dog : Clocks,
            mask : SUBSET Int]

NXDNType == duplex \in BOOLEAN /\ enabled \in BOOLEAN /\ rf \in NXDNRF /\ net \in NXDNNet

\* The timer of a radio's transmission runs for voice only, so that a transmission
\* that begins finds it stopped and is told to the network.
NXDNTold == /\ stream # "headless"
            /\ Passing => stream = "open"
            /\ rf.state # "AUDIO" => rf.timer.timer = 0

\* A message of the network while nobody transmits is heard for itself.
NXDNFollowed(r, x, passing) == \/ Followed(r, x, passing)
                               \/ r = "stray" /\ x.state = "IDLE" /\ ~(passing /\ duplex)

NXDNInv == NXDNType /\ NXDNTold /\ NXDNFollowed(radio, net, Passing) /\ NXDN!Coherent

LEMMA NXDNTimers ==
  ASSUME NEW t \in Clocks, NEW n \in Nat
  PROVE  /\ NXDN!SetTimeout(t, n) \in Clocks
         /\ NXDN!Start(t) \in Clocks
         /\ NXDN!Stop(t) \in Clocks /\ NXDN!Stop(t).timer = 0
         /\ NXDN!Clock(t, n) \in Clocks
         /\ t.timer = 0 => NXDN!Clock(t, n).timer = 0
         /\ t.timer = 0 => ~NXDN!HasExpired(t)
         /\ ~NXDN!HasExpired(NXDN!Start(t))
BY DEF Clocks, NXDN!SetTimeout, NXDN!Unset, NXDN!Start, NXDN!Stop, NXDN!Clock,
       NXDN!IsRunning, NXDN!HasExpired

LEMMA NXDNInit == ASSUME NXDN!Init PROVE NXDNInv
<1>1. PICK t \in Timeouts :
        /\ rf = [state |-> "LISTENING", timer |-> NXDN!SetTimeout(NXDN!Unset, t), mask |-> {},
                 call |-> FALSE]
        /\ net = [state |-> "IDLE", timer |-> NXDN!SetTimeout(NXDN!Unset, t),
                  dog |-> NXDN!SetTimeout(NXDN!Unset, WatchdogTime), mask |-> {}]
  BY DEF NXDN!Init
<1>2. t \in Nat /\ WatchdogTime \in Nat
  BY ControlsAssumption DEF ControlsAssumption
<1>3. NXDN!Unset \in Clocks /\ NXDN!SetTimeout(NXDN!Unset, t).timer = 0
  BY <1>2 DEF Clocks, NXDN!Unset, NXDN!SetTimeout
<1>4. NXDNType
  BY <1>1, <1>2, <1>3, NXDNTimers DEF NXDNType, NXDNRF, NXDNNet, NXDN!Init
<1> QED
  BY <1>1, <1>3, <1>4 DEF NXDNInv, NXDNTold, NXDNFollowed, Followed, NXDN!Coherent, Passing, NXDN!Init

\* What the radios hear of a frame of a radio, and when one is lost.
LEMMA NXDNRepeats ==
  ASSUME NEW p \in BOOLEAN, NEW r, NXDNFollowed(r, net, p), NEW timer,
         NEW f \in {"header", "frame", "end"}, f = "header" \/ p,
         NEW s \in NXDN!writeQueueRF(r, timer, f)
  PROVE  NXDNFollowed(s, net, f # "end")
BY DEF NXDNFollowed, Followed, NXDN!writeQueueRF, NXDN!HearHeaded, NXDN!Hear, NXDN!Cut, NXDN!Hushed

LEMMA NXDNStops ==
  ASSUME NEW p \in BOOLEAN, NXDNFollowed(radio, net, p)
  PROVE  NXDNFollowed(NXDN!StopsRepeating, net, FALSE)
BY DEF NXDNFollowed, Followed, NXDN!StopsRepeating, NXDN!Quiet, NXDN!Hushed

\* A frame that is passed on: any of a transmission, or the header of one.
LEMMA NXDNPassOn ==
  ASSUME NXDNInv, NEW f \in {"header", "frame", "end"}, f = "header" \/ Passing,
         NXDN!PassOn(f)
  PROVE  /\ stream' # "headless" /\ (f # "end" => stream' = "open")
         /\ NXDNFollowed(radio', net, f # "end")
<1>1. stream' # "headless" /\ (f # "end" => stream' = "open")
  BY DEF NXDNInv, NXDNType, NXDNRF, NXDNTold, Passing, NXDN!PassOn, NXDN!writeNetwork,
         NXDN!Tell, NXDN!HasExpired, Clocks
<1>2. Passing \in BOOLEAN
  BY DEF Passing
<1> QED
  BY <1>1, <1>2, NXDNRepeats DEF NXDNInv, NXDN!PassOn

LEMMA NXDNRadio == ASSUME NXDNInv, NXDN!writeModem PROVE NXDNInv'
<1> USE DEF NXDNInv, NXDNType
<1>0. UNCHANGED <<duplex, enabled, net>>
  BY DEF NXDN!writeModem, NXDN!Lost, NXDN!VCall, NXDN!TxRel, NXDN!Voice, NXDN!VoiceFACCH1,
         NXDN!VoiceSACCH, NXDN!DataBegins, NXDN!DataFrame
<1>1. \A t \in Clocks : /\ NXDN!Stop(t) \in Clocks /\ NXDN!Stop(t).timer = 0
                        /\ NXDN!Start(t) \in Clocks
  BY NXDNTimers, 0 \in Nat
<1>2. Passing \in BOOLEAN
  BY DEF Passing
\* The radio is not passed on any more.
<1>3. ASSUME rf' \in NXDNRF, rf'.state \in {"LISTENING", "REJECTED"}, rf'.timer.timer = 0,
             stream' # "headless", NXDNFollowed(radio', net, FALSE)
      PROVE  NXDNInv'
  BY <1>0, <1>3 DEF NXDNTold, NXDNFollowed, Followed, NXDN!Coherent, Passing
\* It is passed on now.
<1>4. ASSUME rf' \in NXDNRF, rf'.state \in {"AUDIO", "DATA"}, rf'.call,
             rf'.state = "DATA" => rf'.timer.timer = 0,
             stream' = "open", NXDNFollowed(radio', net, TRUE)
      PROVE  NXDNInv'
  BY <1>0, <1>4 DEF NXDNTold, NXDNFollowed, Followed, NXDN!Coherent, Passing
<1>5. ASSUME ~Passing, NXDN!Silent, rf' \in NXDNRF,
             rf'.state \in {"LISTENING", "REJECTED"}, rf'.timer = rf.timer
      PROVE  NXDNInv'
  <2>1. NXDNFollowed(radio, net, FALSE)
    BY <1>5 DEF NXDNFollowed, Followed
  <2>2. rf'.timer.timer = 0
    BY <1>5 DEF NXDNTold, Passing
  <2> QED
    BY <1>3, <1>5, <2>1, <2>2 DEF NXDN!Silent, NXDNTold
<1>6. /\ NXDN!writeEndRF \in NXDNRF /\ NXDN!writeEndRF.state = "LISTENING"
      /\ NXDN!writeEndRF.timer.timer = 0
      /\ NXDN!Listening \in NXDNRF /\ NXDN!Listening.state = "LISTENING"
      /\ NXDN!Listening.timer = rf.timer
  BY <1>1 DEF NXDN!writeEndRF, NXDN!Listening, NXDNRF
<1>7. CASE NXDN!Lost
  <2>1. /\ rf' \in NXDNRF /\ rf'.state = "LISTENING" /\ rf'.timer.timer = 0
        /\ radio' = NXDN!StopsRepeating /\ stream' = stream
    BY <1>6, <1>7 DEF NXDN!Lost, NXDNTold
  <2> QED
    BY <1>2, <1>3, <2>1, NXDNStops DEF NXDNTold
<1>8. CASE NXDN!VCall
  <2>1. CASE /\ rf.state = "LISTENING" /\ NXDN!Silent
             /\ rf' = [rf EXCEPT !.state = "REJECTED"]
    <3>1. rf' \in NXDNRF /\ rf'.state = "REJECTED" /\ rf'.timer = rf.timer
      BY <2>1 DEF NXDNRF
    <3> QED
      BY <1>5, <2>1, <3>1 DEF Passing
  <2>2. CASE /\ NXDN!PassOn("header")
             /\ rf' = [rf EXCEPT !.state = "AUDIO", !.timer = NXDN!Start(@), !.call = TRUE]
    <3>1. rf' \in NXDNRF /\ rf'.state = "AUDIO" /\ rf'.call
      BY <1>1, <2>2 DEF NXDNRF
    <3>2. stream' = "open" /\ NXDNFollowed(radio', net, TRUE)
      BY <2>2, NXDNPassOn
    <3> QED
      BY <1>4, <3>1, <3>2
  <2> QED
    BY <1>8, <2>1, <2>2 DEF NXDN!VCall
<1>9. CASE NXDN!TxRel
  <2>1. CASE rf.state = "AUDIO"
    <3>1. rf' = NXDN!writeEndRF /\ NXDN!PassOn("end") /\ Passing
      BY <1>9, <2>1 DEF NXDN!TxRel, Passing
    <3>2. stream' # "headless" /\ NXDNFollowed(radio', net, FALSE)
      BY <3>1, NXDNPassOn
    <3> QED
      BY <1>3, <1>6, <3>1, <3>2
  <2>2. CASE rf.state # "AUDIO"
    <3>1. rf' = NXDN!Listening /\ radio' = NXDN!StopsRepeating /\ stream' = stream
      BY <1>9, <2>2 DEF NXDN!TxRel
    <3> QED
      BY <1>2, <1>3, <1>6, <2>2, <3>1, NXDNStops DEF NXDNTold
  <2> QED
    BY <2>1, <2>2
<1>10. ASSUME NXDN!PassOn("frame"), Passing, rf' = rf PROVE NXDNInv'
  <2>1. stream' = "open" /\ NXDNFollowed(radio', net, TRUE)
    BY <1>10, NXDNPassOn
  <2> QED
    BY <1>4, <1>10, <2>1 DEF NXDNTold, NXDN!Coherent, Passing
<1>11. CASE NXDN!Voice
  BY <1>10, <1>11 DEF NXDN!Voice, Passing
<1>12. ASSUME NEW mask \in SUBSET Int, rf.state = "LISTENING", NXDN!LateEntry(mask)
       PROVE  NXDNInv'
  <2>1. CASE rf' = [rf EXCEPT !.state = "REJECTED", !.mask = mask] /\ NXDN!Silent
    <3>1. rf' \in NXDNRF /\ rf'.state = "REJECTED" /\ rf'.timer = rf.timer
      BY <1>12, <2>1 DEF NXDNRF
    <3> QED
      BY <1>5, <1>12, <2>1, <3>1 DEF Passing
  <2>2. CASE /\ rf' = [rf EXCEPT !.state = "AUDIO", !.timer = NXDN!Start(@), !.mask = mask,
                                 !.call = TRUE]
             /\ NXDN!PassOnLate(NXDN!Start(rf.timer))
    <3>1. rf' \in NXDNRF /\ rf'.state = "AUDIO" /\ rf'.call
      BY <1>1, <2>2 DEF NXDNRF
    <3>2. ~NXDN!HasExpired(NXDN!Start(rf.timer))
      BY NXDNTimers, 0 \in Nat DEF NXDNRF
    <3>3. stream' = "open"
      BY <2>2, <3>2 DEF NXDN!PassOnLate, NXDN!writeNetwork, NXDN!Tell
    <3>4. PICK r \in NXDN!writeQueueRF(radio, NXDN!Start(rf.timer), "header") :
            radio' \in NXDN!writeQueueRF(r, NXDN!Start(rf.timer), "frame")
      BY <2>2 DEF NXDN!PassOnLate
    <3>5. NXDNFollowed(r, net, TRUE)
      BY <1>2, <3>4, NXDNRepeats
    <3>6. NXDNFollowed(radio', net, TRUE)
      BY <3>4, <3>5, NXDNRepeats
    <3> QED
      BY <1>4, <3>1, <3>3, <3>6
  <2> QED
    BY <1>12, <2>1, <2>2 DEF NXDN!LateEntry
<1>13. CASE NXDN!VoiceFACCH1
  BY <1>12, <1>13 DEF NXDN!VoiceFACCH1, NXDNRF
<1>14. ASSUME NEW piece \in 1 .. Pieces, NEW called \in BOOLEAN, NXDN!VoiceSACCH(piece, called)
       PROVE  NXDNInv'
  <2>1. NXDN!Collected(rf.mask, piece, called) \in SUBSET Int
    BY DEF NXDN!Collected, NXDNRF
  <2>2. \/ NXDN!LateEntry(NXDN!Collected(rf.mask, piece, called))
        \/ /\ rf' = [rf EXCEPT !.mask = NXDN!Collected(rf.mask, piece, called)]
           /\ NXDN!Silent
    BY <1>14 DEF NXDN!VoiceSACCH
  <2>3. rf.state = "LISTENING"
    BY <1>14 DEF NXDN!VoiceSACCH
  <2>4. ASSUME NEW mask \in SUBSET Int, rf' = [rf EXCEPT !.mask = mask]
        PROVE  rf' \in NXDNRF /\ rf'.state = rf.state /\ rf'.timer = rf.timer
    BY <2>4 DEF NXDNRF
  <2> QED
    BY <1>5, <1>12, <2>1, <2>2, <2>3, <2>4 DEF Passing
<1>15. CASE NXDN!DataBegins
  <2>1. NXDN!PassOn("header") /\ rf' = [rf EXCEPT !.state = "DATA", !.call = TRUE]
        /\ rf.state = "LISTENING"
    BY <1>15 DEF NXDN!DataBegins
  <2>2. stream' = "open" /\ NXDNFollowed(radio', net, TRUE)
    BY <2>1, NXDNPassOn
  <2>3. rf' \in NXDNRF /\ rf'.state = "DATA" /\ rf'.call /\ rf'.timer.timer = 0
    BY <2>1 DEF NXDNRF, NXDNTold
  <2> QED
    BY <1>4, <2>2, <2>3
<1>16. CASE NXDN!DataFrame
  <2>1. CASE NXDN!PassOn("frame") /\ UNCHANGED rf
    BY <1>10, <1>16, <2>1 DEF NXDN!DataFrame, Passing
  <2>2. CASE NXDN!PassOn("end") /\ rf' = NXDN!writeEndRF
    <3>1. Passing
      BY <1>16 DEF NXDN!DataFrame, Passing
    <3>2. stream' # "headless" /\ NXDNFollowed(radio', net, FALSE)
      BY <2>2, <3>1, NXDNPassOn
    <3> QED
      BY <1>3, <1>6, <2>2, <3>2
  <2> QED
    BY <1>16, <2>1, <2>2 DEF NXDN!DataFrame
<1> QED
  BY <1>7, <1>8, <1>9, <1>11, <1>13, <1>14, <1>15, <1>16 DEF NXDN!writeModem

\* What the radios follow when the frame that was taken leaves the network at x, and the
\* clock at y.
LEMMA NXDNFollows ==
  ASSUME NEW x, NEW y, NEW r,
         x.state = "IDLE" => y.state = "IDLE",
         x.state # "IDLE" => r \in {"net", "cut"},
         x.state = "IDLE" /\ net.state # "IDLE" => r \in {"quiet", "net", "cut"},
         x.state = "IDLE" /\ net.state = "IDLE" => NXDNFollowed(r, net, Passing)
  PROVE  NXDNFollowed(NXDN!After(r, y), y, Passing)
BY DEF NXDNFollowed, Followed, Passing, NXDN!After, NXDN!Quiet, NXDN!Cut, NXDN!Hushed

\* A frame that brings nothing leaves the network idle, or not, as it was; one that is
\* heard is the header of a transmission that begins, or of one that is there.
LEMMA NXDNOutcome ==
  ASSUME NXDNInv, NEW f \in NXDN!Frames
  PROVE  /\ NXDN!Outcome(f).net \in NXDNNet
         /\ NXDN!Outcome(f).out \in {"nothing", "stray", "header", "frame", "end"}
         /\ NXDN!Outcome(f).out = "nothing" => NXDN!Outcome(f).net.state = net.state
         /\ NXDN!Outcome(f).out = "stray" =>
              net.state = "IDLE" /\ NXDN!Outcome(f).net.state = "IDLE"
         /\ NXDN!Outcome(f).out = "header" =>
              net.state = "IDLE" /\ NXDN!Outcome(f).net.state # "IDLE"
         /\ NXDN!Outcome(f).out = "frame" =>
              net.state # "IDLE" /\ NXDN!Outcome(f).net.state # "IDLE"
         /\ NXDN!Outcome(f).out = "end" =>
              net.state # "IDLE" /\ NXDN!Outcome(f).net.state = "IDLE"
<1> USE DEF NXDNInv, NXDNType
<1>1. \A t \in Clocks : /\ NXDN!Stop(t) \in Clocks /\ NXDN!Start(t) \in Clocks
  BY NXDNTimers, 0 \in Nat
<1>2. \A piece, called : piece \in 1 .. Pieces => NXDN!Collected(net.mask, piece, called) \in SUBSET Int
  BY ControlsAssumption DEF NXDN!Collected, NXDNNet, ControlsAssumption
<1>3. 1 .. Pieces \in SUBSET Int
  BY ControlsAssumption DEF ControlsAssumption
<1>4. NXDN!Late(f) => f.piece \in 1 .. Pieces
  BY DEF NXDN!Late, NXDN!Frames
<1> DEFINE x == [net EXCEPT !.dog = NXDN!Start(@)]
           begun == [x EXCEPT !.state = "AUDIO", !.timer = NXDN!Start(@)]
<1>5. x \in NXDNNet /\ x.state = net.state /\ x.mask = net.mask
  BY <1>1 DEF NXDNNet
<1>6. begun \in NXDNNet /\ begun.state = "AUDIO"
  BY <1>1, <1>5 DEF NXDNNet
<1>7. NXDN!writeEndNet(x) \in NXDNNet /\ NXDN!writeEndNet(x).state = "IDLE"
  BY <1>1, <1>5 DEF NXDNNet, NXDN!writeEndNet
<1>8. [x EXCEPT !.state = "DATA"] \in NXDNNet /\ [x EXCEPT !.state = "DATA"].state = "DATA"
  BY <1>5 DEF NXDNNet
<1>9. /\ [begun EXCEPT !.mask = 1 .. Pieces] \in NXDNNet
      /\ [begun EXCEPT !.mask = 1 .. Pieces].state = "AUDIO"
  BY <1>3, <1>6 DEF NXDNNet
<1>10. NXDN!Late(f) =>
         /\ [x EXCEPT !.mask = NXDN!Collected(@, f.piece, f.call)] \in NXDNNet
         /\ [x EXCEPT !.mask = NXDN!Collected(@, f.piece, f.call)].state = net.state
  BY <1>2, <1>4, <1>5 DEF NXDNNet
<1> QED
  BY <1>5, <1>6, <1>7, <1>8, <1>9, <1>10 DEF NXDN!Outcome, NXDN!Late, NXDN!Entered

LEMMA NXDNClock == ASSUME NXDNInv, NXDN!clock PROVE NXDNInv'
<1> USE DEF NXDNInv, NXDNType
<1>1. PICK ms \in 1 .. MaxElapse : NXDN!ClockHeard(ms) \/ NXDN!ClockUnheard(ms)
  BY DEF NXDN!clock, NXDN!NetHeard, NXDN!NetUnheard
<1>2. ms \in Nat
  BY ControlsAssumption DEF ControlsAssumption
<1>3. UNCHANGED <<duplex, enabled, stream>>
  BY <1>1 DEF NXDN!ClockHeard, NXDN!ClockUnheard
<1>4. \A t \in Clocks : /\ NXDN!Start(t) \in Clocks /\ NXDN!Stop(t) \in Clocks
                        /\ NXDN!Clock(t, ms) \in Clocks
                        /\ t.timer = 0 => NXDN!Clock(t, ms).timer = 0
  BY <1>2, NXDNTimers
<1>5. ASSUME NEW x \in NXDNNet, NEW r, NXDN!ClockRest(x, r, ms),
             enabled \/ (x = net /\ r = radio),
             x.state # "IDLE" => r \in {"net", "cut"},
             x.state = "IDLE" /\ net.state # "IDLE" => r \in {"quiet", "net", "cut"},
             x.state = "IDLE" /\ net.state = "IDLE" => NXDNFollowed(r, net, Passing)
      PROVE  NXDNInv'
  <2>1. /\ rf' \in NXDNRF /\ rf'.state = rf.state /\ rf'.call = rf.call
        /\ rf'.timer = rf.timer \/ rf'.timer = NXDN!Clock(rf.timer, ms)
    BY <1>4, <1>5 DEF NXDN!ClockRest, NXDNRF
  <2>2. rf.timer.timer = 0 => rf'.timer.timer = 0
    BY <1>4, <2>1 DEF NXDNRF
  <2>3. /\ NXDN!ClockNet(x, ms) \in NXDNNet
        /\ x.state = "IDLE" => NXDN!ClockNet(x, ms).state = "IDLE"
    BY <1>4, <1>5 DEF NXDN!ClockNet, NXDN!writeEndNet, NXDNNet
  <2>4. net' \in NXDNNet
    BY <1>5, <2>3 DEF NXDN!ClockRest
  <2>5. NXDNFollowed(radio', net', Passing)
    <3>1. CASE enabled
      <4>1. net' = NXDN!ClockNet(x, ms) /\ radio' = NXDN!After(r, net')
        BY <1>5, <3>1 DEF NXDN!ClockRest
      <4>2. NXDNFollowed(NXDN!After(r, net'), net', Passing)
        BY <1>5, <2>3, <4>1, NXDNFollows
      <4> QED
        BY <4>1, <4>2
    <3>2. CASE ~enabled
      BY <1>5, <3>2 DEF NXDN!ClockRest
    <3> QED
      BY <3>1, <3>2
  <2> QED
    BY <1>3, <2>1, <2>2, <2>4, <2>5 DEF NXDNTold, NXDN!Coherent, NXDNFollowed, Followed, Passing
<1>6. CASE NXDN!ClockUnheard(ms)
  BY <1>5, <1>6 DEF NXDN!ClockUnheard, NXDNFollowed, Followed
<1>7. CASE NXDN!ClockHeard(ms)
  <2>1. PICK f \in NXDN!Frames : \E r \in NXDN!writeQueueNet(NXDN!Outcome(f).out) :
          NXDN!ClockRest(NXDN!Outcome(f).net, r, ms)
    BY <1>7 DEF NXDN!ClockHeard
  <2>2. PICK r \in NXDN!writeQueueNet(NXDN!Outcome(f).out) :
          NXDN!ClockRest(NXDN!Outcome(f).net, r, ms)
    BY <2>1
  <2>3. enabled /\ (net.state = "IDLE" => ~Passing)
    BY <1>7 DEF NXDN!ClockHeard, NXDN!Heeded, Passing
  <2> DEFINE x == NXDN!Outcome(f).net
             out == NXDN!Outcome(f).out
  <2>4. /\ x \in NXDNNet
        /\ out \in {"nothing", "stray", "header", "frame", "end"}
        /\ out = "nothing" => x.state = net.state
        /\ out = "stray" => net.state = "IDLE" /\ x.state = "IDLE"
        /\ out = "header" => net.state = "IDLE" /\ x.state # "IDLE"
        /\ out = "frame" => net.state # "IDLE" /\ x.state # "IDLE"
        /\ out = "end" => net.state # "IDLE" /\ x.state = "IDLE"
    BY NXDNOutcome
  <2>5. r \in NXDN!writeQueueNet(out) /\ NXDN!ClockRest(x, r, ms)
    BY <2>2
  <2> HIDE DEF x, out
  <2>6. /\ x.state # "IDLE" => r \in {"net", "cut"}
        /\ x.state = "IDLE" /\ net.state # "IDLE" => r \in {"quiet", "net", "cut"}
        /\ x.state = "IDLE" /\ net.state = "IDLE" => NXDNFollowed(r, net, Passing)
    BY <2>3, <2>4, <2>5 DEF NXDN!writeQueueNet, NXDN!HearHeaded, NXDN!Hear, NXDN!Cut,
       NXDN!Hushed, NXDNFollowed, Followed
  <2> QED
    BY <1>5, <2>3, <2>4, <2>5, <2>6
<1> QED
  BY <1>1, <1>6, <1>7

LEMMA NXDNStep == ASSUME NXDNInv, NXDN!Next PROVE NXDNInv'
<1>1. ASSUME NEW on \in BOOLEAN, NXDN!enable(on) PROVE NXDNInv'
  <2>1. CASE enabled /\ ~on
    <3>1. \A t \in Clocks : NXDN!Stop(t) \in Clocks /\ NXDN!Stop(t).timer = 0
      BY NXDNTimers, 0 \in Nat
    <3>2. /\ rf' = NXDN!writeEndRF /\ net' = NXDN!writeEndNet(net) /\ enabled' \in BOOLEAN
          /\ duplex' = duplex /\ stream' = stream /\ radio' = "quiet"
      BY <1>1, <2>1 DEF NXDN!enable
    <3>3. /\ rf' \in NXDNRF /\ rf'.state = "LISTENING" /\ rf'.timer.timer = 0
          /\ net' \in NXDNNet /\ net'.state = "IDLE"
      BY <3>1, <3>2 DEF NXDN!writeEndRF, NXDN!Listening, NXDN!writeEndNet, NXDNInv, NXDNType,
         NXDNRF, NXDNNet
    <3> QED
      BY <3>2, <3>3 DEF NXDNInv, NXDNType, NXDNTold, NXDN!Coherent, NXDNFollowed, Followed, Passing
  <2>2. CASE ~(enabled /\ ~on)
    BY <1>1, <2>2 DEF NXDN!enable, NXDNInv, NXDNType, NXDNTold, NXDN!Coherent, NXDNFollowed, Followed, Passing
  <2> QED
    BY <2>1, <2>2
<1> QED
  BY <1>1, NXDNRadio, NXDNClock DEF NXDN!Next

-----------------------------------------------------------------------------
(* D-Star.                                                                 *)

DStarStates == {"LISTENING", "LATE_ENTRY", "AUDIO", "DATA", "REJECTED", "INVALID"}

DStarRF == [state : DStarStates, timer : Clocks, ack : Clocks, err : Clocks,
            replies : SUBSET {"ack", "error"}, header : {"other", "ours", "gateway"},
            held : Int, sync : BOOLEAN, blocks : Int]

DStarNet == [state : {"IDLE", "AUDIO", "DATA"}, timer : Clocks, dog : Clocks, held : Int]

DStarType == duplex \in BOOLEAN /\ enabled \in BOOLEAN /\ rf \in DStarRF /\ net \in DStarNet

\* The network has been told the header of what is for the gateway, unless there was no
\* time left; and then there is none for the rest.  Nothing is answered during a
\* transmission.
DStarTold == /\ stream # "headless"
             /\ Passing /\ rf.header = "gateway" =>
                  stream = "open" \/ DStar!HasExpired(rf.timer)
             /\ Passing => rf.ack.timer = 0 /\ rf.err.timer = 0

DStarInv == DStarType /\ DStarTold /\ Followed(radio, net, Passing) /\ DStar!Coherent

LEMMA DStarTimers ==
  ASSUME NEW t \in Clocks, NEW n \in Nat
  PROVE  /\ DStar!SetTimeout(t, n) \in Clocks
         /\ DStar!Start(t) \in Clocks
         /\ DStar!Stop(t) \in Clocks /\ DStar!Stop(t).timer = 0
         /\ DStar!Clock(t, n) \in Clocks
         /\ t.timer = 0 => DStar!Clock(t, n).timer = 0 /\ ~DStar!HasExpired(DStar!Clock(t, n))
         /\ DStar!HasExpired(t) => DStar!HasExpired(DStar!Clock(t, n))
         /\ DStar!Fired(t, n) \in Clocks
         /\ t.timer = 0 => DStar!Fired(t, n).timer = 0
BY DEF Clocks, DStar!SetTimeout, DStar!Unset, DStar!Start, DStar!Stop, DStar!Clock,
       DStar!IsRunning, DStar!HasExpired, DStar!Fired

LEMMA DStarInit == ASSUME DStar!Init PROVE DStarInv
<1>1. PICK t \in Timeouts, replies \in {{}, {"ack"}, {"ack", "error"}} :
        /\ rf = [state |-> "LISTENING", timer |-> DStar!SetTimeout(DStar!Unset, t),
                 ack |-> DStar!SetTimeout(DStar!Unset, ReplyTime),
                 err |-> DStar!SetTimeout(DStar!Unset, ReplyTime), replies |-> replies,
                 header |-> "other", held |-> 0, sync |-> FALSE, blocks |-> 0]
        /\ net = [state |-> "IDLE", timer |-> DStar!SetTimeout(DStar!Unset, t),
                  dog |-> DStar!SetTimeout(DStar!Unset, WatchdogTime), held |-> 0]
  BY DEF DStar!Init
<1>2. t \in Nat /\ WatchdogTime \in Nat /\ ReplyTime \in Nat
  BY ControlsAssumption DEF ControlsAssumption
<1>3. DStar!Unset \in Clocks
  BY DEF Clocks, DStar!Unset
<1>4. DStarType
  BY <1>1, <1>2, <1>3, DStarTimers DEF DStarType, DStarRF, DStarStates, DStarNet, DStar!Init
<1>5. rf.state = "LISTENING" /\ net.state = "IDLE"
  BY <1>1
<1> QED
  BY <1>4, <1>5 DEF DStarInv, DStarTold, Followed, DStar!Coherent, DStar!Active, Passing,
     DStar!Init

\* What the radios hear of a frame of a radio, and when one is lost.
LEMMA DStarRepeats ==
  ASSUME NEW p \in BOOLEAN, NEW r, Followed(r, net, p), NEW timer,
         NEW f \in {"header", "frame", "end"}, f = "header" \/ p,
         NEW s \in DStar!writeQueueRF(r, timer, f)
  PROVE  Followed(s, net, f # "end")
BY DEF Followed, DStar!writeQueueRF, DStar!HearHeaded, DStar!Hear, DStar!Cut, DStar!Hushed

LEMMA DStarStops ==
  ASSUME NEW p \in BOOLEAN, Followed(radio, net, p)
  PROVE  Followed(DStar!StopsRepeating, net, FALSE)
BY DEF Followed, DStar!StopsRepeating, DStar!Quiet, DStar!Hushed

\* What the network is told of a frame of a radio, when it knows what came before.
Knows(s, x) == s # "headless" /\ (x.header = "gateway" => s = "open" \/ DStar!HasExpired(x.timer))

LEMMA DStarTells ==
  ASSUME NEW s, NEW x, NEW f \in {"header", "frame", "end"}, s # "headless",
         f = "header" \/ Knows(s, x)
  PROVE  /\ DStar!writeNetworkRF(s, x, f) # "headless"
         /\ f # "end" => Knows(DStar!writeNetworkRF(s, x, f), x)
BY DEF Knows, DStar!writeNetworkRF, DStar!Tell

LEMMA DStarPassOn ==
  ASSUME NEW p \in BOOLEAN, Followed(radio, net, p), stream # "headless", NEW x,
         NEW f \in {"header", "frame", "end"}, f = "header" \/ (p /\ Knows(stream, x)),
         DStar!PassOn(x, f)
  PROVE  /\ stream' # "headless" /\ (f # "end" => Knows(stream', x))
         /\ Followed(radio', net, f # "end")
BY DStarRepeats, DStarTells DEF DStar!PassOn

LEMMA DStarPassOnBoth ==
  ASSUME NEW p \in BOOLEAN, Followed(radio, net, p), stream # "headless", NEW x,
         NEW f \in {"header", "frame"}, f = "header" \/ (p /\ Knows(stream, x)),
         DStar!PassOnBoth(x, f, "frame")
  PROVE  Knows(stream', x) /\ Followed(radio', net, TRUE)
<1>1. PICK r \in DStar!writeQueueRF(radio, x.timer, f) :
        radio' \in DStar!writeQueueRF(r, x.timer, "frame")
  BY DEF DStar!PassOnBoth
<1>2. Followed(r, net, TRUE)
  BY <1>1, DStarRepeats
<1>3. Followed(radio', net, TRUE)
  BY <1>1, <1>2, DStarRepeats
<1>4. stream' = DStar!writeNetworkRF(DStar!writeNetworkRF(stream, x, f), x, "frame")
  BY DEF DStar!PassOnBoth
<1>5. Knows(DStar!writeNetworkRF(stream, x, f), x)
  BY DStarTells
<1>6. Knows(stream', x)
  BY <1>4, <1>5, DStarTells DEF Knows
<1> QED
  BY <1>3, <1>6

\* The fields of what is kept of a radio's transmission, one at a time.
LEMMA DStarFields ==
  ASSUME NEW x \in DStarRF, NEW s \in DStarStates, NEW t \in Clocks, NEW n \in Int,
         NEW b \in BOOLEAN, NEW h \in {"other", "ours", "gateway"}
  PROVE  /\ [x EXCEPT !.state = s] \in DStarRF
         /\ [x EXCEPT !.timer = t] \in DStarRF
         /\ [x EXCEPT !.ack = t] \in DStarRF
         /\ [x EXCEPT !.err = t] \in DStarRF
         /\ [x EXCEPT !.header = h] \in DStarRF
         /\ [x EXCEPT !.held = n] \in DStarRF
         /\ [x EXCEPT !.sync = b] \in DStarRF
         /\ [x EXCEPT !.blocks = n] \in DStarRF
BY DEF DStarRF

\* A frame that is collected, or held back, or accepted.
LEMMA DStarAdded ==
  ASSUME NEW x \in DStarRF, NEW sync \in BOOLEAN
  PROVE  /\ DStar!Added(x, sync) \in DStarRF
         /\ DStar!Added(x, sync).state = x.state /\ DStar!Added(x, sync).timer = x.timer
         /\ DStar!Added(x, sync).ack = x.ack /\ DStar!Added(x, sync).err = x.err
         /\ DStar!Added(x, sync).header = x.header /\ DStar!Added(x, sync).held = x.held
<1> DEFINE n == IF sync \/ x.state # "LATE_ENTRY" THEN 0
                ELSE IF x.blocks < Pieces THEN x.blocks + 1 ELSE x.blocks
<1>1. n \in Int
  BY DEF DStarRF
<1>2. DStar!Added(x, sync) = [x EXCEPT !.blocks = n]
  BY DEF DStar!Added, DStarRF
<1> HIDE DEF n
<1> QED
  BY <1>1, <1>2 DEF DStarRF

LEMMA DStarRadio == ASSUME DStarInv, DStar!writeModem PROVE DStarInv'
<1> USE DEF DStarInv, DStarType
<1>0. UNCHANGED <<duplex, enabled, net>>
  BY DEF DStar!writeModem, DStar!Lost, DStar!Header, DStar!EOT, DStar!Data
<1>1. \A t \in Clocks : /\ DStar!Stop(t) \in Clocks /\ DStar!Stop(t).timer = 0
                        /\ DStar!Start(t) \in Clocks
  BY DStarTimers, 0 \in Nat
<1>2. Passing \in BOOLEAN /\ (Passing <=> rf.state \in DStar!Active)
  BY DEF Passing, DStar!Active
\* The radio is not passed on any more, ...
<1>3. ASSUME rf' \in DStarRF, rf'.state \notin {"AUDIO", "DATA", "LATE_ENTRY"},
             stream' # "headless", Followed(radio', net, FALSE)
      PROVE  DStarInv'
  BY <1>0, <1>3 DEF DStarTold, Followed, DStar!Coherent, DStar!Active, Passing
\* ... is still not passed on, ...
<1>4. ASSUME ~Passing, DStar!Silent, rf' \in DStarRF, rf'.state \notin {"AUDIO", "DATA"},
             rf'.state = "LATE_ENTRY" => rf'.held = 2
      PROVE  DStarInv'
  BY <1>0, <1>4 DEF DStar!Silent, DStarTold, Followed, DStar!Coherent, DStar!Active, Passing
\* ... or is passed on.
<1>5. ASSUME rf' \in DStarRF, rf'.state \in {"AUDIO", "DATA"}, rf'.header # "other",
             rf'.ack.timer = 0, rf'.err.timer = 0, Knows(stream', rf'), Followed(radio', net, TRUE)
      PROVE  DStarInv'
  BY <1>0, <1>5 DEF DStarTold, Knows, Followed, DStar!Coherent, DStar!Active, Passing,
     DStar!HasExpired
<1>6. Passing => Knows(stream, rf)
  BY DEF DStarTold, Knows
<1>7. /\ DStar!writeEndRF \in DStarRF /\ DStar!writeEndRF.state = "LISTENING"
      /\ DStar!Ended \in DStarRF /\ DStar!Ended.state = "LISTENING"
  BY <1>1 DEF DStar!writeEndRF, DStar!Ended, DStar!Invalid, DStarRF, DStarStates
<1>8. CASE DStar!Lost
  <2>1. CASE Passing
    <3>1. rf' = DStar!writeEndRF /\ radio' = DStar!StopsRepeating /\ stream' = stream
      BY <1>2, <1>8, <2>1 DEF DStar!Lost
    <3> QED
      BY <1>2, <1>3, <1>7, <3>1, DStarStops DEF DStarTold
  <2>2. CASE ~Passing
    <3>1. rf' = DStar!Ended /\ DStar!Silent
      BY <1>2, <1>8, <2>2 DEF DStar!Lost, DStar!Silent
    <3> QED
      BY <1>4, <1>7, <2>2, <3>1
  <2> QED
    BY <2>1, <2>2
<1>9. ASSUME NEW st \in {"INVALID", "REJECTED"}
      PROVE  DStar!Refused(st) \in DStarRF /\ DStar!Refused(st).state = st
  <2>1. rf \in DStarRF /\ 0 \in Int
    OBVIOUS
  <2>2. \A n \in Int : /\ [rf EXCEPT !.state = st, !.header = "other", !.blocks = n] \in DStarRF
                       /\ [rf EXCEPT !.state = st, !.header = "other", !.blocks = n].state = st
    BY <2>1 DEF DStarRF, DStarStates
  <2> QED
    BY ONLY <2>1, <2>2, Zenon DEF DStar!Refused
<1>10. ASSUME NEW h \in {"ours", "gateway"}
       PROVE  /\ DStar!Accepted(h) \in DStarRF /\ DStar!Accepted(h).state = "AUDIO"
              /\ DStar!Accepted(h).header = h /\ DStar!Accepted(h).ack.timer = 0
              /\ DStar!Accepted(h).err.timer = 0
  <2> DEFINE A(t, n) == [rf EXCEPT !.state = "AUDIO", !.header = h, !.held = n, !.blocks = n,
                                   !.timer = t, !.ack = DStar!Stop(@), !.err = DStar!Stop(@)]
             T == IF DStar!IsRunning(rf.timer) THEN rf.timer ELSE DStar!Start(rf.timer)
  <2>1. rf \in DStarRF /\ 0 \in Int
    OBVIOUS
  <2>2. T \in Clocks
    BY <1>1 DEF DStarRF
  <2>3. \A t \in Clocks, n \in Int :
          /\ A(t, n) \in DStarRF /\ A(t, n).state = "AUDIO" /\ A(t, n).header = h
          /\ A(t, n).ack.timer = 0 /\ A(t, n).err.timer = 0
    BY <1>1, <2>1 DEF DStarRF, DStarStates
  <2>4. DStar!Accepted(h) = A(T, 0)
    BY ONLY TRUE DEF DStar!Accepted
  <2> HIDE DEF A, T
  <2> QED
    BY <2>1, <2>2, <2>3, <2>4
<1>11. CASE DStar!Header
  <2>1. ASSUME NEW st \in {"INVALID", "REJECTED"}, rf' = DStar!Refused(st),
               radio' = DStar!StopsRepeating, UNCHANGED stream
        PROVE  DStarInv'
    BY <1>2, <1>3, <1>9, <2>1, DStarStops DEF DStarTold
  <2>2. ASSUME NEW h \in {"ours", "gateway"}, rf' = DStar!Accepted(h),
               DStar!PassOn(DStar!Accepted(h), "header")
        PROVE  DStarInv'
    <3>1. Knows(stream', rf') /\ Followed(radio', net, TRUE)
      BY <1>2, <2>2, DStarPassOn DEF DStarTold
    <3> QED
      BY <1>5, <1>10, <2>2, <3>1
  <2> QED
    BY <1>11, <2>1, <2>2 DEF DStar!Header
<1>12. CASE DStar!EOT
  <2>1. CASE Passing
    <3>1. rf' = DStar!writeEndRF /\ DStar!PassOn(rf, "end")
      BY <1>2, <1>12, <2>1 DEF DStar!EOT
    <3>2. stream' # "headless" /\ Followed(radio', net, FALSE)
      BY <1>2, <1>6, <2>1, <3>1, DStarPassOn DEF DStarTold
    <3> QED
      BY <1>3, <1>7, <3>1, <3>2
  <2>2. CASE ~Passing
    BY <1>2, <1>4, <1>7, <1>12, <2>2 DEF DStar!EOT
  <2> QED
    BY <2>1, <2>2
<1>13. ASSUME NEW x \in DStarRF, NEW st \in {"AUDIO", "DATA"}, Passing,
              rf' = [x EXCEPT !.state = st], x.header = rf.header, x.timer = rf.timer,
              x.ack = rf.ack, x.err = rf.err,
              DStar!PassOn(rf, "frame") \/ DStar!PassOnBoth(rf, "frame", "frame")
       PROVE  DStarInv'
  <2>1. Knows(stream', rf) /\ Followed(radio', net, TRUE)
    BY <1>2, <1>6, <1>13, DStarPassOn, DStarPassOnBoth DEF DStarTold
  <2>2. /\ rf' \in DStarRF /\ rf'.state = st /\ rf'.header = rf.header
        /\ rf'.timer = rf.timer /\ rf'.ack = rf.ack /\ rf'.err = rf.err
    BY <1>13 DEF DStarRF, DStarStates
  <2>3. Knows(stream', rf')
    BY <2>1, <2>2 DEF Knows
  <2> QED
    BY <1>2, <1>5, <1>13, <2>1, <2>2, <2>3 DEF DStarTold, DStar!Coherent
<1>14. ASSUME NEW sync \in BOOLEAN, DStar!HoldBack(sync), rf.state # "LATE_ENTRY" PROVE DStarInv'
  <2> DEFINE x == DStar!Added(rf, sync)
  <2>1. /\ x \in DStarRF /\ x.state = rf.state /\ x.header = rf.header /\ x.timer = rf.timer
        /\ x.ack = rf.ack /\ x.err = rf.err
    BY DStarAdded
  <2> HIDE DEF x
  <2>2. \A n \in Int : LET y == [x EXCEPT !.held = n, !.sync = sync]
                       IN /\ y \in DStarRF /\ y.state = rf.state /\ y.header = rf.header
                          /\ y.timer = rf.timer /\ y.ack = rf.ack /\ y.err = rf.err
    BY <2>1 DEF DStarRF
  <2>3. rf' = [x EXCEPT !.held = 1, !.sync = sync] /\ DStar!Silent
    BY <1>14 DEF DStar!HoldBack, x
  <2>4. /\ rf' \in DStarRF /\ rf'.state = rf.state /\ rf'.header = rf.header
        /\ rf'.timer = rf.timer /\ rf'.ack = rf.ack /\ rf'.err = rf.err
    <3>1. 1 \in Int
      OBVIOUS
    <3> QED
      BY ONLY <2>2, <2>3, <3>1, Zenon
  <2>5. CASE Passing
    <3>1. Knows(stream', rf') /\ Followed(radio', net, TRUE)
      BY <1>6, <2>3, <2>4, <2>5 DEF Knows, DStar!Silent, Followed
    <3> QED
      BY <1>2, <1>5, <2>4, <2>5, <3>1 DEF DStarTold, DStar!Coherent, Passing
  <2>6. CASE ~Passing
    BY <1>4, <1>14, <2>3, <2>4, <2>6 DEF Passing
  <2> QED
    BY <2>5, <2>6
<1>15. ASSUME NEW x \in DStarRF, NEW sync \in BOOLEAN, ~Passing, DStar!Silent, x.held = 2,
              x.state \notin {"AUDIO", "DATA"},
              rf' = [x EXCEPT !.state = IF sync THEN "LATE_ENTRY" ELSE @]
       PROVE  DStarInv'
  <2>1. /\ rf' \in DStarRF /\ rf'.state \notin {"AUDIO", "DATA"} /\ rf'.held = x.held
    BY <1>15 DEF DStarRF, DStarStates
  <2> QED
    BY <1>4, <1>15, <2>1
<1>16. ASSUME NEW sync \in BOOLEAN, DStar!Release(sync) PROVE DStarInv'
  <2> DEFINE z == [rf EXCEPT !.held = 2, !.sync = FALSE]
             y == DStar!Added(z, sync)
             x == DStar!Added(y, rf.sync)
  <2>1. \A n \in Int : LET u == [rf EXCEPT !.held = n, !.sync = FALSE]
                       IN /\ u \in DStarRF /\ u.state = rf.state /\ u.header = rf.header
                          /\ u.timer = rf.timer /\ u.ack = rf.ack /\ u.err = rf.err
                          /\ u.held = n
    BY DEF DStarRF
  <2>2. /\ z \in DStarRF /\ z.state = rf.state /\ z.header = rf.header
        /\ z.timer = rf.timer /\ z.ack = rf.ack /\ z.err = rf.err /\ z.held = 2
    <3>1. 2 \in Int
      OBVIOUS
    <3> QED
      BY ONLY <2>1, <3>1, Zenon
  <2>3. rf.sync \in BOOLEAN
    BY DEF DStarRF
  <2> HIDE DEF z
  <2>4. /\ y \in DStarRF /\ y.state = rf.state /\ y.header = rf.header
        /\ y.timer = rf.timer /\ y.ack = rf.ack /\ y.err = rf.err /\ y.held = 2
    BY <2>2, DStarAdded
  <2> HIDE DEF y
  <2>5. /\ x \in DStarRF /\ x.state = rf.state /\ x.header = rf.header
        /\ x.timer = rf.timer /\ x.ack = rf.ack /\ x.err = rf.err /\ x.held = 2
    BY <2>3, <2>4, DStarAdded
  <2>6. \/ /\ Passing
           /\ \E st \in {"AUDIO", "DATA"} : rf' = [x EXCEPT !.state = st]
           /\ DStar!PassOnBoth(rf, "frame", "frame")
        \/ /\ ~Passing /\ DStar!Silent
           /\ \/ rf' = DStar!Added([x EXCEPT !.state = "LATE_ENTRY"], sync)
              \/ rf' = [x EXCEPT !.state = IF sync THEN "LATE_ENTRY" ELSE @]
    BY <1>2, <1>16 DEF DStar!Release, DStar!Active, x, y, z
  <2> HIDE DEF x
  <2>7. CASE ~Passing /\ DStar!Silent /\ rf' = DStar!Added([x EXCEPT !.state = "LATE_ENTRY"], sync)
    <3> DEFINE w == [x EXCEPT !.state = "LATE_ENTRY"]
    <3>1. w \in DStarRF /\ w.state = "LATE_ENTRY" /\ w.held = x.held
      BY <2>5 DEF DStarRF, DStarStates
    <3> HIDE DEF w
    <3>2. DStar!Added(w, sync) \in DStarRF /\ DStar!Added(w, sync).state = "LATE_ENTRY"
          /\ DStar!Added(w, sync).held = w.held
      BY <3>1, DStarAdded
    <3>3. rf' = DStar!Added(w, sync)
      BY <2>7 DEF w
    <3>4. rf' \in DStarRF /\ rf'.state \notin {"AUDIO", "DATA"} /\ rf'.held = 2
      BY <2>5, <3>1, <3>2, <3>3
    <3> QED
      BY <1>4, <2>7, <3>4
  <2> QED
    BY <1>2, <1>13, <1>15, <2>5, <2>6, <2>7 DEF Passing
<1>17. ASSUME NEW sync \in BOOLEAN, DStar!Frame(sync) PROVE DStarInv'
  <2> DEFINE x == DStar!Added(rf, sync)
  <2>1. /\ x \in DStarRF /\ x.state = rf.state /\ x.header = rf.header /\ x.timer = rf.timer
        /\ x.ack = rf.ack /\ x.err = rf.err /\ x.held = rf.held
    BY DStarAdded
  <2>2. \/ /\ Passing
           /\ \E st \in {"AUDIO", "DATA"} : rf' = [x EXCEPT !.state = st]
           /\ DStar!PassOn(rf, "frame")
        \/ /\ ~Passing /\ DStar!Silent
           /\ rf' = [x EXCEPT !.state = IF sync THEN "LATE_ENTRY" ELSE @]
        \/ ~Passing /\ DStar!LateEntry
    BY <1>2, <1>17 DEF DStar!Frame, DStar!Active
  <2>3. rf.held = 2
    BY <1>17 DEF DStar!Frame
  <2> HIDE DEF x
  <2>4. CASE ~Passing /\ DStar!LateEntry
    <3>1. ASSUME NEW st \in {"INVALID", "REJECTED"}, rf' = DStar!Refused(st), DStar!Silent
          PROVE  DStarInv'
      BY <1>4, <1>9, <2>4, <3>1
    <3>2. ASSUME NEW h \in {"ours", "gateway"}, rf' = DStar!Accepted(h),
                 DStar!PassOnBoth(DStar!Accepted(h), "header", "frame")
          PROVE  DStarInv'
      <4>1. Knows(stream', rf') /\ Followed(radio', net, TRUE)
        BY <1>2, <3>2, DStarPassOnBoth DEF DStarTold
      <4> QED
        BY <1>5, <1>10, <3>2, <4>1
    <3> QED
      BY <2>4, <3>1, <3>2 DEF DStar!LateEntry
  <2> QED
    BY <1>2, <1>13, <1>15, <2>1, <2>2, <2>3, <2>4 DEF Passing
<1>18. CASE DStar!Data
  <2>1. PICK sync \in BOOLEAN : DStar!HoldBack(sync) \/ DStar!Release(sync) \/ DStar!Frame(sync)
    BY <1>18 DEF DStar!Data
  <2>2. DStar!HoldBack(sync) => rf.state # "LATE_ENTRY"
    <3>1. 0 # 2
      OBVIOUS
    <3> QED
      BY <3>1 DEF DStar!HoldBack, DStar!Coherent
  <2> QED
    BY <1>14, <1>16, <1>17, <2>1, <2>2
<1> QED
  BY <1>8, <1>11, <1>12, <1>18 DEF DStar!writeModem

\* The answers: none while anybody is passed on.
LEMMA DStarReplies ==
  ASSUME NEW x \in DStarNet, NEW y \in DStarRF, NEW ms \in Nat, NEW q, Followed(q, x, Passing),
         Passing => y.ack.timer = 0 /\ y.err.timer = 0,
         NEW s \in DStar!Replies(x, y, q, ms)
  PROVE  Followed(s, x, Passing)
<1>1. CASE Passing
  <2>1. /\ ~DStar!HasExpired(DStar!Clock(y.ack, ms))
        /\ ~DStar!HasExpired(DStar!Clock(y.err, ms))
    BY <1>1, DStarTimers DEF DStarRF
  <2>2. s = q
    BY <2>1 DEF DStar!Replies
  <2> QED
    BY <2>2
<1>2. CASE x.state # "IDLE"
  <2>1. \A z : DStar!sendAck(x, y, z) = {z} /\ \A t : DStar!sendError(x, t, z) = {z}
    BY <1>2 DEF DStar!sendAck, DStar!sendError
  <2>2. s = q
    BY <2>1 DEF DStar!Replies
  <2> QED
    BY <2>2
<1>3. CASE ~Passing /\ x.state = "IDLE"
  <2>1. q \in {"quiet", "cut"}
    BY <1>3 DEF Followed
  <2>2. \A z \in {"quiet", "cut"} : DStar!Answer(z) \subseteq {"quiet", "cut"}
    BY DEF DStar!Answer, DStar!Hear, DStar!Cut, DStar!Hushed
  <2>3. \A z \in {"quiet", "cut"} :
          /\ DStar!sendAck(x, y, z) \subseteq {"quiet", "cut"}
          /\ \A t : DStar!sendError(x, t, z) \subseteq {"quiet", "cut"}
    BY <2>2 DEF DStar!sendAck, DStar!sendError
  <2>4. s \in {"quiet", "cut"}
    BY <2>1, <2>3 DEF DStar!Replies
  <2> QED
    BY <1>3, <2>4 DEF Followed
<1> QED
  BY <1>1, <1>2, <1>3

\* What the radios hear when the network's transmission goes from net to x.
LEMMA DStarFollows ==
  ASSUME NEW x, NEW r,
         x.state # "IDLE" => r \in {"net", "cut"},
         x.state = "IDLE" /\ net.state # "IDLE" => r \in {"quiet", "net", "cut"},
         x.state = "IDLE" /\ net.state = "IDLE" => Followed(r, net, Passing)
  PROVE  Followed(DStar!After(r, x), x, Passing)
BY DEF Followed, Passing, DStar!Active, DStar!After, DStar!Quiet, DStar!Cut, DStar!Hushed

\* ... and when the watchdog ends it as well.
LEMMA DStarSettled ==
  ASSUME NEW x, NEW y, NEW r, x.state = "IDLE" => y.state = "IDLE", Followed(r, x, Passing)
  PROVE  Followed(DStar!After(r, y), y, Passing)
BY DEF Followed, Passing, DStar!Active, DStar!After, DStar!Quiet, DStar!Cut, DStar!Hushed

\* Silence is only sent during a transmission.
LEMMA DStarFilled ==
  ASSUME NEW x, NEW y, NEW r, x.state = "IDLE" => y.state = "IDLE", Followed(r, x, Passing),
         NEW s \in DStar!Filled(y, r)
  PROVE  Followed(s, x, Passing)
BY DEF Followed, Passing, DStar!Filled, DStar!writeQueueNet, DStar!HearHeaded, DStar!Hear,
       DStar!Cut, DStar!Hushed

LEMMA DStarOutcome ==
  ASSUME DStarInv, NEW f \in DStar!Frames, NEW o, o = DStar!Outcome(f)
  PROVE  /\ o.net \in DStarNet
         /\ o.out \in {"nothing", "header", "frame", "end"}
         /\ o.out = "nothing" => (o.net.state = "IDLE" <=> net.state = "IDLE")
         /\ o.out = "header" => net.state = "IDLE" /\ o.net.state # "IDLE"
         /\ o.out = "frame" => net.state # "IDLE" /\ o.net.state # "IDLE"
         /\ o.out = "end" => net.state # "IDLE" /\ o.net.state = "IDLE"
<1> USE DEF DStarInv, DStarType
<1>1. \A t \in Clocks : /\ DStar!Stop(t) \in Clocks /\ DStar!Start(t) \in Clocks
  BY DStarTimers, 0 \in Nat
<1> DEFINE x == [net EXCEPT !.dog = DStar!Start(@)]
           idle == net.state = "IDLE"
<1>2. x \in DStarNet /\ x.state = net.state
  BY <1>1 DEF DStarNet
<1>3. \A n \in Int, st \in {"AUDIO", "DATA"} :
        /\ [x EXCEPT !.state = "AUDIO", !.timer = DStar!Start(@), !.held = n] \in DStarNet
        /\ [x EXCEPT !.held = n] \in DStarNet
        /\ [x EXCEPT !.held = n].state = net.state
        /\ [x EXCEPT !.held = n, !.state = st] \in DStarNet
        /\ [x EXCEPT !.held = n, !.state = st].state = st
        /\ [x EXCEPT !.state = "IDLE", !.timer = DStar!Stop(@), !.dog = DStar!Stop(@), !.held = n]
             \in DStarNet
  BY <1>1, <1>2 DEF DStarNet
<1>4. [x EXCEPT !.state = "AUDIO", !.timer = DStar!Start(@), !.held = 0].state = "AUDIO"
  BY <1>2 DEF DStarNet
<1>5. [x EXCEPT !.state = "IDLE", !.timer = DStar!Stop(@), !.dog = DStar!Stop(@), !.held = 0].state
        = "IDLE"
  BY <1>2 DEF DStarNet
<1>6. 0 \in Int /\ 1 \in Int /\ 2 \in Int
  OBVIOUS
<1> HIDE DEF x, idle
<1>7. CASE f = "header" /\ idle
  <2>1. o =
          [net |-> [x EXCEPT !.state = "AUDIO", !.timer = DStar!Start(@), !.held = 0],
           out |-> "header"]
    BY <1>7 DEF DStar!Outcome, x, idle
  <2>2. [x EXCEPT !.state = "AUDIO", !.timer = DStar!Start(@), !.held = 0] \in DStarNet
    BY ONLY <1>3, <1>6, Zenon
  <2> QED
    <3> DEFINE b == [x EXCEPT !.state = "AUDIO", !.timer = DStar!Start(@), !.held = 0]
    <3>1. o = [net |-> b, out |-> "header"] /\ b \in DStarNet /\ b.state = "AUDIO"
      BY <1>4, <2>1, <2>2
    <3>2. net.state = "IDLE"
      BY <1>7 DEF idle
    <3> HIDE DEF b
    <3> QED
      BY <3>1, <3>2
<1>8. CASE f = "eot" /\ ~idle
  <2>1. o = [net |-> DStar!writeEndNet(x), out |-> "end"]
    BY <1>8 DEF DStar!Outcome, x, idle
  <2>2. DStar!writeEndNet(x) \in DStarNet /\ DStar!writeEndNet(x).state = "IDLE"
    BY ONLY <1>3, <1>5, <1>6, Zenon DEF DStar!writeEndNet
  <2> QED
    BY <1>8, <2>1, <2>2 DEF idle
<1>9. CASE f \notin {"header", "eot"}
  <2>1. o = DStar!writeNetworkData(x, f)
    BY <1>9 DEF DStar!Outcome, x, idle
  <2>2. f = "stale" \/ f \in {"AUDIO", "DATA"}
    BY <1>9 DEF DStar!Frames
  <2> DEFINE one == [x EXCEPT !.held = 1]
             two(st) == [x EXCEPT !.held = 2, !.state = st]
  <2>3. one \in DStarNet /\ one.state = net.state
    BY ONLY <1>3, <1>6, Zenon
  <2>4. \A st \in {"AUDIO", "DATA"} : two(st) \in DStarNet /\ two(st).state = st
    BY ONLY <1>3, <1>6, Zenon
  <2>5. \/ o = [net |-> x, out |-> "nothing"]
        \/ o = [net |-> one, out |-> "nothing"]
        \/ net.state # "IDLE" /\ o = [net |-> two("AUDIO"), out |-> "nothing"]
        \/ net.state # "IDLE" /\ f # "stale" /\ o = [net |-> two(f), out |-> "frame"]
    BY <1>2, <2>1 DEF DStar!writeNetworkData
  <2> HIDE DEF one, two
  <2> QED
    BY <1>2, <2>2, <2>3, <2>4, <2>5
<1>10. CASE ~(f = "header" /\ idle) /\ ~(f = "eot" /\ ~idle) /\ f \in {"header", "eot"}
  <2>1. o = [net |-> x, out |-> "nothing"]
    BY <1>10 DEF DStar!Outcome, x, idle
  <2> QED
    BY <1>2, <2>1
<1> QED
  BY <1>7, <1>8, <1>9, <1>10

LEMMA DStarClock == ASSUME DStarInv, DStar!clock PROVE DStarInv'
<1> USE DEF DStarInv, DStarType
<1>1. PICK ms \in 1 .. MaxElapse : DStar!ClockHeard(ms) \/ DStar!ClockUnheard(ms)
  BY DEF DStar!clock, DStar!NetHeard, DStar!NetUnheard
<1>2. ms \in Nat
  BY ControlsAssumption DEF ControlsAssumption
<1>3. UNCHANGED <<duplex, enabled, stream>>
  BY <1>1 DEF DStar!ClockHeard, DStar!ClockUnheard
<1>4. \A t \in Clocks : /\ DStar!Stop(t) \in Clocks /\ DStar!Stop(t).timer = 0
                        /\ DStar!Clock(t, ms) \in Clocks /\ DStar!Fired(t, ms) \in Clocks
                        /\ t.timer = 0 => /\ ~DStar!HasExpired(DStar!Clock(t, ms))
                                          /\ DStar!Fired(t, ms).timer = 0
                        /\ DStar!HasExpired(t) => DStar!HasExpired(DStar!Clock(t, ms))
  BY <1>2, DStarTimers
<1>5. ASSUME NEW x \in DStarNet, NEW y \in DStarRF, NEW r, DStar!ClockRest(x, y, r, ms),
             y.state = rf.state, y.header = rf.header, y.timer = rf.timer, y.held = rf.held,
             Passing => y.ack.timer = 0 /\ y.err.timer = 0,
             enabled \/ (x = net /\ y = rf /\ r = radio),
             x.state # "IDLE" => r \in {"net", "cut"},
             x.state = "IDLE" /\ net.state # "IDLE" => r \in {"quiet", "net", "cut"},
             x.state = "IDLE" /\ net.state = "IDLE" => Followed(r, net, Passing)
      PROVE  DStarInv'
  <2>1. CASE ~enabled
    <3>1. rf' = rf /\ net' = net /\ radio' = radio
      BY <1>5, <2>1 DEF DStar!ClockRest
    <3> QED
      BY <1>3, <3>1 DEF DStarTold, DStar!Coherent, DStar!Active, DStar!HasExpired, Followed, Passing
  <2>2. CASE enabled
    <3>1. rf' = DStar!ClockRF(y, ms) /\ net' = DStar!ClockNet(x, ms)
      BY <1>5, <2>2 DEF DStar!ClockRest
    <3>2. PICK s \in DStar!Replies(x, y, DStar!After(r, x), ms) :
            \E t \in DStar!Filled(net', s) : radio' = DStar!After(t, net')
      BY <1>5, <2>2 DEF DStar!ClockRest
    <3>3. PICK t \in DStar!Filled(net', s) : radio' = DStar!After(t, net')
      BY <3>2
    <3>4. /\ rf' \in DStarRF /\ rf'.state = rf.state /\ rf'.header = rf.header /\ rf'.held = rf.held
          /\ rf'.ack = DStar!Fired(y.ack, ms) /\ rf'.err = DStar!Fired(y.err, ms)
          /\ ~DStar!HasExpired(DStar!Clock(y.ack, ms)) => rf'.timer = DStar!Clock(rf.timer, ms)
      BY <1>4, <1>5, <3>1 DEF DStar!ClockRF, DStarRF
    <3>5. /\ Passing => rf'.ack.timer = 0 /\ rf'.err.timer = 0 /\ rf'.timer = DStar!Clock(rf.timer, ms)
      BY <1>4, <1>5, <3>4 DEF DStarRF
    <3>6. Passing /\ DStar!HasExpired(rf.timer) => DStar!HasExpired(rf'.timer)
      BY <1>4, <3>5 DEF DStarRF
    <3>7. net' \in DStarNet /\ (x.state = "IDLE" => net'.state = "IDLE")
      <4> DEFINE y1 == [x EXCEPT !.timer = DStar!Clock(@, ms),
                          !.dog = IF x.state \in DStar!Active THEN DStar!Clock(@, ms) ELSE @]
      <4>1. y1 \in DStarNet /\ y1.state = x.state
        BY <1>4, <1>5 DEF DStarNet
      <4>2. net' = IF y1.state \in DStar!Active /\ DStar!HasExpired(y1.dog)
                     THEN DStar!writeEndNet(y1) ELSE y1
        BY <3>1 DEF DStar!ClockNet
      <4> HIDE DEF y1
      <4>3. \A n \in Int : /\ [y1 EXCEPT !.state = "IDLE", !.timer = DStar!Stop(@),
                                         !.dog = DStar!Stop(@), !.held = n] \in DStarNet
                           /\ [y1 EXCEPT !.state = "IDLE", !.timer = DStar!Stop(@),
                                         !.dog = DStar!Stop(@), !.held = n].state = "IDLE"
        BY <1>4, <4>1 DEF DStarNet
      <4>4. 0 \in Int
        OBVIOUS
      <4>5. DStar!writeEndNet(y1) \in DStarNet /\ DStar!writeEndNet(y1).state = "IDLE"
        BY ONLY <4>3, <4>4, Zenon DEF DStar!writeEndNet
      <4> QED
        BY <4>1, <4>2, <4>5
    <3>8. Followed(DStar!After(r, x), x, Passing)
      BY <1>5, DStarFollows
    <3>9. Followed(s, x, Passing)
      <4> DEFINE q == DStar!After(r, x)
      <4>1. Followed(q, x, Passing) /\ s \in DStar!Replies(x, y, q, ms)
        BY <3>2, <3>8
      <4> HIDE DEF q
      <4> QED
        BY <1>2, <1>5, <4>1, DStarReplies
    <3>10. Followed(t, x, Passing)
      BY <3>3, <3>7, <3>9, DStarFilled
    <3>11. Followed(DStar!After(t, net'), net', Passing)
      BY <3>7, <3>10, DStarSettled
    <3>12. Followed(radio', net', Passing)
      BY <3>3, <3>11
    <3>13. Passing' <=> Passing
      BY <3>4 DEF Passing
    <3>14. DStarTold'
      BY <1>3, <3>4, <3>5, <3>6, <3>13 DEF DStarTold, DStar!HasExpired
    <3>15. DStar!Coherent'
      BY <3>4 DEF DStar!Coherent, DStar!Active
    <3> QED
      BY <1>3, <3>4, <3>7, <3>12, <3>13, <3>14, <3>15 DEF Followed
  <2> QED
    BY <2>1, <2>2
<1>6. CASE DStar!ClockUnheard(ms)
  <2>1. DStar!ClockRest(net, rf, radio, ms)
    BY <1>6 DEF DStar!ClockUnheard
  <2>2. /\ net.state # "IDLE" => radio \in {"net", "cut"}
        /\ Passing => rf.ack.timer = 0 /\ rf.err.timer = 0
    BY DEF Followed, DStarTold
  <2> QED
    BY <1>5, <2>1, <2>2
<1>7. CASE DStar!ClockHeard(ms)
  <2> DEFINE Y(f) == IF f = "header" /\ net.state = "IDLE"
                       THEN [rf EXCEPT !.ack = DStar!Stop(@), !.err = DStar!Stop(@)] ELSE rf
  <2>1. PICK f \in DStar!Frames :
          \E r \in DStar!writeQueueNet(radio, net.timer, DStar!Outcome(f).out) :
            DStar!ClockRest(DStar!Outcome(f).net, Y(f), r, ms)
    BY <1>7 DEF DStar!ClockHeard
  <2>2. PICK r \in DStar!writeQueueNet(radio, net.timer, DStar!Outcome(f).out) :
            DStar!ClockRest(DStar!Outcome(f).net, Y(f), r, ms)
    BY <2>1
  <2>3. enabled /\ (net.state = "IDLE" => ~Passing)
    BY <1>7 DEF DStar!ClockHeard, DStar!Heeded, DStar!Active, Passing
  <2> DEFINE o == DStar!Outcome(f)
             y == Y(f)
             x == o.net
             out == o.out
  <2>4. /\ x \in DStarNet
        /\ out \in {"nothing", "header", "frame", "end"}
        /\ out = "nothing" => (x.state = "IDLE" <=> net.state = "IDLE")
        /\ out = "header" => net.state = "IDLE" /\ x.state # "IDLE"
        /\ out = "frame" => net.state # "IDLE" /\ x.state # "IDLE"
        /\ out = "end" => net.state # "IDLE" /\ x.state = "IDLE"
    <3>1. o = DStar!Outcome(f)
      OBVIOUS
    <3> HIDE DEF o
    <3> QED
      BY <3>1, DStarOutcome
  <2>5. /\ y \in DStarRF /\ y.state = rf.state /\ y.header = rf.header /\ y.timer = rf.timer
        /\ y.held = rf.held /\ (Passing => y.ack.timer = 0 /\ y.err.timer = 0)
    BY <1>4 DEF DStarRF, DStarTold
  <2>6. r \in DStar!writeQueueNet(radio, net.timer, out) /\ DStar!ClockRest(x, y, r, ms)
    BY <2>2
  <2> HIDE DEF x, out, y, o
  <2>7. /\ x.state # "IDLE" => r \in {"net", "cut"}
        /\ x.state = "IDLE" /\ net.state # "IDLE" => r \in {"quiet", "net", "cut"}
        /\ x.state = "IDLE" /\ net.state = "IDLE" => Followed(r, net, Passing)
    BY <2>3, <2>4, <2>6 DEF DStar!writeQueueNet, DStar!HearHeaded, DStar!Hear, DStar!Cut,
       DStar!Hushed, Followed
  <2> QED
    BY <1>5, <2>3, <2>4, <2>5, <2>6, <2>7
<1> QED
  BY <1>1, <1>6, <1>7

LEMMA DStarStep == ASSUME DStarInv, DStar!Next PROVE DStarInv'
<1>1. ASSUME NEW on \in BOOLEAN, DStar!enable(on) PROVE DStarInv'
  <2>1. CASE enabled /\ ~on
    <3>1. \A t \in Clocks : DStar!Stop(t) \in Clocks /\ DStar!Stop(t).timer = 0
      BY DStarTimers, 0 \in Nat
    <3>2. /\ rf' = [rf EXCEPT !.state = "LISTENING", !.timer = DStar!Stop(@)]
          /\ net' = DStar!writeEndNet(net) /\ enabled' \in BOOLEAN
          /\ duplex' = duplex /\ stream' = stream /\ radio' = "quiet"
      BY <1>1, <2>1 DEF DStar!enable
    <3>3. /\ rf' \in DStarRF /\ rf'.state = "LISTENING"
      BY <3>1, <3>2 DEF DStarInv, DStarType, DStarRF, DStarStates
    <3>4. \A n \in Int : /\ [net EXCEPT !.state = "IDLE", !.timer = DStar!Stop(@),
                                        !.dog = DStar!Stop(@), !.held = n] \in DStarNet
                         /\ [net EXCEPT !.state = "IDLE", !.timer = DStar!Stop(@),
                                        !.dog = DStar!Stop(@), !.held = n].state = "IDLE"
      BY <3>1 DEF DStarInv, DStarType, DStarNet
    <3>5. 0 \in Int
      OBVIOUS
    <3>6. DStar!writeEndNet(net) \in DStarNet /\ DStar!writeEndNet(net).state = "IDLE"
      BY ONLY <3>4, <3>5, Zenon DEF DStar!writeEndNet
    <3> QED
      BY <3>2, <3>3, <3>6 DEF DStarInv, DStarType, DStarTold, DStar!Coherent, DStar!Active,
         Followed, Passing
  <2>2. CASE ~(enabled /\ ~on)
    BY <1>1, <2>2 DEF DStar!enable, DStarInv, DStarType, DStarTold, DStar!Coherent, DStar!Active,
       DStar!HasExpired, Followed, Passing
  <2> QED
    BY <2>1, <2>2
<1> QED
  BY <1>1, DStarRadio, DStarClock DEF DStar!Next

-----------------------------------------------------------------------------
(* M17.                                                                    *)

M17RF == [state : {"LISTENING", "LATE_ENTRY", "AUDIO", "DATA", "REJECTED"}, timer : Clocks,
          lsf : SUBSET Int, source : {"none", "rf", "net"}]

M17Net == [state : {"IDLE", "AUDIO", "DATA"}, timer : Clocks, dog : Clocks]

M17Type == duplex \in BOOLEAN /\ enabled \in BOOLEAN /\ rf \in M17RF /\ net \in M17Net

M17Inv == M17Type /\ stream # "headless" /\ Followed(radio, net, Passing) /\ M17!Coherent

LEMMA M17Timers ==
  ASSUME NEW t \in Clocks, NEW n \in Nat
  PROVE  /\ M17!SetTimeout(t, n) \in Clocks
         /\ M17!Start(t) \in Clocks
         /\ M17!Stop(t) \in Clocks
         /\ M17!Clock(t, n) \in Clocks
BY DEF Clocks, M17!SetTimeout, M17!Unset, M17!Start, M17!Stop, M17!Clock, M17!IsRunning

LEMMA M17Init == ASSUME M17!Init PROVE M17Inv
<1>1. PICK t \in Timeouts :
        /\ rf = [state |-> "LISTENING", timer |-> M17!SetTimeout(M17!Unset, t), lsf |-> {},
                 source |-> "none"]
        /\ net = [state |-> "IDLE", timer |-> M17!SetTimeout(M17!Unset, t),
                  dog |-> M17!SetTimeout(M17!Unset, WatchdogTime)]
  BY DEF M17!Init
<1>2. t \in Nat /\ WatchdogTime \in Nat
  BY ControlsAssumption DEF ControlsAssumption
<1>3. M17!Unset \in Clocks
  BY DEF Clocks, M17!Unset
<1>4. M17Type
  BY <1>1, <1>2, <1>3, M17Timers DEF M17Type, M17RF, M17Net, M17!Init
<1>5. rf.state = "LISTENING" /\ net.state = "IDLE"
  BY <1>1
<1> QED
  BY <1>4, <1>5 DEF M17Inv, Followed, M17!Coherent, Passing, M17!Init

\* What the radios hear of a frame of a radio.
LEMMA M17Repeats ==
  ASSUME NEW p \in BOOLEAN, NEW r, Followed(r, net, p), NEW timer,
         NEW f \in {"header", "frame", "end"}, f = "header" \/ p,
         NEW s \in M17!writeQueueRF(r, timer, f)
  PROVE  Followed(s, net, f # "end")
BY DEF Followed, M17!writeQueueRF, M17!HearHeaded, M17!Hear, M17!Cut, M17!Hushed

LEMMA M17Radio == ASSUME M17Inv, M17!writeModem PROVE M17Inv'
<1> USE DEF M17Inv, M17Type
<1>0. UNCHANGED <<duplex, enabled, net>>
  BY DEF M17!writeModem, M17!Lost, M17!Header, M17!LateEntry, M17!Audio, M17!EOT
<1>1. \A t \in Clocks : M17!Stop(t) \in Clocks /\ M17!Start(t) \in Clocks
  BY M17Timers, 0 \in Nat
<1>2. Passing \in BOOLEAN /\ (Passing <=> rf.state \in {"AUDIO", "DATA"})
  BY DEF Passing
\* The radio is not passed on any more, ...
<1>3. ASSUME rf' \in M17RF, rf'.state \notin {"AUDIO", "DATA"}, stream' # "headless",
             Followed(radio', net, FALSE)
      PROVE  M17Inv'
  BY <1>0, <1>3 DEF Followed, M17!Coherent, Passing
\* ... is still not passed on, ...
<1>4. ASSUME ~Passing, M17!Silent, rf' \in M17RF, rf'.state \notin {"AUDIO", "DATA"}
      PROVE  M17Inv'
  BY <1>0, <1>4 DEF M17!Silent, Followed, M17!Coherent, Passing
\* ... or is passed on.
<1>5. ASSUME rf' \in M17RF, rf'.lsf = M17!Fragments, rf'.source # "net",
             rf'.state \in {"AUDIO", "DATA"}, stream' # "headless", Followed(radio', net, TRUE)
      PROVE  M17Inv'
  BY <1>0, <1>5 DEF Followed, M17!Coherent, Passing
<1>6. M17!Fragments \in SUBSET Int
  BY ControlsAssumption DEF M17!Fragments, ControlsAssumption
<1>7. ASSUME NEW st \in {"AUDIO", "DATA", "REJECTED"}
      PROVE  /\ M17!Known(st) \in M17RF /\ M17!Known(st).state = st
             /\ M17!Known(st).lsf = M17!Fragments /\ M17!Known(st).source = "rf"
  BY <1>1, <1>6, <1>7 DEF M17!Known, M17RF
<1>8. M17!writeEndRF \in M17RF /\ M17!writeEndRF.state = "LISTENING"
  BY <1>1 DEF M17!writeEndRF, M17!Stopped, M17RF
<1>9. ASSUME NEW timer, NEW f \in {"frame", "end"}, M17!ToNetwork(timer, f)
      PROVE  stream' # "headless"
  BY <1>9 DEF M17!ToNetwork
<1>10. CASE M17!Lost
  <2>1. rf' \in M17RF /\ rf'.state = "LISTENING" /\ stream' = stream
    BY <1>8, <1>10 DEF M17!Lost, M17RF
  <2>2. Followed(radio', net, FALSE)
    BY <1>10 DEF M17!Lost, M17!Quiet, M17!Hushed, Followed
  <2> QED
    BY <1>3, <2>1, <2>2
<1>11. CASE M17!Header
  <2>1. ~Passing
    BY <1>11 DEF M17!Header, Passing
  <2>2. ASSUME NEW source \in {"rf", rf.source}, rf' = [M17!Ignored(rf) EXCEPT !.source = source],
               M17!Silent
        PROVE  M17Inv'
    <3>1. rf' \in M17RF /\ rf'.state = rf.state
      BY <2>2 DEF M17!Ignored, M17RF
    <3> QED
      BY <1>2, <1>4, <2>1, <2>2, <3>1
  <2>3. ASSUME rf' = [rf EXCEPT !.state = "LATE_ENTRY", !.lsf = {}], M17!Silent PROVE M17Inv'
    <3>1. rf' \in M17RF /\ rf'.state = "LATE_ENTRY"
      BY <2>3 DEF M17RF
    <3> QED
      BY <1>4, <2>1, <2>3, <3>1
  <2>4. ASSUME rf' = M17!Known("REJECTED"), M17!Silent PROVE M17Inv'
    BY <1>4, <1>7, <2>1, <2>4
  <2>5. ASSUME NEW s \in {"AUDIO", "DATA"}, rf' = M17!Known(s), stream' = stream,
               radio' \in M17!writeQueueRF(radio, rf'.timer, "header")
        PROVE  M17Inv'
    <3>1. Followed(radio', net, TRUE)
      BY <1>2, <2>5, M17Repeats
    <3> QED
      BY <1>5, <1>7, <2>5, <3>1
  <2> QED
    BY <1>11, <2>2, <2>3, <2>4, <2>5 DEF M17!Header
<1>12. CASE M17!LateEntry
  <2>1. ~Passing
    BY <1>12 DEF M17!LateEntry, Passing
  <2>2. ASSUME NEW lsf \in SUBSET Int, M17!Silent,
               rf' = [rf EXCEPT !.state = "LATE_ENTRY", !.lsf = lsf]
        PROVE  M17Inv'
    <3>1. rf' \in M17RF /\ rf'.state = "LATE_ENTRY"
      BY <2>2 DEF M17RF
    <3> QED
      BY <1>4, <2>1, <2>2, <3>1
  <2>3. ASSUME NEW lsf \in SUBSET Int, M17!Silent, NEW source \in {"rf", rf.source},
               rf' = [M17!Ignored([rf EXCEPT !.state = "LATE_ENTRY", !.lsf = lsf])
                        EXCEPT !.source = source]
        PROVE  M17Inv'
    <3>1. rf' \in M17RF /\ rf'.state = "LATE_ENTRY"
      BY <2>3 DEF M17!Ignored, M17RF
    <3> QED
      BY <1>4, <2>1, <2>3, <3>1
  <2>4. ASSUME rf' = M17!Known("REJECTED"), M17!Silent PROVE M17Inv'
    BY <1>4, <1>7, <2>1, <2>4
  <2>5. ASSUME rf' = M17!Known("DATA"), stream' = stream,
               radio' \in M17!writeQueueRF(radio, rf'.timer, "header")
        PROVE  M17Inv'
    <3>1. Followed(radio', net, TRUE)
      BY <1>2, <2>5, M17Repeats
    <3> QED
      BY <1>5, <1>7, <2>5, <3>1
  <2>6. ASSUME rf' = M17!Known("AUDIO"), M17!ToNetwork(rf'.timer, "frame"),
               NEW r \in M17!writeQueueRF(radio, rf'.timer, "header"),
               radio' \in M17!writeQueueRF(r, rf'.timer, "frame")
        PROVE  M17Inv'
    <3>1. Followed(r, net, TRUE)
      BY <1>2, <2>6, M17Repeats
    <3>2. Followed(radio', net, TRUE)
      BY <2>6, <3>1, M17Repeats
    <3>3. stream' # "headless"
      BY <1>9, <2>6
    <3> QED
      BY <1>5, <1>7, <2>6, <3>2, <3>3
  <2>7. {} \in SUBSET Int /\ rf.lsf \in SUBSET Int
    BY DEF M17RF
  <2>8. CASE /\ rf' = [rf EXCEPT !.state = "LATE_ENTRY",
                                 !.lsf = IF rf.state = "LISTENING" THEN {} ELSE @]
             /\ M17!Silent
    BY <2>2, <2>7, <2>8
  <2>9. ASSUME NEW n \in M17!Fragments, NEW lsf,
               lsf = {n} \cup IF rf.state = "LISTENING" THEN {} ELSE rf.lsf,
               LET x == [rf EXCEPT !.state = "LATE_ENTRY", !.lsf = lsf]
               IN \/ rf' = x /\ M17!Silent
                  \/ \/ \E source \in {"rf", rf.source} :
                          rf' = [M17!Ignored(x) EXCEPT !.source = source] /\ M17!Silent
                     \/ rf' = M17!Known("REJECTED") /\ M17!Silent
                     \/ /\ rf' = M17!Known("DATA")
                        /\ radio' \in M17!writeQueueRF(radio, rf'.timer, "header")
                        /\ UNCHANGED stream
                     \/ /\ rf' = M17!Known("AUDIO")
                        /\ \E r \in M17!writeQueueRF(radio, rf'.timer, "header") :
                             radio' \in M17!writeQueueRF(r, rf'.timer, "frame")
                        /\ M17!ToNetwork(rf'.timer, "frame")
        PROVE  M17Inv'
    <3>1. lsf \in SUBSET Int
      BY <1>6, <2>7, <2>9
    <3> QED
      BY <2>2, <2>3, <2>4, <2>5, <2>6, <2>9, <3>1
  <2> QED
    BY <1>12, <2>8, <2>9 DEF M17!LateEntry
<1>13. CASE M17!Audio
  <2>1. /\ rf' = rf /\ rf.state = "AUDIO" /\ M17!ToNetwork(rf.timer, "frame")
        /\ radio' \in M17!writeQueueRF(radio, rf.timer, "frame")
    BY <1>13 DEF M17!Audio
  <2>2. Passing
    BY <2>1 DEF Passing
  <2>3. Followed(radio', net, TRUE)
    BY <1>2, <2>1, <2>2, M17Repeats
  <2>4. stream' # "headless"
    BY <1>9, <2>1
  <2> QED
    BY <1>5, <2>1, <2>2, <2>3, <2>4 DEF M17!Coherent
<1>14. CASE M17!EOT
  <2>1. /\ rf' = M17!writeEndRF /\ rf.state = "AUDIO" /\ M17!ToNetwork(rf.timer, "end")
        /\ radio' \in M17!writeQueueRF(radio, rf.timer, "end")
    BY <1>14 DEF M17!EOT
  <2>2. Passing
    BY <2>1 DEF Passing
  <2>3. Followed(radio', net, FALSE)
    BY <1>2, <2>1, <2>2, M17Repeats
  <2>4. stream' # "headless"
    BY <1>9, <2>1
  <2> QED
    BY <1>3, <1>8, <2>1, <2>3, <2>4
<1> QED
  BY <1>10, <1>11, <1>12, <1>13, <1>14 DEF M17!writeModem

\* What the radios hear when the network's transmission goes from net to x, of which
\* r has been heard.
LEMMA M17Follows ==
  ASSUME NEW x, NEW y, NEW r,
         x.state = "IDLE" => y.state = "IDLE",
         x.state # "IDLE" => r \in {"net", "cut"},
         x.state = "IDLE" /\ net.state # "IDLE" => r \in {"quiet", "net", "cut"},
         x.state = "IDLE" /\ net.state = "IDLE" => Followed(r, net, Passing)
  PROVE  Followed(M17!After(r, y), y, Passing)
BY DEF Followed, Passing, M17!After, M17!Quiet, M17!Cut, M17!Hushed

\* A frame of the network, heard by radios that have been given what came before.
LEMMA M17Given ==
  ASSUME NEW r, NEW f \in {"header", "frame", "end"},
         r \in IF f = "header" THEN {"quiet", "cut"} ELSE {"net", "cut"},
         NEW s \in M17!writeQueueNet(r, f)
  PROVE  s \in IF f = "end" THEN {"quiet", "cut"} ELSE {"net", "cut"}
BY DEF M17!writeQueueNet, M17!HearHeaded, M17!Hear, M17!Cut, M17!Hushed

\* The frames go out one after the other: the recursion of Hears has a solution, for
\* there are no more than three.
LEMMA M17Hears ==
  ASSUME NEW out, out \in {<<>>, <<"frame">>, <<"frame", "end">>, <<"header">>,
                           <<"header", "frame">>, <<"header", "frame", "end">>},
         out # <<>> => radio \in IF out[1] = "header" THEN {"quiet", "cut"} ELSE {"net", "cut"},
         NEW r \in M17!Hears(out)
  PROVE  /\ out = <<>> => r = radio
         /\ out # <<>> =>
              r \in IF out[Len(out)] = "end" THEN {"quiet", "cut"} ELSE {"net", "cut"}
<1> DEFINE N == Len(out)
           More(S, n) == UNION {M17!writeQueueNet(s, out[n]) : s \in S}
           Is(h) == h = [n \in 0 .. N |-> IF n = 0 THEN {radio} ELSE More(h[n - 1], n)]
<1>1. /\ N \in 0 .. 3
      /\ N = 0 <=> out = <<>>
      /\ \A n \in 1 .. N : out[n] \in {"header", "frame", "end"}
      /\ \A n \in 2 .. N : out[n] # "header" /\ out[n - 1] # "end"
  <2>1. CASE out = <<>>
    BY <2>1
  <2>2. CASE out \in {<<"frame">>, <<"header">>}
    BY <2>2
  <2>3. CASE out = <<"frame", "end">>
    BY <2>3
  <2>4. CASE out = <<"header", "frame">>
    BY <2>4
  <2>5. CASE out = <<"header", "frame", "end">>
    BY <2>5
  <2> QED
    BY <2>1, <2>2, <2>3, <2>4, <2>5
<1>2. \E h : Is(h)
  <2> DEFINE H1 == More({radio}, 1)
             H2 == More(H1, 2)
             H3 == More(H2, 3)
             h == [n \in 0 .. N |-> IF n = 0 THEN {radio} ELSE IF n = 1 THEN H1
                                    ELSE IF n = 2 THEN H2 ELSE H3]
  <2>1. ASSUME NEW n \in 0 .. N
        PROVE  h[n] = IF n = 0 THEN {radio} ELSE More(h[n - 1], n)
    <3> HIDE DEF N
    <3>1. n \in 0 .. 3 /\ (n # 0 => n - 1 \in 0 .. N)
      BY <1>1
    <3> HIDE DEF More
    <3> QED
      BY <3>1
  <2>2. Is(h)
    <3> HIDE DEF More
    <3>1. h = [n \in 0 .. N |-> h[n]]
      OBVIOUS
    <3> HIDE DEF h
    <3> QED
      BY <2>1, <3>1
  <2> QED
    BY <2>2
<1>3. PICK h : Is(h) /\ M17!Hears(out) = h[N]
  <2> DEFINE c == CHOOSE h : Is(h)
  <2>1. M17!Hears(out) = c[N]
    BY DEF M17!Hears
  <2>2. Is(c)
    BY <1>2
  <2> QED
    BY <2>1, <2>2
<1>4. \A n \in 0 .. N : h[n] = IF n = 0 THEN {radio} ELSE More(h[n - 1], n)
  BY <1>3
<1> HIDE DEF N, More
<1> DEFINE Good(n) == h[n] \subseteq IF out[n] = "end" THEN {"quiet", "cut"} ELSE {"net", "cut"}
<1>5. ASSUME NEW n \in 1 .. N, n > 1 => Good(n - 1), out # <<>> PROVE Good(n)
  <2>1. h[n] = More(h[n - 1], n)
    BY <1>1, <1>4, <1>5
  <2>2. h[n - 1] \subseteq IF out[n] = "header" THEN {"quiet", "cut"} ELSE {"net", "cut"}
    <3>1. CASE n = 1
      <4>1. h[n - 1] = {radio}
        BY <1>1, <1>4, <3>1
      <4> QED
        BY <1>5, <3>1, <4>1
    <3>2. CASE n > 1
      BY <1>1, <1>5, <3>2
    <3> QED
      BY <1>1, <3>1, <3>2
  <2>3. out[n] \in {"header", "frame", "end"}
    BY <1>1
  <2>4. ASSUME NEW s \in h[n - 1], NEW q \in M17!writeQueueNet(s, out[n])
        PROVE  q \in IF out[n] = "end" THEN {"quiet", "cut"} ELSE {"net", "cut"}
    BY <2>2, <2>3, M17Given
  <2> QED
    BY <2>1, <2>4 DEF More
<1>6. CASE N = 0
  BY <1>1, <1>3, <1>4, <1>6
<1>7. CASE N # 0
  <2>1. Good(1)
    BY <1>1, <1>5, <1>7
  <2>2. N >= 2 => Good(2)
    BY <1>1, <1>5, <1>7, <2>1
  <2>3. N >= 3 => Good(3)
    BY <1>1, <1>5, <1>7, <2>2
  <2>4. Good(N)
    BY <1>1, <1>7, <2>1, <2>2, <2>3
  <2> QED
    BY <1>1, <1>3, <1>7, <2>4 DEF N
<1> QED
  BY <1>6, <1>7

\* What comes of a frame of the network, and what the radios hear of it.
LEMMA M17Outcome ==
  ASSUME M17Inv, M17!Heeded, NEW f \in M17!Frames, NEW r \in M17!Hears(M17!Out(f)),
         NEW x, x = M17!Outcome(f)
  PROVE  /\ x \in M17Net
         /\ x.state # "IDLE" => r \in {"net", "cut"}
         /\ x.state = "IDLE" /\ net.state # "IDLE" => r \in {"quiet", "net", "cut"}
         /\ x.state = "IDLE" /\ net.state = "IDLE" => Followed(r, net, Passing)
         /\ M17!SourceAfter(f, x) \in {"none", "rf", "net"}
         /\ Passing /\ rf.source # "net" => M17!SourceAfter(f, x) # "net"
<1> USE DEF M17Inv, M17Type
<1>1. \A t \in Clocks : M17!Stop(t) \in Clocks /\ M17!Start(t) \in Clocks
  BY M17Timers, 0 \in Nat
<1>2. net.state = "IDLE" => ~Passing
  BY DEF M17!Heeded, Passing
<1>3. M17!SourceAfter(f, x) \in {"none", "rf", "net"}
  BY DEF M17!SourceAfter, M17RF
<1>4. Passing /\ rf.source # "net" => M17!SourceAfter(f, x) # "net"
  BY <1>2 DEF M17!SourceAfter
<1> DEFINE w == [net EXCEPT !.dog = M17!Start(@)]
           begun == [w EXCEPT !.state = IF f = "data" THEN "DATA" ELSE "AUDIO",
                              !.timer = M17!Start(@)]
           y == IF net.state = "IDLE" THEN begun ELSE w
<1>5. w \in M17Net /\ w.state = net.state
  BY <1>1 DEF M17Net
<1>6. y \in M17Net /\ y.state = IF net.state # "IDLE" THEN net.state
                                ELSE IF f = "data" THEN "DATA" ELSE "AUDIO"
  BY <1>1, <1>5 DEF M17Net
<1>7. M17!writeEndNet(y) \in M17Net /\ M17!writeEndNet(y).state = "IDLE"
  <2> HIDE DEF y
  <2> QED
    BY <1>1, <1>6 DEF M17!writeEndNet, M17Net
<1>8. x = IF f = "encrypted" \/ (f = "unknown" /\ net.state = "IDLE") THEN w
          ELSE IF f = "eot" /\ y.state = "AUDIO" THEN M17!writeEndNet(y) ELSE y
  BY DEF M17!Outcome
<1> DEFINE out == M17!Out(f)
<1>9. out = IF f = "encrypted" \/ net.state = "DATA" THEN <<>>
            ELSE IF net.state = "AUDIO" THEN IF f = "eot" THEN <<"frame", "end">> ELSE <<"frame">>
            ELSE IF f = "unknown" THEN <<>>
            ELSE IF f = "data" THEN <<"header">>
            ELSE IF f = "eot" THEN <<"header", "frame", "end">>
            ELSE <<"header", "frame">>
  BY DEF M17!Out
<1>10. net.state \in {"IDLE", "AUDIO", "DATA"}
  BY DEF M17Net
<1>11. /\ out \in {<<>>, <<"frame">>, <<"frame", "end">>, <<"header">>,
                   <<"header", "frame">>, <<"header", "frame", "end">>}
       /\ out # <<>> => (out[1] = "header" <=> net.state = "IDLE")
  <2> HIDE DEF out
  <2> QED
    BY <1>9, <1>10
<1>12. out # <<>> => radio \in IF out[1] = "header" THEN {"quiet", "cut"} ELSE {"net", "cut"}
  <2> HIDE DEF out
  <2> QED
    BY <1>2, <1>11 DEF Followed
<1>13. /\ out = <<>> => r = radio
       /\ out # <<>> => r \in IF out[Len(out)] = "end" THEN {"quiet", "cut"} ELSE {"net", "cut"}
  <2>1. r \in M17!Hears(out)
    OBVIOUS
  <2> HIDE DEF out
  <2> QED
    BY <1>11, <1>12, <2>1, M17Hears
<1> HIDE DEF w, y, out
<1>14. x \in M17Net
  BY <1>5, <1>6, <1>7, <1>8
<1>15. CASE out = <<>>
  <2>1. x.state = net.state
    <3>1. f = "encrypted" \/ net.state = "DATA" \/ (f = "unknown" /\ net.state = "IDLE")
      BY <1>9, <1>10, <1>15
    <3> QED
      BY <1>5, <1>6, <1>8, <3>1
  <2>2. r = radio
    BY <1>13, <1>15
  <2> QED
    BY <1>3, <1>4, <1>14, <2>1, <2>2 DEF Followed
<1>16. CASE out # <<>>
  <2>1. f # "encrypted" /\ net.state # "DATA" /\ ~(f = "unknown" /\ net.state = "IDLE")
    BY <1>9, <1>10, <1>16
  <2>2. f = "eot" => x.state = "IDLE"
    BY <1>6, <1>7, <1>8, <1>10, <2>1
  <2>3. f # "eot" => x.state # "IDLE"
    BY <1>6, <1>8, <1>10, <2>1
  <2>4. out[Len(out)] = "end" <=> f = "eot"
    BY <1>9, <1>10, <1>16, <2>1
  <2>5. r \in IF f = "eot" THEN {"quiet", "cut"} ELSE {"net", "cut"}
    BY <1>13, <1>16, <2>4
  <2> QED
    BY <1>2, <1>3, <1>4, <1>14, <2>2, <2>3, <2>5 DEF Followed
<1> QED
  BY <1>15, <1>16

LEMMA M17Clock == ASSUME M17Inv, M17!clock PROVE M17Inv'
<1> USE DEF M17Inv, M17Type
<1>1. PICK ms \in 1 .. MaxElapse : M17!ClockHeard(ms) \/ M17!ClockUnheard(ms)
  BY DEF M17!clock, M17!NetHeard, M17!NetUnheard
<1>2. ms \in Nat
  BY ControlsAssumption DEF ControlsAssumption
<1>3. UNCHANGED <<duplex, enabled, stream>>
  BY <1>1 DEF M17!ClockHeard, M17!ClockUnheard
<1>4. \A t \in Clocks : M17!Stop(t) \in Clocks /\ M17!Clock(t, ms) \in Clocks
  BY <1>2, M17Timers
<1>5. ASSUME NEW x \in M17Net, NEW source \in {"none", "rf", "net"}, NEW r,
             M17!ClockRest(x, source, r, ms),
             Passing => source # "net",
             enabled \/ (x = net /\ r = radio),
             x.state # "IDLE" => r \in {"net", "cut"},
             x.state = "IDLE" /\ net.state # "IDLE" => r \in {"quiet", "net", "cut"},
             x.state = "IDLE" /\ net.state = "IDLE" => Followed(r, net, Passing)
      PROVE  M17Inv'
  <2>1. CASE ~enabled
    <3>1. rf' = rf /\ net' = net /\ radio' = radio
      BY <1>5, <2>1 DEF M17!ClockRest
    <3> QED
      BY <1>3, <3>1 DEF M17!Coherent, Followed, Passing
  <2>2. CASE enabled
    <3>1. net' = M17!ClockNet(x, ms) /\ radio' = M17!After(r, net')
      BY <1>5, <2>2 DEF M17!ClockRest
    <3>2. net' \in M17Net /\ (x.state = "IDLE" => net'.state = "IDLE")
      BY <1>4, <1>5, <3>1 DEF M17!ClockNet, M17!writeEndNet, M17Net
    <3>3. \E s \in {"none", source} : rf' = [rf EXCEPT !.timer = M17!Clock(@, ms), !.source = s]
      BY <1>5, <2>2 DEF M17!ClockRest
    <3>4. /\ rf' \in M17RF /\ rf'.state = rf.state /\ rf'.lsf = rf.lsf
          /\ rf'.source \in {"none", source}
      BY <1>4, <3>3 DEF M17RF
    <3>5. Followed(M17!After(r, net'), net', Passing)
      BY <1>5, <3>2, M17Follows
    <3>6. Followed(radio', net', Passing)
      BY <3>1, <3>5
    <3>7. Passing' <=> Passing
      BY <3>4 DEF Passing
    <3>8. M17!Coherent'
      BY <1>5, <3>4 DEF M17!Coherent, M17!Fragments, Passing
    <3> QED
      BY <1>3, <3>2, <3>4, <3>6, <3>7, <3>8 DEF Followed
  <2> QED
    BY <2>1, <2>2
<1>6. CASE M17!ClockUnheard(ms)
  <2>1. M17!ClockRest(net, rf.source, radio, ms)
    BY <1>6 DEF M17!ClockUnheard
  <2>2. /\ net.state # "IDLE" => radio \in {"net", "cut"}
        /\ rf.source \in {"none", "rf", "net"} /\ (Passing => rf.source # "net")
    BY DEF Followed, M17RF, M17!Coherent, Passing
  <2> QED
    BY <1>5, <2>1, <2>2
<1>7. CASE M17!ClockHeard(ms)
  <2>1. PICK f \in M17!Frames : \E r \in M17!Hears(M17!Out(f)) :
          M17!ClockRest(M17!Outcome(f), M17!SourceAfter(f, M17!Outcome(f)), r, ms)
    BY <1>7 DEF M17!ClockHeard
  <2>2. PICK r \in M17!Hears(M17!Out(f)) :
          M17!ClockRest(M17!Outcome(f), M17!SourceAfter(f, M17!Outcome(f)), r, ms)
    BY <2>1
  <2>3. M17!Heeded /\ enabled /\ (Passing => rf.source # "net")
    BY <1>7 DEF M17!ClockHeard, M17!Heeded, M17!Coherent, Passing
  <2> DEFINE x == M17!Outcome(f)
             source == M17!SourceAfter(f, x)
  <2>4. /\ x \in M17Net
        /\ x.state # "IDLE" => r \in {"net", "cut"}
        /\ x.state = "IDLE" /\ net.state # "IDLE" => r \in {"quiet", "net", "cut"}
        /\ x.state = "IDLE" /\ net.state = "IDLE" => Followed(r, net, Passing)
        /\ source \in {"none", "rf", "net"}
        /\ Passing => source # "net"
    <3>1. x = M17!Outcome(f)
      OBVIOUS
    <3> HIDE DEF x
    <3> QED
      BY <2>3, <3>1, M17Outcome
  <2>5. M17!ClockRest(x, source, r, ms)
    BY <2>2
  <2> HIDE DEF x, source
  <2> QED
    BY <1>5, <2>3, <2>4, <2>5
<1> QED
  BY <1>1, <1>6, <1>7

LEMMA M17Step == ASSUME M17Inv, M17!Next PROVE M17Inv'
<1>1. ASSUME NEW on \in BOOLEAN, M17!enable(on) PROVE M17Inv'
  <2>1. CASE enabled /\ ~on
    <3>1. \A t \in Clocks : M17!Stop(t) \in Clocks
      BY M17Timers, 0 \in Nat
    <3>2. /\ rf' = M17!Stopped /\ net' = M17!writeEndNet(net) /\ enabled' \in BOOLEAN
          /\ duplex' = duplex /\ stream' = stream /\ radio' = "quiet"
      BY <1>1, <2>1 DEF M17!enable
    <3>3. /\ rf' \in M17RF /\ rf'.state = "LISTENING"
          /\ net' \in M17Net /\ net'.state = "IDLE"
      BY <3>1, <3>2 DEF M17!Stopped, M17!writeEndNet, M17Inv, M17Type, M17RF, M17Net
    <3> QED
      BY <3>2, <3>3 DEF M17Inv, M17Type, M17!Coherent, Followed, Passing
  <2>2. CASE ~(enabled /\ ~on)
    BY <1>1, <2>2 DEF M17!enable, M17Inv, M17Type, M17!Coherent, Followed, Passing
  <2> QED
    BY <2>1, <2>2
<1> QED
  BY <1>1, M17Radio, M17Clock DEF M17!Next

-----------------------------------------------------------------------------
(* POCSAG.                                                                 *)

PageNet == [state : {"IDLE", "WAITING", "SENDING", "ENDING"}, buffer : Nat, slot : Int]

\* What a batch is made of: the pages that wait, the one that is due and what the
\* radios have heard.
Made == [data : Seq(POCSAG!Pages), net : PageNet, radio : {"quiet", "cut", "net"}]

\* There is something to send of a page that has not begun; and the radios hear a page
\* from the slot it begins in to the idle slot behind it.
PageDue(x, r) == /\ x.state = "WAITING" => x.buffer > 0
                 /\ r \in IF x.state = "SENDING" THEN {"net", "cut"} ELSE {"quiet", "cut"}

POCSAGInv == /\ duplex \in BOOLEAN /\ enabled \in BOOLEAN
             /\ rf \in [state : {"LISTENING"}, data : Seq(POCSAG!Pages)]
             /\ net \in PageNet /\ net.state # "ENDING"
             /\ PageDue(net, radio)
             /\ stream # "headless"
             /\ ~enabled => rf.data = <<>> /\ net.state = "IDLE"

LEMMA POCSAGInit == ASSUME POCSAG!Init PROVE POCSAGInv
<1>1. \A n \in Int : n \in Nat => [state |-> "IDLE", buffer |-> n, slot |-> n] \in PageNet
  BY DEF PageNet
<1>2. 0 \in Int /\ 0 \in Nat
  OBVIOUS
<1>3. [state |-> "IDLE", buffer |-> 0, slot |-> 0] \in PageNet
  BY ONLY <1>1, <1>2, Zenon
<1>4. net \in PageNet /\ net.state = "IDLE"
  BY <1>3 DEF POCSAG!Init
<1>5. rf \in [state : {"LISTENING"}, data : Seq(POCSAG!Pages)]
  BY DEF POCSAG!Init
<1> QED
  BY <1>4, <1>5 DEF POCSAGInv, PageDue, POCSAG!Init

\* Of the natural numbers of which something is true, one is the least.
LEMMA LeastNumber ==
  ASSUME NEW T \in SUBSET Nat, T # {}
  PROVE  \E n \in T : \A m \in T : n <= m
<1> DEFINE R == {s \in Nat \X Nat : s[1] < s[2]}
<1>1. IsWellFoundedOn(R, Nat)
  BY NatLessThanWellFounded DEF OpToRel
<1> HIDE DEF R
<1>2. PICK n \in T : \A m \in T : ~(<<m, n>> \in R)
  BY <1>1, WFMin, Zenon
<1>3. \A m \in T : m \in Nat /\ n \in Nat /\ ~(m < n)
  BY <1>2 DEF R
<1> QED
  BY <1>2, <1>3

\* The next page that waits, if one does.
LEMMA POCSAGTakesUp ==
  ASSUME NEW b \in Made, b.radio \in {"quiet", "cut"}, NEW none \in {"IDLE", "ENDING"},
         NEW c, c = POCSAG!processData(b, none)
  PROVE  c \in Made /\ PageDue(c.net, c.radio) /\ c.radio = b.radio
<1>1. CASE b.data = <<>>
  <2>1. c = [b EXCEPT !.net.state = none]
    BY <1>1 DEF POCSAG!processData
  <2>2. c \in Made /\ c.net.state = none /\ c.radio = b.radio
    BY <2>1 DEF Made, PageNet
  <2> QED
    BY <2>2 DEF PageDue
<1>2. CASE b.data # <<>>
  <2> DEFINE p == Head(b.data)
             x == [state |-> "WAITING", buffer |-> p.length, slot |-> p.slot]
  <2>1. c = [b EXCEPT !.data = Tail(@), !.net = x]
    BY <1>2 DEF POCSAG!processData
  <2>2. b.data \in Seq(POCSAG!Pages)
    BY DEF Made
  <2>3. p \in POCSAG!Pages /\ Tail(b.data) \in Seq(POCSAG!Pages)
    BY <1>2, <2>2
  <2> HIDE DEF p
  <2>4. x \in PageNet /\ x.buffer > 0 /\ x.state = "WAITING"
    BY <2>3, ControlsAssumption DEF POCSAG!Pages, PageNet, ControlsAssumption
  <2> HIDE DEF x
  <2>5. c \in Made /\ c.net = x /\ c.radio = b.radio
    BY <2>1, <2>3, <2>4 DEF Made
  <2> QED
    BY <2>4, <2>5 DEF PageDue
<1> QED
  BY <1>1, <1>2

\* What is sent in one slot.
LEMMA POCSAGSlot ==
  ASSUME NEW b \in Made, PageDue(b.net, b.radio), NEW i \in Int, NEW c, c = POCSAG!Slot(b, i)
  PROVE  c \in Made /\ PageDue(c.net, c.radio)
<1> USE DEF PageDue
<1>1. /\ b.net \in PageNet /\ b.radio \in {"quiet", "cut", "net"} /\ b.net.buffer \in Nat
      /\ b.net.state \in {"IDLE", "WAITING", "SENDING", "ENDING"}
  BY DEF Made, PageNet
<1>2. CASE b.net.state = "WAITING" /\ i = b.net.slot
  <2> DEFINE r == POCSAG!HearHeaded(b.radio, "net", "header")
             n == b.net.buffer - 1
  <2>1. c = [b EXCEPT !.net.state = "SENDING", !.net.buffer = @ - 1, !.radio = r]
    BY <1>2 DEF POCSAG!Slot
  <2>2. r \in {"net", "cut"}
    BY <1>2 DEF POCSAG!HearHeaded, POCSAG!Hear
  <2>3. n \in Nat
    BY <1>1, <1>2
  <2>4. c = [b EXCEPT !.net = [b.net EXCEPT !.state = "SENDING", !.buffer = n], !.radio = r]
    BY <1>1, <2>1 DEF Made, PageNet
  <2> HIDE DEF r, n
  <2>5. c \in Made /\ c.net.state = "SENDING" /\ c.radio = r
    BY <2>2, <2>3, <2>4 DEF Made, PageNet
  <2> QED
    BY <2>2, <2>5
<1>3. CASE b.net.state = "SENDING" /\ b.net.buffer > 0
  <2> DEFINE r == POCSAG!HearHeaded(b.radio, "net", "frame")
             n == b.net.buffer - 1
  <2>1. c = [b EXCEPT !.net.buffer = @ - 1, !.radio = r]
    BY <1>3 DEF POCSAG!Slot
  <2>2. r \in {"net", "cut"}
    BY <1>3 DEF POCSAG!HearHeaded, POCSAG!Hear
  <2>3. n \in Nat
    BY <1>1, <1>3
  <2>4. c = [b EXCEPT !.net = [b.net EXCEPT !.buffer = n], !.radio = r]
    BY <1>1, <2>1 DEF Made, PageNet
  <2> HIDE DEF r, n
  <2>5. c \in Made /\ c.net.state = "SENDING" /\ c.radio = r
    BY <1>3, <2>2, <2>3, <2>4 DEF Made, PageNet
  <2> QED
    BY <2>2, <2>5
<1>4. CASE b.net.state = "SENDING" /\ ~(b.net.buffer > 0)
  <2> DEFINE r == POCSAG!HearHeaded(b.radio, "net", "end")
             d == [b EXCEPT !.radio = r]
  <2>1. b.net.buffer = 0
    BY <1>1, <1>4
  <2>2. c = POCSAG!processData(d, "ENDING")
    BY <1>4, <2>1 DEF POCSAG!Slot
  <2>3. r = "quiet"
    BY <1>4 DEF POCSAG!HearHeaded, POCSAG!Hear
  <2>4. d \in Made /\ d.radio = "quiet"
    BY <2>3 DEF Made
  <2> HIDE DEF d
  <2> QED
    BY <2>2, <2>4, POCSAGTakesUp
<1>5. CASE ~(b.net.state = "WAITING" /\ i = b.net.slot) /\ b.net.state # "SENDING"
  BY <1>5 DEF POCSAG!Slot
<1> QED
  BY <1>2, <1>3, <1>4, <1>5

\* The slots of a batch are sent one after the other.
LEMMA POCSAGBatch ==
  ASSUME NEW b \in Made, PageDue(b.net, b.radio)
  PROVE  POCSAG!Batch(b) \in Made /\ PageDue(POCSAG!Batch(b).net, POCSAG!Batch(b).radio)
<1> DEFINE Is(n, g) == g = [i \in 0 .. n |-> IF i = 0 THEN b ELSE POCSAG!Slot(g[i - 1], i - 1)]
<1>1. \A n \in Nat : \E g : Is(n, g)
  <2> SUFFICES ASSUME NEW k \in Nat, ~\E g : Is(k, g) PROVE FALSE
    OBVIOUS
  <2> DEFINE T == {m \in Nat : ~\E g : Is(m, g)}
  <2>1. T \in SUBSET Nat /\ T # {}
    OBVIOUS
  <2>2. PICK n \in T : \A m \in T : n <= m
    <3> HIDE DEF T
    <3> QED
      BY <2>1, LeastNumber
  <2>3. n \in Nat /\ ~\E g : Is(n, g)
    OBVIOUS
  <2>4. CASE n = 0
    <3> DEFINE g == [i \in 0 .. 0 |-> b]
    <3>1. Is(0, g)
      BY \A i \in 0 .. 0 : i = 0
    <3> QED
      BY <2>3, <2>4, <3>1
  <2>5. CASE n # 0
    <3>1. n - 1 \in Nat /\ n - 1 < n
      BY <2>3, <2>5
    <3>2. n - 1 \notin T
      <4> HIDE DEF T
      <4> QED
        BY <2>2, <2>3, <3>1
    <3>3. PICK g : Is(n - 1, g)
      BY <3>1, <3>2
    <3> DEFINE h == [i \in 0 .. n |-> IF i < n THEN g[i] ELSE POCSAG!Slot(g[n - 1], n - 1)]
    <3>4. \A i \in 0 .. n - 1 : g[i] = IF i = 0 THEN b ELSE POCSAG!Slot(g[i - 1], i - 1)
      BY <3>3
    <3>5. ASSUME NEW i \in 0 .. n
          PROVE  h[i] = IF i = 0 THEN b ELSE POCSAG!Slot(h[i - 1], i - 1)
      <4>1. CASE i < n
        BY <2>3, <3>1, <3>4, <4>1
      <4>2. CASE ~(i < n)
        <5>1. i = n /\ i - 1 \in 0 .. n /\ i - 1 < n /\ i # 0
          BY <2>3, <2>5, <3>1, <4>2
        <5>2. h[i] = POCSAG!Slot(g[n - 1], n - 1) /\ h[i - 1] = g[n - 1]
          BY <5>1
        <5> HIDE DEF h
        <5> QED
          BY <5>1, <5>2
      <4> QED
        BY <4>1, <4>2
    <3>6. h = [i \in 0 .. n |-> h[i]]
      OBVIOUS
    <3> HIDE DEF h
    <3>7. Is(n, h)
      BY <3>5, <3>6
    <3> QED
      BY <2>3, <3>7
  <2> QED
    BY <2>4, <2>5
<1>2. Slots \in Nat
  BY ControlsAssumption DEF ControlsAssumption
<1>3. PICK g : Is(Slots, g) /\ POCSAG!Batch(b) = g[Slots]
  <2> DEFINE c == CHOOSE g : Is(Slots, g)
  <2>1. POCSAG!Batch(b) = c[Slots]
    BY DEF POCSAG!Batch
  <2>2. Is(Slots, c)
    BY <1>1, <1>2
  <2> QED
    BY <2>1, <2>2
<1>4. \A i \in 0 .. Slots : g[i] = IF i = 0 THEN b ELSE POCSAG!Slot(g[i - 1], i - 1)
  BY <1>3
<1> DEFINE Good(i) == g[i] \in Made /\ PageDue(g[i].net, g[i].radio)
<1>5. ASSUME NEW k \in 0 .. Slots, ~Good(k) PROVE FALSE
  <2> DEFINE T == {m \in 0 .. Slots : ~Good(m)}
  <2>1. T \in SUBSET Nat /\ T # {}
    BY <1>5
  <2>2. PICK n \in T : \A m \in T : n <= m
    <3> HIDE DEF T
    <3> QED
      BY <2>1, LeastNumber
  <2>3. n \in 0 .. Slots /\ ~Good(n)
    OBVIOUS
  <2>4. n # 0
    BY <1>4, <2>3
  <2>5. n - 1 \in 0 .. Slots /\ n - 1 < n
    BY <1>2, <2>3, <2>4
  <2>6. n - 1 \notin T
    BY <2>2, <2>3, <2>5
  <2>7. Good(n - 1)
    BY <2>5, <2>6
  <2>8. g[n] = POCSAG!Slot(g[n - 1], n - 1) /\ n - 1 \in Int
    BY <1>4, <2>3, <2>4, <2>5
  <2>9. Good(n)
    BY <2>7, <2>8, POCSAGSlot
  <2> QED
    BY <2>3, <2>9
<1>6. Slots \in 0 .. Slots
  BY <1>2
<1>7. Good(Slots)
  BY <1>5, <1>6
<1> QED
  BY <1>3, <1>7

LEMMA POCSAGTurn ==
  ASSUME POCSAGInv, NEW data \in Seq(POCSAG!Pages), POCSAG!Turn(data),
         ~enabled => data = <<>>
  PROVE  /\ rf' \in [state : {"LISTENING"}, data : Seq(POCSAG!Pages)]
         /\ net' \in PageNet /\ net'.state # "ENDING" /\ PageDue(net', radio')
         /\ ~enabled => rf'.data = <<>> /\ net'.state = "IDLE"
<1> DEFINE b == [data |-> data, net |-> net, radio |-> radio]
           c == IF net.state = "IDLE" THEN POCSAG!processData(b, "IDLE") ELSE b
<1>1. b \in Made /\ b.data = data /\ b.net = net /\ b.radio = radio
  BY DEF POCSAGInv, Made, PageDue
<1>2. IF c.net.state = "IDLE"
        THEN rf' = [rf EXCEPT !.data = data] /\ UNCHANGED <<net, radio>>
        ELSE POCSAG!Sent(POCSAG!Batch(c))
  BY DEF POCSAG!Turn
<1>3. c \in Made /\ PageDue(c.net, c.radio)
  <2>1. CASE net.state = "IDLE"
    <3>1. b.radio \in {"quiet", "cut"}
      BY <1>1, <2>1 DEF POCSAGInv, PageDue
    <3>2. c = POCSAG!processData(b, "IDLE")
      BY <2>1
    <3> HIDE DEF b, c
    <3> QED
      BY <1>1, <3>1, <3>2, POCSAGTakesUp
  <2>2. CASE net.state # "IDLE"
    BY <1>1, <2>2 DEF POCSAGInv
  <2> QED
    BY <2>1, <2>2
<1>4. ~enabled => c.net.state = "IDLE"
  <2>1. CASE ~enabled
    <3>1. c = [b EXCEPT !.net.state = "IDLE"]
      BY <2>1 DEF POCSAGInv, POCSAG!processData
    <3> HIDE DEF b, c
    <3> QED
      BY <1>1, <3>1 DEF Made, PageNet
  <2> QED
    BY <2>1
<1> HIDE DEF b, c
<1>5. CASE c.net.state = "IDLE"
  <2>1. rf' = [rf EXCEPT !.data = data] /\ net' = net /\ radio' = radio
    BY <1>2, <1>5
  <2>2. rf' \in [state : {"LISTENING"}, data : Seq(POCSAG!Pages)] /\ rf'.data = data
    BY <2>1 DEF POCSAGInv
  <2> QED
    BY <2>1, <2>2 DEF POCSAGInv
<1>6. CASE c.net.state # "IDLE"
  <2> DEFINE d == POCSAG!Batch(c)
  <2>1. d \in Made /\ PageDue(d.net, d.radio)
    BY <1>3, POCSAGBatch
  <2>2. POCSAG!Sent(d) /\ enabled
    BY <1>2, <1>4, <1>6 DEF POCSAGInv
  <2> HIDE DEF d
  <2>3. rf' \in [state : {"LISTENING"}, data : Seq(POCSAG!Pages)]
    BY <2>1, <2>2 DEF POCSAG!Sent, POCSAGInv, Made
  <2>4. net' = [d.net EXCEPT !.state = IF @ = "ENDING" THEN "IDLE" ELSE @]
    BY <2>2 DEF POCSAG!Sent
  <2>5. /\ net' \in PageNet /\ net'.buffer = d.net.buffer
        /\ net'.state = IF d.net.state = "ENDING" THEN "IDLE" ELSE d.net.state
    BY <2>1, <2>4 DEF Made, PageNet
  <2>6. radio' \in {d.radio, "cut"}
    BY <2>1, <2>2 DEF POCSAG!Sent, POCSAG!Cut, POCSAG!Hushed, Made
  <2> QED
    BY <2>1, <2>2, <2>3, <2>5, <2>6 DEF PageDue
<1> QED
  BY <1>5, <1>6

LEMMA POCSAGStep == ASSUME POCSAGInv, POCSAG!Next PROVE POCSAGInv'
<1>1. CASE POCSAG!sendPage
  <2>1. PICK p \in POCSAG!Pages : rf' = [rf EXCEPT !.data = Append(@, p)]
    BY <1>1 DEF POCSAG!sendPage
  <2>2. enabled /\ UNCHANGED <<duplex, enabled, net, stream, radio>>
    BY <1>1 DEF POCSAG!sendPage
  <2>3. rf.data \in Seq(POCSAG!Pages)
    BY DEF POCSAGInv
  <2>4. Append(rf.data, p) \in Seq(POCSAG!Pages)
    BY <2>3
  <2>5. rf' \in [state : {"LISTENING"}, data : Seq(POCSAG!Pages)]
    BY <2>1, <2>4 DEF POCSAGInv
  <2> QED
    BY <2>2, <2>5 DEF POCSAGInv, PageDue
<1>2. ASSUME NEW data \in Seq(POCSAG!Pages), POCSAG!Turn(data), ~enabled => data = <<>>,
             UNCHANGED <<duplex, enabled, stream>>
      PROVE  POCSAGInv'
  BY <1>2, POCSAGTurn DEF POCSAGInv, PageDue
<1>3. CASE POCSAG!NetHeard
  <2>1. PICK p \in POCSAG!Pages : POCSAG!Turn(Append(rf.data, p))
    BY <1>3 DEF POCSAG!NetHeard
  <2>2. rf.data \in Seq(POCSAG!Pages)
    BY DEF POCSAGInv
  <2>3. Append(rf.data, p) \in Seq(POCSAG!Pages)
    BY <2>2
  <2> QED
    BY <1>2, <1>3, <2>1, <2>3 DEF POCSAG!NetHeard
<1>4. CASE POCSAG!NetUnheard
  BY <1>2, <1>4 DEF POCSAG!NetUnheard, POCSAGInv
<1>5. ASSUME NEW on \in BOOLEAN, POCSAG!enable(on) PROVE POCSAGInv'
  <2>1. CASE enabled /\ ~on
    <3>1. /\ rf' = [rf EXCEPT !.data = <<>>] /\ net' = [net EXCEPT !.state = "IDLE"]
          /\ radio' = "quiet" /\ duplex' = duplex /\ stream' = stream /\ enabled' \in BOOLEAN
      BY <1>5, <2>1 DEF POCSAG!enable
    <3>2. net' \in PageNet /\ net'.state = "IDLE"
      BY <3>1 DEF POCSAGInv, PageNet
    <3>3. \A d \in Seq(POCSAG!Pages) :
            /\ [rf EXCEPT !.data = d] \in [state : {"LISTENING"}, data : Seq(POCSAG!Pages)]
            /\ [rf EXCEPT !.data = d].data = d
      BY DEF POCSAGInv
    <3>4. <<>> \in Seq(POCSAG!Pages)
      OBVIOUS
    <3>5. rf' \in [state : {"LISTENING"}, data : Seq(POCSAG!Pages)] /\ rf'.data = <<>>
      BY ONLY <3>1, <3>3, <3>4
    <3> QED
      BY <3>1, <3>2, <3>5 DEF POCSAGInv, PageDue
  <2>2. CASE ~(enabled /\ ~on)
    <3>1. UNCHANGED <<rf, net, radio, duplex, stream>> /\ enabled' \in BOOLEAN
      BY <1>5, <2>2 DEF POCSAG!enable
    <3>2. ~enabled' => ~enabled
      BY <1>5, <2>2 DEF POCSAG!enable, POCSAGInv
    <3> QED
      BY <3>1, <3>2 DEF POCSAGInv, PageDue
  <2> QED
    BY <2>1, <2>2
<1> QED
  BY <1>1, <1>3, <1>4, <1>5 DEF POCSAG!Next, POCSAG!clock

-----------------------------------------------------------------------------
(* All of them.                                                            *)

ControlsInv == /\ unit \in {"YSF", "P25", "NXDN", "DStar", "M17", "POCSAG"}
               /\ unit = "YSF" => YSFInv
               /\ unit = "P25" => P25Inv
               /\ unit = "NXDN" => NXDNInv
               /\ unit = "DStar" => DStarInv
               /\ unit = "M17" => M17Inv
               /\ unit = "POCSAG" => POCSAGInv

LEMMA InitOfControls == Init => ControlsInv
BY YSFInit, P25Init, NXDNInit, DStarInit, M17Init, POCSAGInit DEF Init, ControlsInv

LEMMA StepOfControls == ControlsInv /\ [Next]_vars => ControlsInv'
<1> SUFFICES ASSUME ControlsInv, [Next]_vars PROVE ControlsInv'
  OBVIOUS
<1>1. CASE Next
  <2>1. unit' = unit
    BY <1>1 DEF Next
  <2>2. /\ unit = "YSF" => YSF!Next
        /\ unit = "P25" => P25!Next
        /\ unit = "NXDN" => NXDN!Next
        /\ unit = "DStar" => DStar!Next
        /\ unit = "M17" => M17!Next
        /\ unit = "POCSAG" => POCSAG!Next
    BY <1>1 DEF Next, Step
  <2> QED
    BY <2>1, <2>2, YSFStep, P25Step, NXDNStep, DStarStep, M17Step, POCSAGStep DEF ControlsInv
<1>2. CASE UNCHANGED vars
  <2>1. /\ unit' = unit /\ duplex' = duplex /\ enabled' = enabled /\ rf' = rf
        /\ net' = net /\ stream' = stream /\ radio' = radio
    BY <1>2 DEF vars
  <2>2. YSFInv => YSFInv'
    BY <2>1 DEF YSFInv, YSFType, YSFFollowed, YSFTold, YSF!Coherent, Passing
  <2>3. P25Inv => P25Inv'
    BY <2>1 DEF P25Inv, P25Type, P25Told, P25!Coherent, Passing, P25Followed, Followed, P25!HasExpired
  <2>4. NXDNInv => NXDNInv'
    BY <2>1 DEF NXDNInv, NXDNType, NXDNTold, NXDN!Coherent, Passing, NXDNFollowed, Followed
  <2>5. DStarInv => DStarInv'
    BY <2>1 DEF DStarInv, DStarType, DStarTold, DStar!Coherent, DStar!Active, Passing, Followed,
       DStar!HasExpired
  <2>6. M17Inv => M17Inv'
    BY <2>1 DEF M17Inv, M17Type, M17!Coherent, Passing, Followed
  <2>7. POCSAGInv => POCSAGInv'
    BY <2>1 DEF POCSAGInv, PageDue
  <2> QED
    BY <2>1, <2>2, <2>3, <2>4, <2>5, <2>6, <2>7 DEF ControlsInv
<1> QED
  BY <1>1, <1>2

\* Each control keeps the invariant of its own, whichever frames it is given and
\* whatever its timers and the operator do; a behaviour is that of one control.
THEOREM ControlsInvariant == Spec => []ControlsInv
BY InitOfControls, StepOfControls, PTL DEF Spec

LEMMA KnownOfInv == ControlsInv => Coherent
BY DEF ControlsInv, Coherent, YSFInv, P25Inv, NXDNInv, DStarInv, M17Inv, POCSAGInv,
   POCSAG!Coherent, PageDue

LEMMA ToldOfInv == ControlsInv => ToldWhole
BY DEF ControlsInv, ToldWhole, YSFInv, YSFTold, P25Inv, P25Told, NXDNInv, NXDNTold, DStarInv,
   DStarTold, M17Inv, POCSAGInv

LEMMA HeardOfInv == ControlsInv => HeardWhole
BY DEF ControlsInv, HeardWhole, YSFInv, YSFFollowed, P25Inv, NXDNInv, DStarInv, M17Inv,
   POCSAGInv, PageDue, P25Followed, NXDNFollowed, Followed

\* Whoever is passed on is known, in whatever order headers, frames, losses, switching
\* and the network's frames come: the radio or the header of CYSFControl, the
\* addresses of CP25Control and CNXDNControl, the header of CDStarControl, the LSF and
\* m_source of CM17Control; and a page of CPOCSAGControl that is due is there.
THEOREM PassedOnIsKnown == Spec => []Coherent
BY ControlsInvariant, KnownOfInv, PTL

\* Every control tells the network a transmission from its header on, and no end of
\* one it was not told.
THEOREM NetworkToldWhole == Spec => []ToldWhole
BY ControlsInvariant, ToldOfInv, PTL

\* No control lets the radios hear two at once, nor what they cannot follow for want
\* of a header, although queues overflow, timers run out and the watchdog strikes; but
\* for the radio that P25 repeats while the network transmits, and the messages of the
\* network that NXDN sends while nobody does.
THEOREM RadiosHearWhole == Spec => []HeardWhole
BY ControlsInvariant, HeardOfInv, PTL

-----------------------------------------------------------------------------
(* The arbitration of Exchange.                                            *)

Holder == IF net.state # "IDLE" THEN "network"
          ELSE IF rf.state \in {"AUDIO", "DATA"} THEN "radio" ELSE "nobody"

\* What the steps of a control are to the channel: a frame of a radio; a call of clock
\* with a frame of the network, which is heeded if no radio has the channel, or without
\* one; the control is switched off, or on, or not touched.
FromRadio == enabled /\ enabled' = enabled /\ net' = net

FromNetwork == /\ enabled /\ enabled' = enabled /\ rf'.state = rf.state
               /\ Passing => net.state # "IDLE"

Clocked == /\ enabled' = enabled /\ rf'.state = rf.state
           /\ IF enabled THEN net.state = "IDLE" => net'.state = "IDLE"
                         ELSE net'.state = net.state

TurnedOff == enabled' = FALSE /\ net'.state = "IDLE" /\ ~Passing'

Untouched == /\ enabled' \in BOOLEAN /\ (enabled => enabled')
             /\ net'.state = net.state /\ rf'.state = rf.state

KeepsTo == FromRadio \/ FromNetwork \/ Clocked \/ TurnedOff \/ Untouched

LEMMA StepOfExchange ==
  ASSUME KeepsTo, enabled \in BOOLEAN
  PROVE  Channel!Next \/ (enabled' = enabled /\ Holder' = Holder)
BY DEF KeepsTo, FromRadio, FromNetwork, Clocked, TurnedOff, Untouched, Holder, Passing,
       Channel!Next, Channel!RadioTakes, Channel!NetworkTakes, Channel!Released,
       Channel!SwitchedOff, Channel!SwitchedOn

LEMMA YSFKeeps == ASSUME YSFInv, YSF!Next PROVE KeepsTo
<1>1. CASE YSF!writeModem
  <2>1. FromRadio
    BY <1>1 DEF FromRadio, YSF!writeModem, YSF!Lost, YSF!processVWData, YSF!processDNData,
       YSF!processFRData, YSF!Handled, YSF!Header, YSF!Terminator, YSF!Frame, YSF!LateEntry,
       YSF!Begins
  <2> QED
    BY <2>1 DEF KeepsTo
<1>2. ASSUME NEW ms, YSF!ClockHeard(ms) PROVE FromNetwork
  BY <1>2 DEF FromNetwork, Passing, YSF!ClockHeard, YSF!Heeded, YSF!ClockRest, YSFInv,
     YSFType
<1>3. ASSUME NEW ms, YSF!ClockUnheard(ms) PROVE Clocked
  BY <1>3 DEF Clocked, YSF!ClockUnheard, YSF!ClockRest, YSF!ClockNet, YSF!writeEndNet,
     YSFInv, YSFType
<1>4. ASSUME NEW on \in BOOLEAN, YSF!enable(on), enabled, ~on PROVE TurnedOff
  BY <1>4 DEF TurnedOff, Passing, YSF!enable, YSF!writeEndRF, YSF!Reset, YSF!writeEndNet,
     YSFInv, YSFType
<1>5. ASSUME NEW on \in BOOLEAN, YSF!enable(on), ~(enabled /\ ~on) PROVE Untouched
  BY <1>5 DEF Untouched, YSF!enable
<1> QED
  BY <1>1, <1>2, <1>3, <1>4, <1>5 DEF KeepsTo, YSF!Next, YSF!clock, YSF!NetHeard,
     YSF!NetUnheard

LEMMA P25Keeps == ASSUME P25Inv, P25!Next PROVE KeepsTo
<1>1. CASE P25!writeModem
  <2>1. FromRadio
    BY <1>1 DEF FromRadio, P25!writeModem, P25!LostVoice, P25!LostData, P25!Header,
       P25!LDU1Begins, P25!LDU, P25!TSDU, P25!Terminator, P25!PDU
  <2> QED
    BY <2>1 DEF KeepsTo
<1>2. ASSUME NEW ms, P25!ClockHeard(ms) PROVE FromNetwork
  BY <1>2 DEF FromNetwork, Passing, P25!ClockHeard, P25!Heeded, P25!ClockRest, P25Inv,
     P25Type, P25RF, P25Net
<1>3. ASSUME NEW ms, P25!ClockUnheard(ms) PROVE Clocked
  BY <1>3 DEF Clocked, P25!ClockUnheard, P25!ClockRest, P25!ClockNet, P25!NetOver, P25Inv,
     P25Type, P25RF, P25Net
<1>4. ASSUME NEW on \in BOOLEAN, P25!enable(on), enabled, ~on PROVE TurnedOff
  BY <1>4 DEF TurnedOff, Passing, P25!enable, P25!Over, P25!NetOver, P25Inv, P25Type, P25RF,
     P25Net
<1>5. ASSUME NEW on \in BOOLEAN, P25!enable(on), ~(enabled /\ ~on) PROVE Untouched
  BY <1>5 DEF Untouched, P25!enable
<1>6. CASE P25!StrayEnd
  <2>1. Untouched
    BY <1>6 DEF Untouched, P25!StrayEnd, P25Inv, P25Type, P25Net
  <2> QED
    BY <2>1 DEF KeepsTo
<1> QED
  BY <1>1, <1>2, <1>3, <1>4, <1>5, <1>6 DEF KeepsTo, P25!Next, P25!clock, P25!NetHeard,
     P25!NetUnheard

LEMMA NXDNKeeps == ASSUME NXDNInv, NXDN!Next PROVE KeepsTo
<1>1. CASE NXDN!writeModem
  <2>1. FromRadio
    BY <1>1 DEF FromRadio, NXDN!writeModem, NXDN!Lost, NXDN!VCall, NXDN!TxRel, NXDN!Voice,
       NXDN!VoiceFACCH1, NXDN!VoiceSACCH, NXDN!DataBegins, NXDN!DataFrame
  <2> QED
    BY <2>1 DEF KeepsTo
<1>2. ASSUME NEW ms, NXDN!ClockHeard(ms) PROVE FromNetwork
  BY <1>2 DEF FromNetwork, Passing, NXDN!ClockHeard, NXDN!Heeded, NXDN!ClockRest, NXDNInv,
     NXDNType, NXDNRF, NXDNNet
<1>3. ASSUME NEW ms, NXDN!ClockUnheard(ms) PROVE Clocked
  BY <1>3 DEF Clocked, NXDN!ClockUnheard, NXDN!ClockRest, NXDN!ClockNet, NXDN!writeEndNet,
     NXDNInv, NXDNType, NXDNRF, NXDNNet
<1>4. ASSUME NEW on \in BOOLEAN, NXDN!enable(on), enabled, ~on PROVE TurnedOff
  BY <1>4 DEF TurnedOff, Passing, NXDN!enable, NXDN!writeEndRF, NXDN!Listening,
     NXDN!writeEndNet, NXDNInv, NXDNType, NXDNRF, NXDNNet
<1>5. ASSUME NEW on \in BOOLEAN, NXDN!enable(on), ~(enabled /\ ~on) PROVE Untouched
  BY <1>5 DEF Untouched, NXDN!enable
<1> QED
  BY <1>1, <1>2, <1>3, <1>4, <1>5 DEF KeepsTo, NXDN!Next, NXDN!clock, NXDN!NetHeard,
     NXDN!NetUnheard

LEMMA DStarKeeps == ASSUME DStarInv, DStar!Next PROVE KeepsTo
<1>1. CASE DStar!writeModem
  <2>1. FromRadio
    BY <1>1 DEF FromRadio, DStar!writeModem, DStar!Lost, DStar!Header, DStar!EOT, DStar!Data
  <2> QED
    BY <2>1 DEF KeepsTo
<1>2. ASSUME NEW ms, DStar!ClockHeard(ms) PROVE FromNetwork
  BY <1>2 DEF FromNetwork, Passing, DStar!ClockHeard, DStar!Heeded, DStar!ClockRest,
     DStar!ClockRF, DStarInv, DStarType, DStarRF, DStarNet, DStar!Active
<1>3. ASSUME NEW ms, DStar!ClockUnheard(ms) PROVE Clocked
  BY <1>3 DEF Clocked, DStar!ClockUnheard, DStar!ClockRest, DStar!ClockNet, DStar!ClockRF,
     DStar!writeEndNet, DStarInv, DStarType, DStarRF, DStarNet, DStar!Active
<1>4. ASSUME NEW on \in BOOLEAN, DStar!enable(on), enabled, ~on PROVE TurnedOff
  BY <1>4 DEF TurnedOff, Passing, DStar!enable, DStar!writeEndNet, DStarInv, DStarType,
     DStarRF, DStarNet
<1>5. ASSUME NEW on \in BOOLEAN, DStar!enable(on), ~(enabled /\ ~on) PROVE Untouched
  BY <1>5 DEF Untouched, DStar!enable
<1> QED
  BY <1>1, <1>2, <1>3, <1>4, <1>5 DEF KeepsTo, DStar!Next, DStar!clock, DStar!NetHeard,
     DStar!NetUnheard

LEMMA M17Keeps == ASSUME M17Inv, M17!Next PROVE KeepsTo
<1>1. CASE M17!writeModem
  <2>1. FromRadio
    BY <1>1 DEF FromRadio, M17!writeModem, M17!Lost, M17!Header, M17!LateEntry, M17!Audio,
       M17!EOT
  <2> QED
    BY <2>1 DEF KeepsTo
<1>2. ASSUME NEW ms, M17!ClockHeard(ms) PROVE FromNetwork
  BY <1>2 DEF FromNetwork, Passing, M17!ClockHeard, M17!Heeded, M17!ClockRest, M17Inv,
     M17Type, M17RF, M17Net
<1>3. ASSUME NEW ms, M17!ClockUnheard(ms) PROVE Clocked
  BY <1>3 DEF Clocked, M17!ClockUnheard, M17!ClockRest, M17!ClockNet, M17!writeEndNet,
     M17Inv, M17Type, M17RF, M17Net
<1>4. ASSUME NEW on \in BOOLEAN, M17!enable(on), enabled, ~on PROVE TurnedOff
  BY <1>4 DEF TurnedOff, Passing, M17!enable, M17!Stopped, M17!writeEndNet, M17Inv, M17Type,
     M17RF, M17Net
<1>5. ASSUME NEW on \in BOOLEAN, M17!enable(on), ~(enabled /\ ~on) PROVE Untouched
  BY <1>5 DEF Untouched, M17!enable
<1> QED
  BY <1>1, <1>2, <1>3, <1>4, <1>5 DEF KeepsTo, M17!Next, M17!clock, M17!NetHeard,
     M17!NetUnheard

\* Pages are the network's, whoever sent them.
LEMMA POCSAGKeeps == ASSUME POCSAGInv, POCSAG!Next PROVE KeepsTo
<1>1. ~Passing
  BY DEF POCSAGInv, Passing
<1>2. CASE POCSAG!sendPage
  <2>1. FromRadio
    BY <1>2 DEF FromRadio, POCSAG!sendPage
  <2> QED
    BY <2>1 DEF KeepsTo
<1>3. CASE POCSAG!clock
  <2>1. POCSAGInv'
    BY <1>3, POCSAGStep DEF POCSAG!Next
  <2>2. rf'.state = rf.state /\ enabled' = enabled
    BY <1>3, <2>1 DEF POCSAGInv, POCSAG!clock, POCSAG!NetHeard, POCSAG!NetUnheard
  <2>3. CASE enabled
    BY <1>1, <2>2, <2>3 DEF KeepsTo, FromNetwork
  <2>4. CASE ~enabled
    BY <2>1, <2>2, <2>4 DEF KeepsTo, Untouched, POCSAGInv
  <2> QED
    BY <2>3, <2>4
<1>4. ASSUME NEW on \in BOOLEAN, POCSAG!enable(on), enabled, ~on PROVE TurnedOff
  BY <1>4 DEF TurnedOff, Passing, POCSAG!enable, POCSAGInv, PageNet
<1>5. ASSUME NEW on \in BOOLEAN, POCSAG!enable(on), ~(enabled /\ ~on) PROVE Untouched
  BY <1>5 DEF Untouched, POCSAG!enable
<1> QED
  BY <1>2, <1>3, <1>4, <1>5 DEF KeepsTo, POCSAG!Next

LEMMA ControlsKeep == ControlsInv /\ [Next]_vars => [Channel!Next]_<<enabled, Holder>>
<1> SUFFICES ASSUME ControlsInv, [Next]_vars PROVE [Channel!Next]_<<enabled, Holder>>
  OBVIOUS
<1>1. enabled \in BOOLEAN
  BY DEF ControlsInv, YSFInv, YSFType, P25Inv, P25Type, NXDNInv, NXDNType, DStarInv, DStarType,
     M17Inv, M17Type, POCSAGInv
<1>2. CASE Next
  <2>1. KeepsTo
    BY <1>2, YSFKeeps, P25Keeps, NXDNKeeps, DStarKeeps, M17Keeps, POCSAGKeeps
       DEF Next, Step, ControlsInv
  <2> QED
    BY <1>1, <2>1, StepOfExchange
<1>3. CASE UNCHANGED vars
  BY <1>3 DEF vars, Holder
<1> QED
  BY <1>2, <1>3

LEMMA ControlsBegin == Init => Channel!Init
<1> SUFFICES ASSUME Init PROVE Channel!Init
  OBVIOUS
<1>1. enabled = TRUE /\ net.state = "IDLE" /\ rf.state = "LISTENING"
  BY DEF Init, YSF!Init, P25!Init, NXDN!Init, DStar!Init, M17!Init, POCSAG!Init
<1> QED
  BY <1>1 DEF Channel!Init

\* Every control keeps to the arbitration of Exchange: the network never takes the
\* channel from a radio, a control that is switched off has no channel, and what is
\* received then takes none.
THEOREM ControlsImplementExchange == Spec => ImplementsExchange
<1>1. ControlsInv /\ [Next]_vars => [Channel!Next]_<<enabled, Holder>>
  BY ControlsKeep
<1> QED
  BY <1>1, ControlsBegin, ControlsInvariant, PTL DEF Spec, ImplementsExchange, Channel!Spec, Holder

=============================================================================
