-------------------------- MODULE Networks_proofs ---------------------------
(***************************************************************************)
(* Proofs about the clients of the gateways: for any number of ids, any    *)
(* size of m_buffer and any times, a control is never given two            *)
(* transmissions as one, and a gateway never hears one of a radio's as     *)
(* two.  First the clients that NetworkClients has, then the Kenwood one.  *)
(***************************************************************************)
EXTENDS Networks, SequenceTheorems, TLAPS

Identity == Ids \cup {0}
Clocks == [timeout : Nat, timer : Nat]
ToldType == [state : {"quiet", "open", "cut", "split", "headless"}, id : Identity, last : Identity]

LEMMA Configured ==
  /\ Kenwood!Max \in Nat /\ Kenwood!Max > 1 /\ Ids = 1 .. Kenwood!Max
  /\ 0 \notin Ids /\ 1 \in Ids /\ 1 \in Identity /\ 0 \in Identity /\ Ids \subseteq Identity
  /\ Capacity \in Nat /\ Capacity > 2 /\ Pieces \in Nat \ {0}
  /\ PollTime \in Nat /\ HangTime \in Nat /\ WatchdogTime \in Nat /\ MaxElapse \in Nat
BY NetworksAssumption DEF NetworksAssumption, Identity

-----------------------------------------------------------------------------
(* The clients of NetworkClients: types.                                   *)

PacketType == [kind : {"header", "frame", "end"}, id : Ids, bare : BOOLEAN, stale : BOOLEAN]

LinkType == [in : Identity, out : Identity, started : BOOLEAN, buffer : Seq(PacketType),
             polled : BOOLEAN, left : BOOLEAN, poll : Clocks]

NetType == [state : {"idle", "in", "data"}, id : Identity, dog : Clocks, late : BOOLEAN,
            mixed : BOOLEAN]

Both == [link : LinkType, net : NetType]

UDPType ==
  /\ client \in UDP!Clients
  /\ enabled \in BOOLEAN /\ open \in BOOLEAN
  /\ link \in LinkType
  /\ rf \in {"idle", "talking", "refused", "invalid"}
  /\ net \in NetType
  /\ told \in ToldType
  /\ air = 0

LEMMA UDPTimers ==
  ASSUME NEW t \in Clocks, NEW n \in Nat
  PROVE  /\ UDP!SetTimeout(t, n) \in Clocks /\ UDP!Start(t) \in Clocks
         /\ UDP!Stop(t) \in Clocks /\ UDP!Clock(t, n) \in Clocks
<1>1. UDP!SetTimeout(t, n) \in Clocks
  BY DEF Clocks, UDP!SetTimeout, UDP!Unset
<1>2. UDP!Start(t) \in Clocks
  BY DEF Clocks, UDP!Start
<1>3. UDP!Stop(t) \in Clocks
  BY DEF Clocks, UDP!Stop
<1>4. UDP!Clock(t, n) \in Clocks
  BY DEF Clocks, UDP!Clock, UDP!IsRunning
<1> QED
  BY <1>1, <1>2, <1>3, <1>4

LEMMA UDPIdle == UDP!Idle \in NetType /\ UDP!Unset \in Clocks
<1>1. UDP!Unset \in Clocks
  BY DEF UDP!Unset, Clocks
<1>2. UDP!SetTimeout(UDP!Unset, WatchdogTime) \in Clocks
  BY <1>1, Configured, UDPTimers
<1> QED
  BY <1>1, <1>2, Configured DEF UDP!Idle, NetType

LEMMA UDPInit ==
  ASSUME UDP!Init, air = 0 PROVE UDPType
<1>1. UDP!SetTimeout(UDP!Unset, PollTime) \in Clocks
  BY UDPIdle, Configured, UDPTimers
<1>2. UDP!Start(UDP!SetTimeout(UDP!Unset, PollTime)) \in Clocks
  BY <1>1, Configured, UDPTimers
<1>3. link \in LinkType
  BY <1>2, UDPIdle, Configured DEF UDP!Init, LinkType
<1>4. told \in ToldType
  BY Configured DEF UDP!Init, UDP!Quiet, ToldType
<1> QED
  BY <1>3, <1>4, UDPIdle DEF UDP!Init, UDPType

\* reset: the packets are the same, but stale.
LEMMA ResetIs ==
  ASSUME NEW l \in LinkType
  PROVE  /\ UDP!reset(l) \in LinkType
         /\ UDP!reset(l).in = 0
         /\ UDP!reset(l).out = IF client = "M17" THEN 0 ELSE l.out
         /\ UDP!reset(l).started = l.started
         /\ Len(UDP!reset(l).buffer) = Len(l.buffer)
         /\ \A i \in 1 .. Len(l.buffer) :
               UDP!reset(l).buffer[i] = [l.buffer[i] EXCEPT !.stale = TRUE]
<1> DEFINE b == [i \in DOMAIN l.buffer |-> [l.buffer[i] EXCEPT !.stale = TRUE]]
           o == IF client = "M17" THEN 0 ELSE l.out
<1>1. l.buffer \in Seq(PacketType) /\ DOMAIN l.buffer = 1 .. Len(l.buffer) /\ Len(l.buffer) \in Nat
  BY DEF LinkType
<1>2. \A i \in 1 .. Len(l.buffer) : [l.buffer[i] EXCEPT !.stale = TRUE] \in PacketType
  <2>1. \A i \in 1 .. Len(l.buffer) : l.buffer[i] \in PacketType
    BY <1>1
  <2> QED
    BY <2>1 DEF PacketType
<1>3. b \in Seq(PacketType) /\ Len(b) = Len(l.buffer)
      /\ \A i \in 1 .. Len(l.buffer) : b[i] = [l.buffer[i] EXCEPT !.stale = TRUE]
  BY <1>1, <1>2
<1>4. o \in Identity
  BY Configured DEF LinkType
<1>5. UDP!reset(l) = [l EXCEPT !.in = 0, !.left = FALSE, !.out = o, !.buffer = b]
  BY DEF UDP!reset
<1> HIDE DEF b, o
<1>6. /\ UDP!reset(l) \in LinkType /\ UDP!reset(l).in = 0 /\ UDP!reset(l).out = o
      /\ UDP!reset(l).started = l.started /\ UDP!reset(l).buffer = b
  BY <1>3, <1>4, <1>5, Configured DEF LinkType
<1> QED
  BY <1>3, <1>6 DEF o

-----------------------------------------------------------------------------
(* What a gateway is told.                                                 *)

NoIds == {"YSF", "P25", "NXDN", "POCSAG", "FM"}

\* What the gateway has heard, t, and what goes out under, l, are in step.
Known(l, t) ==
  /\ t.state \in {"quiet", "open", "cut"}
  /\ t.state = "open" => t.id = l.out
  /\ client \in NoIds => l.out = 0 /\ t.last = 0
  /\ client = "FM" /\ l.started => t.state # "quiet"
  /\ client = "M17" /\ t.state = "open" => l.out # 0

\* M17 keeps its id between two transmissions where the network has the channel: then the
\* last one was another.
ToldInv ==
  /\ Known(link, told)
  /\ client # "FM" => IF rf = "talking" THEN told.state # "quiet" ELSE told.state # "open"
  /\ client = "M17" /\ enabled /\ rf # "talking" /\ link.out # 0 => told.last # link.out
  /\ ~enabled => rf = "idle"
  /\ client = "POCSAG" => rf # "talking"

LEMMA ToldFields ==
  ASSUME NEW t \in ToldType, NEW s \in {"quiet", "open", "cut"}
  PROVE  /\ [t EXCEPT !.state = s] \in ToldType
         /\ [t EXCEPT !.state = s].state = s
         /\ [t EXCEPT !.state = s].id = t.id
         /\ [t EXCEPT !.state = s].last = t.last
BY DEF ToldType

LEMMA GoesIs ==
  ASSUME NEW l, NEW f, NEW w \in UDP!Goes(l, f)
  PROVE  /\ w.link = l
         /\ w.told = [told EXCEPT !.state = "cut"] \/ w.told = UDP!Hears(told, f, l.out)
<1>1. PICK t \in UDP!Sent(f, l.out) : w = [link |-> l, told |-> t]
  BY DEF UDP!Goes
<1>2. t = [told EXCEPT !.state = "cut"] \/ t = UDP!Hears(told, f, l.out)
  BY DEF UDP!Sent
<1> QED
  BY <1>1, <1>2

LEMMA DrawnIs ==
  ASSUME NEW f, NEW w \in UDP!Drawn(f)
  PROVE  \E id \in UDP!Fresh : w \in UDP!Goes([link EXCEPT !.out = id], f)
BY DEF UDP!Drawn

\* A header begins a transmission, unless it is one of many in P25.
LEMMA GoesHeader ==
  ASSUME UDPType, NEW l \in LinkType, NEW w \in UDP!Goes(l, "header"),
         told.state \in {"quiet", "open", "cut"}, told.state = "open" => told.id = l.out,
         told.state = "open" \/ l.out = 0 \/ l.out # told.last
  PROVE  /\ w.link = l /\ w.told \in ToldType
         /\ w.told.state \in {"open", "cut"} /\ (w.told.state = "open" => w.told.id = l.out)
         /\ w.told.last \in {told.last, l.out}
<1>1. told \in ToldType /\ l.out \in Identity
  BY DEF UDPType, LinkType
<1>0. w.link = l
  BY GoesIs
<1>2. CASE w.told = [told EXCEPT !.state = "cut"]
  <2>1. /\ w.told \in ToldType /\ w.told.state = "cut" /\ w.told.id = told.id
        /\ w.told.last = told.last
    BY <1>1, <1>2, ToldFields
  <2> QED
    BY <1>0, <2>1
<1>3. CASE w.told = UDP!Hears(told, "header", l.out) /\ told.state = "open"
  <2>1. w.told = [told EXCEPT !.state = told.state]
    BY <1>3 DEF UDP!Hears
  <2>2. w.told = told
    BY <1>1, <2>1 DEF ToldType
  <2> QED
    BY <1>0, <1>1, <1>3, <2>2
<1>4. CASE w.told = UDP!Hears(told, "header", l.out) /\ told.state # "open"
  <2>1. w.told = [state |-> "open", id |-> l.out, last |-> l.out]
    BY <1>4 DEF UDP!Hears
  <2> QED
    BY <1>0, <1>1, <2>1 DEF ToldType
<1> QED
  BY <1>2, <1>3, <1>4, GoesIs

LEMMA GoesFrame ==
  ASSUME UDPType, NEW l \in LinkType, NEW w \in UDP!Goes(l, "frame"),
         told.state \in {"open", "cut"}, told.state = "open" => told.id = l.out
  PROVE  /\ w.link = l /\ w.told \in ToldType
         /\ w.told.state \in {"open", "cut"} /\ (w.told.state = "open" => w.told.id = l.out)
         /\ w.told.last = told.last /\ (w.told.state = "open" => told.state = "open")
<1>1. told \in ToldType
  BY DEF UDPType
<1>0. w.link = l
  BY GoesIs
<1>2. CASE w.told = [told EXCEPT !.state = "cut"]
  <2>1. /\ w.told \in ToldType /\ w.told.state = "cut" /\ w.told.id = told.id
        /\ w.told.last = told.last
    BY <1>1, <1>2, ToldFields
  <2> QED
    BY <1>0, <2>1
<1>3. CASE w.told = UDP!Hears(told, "frame", l.out) /\ told.state = "open"
  <2>1. w.told = [told EXCEPT !.state = told.state]
    BY <1>3 DEF UDP!Hears
  <2>2. w.told = told
    BY <1>1, <2>1 DEF ToldType
  <2> QED
    BY <1>0, <1>1, <1>3, <2>2
<1>4. CASE w.told = UDP!Hears(told, "frame", l.out) /\ told.state = "cut"
  <2>1. w.told = told
    BY <1>4 DEF UDP!Hears
  <2> QED
    BY <1>0, <1>1, <1>4, <2>1
<1> QED
  BY <1>2, <1>3, <1>4, GoesIs

LEMMA GoesEnd ==
  ASSUME UDPType, NEW l \in LinkType, NEW w \in UDP!Goes(l, "end"),
         told.state \in {"quiet", "open", "cut"}, told.state = "open" => told.id = l.out,
         client = "M17" => told.state # "quiet"
  PROVE  /\ w.link = l /\ w.told \in ToldType
         /\ w.told.state \in {"quiet", "cut"} /\ w.told.last = told.last
<1>1. told \in ToldType
  BY DEF UDPType
<1>0. w.link = l
  BY GoesIs
<1>2. CASE w.told = [told EXCEPT !.state = "cut"]
  <2>1. /\ w.told \in ToldType /\ w.told.state = "cut" /\ w.told.id = told.id
        /\ w.told.last = told.last
    BY <1>1, <1>2, ToldFields
  <2> QED
    BY <1>0, <2>1
<1>3. CASE w.told = UDP!Hears(told, "end", l.out) /\ told.state = "open"
  <2>1. w.told = [told EXCEPT !.state = "quiet"]
    BY <1>3 DEF UDP!Hears
  <2>2. w.told \in ToldType /\ w.told.state = "quiet" /\ w.told.last = told.last
    BY <1>1, <2>1 DEF ToldType
  <2> QED
    BY <1>0, <2>2
<1>4. CASE w.told = UDP!Hears(told, "end", l.out) /\ told.state # "open"
  <2>1. w.told = told
    BY <1>4 DEF UDP!Hears
  <2> QED
    BY <1>0, <1>1, <1>4, <2>1
<1> QED
  BY <1>2, <1>3, <1>4, GoesIs

\* What is written to goes out, or its loss cuts what is heard: in step all the same.
Same(l) == /\ l \in LinkType /\ l.in = link.in /\ l.buffer = link.buffer

LEMMA LinkOut ==
  ASSUME link \in LinkType, NEW id \in Identity
  PROVE  Same([link EXCEPT !.out = id]) /\ [link EXCEPT !.out = id].out = id
         /\ [link EXCEPT !.out = id].started = link.started
BY DEF Same, LinkType

LEMMA LinkStarted ==
  ASSUME link \in LinkType, NEW b \in BOOLEAN
  PROVE  Same([link EXCEPT !.started = b]) /\ [link EXCEPT !.started = b].out = link.out
         /\ [link EXCEPT !.started = b].started = b
BY DEF Same, LinkType

LEMMA LinkSame == ASSUME link \in LinkType PROVE Same(link)
BY DEF Same

LEMMA DrawnHeader ==
  ASSUME UDPType, ToldInv, rf # "talking", client \in {"D-Star", "DMR", "M17"},
         NEW w \in UDP!Drawn("header")
  PROVE  Same(w.link) /\ w.told \in ToldType /\ Known(w.link, w.told) /\ w.told.state # "quiet"
<1>1. PICK id \in UDP!Fresh : w \in UDP!Goes([link EXCEPT !.out = id], "header")
  BY DrawnIs
<1>2. id \in Ids /\ id \in Identity /\ id # told.last /\ link \in LinkType
  BY <1>1, Configured DEF UDP!Fresh, UDPType
<1> DEFINE l == [link EXCEPT !.out = id]
<1>3. Same(l) /\ l.out = id /\ l \in LinkType
  BY <1>2, LinkOut DEF Same
<1>4. w \in UDP!Goes(l, "header")
  BY <1>1
<1> HIDE DEF l
<1>5. told.state \in {"quiet", "open", "cut"} /\ told.state # "open"
  BY DEF ToldInv, Known
<1>6. /\ w.link = l /\ w.told \in ToldType
      /\ w.told.state \in {"open", "cut"} /\ (w.told.state = "open" => w.told.id = l.out)
  BY <1>2, <1>3, <1>4, <1>5, GoesHeader
<1> QED
  BY <1>2, <1>3, <1>6, Configured DEF Known, NoIds

LEMMA WrittenBegins ==
  ASSUME UDPType, ToldInv, enabled, rf = "idle", client # "POCSAG", NEW w \in UDP!Written("header")
  PROVE  /\ Same(w.link) /\ w.told \in ToldType /\ Known(w.link, w.told)
         /\ client # "FM" => w.told.state # "quiet"
<1>1. /\ link \in LinkType /\ Same(link) /\ told \in ToldType /\ rf # "talking"
      /\ told.state \in {"quiet", "open", "cut"} /\ (told.state = "open" => told.id = link.out)
  BY LinkSame DEF UDPType, ToldInv, Known
<1>2. CASE client = "FM"
  <2>1. w.link = link /\ w.told = told
    BY <1>2 DEF UDP!Written, UDP!FMHeard
  <2> QED
    BY <1>1, <1>2, <2>1 DEF ToldInv
<1>3. CASE client \in {"D-Star", "DMR"} \/ (client = "M17" /\ link.out = 0)
  <2>1. w \in UDP!Drawn("header")
    BY <1>3 DEF UDP!Written, UDP!writeHeader, UDP!DMRWrite, UDP!M17Write
  <2> QED
    BY <1>1, <1>3, <2>1, DrawnHeader
<1>4. CASE client \in {"YSF", "P25", "NXDN"} \/ (client = "M17" /\ link.out # 0)
  <2>1. w \in UDP!Goes(link, "header")
    BY <1>4 DEF UDP!Written, UDP!YSFWrite, UDP!IcomWrite, UDP!writeLDU1, UDP!M17Write
  <2>2. told.state = "open" \/ link.out = 0 \/ link.out # told.last
    BY <1>1, <1>4 DEF ToldInv, Known, NoIds
  <2>3. /\ w.link = link /\ w.told \in ToldType
        /\ w.told.state \in {"open", "cut"} /\ (w.told.state = "open" => w.told.id = link.out)
        /\ w.told.last \in {told.last, link.out}
    BY <1>1, <2>1, <2>2, GoesHeader
  <2> QED
    BY <1>1, <1>4, <2>3 DEF Known, ToldInv, NoIds
<1> QED
  BY <1>2, <1>3, <1>4 DEF UDPType, UDP!Clients, UDP!Locking

\* An id that is drawn in the midst of a transmission has cut it already.
LEMMA DrawnFrame ==
  ASSUME UDPType, ToldInv, client \in {"D-Star", "DMR", "M17"}, told.state = "cut",
         NEW w \in UDP!Drawn("frame")
  PROVE  Same(w.link) /\ w.told \in ToldType /\ Known(w.link, w.told) /\ w.told.state = "cut"
<1>1. PICK id \in UDP!Fresh : w \in UDP!Goes([link EXCEPT !.out = id], "frame")
  BY DrawnIs
<1>2. id \in Identity /\ link \in LinkType /\ told \in ToldType
  BY <1>1, Configured DEF UDP!Fresh, UDPType
<1> DEFINE l == [link EXCEPT !.out = id]
<1>3. Same(l) /\ l.out = id /\ l \in LinkType
  BY <1>2, LinkOut DEF Same
<1>4. w \in UDP!Goes(l, "frame")
  BY <1>1
<1> HIDE DEF l
<1>5. UDP!Hears(told, "frame", l.out) = told
  BY DEF UDP!Hears
<1>6. w.link = l /\ (w.told = [told EXCEPT !.state = "cut"] \/ w.told = told)
  BY <1>4, <1>5, GoesIs
<1>7. w.told \in ToldType /\ w.told.state = "cut"
  BY <1>2, <1>6, ToldFields
<1> QED
  BY <1>3, <1>6, <1>7 DEF Known, NoIds

\* A transmission that is heard and one that is cut are what writeData may find.
LEMMA FrameGoes ==
  ASSUME UDPType, ToldInv, told.state # "quiet", NEW w \in UDP!Goes(link, "frame")
  PROVE  Same(w.link) /\ w.told \in ToldType /\ Known(w.link, w.told) /\ w.told.state # "quiet"
<1>1. link \in LinkType /\ Same(link)
  BY LinkSame DEF UDPType
<1>2. told.state \in {"open", "cut"} /\ (told.state = "open" => told.id = link.out)
  BY DEF ToldInv, Known
<1>3. /\ w.link = link /\ w.told \in ToldType
      /\ w.told.state \in {"open", "cut"} /\ (w.told.state = "open" => w.told.id = link.out)
      /\ w.told.last = told.last /\ (w.told.state = "open" => told.state = "open")
  BY <1>1, <1>2, GoesFrame
<1> QED
  BY <1>1, <1>3 DEF ToldInv, Known

LEMMA FMSpeaks ==
  ASSUME UDPType, ToldInv, client = "FM", NEW w \in UDP!FMWriteData
  PROVE  Same(w.link) /\ w.told \in ToldType /\ Known(w.link, w.told)
<1>1. link \in LinkType /\ Same(link) /\ told \in ToldType /\ link.out = 0 /\ told.last = 0
  BY LinkSame DEF UDPType, ToldInv, Known, NoIds
<1>2. CASE link.started
  <2>1. told.state # "quiet" /\ w \in UDP!Goes(link, "frame")
    BY <1>2 DEF ToldInv, Known, UDP!FMWriteData
  <2> QED
    BY <2>1, FrameGoes
<1>3. CASE ~link.started
  <2>1. PICK l \in {link, [link EXCEPT !.started = TRUE]} :
          w = [link |-> l, told |-> IF l.started THEN UDP!Hears(told, "header", 0) ELSE told]
    BY <1>3 DEF UDP!FMWriteData, UDP!writeStart
  <2>2. CASE l = link
    BY <1>1, <1>3, <2>1, <2>2 DEF ToldInv
  <2>3. CASE l = [link EXCEPT !.started = TRUE]
    <3>1. Same(l) /\ l.out = 0 /\ l.started
      BY <1>1, <2>3, LinkStarted
    <3>2. w.link = l /\ w.told = UDP!Hears(told, "header", 0)
      BY <2>1, <3>1
    <3>3. CASE told.state = "open"
      <4>1. w.told = [told EXCEPT !.state = told.state]
        BY <1>1, <3>2, <3>3 DEF UDP!Hears, ToldInv, Known
      <4>2. w.told = told
        BY <1>1, <4>1 DEF ToldType
      <4> QED
        BY <1>1, <3>1, <3>2, <3>3, <4>2 DEF ToldInv, Known
    <3>4. CASE told.state # "open"
      <4>1. w.told = [state |-> "open", id |-> 0, last |-> 0]
        BY <3>2, <3>4 DEF UDP!Hears
      <4> QED
        BY <3>1, <3>2, <4>1, Configured DEF Known, ToldType
    <3> QED
      BY <3>3, <3>4
  <2> QED
    BY <2>1, <2>2, <2>3
<1> QED
  BY <1>2, <1>3

LEMMA WrittenSpeaks ==
  ASSUME UDPType, ToldInv, rf = "talking", client # "POCSAG",
         NEW f, f = "frame" \/ (f = "csbk" /\ client = "DMR"), NEW w \in UDP!Written(f)
  PROVE  /\ Same(w.link) /\ w.told \in ToldType /\ Known(w.link, w.told)
         /\ client # "FM" => w.told.state # "quiet"
<1>1. /\ link \in LinkType /\ Same(link) /\ told \in ToldType
      /\ told.state \in {"quiet", "open", "cut"} /\ (told.state = "open" => told.id = link.out)
      /\ client # "FM" => told.state # "quiet"
  BY LinkSame DEF UDPType, ToldInv, Known
<1>2. CASE client = "FM"
  <2>1. w \in UDP!FMWriteData \/ (w.link = link /\ w.told = told)
    BY <1>2 DEF UDP!Written, UDP!FMHeard
  <2> QED
    BY <1>1, <1>2, <2>1, FMSpeaks DEF ToldInv
<1>3. CASE f = "csbk" /\ client = "DMR"
  <2>1. PICK id \in UDP!Fresh : w = [link |-> [link EXCEPT !.out = id], told |-> UDP!Torn(told, TRUE)]
    BY <1>3 DEF UDP!Written, UDP!DMRWrite
  <2>2. id \in Identity
    BY <2>1, Configured DEF UDP!Fresh
  <2>3. Same(w.link)
    BY <1>1, <2>1, <2>2, LinkOut
  <2>4. w.told = [told EXCEPT !.state = "cut"] \/ (w.told = told /\ told.state = "cut")
    BY <1>1, <1>3, <2>1 DEF UDP!Torn
  <2>5. w.told \in ToldType /\ w.told.state = "cut"
    BY <1>1, <2>4, ToldFields
  <2> QED
    BY <1>3, <2>3, <2>5 DEF Known, NoIds
<1>4. CASE f = "frame" /\ client = "P25" /\ w \in UDP!Goes(link, "header")
  <2>1. told.state = "open" \/ link.out = 0 \/ link.out # told.last
    BY <1>4 DEF ToldInv, Known, NoIds
  <2>2. /\ w.link = link /\ w.told \in ToldType
        /\ w.told.state \in {"open", "cut"} /\ (w.told.state = "open" => w.told.id = link.out)
        /\ w.told.last \in {told.last, link.out}
    BY <1>1, <1>4, <2>1, GoesHeader
  <2> QED
    BY <1>1, <1>4, <2>2 DEF Known, ToldInv, NoIds
<1>5. CASE f = "frame" /\ client = "M17" /\ link.out = 0 /\ w \in UDP!Drawn("frame")
  <2>1. CASE told.state = "cut"
    BY <1>5, <2>1, DrawnFrame
  <2>2. CASE told.state = "open"
    BY <1>5, <2>2 DEF ToldInv, Known
  <2> QED
    BY <1>1, <1>5, <2>1, <2>2
<1>6. CASE f = "frame" /\ client # "FM" /\ w \in UDP!Goes(link, "frame")
  BY <1>1, <1>6, FrameGoes
<1>7. f = "frame" /\ client # "FM" =>
        \/ w \in UDP!Goes(link, "frame")
        \/ client = "P25" /\ w \in UDP!Goes(link, "header")
        \/ client = "M17" /\ link.out = 0 /\ w \in UDP!Drawn("frame")
  BY DEF UDPType, UDP!Clients, UDP!Locking, UDP!Written, UDP!YSFWrite, UDP!IcomWrite,
     UDP!writeLDU1, UDP!writeLDU2, UDP!M17Write, UDP!DMRWrite, UDP!writeData
<1> QED
  BY <1>2, <1>3, <1>4, <1>5, <1>6, <1>7

LEMMA WrittenEnds ==
  ASSUME UDPType, ToldInv, rf = "talking", client # "POCSAG", NEW w \in UDP!Written("end")
  PROVE  /\ Same(w.link) /\ w.told \in ToldType /\ Known(w.link, w.told)
         /\ w.told.state # "open"
<1>1. /\ link \in LinkType /\ Same(link) /\ told \in ToldType
      /\ told.state \in {"quiet", "open", "cut"} /\ (told.state = "open" => told.id = link.out)
      /\ client # "FM" => told.state # "quiet"
  BY LinkSame DEF UDPType, ToldInv, Known
<1>2. CASE client = "FM"
  <2> DEFINE l == [link EXCEPT !.started = FALSE]
  <2>1. Same(l) /\ l.out = link.out /\ ~l.started /\ l \in LinkType
    BY <1>1, LinkStarted DEF Same
  <2>2. w \in UDP!Goes(l, "end")
    BY <1>2 DEF UDP!Written, UDP!FMHeard, UDP!writeEnd
  <2> HIDE DEF l
  <2>3. w.link = l /\ w.told \in ToldType /\ w.told.state \in {"quiet", "cut"}
        /\ w.told.last = told.last
    BY <1>1, <1>2, <2>1, <2>2, GoesEnd
  <2> QED
    BY <1>2, <2>1, <2>3 DEF Known, ToldInv
<1>3. CASE w \in UDP!Goes(link, "end") /\ client # "FM"
  <2>1. w.link = link /\ w.told \in ToldType /\ w.told.state \in {"quiet", "cut"}
        /\ w.told.last = told.last
    BY <1>1, <1>3, GoesEnd
  <2> QED
    BY <1>1, <1>3, <2>1 DEF Known, ToldInv
<1>4. CASE client = "M17" /\ link.out = 0 /\ w \in UDP!Drawn("end")
  <2>1. told.state = "cut"
    BY <1>1, <1>4 DEF ToldInv, Known
  <2>2. PICK id \in UDP!Fresh : w \in UDP!Goes([link EXCEPT !.out = id], "end")
    BY <1>4, DrawnIs
  <2>3. id \in Identity
    BY <2>2, Configured DEF UDP!Fresh
  <2> DEFINE l == [link EXCEPT !.out = id]
  <2>4. Same(l) /\ l \in LinkType
    BY <1>1, <2>3, LinkOut DEF Same
  <2>5. w \in UDP!Goes(l, "end")
    BY <2>2
  <2> HIDE DEF l
  <2>6. UDP!Hears(told, "end", l.out) = told
    BY <2>1 DEF UDP!Hears
  <2>7. w.link = l /\ (w.told = [told EXCEPT !.state = "cut"] \/ w.told = told)
    BY <2>5, <2>6, GoesIs
  <2>8. w.told \in ToldType /\ w.told.state = "cut"
    BY <1>1, <2>1, <2>7, ToldFields
  <2> QED
    BY <1>4, <2>4, <2>7, <2>8 DEF Known, NoIds
<1>5. client # "FM" => \/ w \in UDP!Goes(link, "end")
                       \/ client = "M17" /\ link.out = 0 /\ w \in UDP!Drawn("end")
  BY DEF UDPType, UDP!Clients, UDP!Locking, UDP!Written, UDP!YSFWrite, UDP!IcomWrite,
     UDP!writeLDU1, UDP!writeLDU2, UDP!M17Write, UDP!DMRWrite, UDP!writeData
<1> QED
  BY <1>2, <1>3, <1>4, <1>5

-----------------------------------------------------------------------------
(* What comes in.                                                          *)

LEMMA First ==
  ASSUME NEW S, NEW s \in Seq(S), s # << >>
  PROVE  /\ Head(s) \in S /\ Head(s) = s[1]
         /\ Tail(s) \in Seq(S) /\ Len(Tail(s)) = Len(s) - 1 /\ Len(s) >= 1 /\ Len(s) \in Nat
<1>1. Len(s) \in Nat /\ Len(s) >= 1
  BY EmptySeq, LenProperties
<1> QED
  BY <1>1, HeadTailProperties

LEMMA BothFields ==
  ASSUME NEW b \in Both, NEW l \in LinkType, NEW n \in NetType
  PROVE  /\ b.link \in LinkType /\ b.net \in NetType
         /\ [link |-> l, net |-> n] \in Both
         /\ [b EXCEPT !.link = l] = [link |-> l, net |-> b.net]
         /\ [b EXCEPT !.net = n] = [link |-> b.link, net |-> n]
BY DEF Both

LEMMA NetFields ==
  ASSUME NEW n \in NetType, NEW r \in PacketType
  PROVE  /\ UDP!Start(n.dog) \in Clocks
         /\ [n EXCEPT !.dog = UDP!Start(@)] \in NetType
         /\ [n EXCEPT !.dog = UDP!Start(@)].state = n.state
         /\ [n EXCEPT !.dog = UDP!Start(@)].id = n.id
         /\ [n EXCEPT !.dog = UDP!Start(@)].late = n.late
         /\ [n EXCEPT !.dog = UDP!Start(@)].mixed = n.mixed
<1>1. UDP!Start(n.dog) \in Clocks
  BY Configured, UDPTimers DEF NetType
<1> QED
  BY <1>1 DEF NetType

LEMMA HearingIs ==
  ASSUME NEW n \in NetType, NEW r \in PacketType
  PROVE  /\ UDP!Hearing(n, r) \in NetType
         /\ UDP!Hearing(n, r).state = n.state /\ UDP!Hearing(n, r).id = n.id
         /\ UDP!Hearing(n, r).late = n.late
         /\ UDP!Hearing(n, r).mixed = (n.mixed \/ (~n.late /\ r.id # n.id))
<1>1. UDP!Start(n.dog) \in Clocks
  BY NetFields
<1> QED
  BY <1>1 DEF NetType, UDP!Hearing

LEMMA EnteringIs ==
  ASSUME NEW n \in NetType, NEW r \in PacketType
  PROVE  /\ UDP!Entering(n, r) \in NetType
         /\ UDP!Entering(n, r).state \in {"in", "data"} /\ UDP!Entering(n, r).id = r.id
         /\ UDP!Entering(n, r).late = r.stale /\ UDP!Entering(n, r).mixed = n.mixed
<1>1. UDP!Start(n.dog) \in Clocks
  BY NetFields
<1>2. r.id \in Identity /\ r.stale \in BOOLEAN
  BY Configured DEF PacketType
<1> DEFINE s == IF client = "M17" /\ r.id \in Data THEN "data" ELSE "in"
<1>3. UDP!Entering(n, r) = [n EXCEPT !.state = s, !.id = r.id, !.late = r.stale, !.dog = UDP!Start(@)]
  BY DEF UDP!Entering
<1>4. s \in {"in", "data"}
  OBVIOUS
<1> HIDE DEF s
<1> QED
  BY <1>1, <1>2, <1>3, <1>4 DEF NetType

LEMMA EndedIs ==
  ASSUME NEW b \in Both
  PROVE  /\ UDP!Ended(b) \in Both
         /\ UDP!Ended(b).link = IF client \in UDP!Locking THEN UDP!reset(b.link) ELSE b.link
         /\ UDP!Ended(b).net.state = "idle" /\ UDP!Ended(b).net.mixed = b.net.mixed
<1>1. b.link \in LinkType /\ b.net \in NetType
  BY DEF Both
<1>2. UDP!reset(b.link) \in LinkType
  BY <1>1, ResetIs
<1>3. /\ [UDP!Idle EXCEPT !.mixed = b.net.mixed] \in NetType
      /\ [UDP!Idle EXCEPT !.mixed = b.net.mixed].state = "idle"
      /\ [UDP!Idle EXCEPT !.mixed = b.net.mixed].mixed = b.net.mixed
  BY <1>1, UDPIdle DEF NetType, UDP!Idle
<1> QED
  BY <1>2, <1>3 DEF UDP!Ended, Both

\* The client is locked to the transmission that the control is in, or has passed on its end.
Held(l, n) ==
  /\ Len(l.buffer) <= 1
  /\ l.buffer # << >> =>
       /\ ~l.buffer[1].bare
       /\ l.buffer[1].stale \/ l.buffer[1].kind = "end" \/ l.in = l.buffer[1].id
       /\ n.state = "in" /\ ~n.late => l.buffer[1].id = n.id
  /\ n.state = "in" /\ ~n.late =>
       /\ n.id # 0
       /\ \/ l.in = n.id
          \/ l.in = 0 /\ l.buffer # << >> /\ l.buffer[1].kind = "end"
  /\ ~n.mixed

LockInv ==
  /\ client \in UDP!Locking => Held(link, net)
  /\ client \notin {"POCSAG", "FM"} => Len(link.buffer) <= 1
  /\ ~enabled => net.state = "idle"

\* With nothing in the buffer.
LEMMA HeldEmpty ==
  ASSUME NEW l, NEW n, l.buffer = << >>
  PROVE  Held(l, n) <=> ~n.mixed /\ (n.state = "in" /\ ~n.late => n.id # 0 /\ l.in = n.id)
<1>1. Len(l.buffer) = 0
  BY EmptySeq
<1> QED
  BY <1>1 DEF Held

LEMMA HeldIdle ==
  ASSUME NEW l \in LinkType, NEW n, NEW k, Held(l, n), n.state = "idle", k.state = "idle", ~k.mixed
  PROVE  Held(l, k) /\ Held(UDP!reset(l), k)
<1>1. Held(l, k)
  BY DEF Held
<1> DEFINE m == UDP!reset(l)
<1>2. m.buffer # << >> => l.buffer # << >> /\ m.buffer[1] = [l.buffer[1] EXCEPT !.stale = TRUE]
  <2>1. Len(m.buffer) = Len(l.buffer) /\ m.buffer \in Seq(PacketType) /\ l.buffer \in Seq(PacketType)
    BY ResetIs DEF LinkType
  <2>2. ASSUME m.buffer # << >> PROVE 1 \in 1 .. Len(l.buffer) /\ l.buffer # << >>
    BY <2>1, <2>2, EmptySeq, LenProperties
  <2> QED
    BY <2>2, ResetIs
<1>3. Len(m.buffer) = Len(l.buffer)
  BY ResetIs
<1> HIDE DEF m
<1>4. ASSUME m.buffer # << >>
      PROVE  ~m.buffer[1].bare /\ m.buffer[1].stale
  <2>1. l.buffer \in Seq(PacketType) /\ l.buffer # << >>
    BY <1>2, <1>4 DEF LinkType
  <2>2. l.buffer[1] \in PacketType
    BY <2>1, First
  <2> QED
    BY <1>2, <1>4, <2>1, <2>2 DEF Held, PacketType
<1>5. Held(m, k)
  BY <1>3, <1>4 DEF Held
<1> QED
  BY <1>1, <1>5 DEF m

\* The control is given the packet r.
Offered(b, r) ==
  /\ ~b.net.mixed
  /\ r.stale \/ r.kind = "end" \/ b.link.in = r.id
  /\ b.net.state = "in" /\ ~b.net.late =>
       b.net.id # 0 /\ r.id = b.net.id /\ (b.link.in = b.net.id \/ r.kind = "end")

InStep(b) == /\ b \in Both /\ b.link.buffer = << >> /\ Held(b.link, b.net)

LEMMA ResetEmpty ==
  ASSUME NEW l \in LinkType, l.buffer = << >>
  PROVE  UDP!reset(l).buffer = << >>
<1>1. l.buffer \in Seq(PacketType) /\ UDP!reset(l).buffer \in Seq(PacketType)
  BY ResetIs DEF LinkType
<1>2. Len(l.buffer) = 0
  BY EmptySeq
<1>3. Len(UDP!reset(l).buffer) = 0
  BY <1>2, ResetIs
<1> QED
  BY <1>1, <1>3, EmptySeq

\* To be idle is to be in step with an empty buffer.
LEMMA IdleInStep ==
  ASSUME client \in UDP!Locking, NEW l \in LinkType, NEW n \in NetType, l.buffer = << >>, n.state = "idle", ~n.mixed
  PROVE  /\ InStep([link |-> l, net |-> n])
         /\ InStep([link |-> UDP!reset(l), net |-> n])
         /\ InStep(UDP!Ended([link |-> l, net |-> n]))
<1>1. UDP!reset(l) \in LinkType /\ UDP!reset(l).buffer = << >>
  BY ResetIs, ResetEmpty
<1>2. [link |-> l, net |-> n] \in Both /\ [link |-> UDP!reset(l), net |-> n] \in Both
  BY <1>1 DEF Both
<1> DEFINE b == [link |-> l, net |-> n]
           e == UDP!Ended(b)
<1>3. e \in Both /\ e.link = UDP!reset(l) /\ e.net.state = "idle" /\ ~e.net.mixed
  <2>1. b \in Both /\ b.link = l /\ b.net = n
    BY <1>2
  <2> HIDE DEF b
  <2> QED
    BY <2>1, EndedIs
<1> HIDE DEF e
<1>4. InStep(e)
  BY <1>1, <1>3, HeldEmpty DEF InStep
<1> QED
  BY <1>1, <1>2, <1>4, HeldEmpty DEF InStep, e

LEMMA EndedInStep ==
  ASSUME client \in UDP!Locking, NEW b \in Both, b.link.buffer = << >>, ~b.net.mixed
  PROVE  InStep(UDP!Ended(b))
<1> DEFINE e == UDP!Ended(b)
<1>1. e \in Both /\ e.link = UDP!reset(b.link) /\ e.net.state = "idle" /\ ~e.net.mixed
  BY EndedIs
<1>2. e.link.buffer = << >>
  BY <1>1, ResetEmpty DEF Both
<1> HIDE DEF e
<1>3. InStep(e)
  BY <1>1, <1>2, HeldEmpty DEF InStep
<1> QED
  BY <1>3 DEF e

LEMMA EnteredInStep ==
  ASSUME client \in UDP!Locking, NEW b \in Both, NEW r \in PacketType,
         b.link.buffer = << >>, b.net.state = "idle", Offered(b, r)
  PROVE  InStep(UDP!Entered(b, r))
<1>1. b.link \in LinkType /\ b.net \in NetType /\ b = [link |-> b.link, net |-> b.net] /\ ~b.net.mixed
  BY DEF Both, Offered
<1>2. CASE UDP!Entered(b, r) = b
  BY <1>1, <1>2, HeldEmpty DEF InStep
<1>3. CASE UDP!Entered(b, r) = [b EXCEPT !.link = UDP!reset(b.link)]
  <2>1. UDP!Entered(b, r) = [link |-> UDP!reset(b.link), net |-> b.net]
    BY <1>3 DEF Both
  <2> QED
    BY <1>1, <2>1, IdleInStep
<1> DEFINE l == [b.link EXCEPT !.left = FALSE]
           n == UDP!Entering(b.net, r)
           c == [link |-> l, net |-> n]
<1>4. l \in LinkType /\ l.in = b.link.in /\ l.buffer = << >>
  BY <1>1 DEF LinkType
<1>5. /\ n \in NetType /\ n.state \in {"in", "data"} /\ n.id = r.id /\ n.late = r.stale /\ ~n.mixed
      /\ r.id # 0
  BY <1>1, EnteringIs, Configured DEF PacketType
<1>6. c \in Both /\ c.link = l /\ c.net = n
  BY <1>4, <1>5 DEF Both
<1>7. UDP!Entered(b, r) \in {b, [b EXCEPT !.link = UDP!reset(b.link)],
                             IF r.kind = "end" /\ c.net.state = "in" THEN UDP!Ended(c) ELSE c}
  BY DEF UDP!Entered, UDP!Locking
<1> HIDE DEF l, n, c
<1>8. r.kind = "end" => InStep(UDP!Ended(c))
  BY <1>4, <1>5, <1>6, EndedInStep
<1>9. r.kind # "end" \/ c.net.state # "in" => InStep(c)
  BY <1>4, <1>5, <1>6, HeldEmpty DEF InStep, Offered
<1> QED
  BY <1>2, <1>3, <1>7, <1>8, <1>9

LEMMA TakenInStep ==
  ASSUME client \in UDP!Locking, NEW b \in Both, NEW r \in PacketType,
         b.link.buffer = << >>, ~enabled => b.net.state = "idle", Offered(b, r)
  PROVE  InStep(UDP!Taken(b, r))
<1>1. b.link \in LinkType /\ b.net \in NetType /\ ~b.net.mixed
  BY DEF Both, Offered
<1>2. CASE b.net.state = "idle"
  <2>1. UDP!Taken(b, r) = b \/ UDP!Taken(b, r) = UDP!Entered(b, r)
    BY <1>2 DEF UDP!Taken
  <2>2. InStep(b)
    BY <1>1, <1>2, HeldEmpty DEF InStep
  <2> QED
    BY <1>2, <2>1, <2>2, EnteredInStep
<1>3. CASE b.net.state # "idle"
  <2>1. b.net.state \in {"in", "data"} /\ enabled
    BY <1>1, <1>3 DEF NetType
  <2> DEFINE h == UDP!Hearing(b.net, r)
             late == [b.net EXCEPT !.dog = UDP!Start(@), !.late = TRUE]
             dog == [b.net EXCEPT !.dog = UDP!Start(@)]
  <2>2. h \in NetType /\ h.state = b.net.state /\ h.id = b.net.id /\ h.late = b.net.late
        /\ (b.net.state = "in" => ~h.mixed)
    BY <1>1, <2>1, HearingIs DEF Offered
  <2>3. late \in NetType /\ late.late /\ ~late.mixed
    BY <1>1, NetFields DEF NetType
  <2>4. dog \in NetType /\ dog.state = b.net.state /\ dog.id = b.net.id /\ dog.late = b.net.late /\ ~dog.mixed
    BY <1>1, <2>1, NetFields
  <2>5. \/ UDP!Taken(b, r) = [link |-> UDP!reset(b.link), net |-> late]
        \/ /\ r.kind # "end" \/ b.net.state = "data"
           /\ UDP!Taken(b, r) = [b EXCEPT !.net.dog = UDP!Start(@)]
        \/ b.net.state = "in" /\ UDP!Taken(b, r) = UDP!Ended([b EXCEPT !.net = h])
        \/ b.net.state = "in" /\ r.kind # "end" /\ UDP!Taken(b, r) = [b EXCEPT !.net = h]
    BY <1>3, <2>1 DEF UDP!Taken, UDP!Locking
  <2>6. [b EXCEPT !.net.dog = UDP!Start(@)] = [link |-> b.link, net |-> dog]
    BY DEF Both
  <2>7. [b EXCEPT !.net = h] = [link |-> b.link, net |-> h]
    BY DEF Both
  <2> HIDE DEF h, late, dog
  <2>8. UDP!reset(b.link) \in LinkType /\ UDP!reset(b.link).buffer = << >>
    BY <1>1, ResetIs, ResetEmpty
  <2>9. InStep([link |-> UDP!reset(b.link), net |-> late])
    BY <2>3, <2>8, HeldEmpty DEF InStep, Both
  <2>10. r.kind # "end" \/ b.net.state = "data" => InStep([link |-> b.link, net |-> dog])
    BY <1>1, <2>1, <2>4, HeldEmpty DEF InStep, Both, Offered
  <2>11. r.kind # "end" /\ b.net.state = "in" => InStep([link |-> b.link, net |-> h])
    BY <1>1, <2>1, <2>2, HeldEmpty DEF InStep, Both, Offered
  <2>12. ASSUME b.net.state = "in" PROVE InStep(UDP!Ended([link |-> b.link, net |-> h]))
    <3> DEFINE d == [link |-> b.link, net |-> h]
    <3>1. d \in Both /\ d.link.buffer = << >> /\ ~d.net.mixed
      BY <1>1, <2>2, <2>12 DEF Both
    <3> HIDE DEF d
    <3>2. InStep(UDP!Ended(d))
      BY <3>1, EndedInStep
    <3> QED
      BY <3>2 DEF d
  <2> QED
    BY <2>5, <2>6, <2>7, <2>9, <2>10, <2>11, <2>12
<1> QED
  BY <1>2, <1>3

\* Of what goes out, a turn touches the id that M17 lets go of.
Follows(m, l) == /\ m.out = l.out \/ (client = "M17" /\ m.out = 0)
                 /\ m.started = l.started

LEMMA ResetFollows ==
  ASSUME NEW l \in LinkType PROVE Follows(UDP!reset(l), l) /\ Follows(l, l)
BY ResetIs DEF Follows

LEMMA TakenFollows ==
  ASSUME client \in UDP!Locking, NEW b \in Both, NEW r \in PacketType
  PROVE  Follows(UDP!Taken(b, r).link, b.link)
<1>1. b.link \in LinkType /\ b.net \in NetType /\ b = [link |-> b.link, net |-> b.net]
  BY DEF Both
<1>2. Follows(UDP!reset(b.link), b.link) /\ Follows(b.link, b.link)
  BY <1>1, ResetFollows
<1> DEFINE l == [b.link EXCEPT !.left = FALSE]
           n == UDP!Entering(b.net, r)
           h == UDP!Hearing(b.net, r)
<1>3. l \in LinkType /\ Follows(l, b.link)
  BY <1>1 DEF LinkType, Follows
<1>4. Follows(UDP!reset(l), b.link)
  BY <1>3, ResetIs DEF Follows
<1>5. n \in NetType /\ h \in NetType
  BY <1>1, EnteringIs, HearingIs
<1>6. UDP!Entered(b, r).link \in {b.link, l, UDP!reset(b.link), UDP!reset(l)}
  <2>1. \/ UDP!Entered(b, r) = b \/ UDP!Entered(b, r) = [b EXCEPT !.link = UDP!reset(b.link)]
        \/ UDP!Entered(b, r) = UDP!Ended([link |-> l, net |-> n])
        \/ UDP!Entered(b, r) = [link |-> l, net |-> n]
    BY DEF UDP!Entered, UDP!Locking
  <2>2. [b EXCEPT !.link = UDP!reset(b.link)].link = UDP!reset(b.link)
    BY DEF Both
  <2> HIDE DEF l, n
  <2>3. UDP!Ended([link |-> l, net |-> n]).link = UDP!reset(l) /\ [link |-> l, net |-> n].link = l
    BY DEF UDP!Ended
  <2> QED
    BY <2>1, <2>2, <2>3
<1>7. UDP!Taken(b, r).link \in {b.link, UDP!reset(b.link), UDP!Entered(b, r).link}
  <2>1. [b EXCEPT !.net.dog = UDP!Start(@)].link = b.link /\ [b EXCEPT !.net = h].link = b.link
    BY DEF Both
  <2>2. UDP!Ended([b EXCEPT !.net = h]).link = UDP!reset(b.link)
    BY <2>1 DEF UDP!Ended
  <2> QED
    BY <2>1, <2>2 DEF UDP!Taken
<1> QED
  BY <1>2, <1>3, <1>4, <1>6, <1>7

\* A control whose client does not lock leaves the buffer alone.
LEMMA TakenOther ==
  ASSUME client \in UDP!Clients \ UDP!Locking, NEW b \in Both, NEW r \in PacketType
  PROVE  /\ UDP!Taken(b, r) \in Both /\ Follows(UDP!Taken(b, r).link, b.link)
         /\ UDP!Taken(b, r).link.buffer = b.link.buffer
         /\ ~enabled => UDP!Taken(b, r) = b
         /\ client \in {"POCSAG", "FM"} => UDP!Taken(b, r) = b
<1>1. b.link \in LinkType /\ b.net \in NetType /\ Follows(b.link, b.link)
  BY DEF Both, Follows
<1> DEFINE l == [b.link EXCEPT !.left = FALSE]
           n == UDP!Entering(b.net, r)
           h == UDP!Hearing(b.net, r)
           dog == [b.net EXCEPT !.dog = UDP!Start(@)]
<1>2. l \in LinkType /\ l.buffer = b.link.buffer /\ Follows(l, b.link)
  BY <1>1 DEF LinkType, Follows
<1>3. n \in NetType /\ h \in NetType /\ dog \in NetType
  BY <1>1, EnteringIs, HearingIs, NetFields
<1>4. [b EXCEPT !.net = h] = [link |-> b.link, net |-> h]
      /\ [b EXCEPT !.net.dog = UDP!Start(@)] = [link |-> b.link, net |-> dog]
  BY DEF Both
<1>5. UDP!Taken(b, r) \in {b, [link |-> l, net |-> n], [b EXCEPT !.net.dog = UDP!Start(@)],
                          UDP!Ended([b EXCEPT !.net = h]), [b EXCEPT !.net = h]}
  BY DEF UDP!Taken, UDP!Entered, UDP!Locking, UDP!Clients
<1>6. ~enabled \/ client \in {"POCSAG", "FM"} => UDP!Taken(b, r) = b
  BY DEF UDP!Taken
<1> HIDE DEF l, n, h, dog
<1>7. \A a \in {b, [link |-> l, net |-> n], [link |-> b.link, net |-> dog], [link |-> b.link, net |-> h]} :
         a \in Both /\ Follows(a.link, b.link) /\ a.link.buffer = b.link.buffer
  BY <1>1, <1>2, <1>3 DEF Both
<1>8. LET e == UDP!Ended([link |-> b.link, net |-> h]) IN e \in Both /\ e.link = b.link
  <2> DEFINE d == [link |-> b.link, net |-> h]
  <2>1. d \in Both /\ d.link = b.link
    BY <1>1, <1>3 DEF Both
  <2> HIDE DEF d
  <2>2. UDP!Ended(d) \in Both /\ UDP!Ended(d).link = b.link
    BY <2>1, EndedIs
  <2> QED
    BY <2>2 DEF d
<1> DEFINE e == UDP!Ended([link |-> b.link, net |-> h])
<1>9. e \in Both /\ Follows(e.link, b.link) /\ e.link.buffer = b.link.buffer
  BY <1>1, <1>8
<1>10. UDP!Taken(b, r) \in {b, [link |-> l, net |-> n], [link |-> b.link, net |-> dog], e,
                           [link |-> b.link, net |-> h]}
  BY <1>4, <1>5
<1> HIDE DEF e
<1> QED
  BY <1>6, <1>7, <1>9, <1>10

LEMMA RestIs ==
  ASSUME NEW s \in Seq(PacketType), s # << >>
  PROVE  UDP!Rest(s) \in Seq(PacketType) /\ Len(UDP!Rest(s)) = Len(s) - 1
<1> DEFINE t == Tail(s)
<1>1. t \in Seq(PacketType) /\ Len(t) = Len(s) - 1 /\ Len(t) \in Nat
  BY First, LenProperties
<1>2. UDP!Rest(s) = t \/ (t # << >> /\ UDP!Rest(s) = [t EXCEPT ![1].bare = TRUE])
  BY DEF UDP!Rest
<1> HIDE DEF t
<1>3. t # << >> => [t EXCEPT ![1].bare = TRUE] \in Seq(PacketType)
                   /\ Len([t EXCEPT ![1].bare = TRUE]) = Len(t)
  <2> SUFFICES ASSUME t # << >>
               PROVE  [t EXCEPT ![1].bare = TRUE] \in Seq(PacketType)
                      /\ Len([t EXCEPT ![1].bare = TRUE]) = Len(t)
    OBVIOUS
  <2>1. t[1] \in PacketType /\ 1 \in 1 .. Len(t)
    BY <1>1, First
  <2>2. [t[1] EXCEPT !.bare = TRUE] \in PacketType
    BY <2>1 DEF PacketType
  <2> DEFINE v == [t[1] EXCEPT !.bare = TRUE]
  <2>3. [t EXCEPT ![1].bare = TRUE] = [t EXCEPT ![1] = v]
    OBVIOUS
  <2> HIDE DEF v
  <2>4. [t EXCEPT ![1] = v] \in Seq(PacketType) /\ Len([t EXCEPT ![1] = v]) = Len(t)
    BY <1>1, <2>1, <2>2 DEF v
  <2> QED
    BY <2>3, <2>4
<1> QED
  BY <1>1, <1>2, <1>3

LEMMA BufferSet ==
  ASSUME NEW l \in LinkType, NEW s \in Seq(PacketType)
  PROVE  /\ [l EXCEPT !.buffer = s] \in LinkType
         /\ [l EXCEPT !.buffer = s].buffer = s /\ [l EXCEPT !.buffer = s].in = l.in
         /\ Follows([l EXCEPT !.buffer = s], l)
BY DEF LinkType, Follows

\* A turn's read leaves nothing behind.
LEMMA ReadsLocking ==
  ASSUME client \in UDP!Locking, NEW b \in Both, Held(b.link, b.net),
         ~enabled => b.net.state = "idle", NEW c \in UDP!Reads(b)
  PROVE  InStep(c) /\ Follows(c.link, b.link)
<1>1. b.link \in LinkType /\ b.net \in NetType /\ b.link.buffer \in Seq(PacketType)
  BY DEF Both, LinkType
<1>2. CASE b.link.buffer = << >>
  <2>1. c = b
    BY <1>2 DEF UDP!Reads
  <2> QED
    BY <1>1, <1>2, <2>1, ResetFollows DEF InStep
<1>3. CASE b.link.buffer # << >>
  <2> DEFINE s == UDP!Rest(b.link.buffer)
             r == Head(b.link.buffer)
             d == [b EXCEPT !.link.buffer = s]
             l == [b.link EXCEPT !.buffer = s]
  <2>1. r \in PacketType /\ r = b.link.buffer[1] /\ ~r.bare
    BY <1>1, <1>3, First DEF Held
  <2>2. s \in Seq(PacketType) /\ Len(s) = 0
    <3>1. Len(b.link.buffer) >= 1 /\ Len(b.link.buffer) <= 1 /\ Len(b.link.buffer) \in Nat
      BY <1>1, <1>3, First DEF Held
    <3>2. Len(b.link.buffer) - 1 = 0
      <4>1. ASSUME NEW k \in Nat, k >= 1, k <= 1 PROVE k - 1 = 0
        BY <4>1
      <4> QED
        BY <3>1, <4>1
    <3> QED
      BY <1>1, <1>3, <3>2, RestIs
  <2>3. s = << >>
    BY <2>2, EmptySeq
  <2>4. c = UDP!Taken(d, r)
    BY <1>3, <2>1 DEF UDP!Reads
  <2>5. d = [link |-> l, net |-> b.net]
    BY DEF Both
  <2>6. l \in LinkType /\ l.buffer = s /\ l.in = b.link.in /\ Follows(l, b.link)
    BY <1>1, <2>2, BufferSet
  <2> HIDE DEF s, r, l, d
  <2>7. d \in Both /\ d.link = l /\ d.net = b.net
    BY <1>1, <2>5, <2>6 DEF Both
  <2>8. Offered(d, r)
    BY <1>3, <2>1, <2>6, <2>7 DEF Offered, Held
  <2>9. InStep(c)
    BY <2>1, <2>3, <2>4, <2>6, <2>7, <2>8, TakenInStep
  <2>10. Follows(c.link, l)
    BY <2>1, <2>4, <2>7, TakenFollows
  <2> QED
    BY <2>6, <2>9, <2>10 DEF Follows
<1> QED
  BY <1>2, <1>3

LEMMA ReadsOther ==
  ASSUME client \in UDP!Clients \ UDP!Locking, NEW b \in Both, NEW c \in UDP!Reads(b)
  PROVE  /\ c \in Both /\ Follows(c.link, b.link)
         /\ ~enabled \/ client \in {"POCSAG", "FM"} => c.net = b.net
         /\ Len(b.link.buffer) <= 1 => Len(c.link.buffer) = 0
<1>1. b.link \in LinkType /\ b.net \in NetType /\ b.link.buffer \in Seq(PacketType)
  BY DEF Both, LinkType
<1>2. CASE b.link.buffer = << >>
  <2>1. c = b
    BY <1>2 DEF UDP!Reads
  <2>2. Len(b.link.buffer) = 0
    BY <1>2, EmptySeq
  <2> QED
    BY <1>1, <2>1, <2>2, ResetFollows
<1>3. CASE b.link.buffer # << >>
  <2> DEFINE s == UDP!Rest(b.link.buffer)
             r == Head(b.link.buffer)
             d == [b EXCEPT !.link.buffer = s]
             l == [b.link EXCEPT !.buffer = s]
  <2>1. (c = d \/ c = UDP!Taken(d, r)) /\ r \in PacketType
    BY <1>1, <1>3, First DEF UDP!Reads
  <2>2. s \in Seq(PacketType) /\ Len(s) = Len(b.link.buffer) - 1
    BY <1>1, <1>3, RestIs
  <2>3. d = [link |-> l, net |-> b.net]
    BY DEF Both
  <2>4. l \in LinkType /\ l.buffer = s /\ Follows(l, b.link)
    BY <1>1, <2>2, BufferSet
  <2>5. Len(b.link.buffer) >= 1 /\ Len(b.link.buffer) \in Nat
    BY <1>1, <1>3, First
  <2> HIDE DEF s, l, d, r
  <2>6. d \in Both /\ d.link = l /\ d.net = b.net
    BY <1>1, <2>3, <2>4 DEF Both
  <2>7. Len(b.link.buffer) <= 1 => Len(s) = 0
    <3>1. ASSUME NEW k \in Nat, k >= 1, k <= 1 PROVE k - 1 = 0
      BY <3>1
    <3> QED
      BY <2>2, <2>5, <3>1
  <2>8. /\ c \in Both /\ Follows(c.link, d.link) /\ c.link.buffer = d.link.buffer
        /\ ~enabled \/ client \in {"POCSAG", "FM"} => c = d
    <3>1. CASE c = d
      BY <2>6, <3>1 DEF Follows
    <3>2. CASE c = UDP!Taken(d, r)
      BY <2>1, <2>6, <3>2, TakenOther
    <3> QED
      BY <2>1, <3>1, <3>2
  <2>9. Follows(c.link, b.link)
    BY <2>4, <2>6, <2>8 DEF Follows
  <2> QED
    BY <2>4, <2>6, <2>7, <2>8, <2>9
<1> QED
  BY <1>2, <1>3

LEMMA FMReadsIs ==
  ASSUME NEW b \in Both, NEW c \in UDP!FMReads(b)
  PROVE  c \in Both /\ c.net = b.net /\ Follows(c.link, b.link)
<1>1. b.link \in LinkType /\ b.net \in NetType /\ b.link.buffer \in Seq(PacketType)
      /\ Len(b.link.buffer) \in Nat
  BY LenProperties DEF Both, LinkType
<1>2. PICK i \in 1 .. Len(b.link.buffer) + 1 :
        c = [b EXCEPT !.link.buffer = SubSeq(b.link.buffer, i, Len(b.link.buffer))]
  BY DEF UDP!FMReads
<1> DEFINE s == SubSeq(b.link.buffer, i, Len(b.link.buffer))
           l == [b.link EXCEPT !.buffer = s]
<1>3. s \in Seq(PacketType)
  BY <1>1, <1>2, SMT
<1>4. c = [link |-> l, net |-> b.net]
  BY <1>2 DEF Both
<1> HIDE DEF s
<1>5. l \in LinkType /\ Follows(l, b.link)
  BY <1>1, <1>3, BufferSet
<1> HIDE DEF l
<1> QED
  BY <1>1, <1>4, <1>5 DEF Both

\* The watchdog may end what the control is in.
LEMMA WatchedIs ==
  ASSUME NEW b \in Both, NEW ms \in Nat
  PROVE  /\ UDP!Watched(b, ms) \in Both /\ Follows(UDP!Watched(b, ms).link, b.link)
         /\ client \in UDP!Locking /\ InStep(b) => InStep(UDP!Watched(b, ms))
         /\ client \notin UDP!Locking => UDP!Watched(b, ms).link = b.link
         /\ b.net.state = "idle" => UDP!Watched(b, ms) = b
<1>1. b.link \in LinkType /\ b.net \in NetType
  BY DEF Both
<1>2. CASE b.net.state # "in"
  BY <1>1, <1>2, ResetFollows DEF UDP!Watched
<1>3. CASE b.net.state = "in"
  <2> DEFINE n == [b.net EXCEPT !.dog = UDP!Clock(@, ms)]
             d == [b EXCEPT !.net = n]
  <2>1. UDP!Clock(b.net.dog, ms) \in Clocks
    BY <1>1, UDPTimers DEF NetType
  <2>2. n \in NetType /\ n.state = b.net.state /\ n.id = b.net.id /\ n.late = b.net.late
        /\ n.mixed = b.net.mixed
    BY <1>1, <2>1 DEF NetType
  <2>3. UDP!Watched(b, ms) = UDP!Ended(b) \/ UDP!Watched(b, ms) = d
    BY <1>3 DEF UDP!Watched
  <2> HIDE DEF n
  <2>4. d \in Both /\ d.link = b.link /\ d.net = n
    BY <1>1, <2>2 DEF Both
  <2> HIDE DEF d
  <2>5. InStep(b) => InStep(d)
    BY <2>2, <2>4, HeldEmpty DEF InStep
  <2>6. UDP!Ended(b) \in Both /\ Follows(UDP!Ended(b).link, b.link)
        /\ (client \notin UDP!Locking => UDP!Ended(b).link = b.link)
    BY <1>1, EndedIs, ResetFollows
  <2>7. client \in UDP!Locking /\ InStep(b) => InStep(UDP!Ended(b))
    BY EndedInStep DEF InStep, Held
  <2>8. Follows(d.link, b.link)
    BY <1>1, <2>4, ResetFollows
  <2> QED
    BY <1>3, <2>3, <2>4, <2>5, <2>6, <2>7, <2>8
<1> QED
  BY <1>2, <1>3

LEMMA PollsIs ==
  ASSUME NEW l \in LinkType, NEW ms \in Nat
  PROVE  /\ UDP!Polls(l, ms) \in LinkType /\ Follows(UDP!Polls(l, ms), l)
         /\ UDP!Polls(l, ms).buffer = l.buffer /\ UDP!Polls(l, ms).in = l.in
<1> DEFINE t == UDP!Clock(l.poll, ms)
           q == IF UDP!HasExpired(t) THEN UDP!Start(t) ELSE t
<1>1. t \in Clocks
  BY UDPTimers DEF LinkType
<1>2. UDP!HasExpired(t) \in BOOLEAN
  BY DEF UDP!HasExpired
<1>3. q \in Clocks
  <2> HIDE DEF t
  <2> QED
    BY <1>1, Configured, UDPTimers
<1> DEFINE x == UDP!HasExpired(t)
<1>4. UDP!Polls(l, ms) = [l EXCEPT !.poll = q, !.polled = x]
  BY DEF UDP!Polls
<1>5. x \in BOOLEAN
  BY <1>2
<1> HIDE DEF q, x
<1> QED
  BY <1>3, <1>4, <1>5 DEF LinkType, Follows

\* What is queued in an empty buffer is all that is in it.
Arrived(p) == [kind |-> p.kind, id |-> p.id, bare |-> FALSE, stale |-> FALSE]

LEMMA QueuedIs ==
  ASSUME NEW l \in LinkType, NEW p \in UDP!Packets
  PROVE  /\ \A m \in {UDP!Queued(l, p), UDP!QueuedWhole(l, p)} :
               m \in LinkType /\ Follows(m, l) /\ m.in = l.in
         /\ l.buffer = << >> =>
               /\ UDP!Queued(l, p) = [l EXCEPT !.buffer = << Arrived(p) >>]
               /\ UDP!QueuedWhole(l, p) = [l EXCEPT !.buffer = << Arrived(p) >>]
<1> DEFINE r == Arrived(p)
           bare == [r EXCEPT !.bare = TRUE]
           room == UDP!Room(l.buffer)
<1>1. r \in PacketType /\ bare \in PacketType
  BY DEF UDP!Packets, PacketType, Arrived
<1>2. l.buffer \in Seq(PacketType) /\ Len(l.buffer) \in Nat
  BY LenProperties DEF LinkType
<1>3. room \in Int
  BY <1>2, Configured DEF UDP!Room
<1>4. Append(l.buffer, r) \in Seq(PacketType) /\ << >> \in Seq(PacketType) /\ << bare >> \in Seq(PacketType)
  <2> HIDE DEF r, bare
  <2> QED
    BY <1>1, <1>2, AppendProperties, EmptySeq
<1>5. /\ room > 2 => UDP!Queued(l, p) = [l EXCEPT !.buffer = Append(l.buffer, r)]
      /\ room = 2 => UDP!Queued(l, p) = [l EXCEPT !.buffer = << >>]
      /\ room < 2 => UDP!Queued(l, p) = [l EXCEPT !.buffer = << bare >>]
  <2>1. UDP!Queued(l, p) = [l EXCEPT !.buffer = CASE room > 2 -> Append(l.buffer, r)
                                                  [] room = 2 -> << >>
                                                  [] room < 2 -> << bare >>]
    BY DEF UDP!Queued, Arrived
  <2> HIDE DEF room, r, bare
  <2>2. CASE room > 2
    <3>1. ~(room = 2) /\ ~(room < 2)
      BY <1>3, <2>2
    <3> QED
      BY <2>1, <2>2, <3>1
  <2>3. CASE room = 2
    <3>1. ~(room > 2) /\ ~(room < 2)
      BY <1>3, <2>3
    <3> QED
      BY <2>1, <2>3, <3>1
  <2>4. CASE room < 2
    <3>1. ~(room > 2) /\ ~(room = 2)
      BY <1>3, <2>4
    <3> QED
      BY <2>1, <2>4, <3>1
  <2>5. room > 2 \/ room = 2 \/ room < 2
    BY <1>3
  <2> QED
    BY <2>2, <2>3, <2>4
<1>6. UDP!QueuedWhole(l, p) = [l EXCEPT !.buffer = IF room > 2 THEN Append(l.buffer, r) ELSE << >>]
  BY DEF UDP!QueuedWhole, Arrived
<1>7. l.buffer = << >> => room > 2 /\ Append(l.buffer, r) = << r >>
  <2> SUFFICES ASSUME l.buffer = << >> PROVE room > 2 /\ Append(l.buffer, r) = << r >>
    OBVIOUS
  <2>1. Len(l.buffer) = 0
    BY EmptySeq
  <2>2. room = Capacity
    BY <2>1, Configured DEF UDP!Room
  <2> QED
    BY <2>2, Configured
<1> HIDE DEF room, bare
<1>8. \A m \in {UDP!Queued(l, p), UDP!QueuedWhole(l, p)} : \E s \in Seq(PacketType) : m = [l EXCEPT !.buffer = s]
  <2>1. room > 2 \/ room = 2 \/ room < 2
    BY <1>3
  <2> HIDE DEF r
  <2> QED
    BY <1>4, <1>5, <1>6, <2>1
<1>9. ASSUME NEW m \in {UDP!Queued(l, p), UDP!QueuedWhole(l, p)}
      PROVE  m \in LinkType /\ Follows(m, l) /\ m.in = l.in
  <2>1. PICK s \in Seq(PacketType) : m = [l EXCEPT !.buffer = s]
    BY <1>8
  <2> QED
    BY <2>1, BufferSet
<1> QED
  BY <1>5, <1>6, <1>7, <1>9

LEMMA LockSet ==
  ASSUME NEW l \in LinkType, NEW id \in Identity
  PROVE  /\ [l EXCEPT !.in = id] \in LinkType /\ Follows([l EXCEPT !.in = id], l)
         /\ [l EXCEPT !.in = id].buffer = l.buffer /\ [l EXCEPT !.in = id].in = id
BY DEF LinkType, Follows

\* A packet is passed on with the client locked to its id, or free again behind the end.
LEMMA TakesIs ==
  ASSUME NEW l \in LinkType, NEW p \in UDP!Packets, client \in UDP!Clients
  PROVE  LET m == UDP!Takes(l, p)
         IN \/ m = l
            \/ /\ \E id \in Identity :
                    /\ m \in {UDP!Queued([l EXCEPT !.in = id], p), UDP!QueuedWhole([l EXCEPT !.in = id], p)}
                    /\ client \in UDP!Locking => /\ l.in \in {0, p.id}
                                                 /\ id = p.id \/ (id = 0 /\ p.kind = "end")
<1>1. p.id \in Ids /\ p.id \in Identity /\ p.id # 0 /\ 0 \in Identity /\ l.in \in Identity
  BY Configured DEF UDP!Packets, LinkType
<1>2. [l EXCEPT !.in = l.in] = l
  BY DEF LinkType
<1>3. CASE client = "D-Star"
  BY <1>1, <1>2, <1>3 DEF UDP!Takes, UDP!DStarTakes
<1>4. CASE client = "YSF"
  BY <1>1, <1>2, <1>4 DEF UDP!Takes, UDP!YSFTakes
<1>5. CASE client = "M17"
  BY <1>1, <1>2, <1>5 DEF UDP!Takes, UDP!M17Takes
<1>6. CASE client \in {"DMR", "P25", "NXDN", "POCSAG", "FM"}
  <2>1. UDP!Takes(l, p) \in {l, UDP!Queued(l, p), UDP!QueuedWhole(l, p)} /\ client \notin UDP!Locking
    BY <1>6 DEF UDP!Takes, UDP!DMRTakes, UDP!P25Takes, UDP!IcomTakes, UDP!POCSAGTakes,
       UDP!FMTakes, UDP!Locking
  <2> QED
    BY <1>1, <1>2, <2>1
<1> QED
  BY <1>3, <1>4, <1>5, <1>6 DEF UDP!Clients, UDP!Locking

LEMMA TakesType ==
  ASSUME NEW l \in LinkType, NEW p \in UDP!Packets, client \in UDP!Clients
  PROVE  /\ UDP!Takes(l, p) \in LinkType /\ Follows(UDP!Takes(l, p), l)
         /\ l.buffer = << >> => Len(UDP!Takes(l, p).buffer) <= 1
<1>1. CASE UDP!Takes(l, p) = l
  <2>1. l.buffer = << >> => Len(l.buffer) <= 1
    BY EmptySeq
  <2> QED
    BY <1>1, <2>1, ResetFollows
<1>2. ASSUME NEW id \in Identity,
             UDP!Takes(l, p) \in {UDP!Queued([l EXCEPT !.in = id], p), UDP!QueuedWhole([l EXCEPT !.in = id], p)}
      PROVE  /\ UDP!Takes(l, p) \in LinkType /\ Follows(UDP!Takes(l, p), l)
             /\ l.buffer = << >> => Len(UDP!Takes(l, p).buffer) <= 1
  <2> DEFINE k == [l EXCEPT !.in = id]
             m == UDP!Takes(l, p)
  <2>1. k \in LinkType /\ Follows(k, l) /\ k.buffer = l.buffer
    BY LockSet
  <2>2. m \in {UDP!Queued(k, p), UDP!QueuedWhole(k, p)}
    BY <1>2
  <2> HIDE DEF k, m
  <2>3. m \in LinkType /\ Follows(m, k)
    BY <2>1, <2>2, QueuedIs
  <2>4. Follows(m, l)
    BY <2>1, <2>3 DEF Follows
  <2>5. ASSUME l.buffer = << >> PROVE Len(m.buffer) <= 1
    <3>1. m = [k EXCEPT !.buffer = << Arrived(p) >>]
      BY <2>1, <2>2, <2>5, QueuedIs
    <3>2. m.buffer = << Arrived(p) >>
      BY <2>1, <3>1 DEF LinkType
    <3> QED
      BY <3>2
  <2> QED
    BY <2>3, <2>4, <2>5 DEF m
<1> QED
  BY <1>1, <1>2, TakesIs

LEMMA TakesHeld ==
  ASSUME NEW l \in LinkType, NEW n, NEW p \in UDP!Packets, client \in UDP!Locking,
         l.buffer = << >>, Held(l, n)
  PROVE  Held(UDP!Takes(l, p), n)
<1>0. client \in UDP!Clients
  BY DEF UDP!Clients
<1>1. CASE UDP!Takes(l, p) = l
  BY <1>1
<1>2. ASSUME NEW id \in Identity,
             UDP!Takes(l, p) \in {UDP!Queued([l EXCEPT !.in = id], p), UDP!QueuedWhole([l EXCEPT !.in = id], p)},
             l.in \in {0, p.id}, id = p.id \/ (id = 0 /\ p.kind = "end")
      PROVE  Held(UDP!Takes(l, p), n)
  <2> DEFINE k == [l EXCEPT !.in = id]
             m == UDP!Takes(l, p)
  <2>1. k \in LinkType /\ k.buffer = << >> /\ k.in = id
    BY LockSet
  <2>2. m \in {UDP!Queued(k, p), UDP!QueuedWhole(k, p)}
    BY <1>2
  <2> HIDE DEF k, m
  <2>3. m = [k EXCEPT !.buffer = << Arrived(p) >>]
    BY <2>1, <2>2, QueuedIs
  <2>4. m.buffer = << Arrived(p) >> /\ m.in = id
    BY <2>1, <2>3 DEF LinkType
  <2>5. Len(m.buffer) = 1 /\ m.buffer[1] = Arrived(p) /\ m.buffer # << >>
    BY <2>4
  <2>6. ~n.mixed /\ (n.state = "in" /\ ~n.late => n.id # 0 /\ l.in = n.id)
    BY HeldEmpty
  <2>7. /\ ~Arrived(p).bare /\ Arrived(p).kind = p.kind /\ Arrived(p).id = p.id
    BY DEF Arrived
  <2> HIDE DEF Arrived
  <2>8. Held(m, n)
    BY <1>2, <2>4, <2>5, <2>6, <2>7 DEF Held
  <2> QED
    BY <2>8 DEF m
<1> QED
  BY <1>0, <1>1, <1>2, TakesIs

-----------------------------------------------------------------------------
(* The steps.                                                              *)

UDPInv == UDPType /\ ToldInv /\ LockInv

\* What the control has read on a turn.
LEMMA ReadIs ==
  ASSUME UDPInv,
         NEW b \in CASE client = "POCSAG" -> UDP!readNetwork([link |-> link, net |-> net])
                     [] client = "FM" -> UDP!FMReads([link |-> link, net |-> net])
                     [] OTHER -> UDP!Reads([link |-> link, net |-> net])
  PROVE  /\ b \in Both /\ Follows(b.link, link)
         /\ client \in UDP!Locking => InStep(b)
         /\ client \notin {"POCSAG", "FM"} => Len(b.link.buffer) = 0
         /\ ~enabled => b.net.state = "idle"
<1> DEFINE now == [link |-> link, net |-> net]
<1>1. now \in Both /\ now.link = link /\ now.net = net /\ link \in LinkType
  BY DEF UDPInv, UDPType, Both
<1>2. /\ \/ b \in UDP!Reads(now)
         \/ client = "POCSAG" /\ b = now
         \/ client = "FM" /\ b \in UDP!FMReads(now)
      /\ (client \in UDP!Clients /\ client \notin {"POCSAG", "FM"} => b \in UDP!Reads(now))
  BY DEF UDP!readNetwork
<1> HIDE DEF now
<1>3. CASE client \in UDP!Locking
  <2>1. b \in UDP!Reads(now)
    BY <1>2, <1>3 DEF UDP!Locking
  <2>2. Held(now.link, now.net) /\ (~enabled => now.net.state = "idle")
    BY <1>1, <1>3 DEF UDPInv, LockInv
  <2>3. InStep(b) /\ Follows(b.link, link)
    BY <1>1, <1>3, <2>1, <2>2, ReadsLocking
  <2>4. Len(b.link.buffer) = 0
    BY <2>3, EmptySeq DEF InStep
  <2>5. ASSUME ~enabled PROVE b.net.state = "idle"
    <3>1. now.net.state = "idle"
      BY <2>2, <2>5
    <3>2. b = now \/ b = [now EXCEPT !.link.buffer = UDP!Rest(now.link.buffer)]
      BY <2>1, <2>5 DEF UDP!Reads, UDP!Taken
    <3>3. [now EXCEPT !.link.buffer = UDP!Rest(now.link.buffer)].net = now.net
      BY <1>1 DEF Both
    <3> QED
      BY <3>1, <3>2, <3>3
  <2> QED
    BY <1>3, <2>3, <2>4, <2>5 DEF InStep
<1>4. CASE client \notin UDP!Locking
  <2>1. CASE b \in UDP!Reads(now)
    <3>1. client \in UDP!Clients \ UDP!Locking
      BY <1>4 DEF UDPInv, UDPType
    <3>2. /\ b \in Both /\ Follows(b.link, link) /\ (~enabled => b.net = net)
          /\ Len(link.buffer) <= 1 => Len(b.link.buffer) = 0
      BY <1>1, <2>1, <3>1, ReadsOther
    <3> QED
      BY <1>4, <3>2 DEF UDPInv, LockInv
  <2>2. CASE b = now /\ client = "POCSAG"
    BY <1>1, <1>4, <2>2, ResetFollows DEF UDPInv, LockInv
  <2>3. CASE b \in UDP!FMReads(now) /\ client = "FM"
    <3>1. b \in Both /\ b.net = net /\ Follows(b.link, link)
      BY <1>1, <2>3, FMReadsIs
    <3> QED
      BY <1>4, <2>3, <3>1 DEF UDPInv, LockInv
  <2> QED
    BY <1>2, <1>4, <2>1, <2>2, <2>3
<1> QED
  BY <1>3, <1>4

LEMMA TurnStep ==
  ASSUME UDPInv, NEW ms \in Nat, NEW p \in UDP!Packets \cup {UDP!None}, UDP!Turn(ms, p), UNCHANGED air
  PROVE  UDPInv'
<1>1. UDPType /\ ToldInv /\ LockInv
  BY DEF UDPInv
<1> DEFINE now == [link |-> link, net |-> net]
<1>2. PICK b \in CASE client = "POCSAG" -> UDP!readNetwork(now)
                   [] client = "FM" -> UDP!FMReads(now)
                   [] OTHER -> UDP!Reads(now) :
        LET c == UDP!Watched(b, ms)
            l == UDP!Polls(c.link, ms)
        IN /\ net' = c.net
           /\ \/ p = UDP!None /\ link' = l
              \/ p # UDP!None /\ open /\ link' = IF enabled THEN UDP!Takes(l, p) ELSE l
           /\ told' = UDP!Torn(told, link'.out # link.out)
           /\ UNCHANGED <<client, enabled, open, rf>>
  BY DEF UDP!Turn
<1>3. /\ b \in Both /\ Follows(b.link, link)
      /\ client \in UDP!Locking => InStep(b)
      /\ client \notin {"POCSAG", "FM"} => Len(b.link.buffer) = 0
      /\ ~enabled => b.net.state = "idle"
  BY <1>2, ReadIs
<1> DEFINE c == UDP!Watched(b, ms)
           l == UDP!Polls(c.link, ms)
<1>4. /\ net' = c.net
      /\ link' = l \/ (p \in UDP!Packets /\ link' = UDP!Takes(l, p))
      /\ told' = told \/ (told.state = "open" /\ told' = [told EXCEPT !.state = "cut"])
      /\ link'.out # link.out => told'.state # "open"
      /\ UNCHANGED <<client, enabled, open, rf, air>>
  <2>1. told' = UDP!Torn(told, link'.out # link.out) /\ told \in ToldType
    BY <1>1, <1>2 DEF UDPType
  <2>2. /\ told' = told \/ (told.state = "open" /\ told' = [told EXCEPT !.state = "cut"])
        /\ link'.out # link.out => told'.state # "open"
    BY <2>1 DEF UDP!Torn, ToldType
  <2> QED
    BY <1>2, <2>2
<1>5. /\ c \in Both /\ Follows(c.link, b.link)
      /\ client \in UDP!Locking => InStep(c)
      /\ client \notin UDP!Locking => c.link = b.link
      /\ b.net.state = "idle" => c = b
  BY <1>3, WatchedIs
<1>6. client \notin {"POCSAG", "FM"} => c.link.buffer = << >>
  <2>1. ASSUME client \notin {"POCSAG", "FM"} PROVE c.link.buffer = << >>
    <3>1. CASE client \in UDP!Locking
      BY <1>3, <1>5, <3>1 DEF InStep
    <3>2. CASE client \notin UDP!Locking
      <4>1. c.link = b.link /\ Len(b.link.buffer) = 0 /\ b.link.buffer \in Seq(PacketType)
        BY <1>3, <1>5, <2>1, <3>2 DEF Both, LinkType
      <4> QED
        BY <4>1, EmptySeq
    <3> QED
      BY <3>1, <3>2
  <2> QED
    BY <2>1
<1> HIDE DEF c
<1>7. c.link \in LinkType /\ c.net \in NetType
  BY <1>5 DEF Both
<1>8. l \in LinkType /\ Follows(l, c.link) /\ l.buffer = c.link.buffer /\ l.in = c.link.in
  BY <1>7, PollsIs
<1> HIDE DEF l
<1>9. link' \in LinkType /\ Follows(link', l)
      /\ (l.buffer = << >> => Len(link'.buffer) <= 1)
  <2>1. l.buffer = << >> => Len(l.buffer) <= 1
    BY EmptySeq
  <2>2. client \in UDP!Clients
    BY <1>1 DEF UDPType
  <2> QED
    BY <1>4, <1>8, <2>1, <2>2, TakesType, ResetFollows
<1>10. Follows(link', link)
  BY <1>3, <1>5, <1>8, <1>9 DEF Follows
<1>11. told' \in ToldType /\ told'.id = told.id /\ told'.last = told.last
       /\ (told'.state = told.state \/ (told.state = "open" /\ told'.state = "cut"))
  <2>1. told \in ToldType
    BY <1>1 DEF UDPType
  <2> QED
    BY <1>4, <2>1, ToldFields
<1>12. UDPType'
  BY <1>1, <1>4, <1>7, <1>9, <1>11 DEF UDPType
<1>13. ToldInv'
  <2>1. Known(link, told) /\ told.state \in {"quiet", "open", "cut"}
    BY <1>1 DEF ToldInv, Known
  <2>2. /\ told'.state \in {"quiet", "open", "cut"}
        /\ told'.state = "open" => link'.out = link.out /\ told.state = "open"
        /\ link'.started = link.started
        /\ client # "M17" => link'.out = link.out
    BY <1>4, <1>10, <1>11, <2>1 DEF Follows
  <2>3. Known(link', told')
    BY <1>4, <1>10, <1>11, <2>1, <2>2 DEF Known, NoIds
  <2>4. Known(link, told)'
    BY <1>4, <2>3 DEF Known, NoIds
  <2>5. link'.out = link.out \/ link'.out = 0
    BY <1>10 DEF Follows
  <2> QED
    BY <1>1, <1>4, <1>11, <2>2, <2>4, <2>5 DEF ToldInv
<1>14. LockInv'
  <2>1. ASSUME client \in UDP!Locking PROVE Held(link', net')
    <3>1. InStep(c) /\ c.link.buffer = << >>
      BY <1>3, <1>5, <2>1 DEF InStep
    <3>2. l.buffer = << >> /\ Held(l, c.net)
      BY <1>8, <3>1, HeldEmpty DEF InStep
    <3> QED
      BY <1>4, <1>8, <2>1, <3>2, TakesHeld
  <2>2. ASSUME client \notin {"POCSAG", "FM"} PROVE Len(link'.buffer) <= 1
    BY <1>6, <1>8, <1>9, <2>2
  <2>3. ASSUME ~enabled PROVE net'.state = "idle"
    BY <1>3, <1>4, <1>5, <2>3
  <2> QED
    BY <1>1, <1>4, <2>1, <2>2, <2>3 DEF LockInv
<1> QED
  BY <1>12, <1>13, <1>14 DEF UDPInv

LEMMA BeginsStep ==
  ASSUME UDPInv, UDP!Begins, UNCHANGED air PROVE UDPInv'
<1>1. UDPType /\ ToldInv /\ LockInv
  BY DEF UDPInv
<1>2. PICK w \in UDP!Written("header") : link' = w.link /\ told' = w.told
  BY DEF UDP!Begins
<1>3. enabled /\ rf = "idle" /\ rf' = "talking" /\ client # "POCSAG"
      /\ UNCHANGED <<client, enabled, open, net, air>>
  BY DEF UDP!Begins
<1>4. /\ Same(link') /\ told' \in ToldType /\ Known(link', told')
      /\ client # "FM" => told'.state # "quiet"
  BY <1>1, <1>2, <1>3, WrittenBegins
<1>5. Known(link, told)'
  BY <1>3, <1>4 DEF Known, NoIds
<1>6. UDPType'
  BY <1>1, <1>3, <1>4 DEF UDPType, Same
<1>7. ToldInv'
  BY <1>1, <1>3, <1>4, <1>5 DEF ToldInv
<1>8. LockInv'
  BY <1>1, <1>3, <1>4 DEF LockInv, Held, Same
<1> QED
  BY <1>6, <1>7, <1>8 DEF UDPInv

LEMMA SpeaksStep ==
  ASSUME UDPInv, UDP!Speaks, UNCHANGED air PROVE UDPInv'
<1>1. UDPType /\ ToldInv /\ LockInv /\ client # "POCSAG"
  BY DEF UDPInv, ToldInv, UDP!Speaks
<1>2. PICK f \in {"frame"} \cup (IF client = "DMR" THEN {"csbk"} ELSE {}) :
        \E w \in UDP!Written(f) : link' = w.link /\ told' = w.told
  BY DEF UDP!Speaks
<1>3. PICK w \in UDP!Written(f) : link' = w.link /\ told' = w.told
  BY <1>2
<1>4. rf = "talking" /\ UNCHANGED <<client, enabled, open, rf, net, air>>
  BY DEF UDP!Speaks
<1>5. f = "frame" \/ (f = "csbk" /\ client = "DMR")
  BY <1>2
<1>6. /\ Same(link') /\ told' \in ToldType /\ Known(link', told')
      /\ client # "FM" => told'.state # "quiet"
  BY <1>1, <1>3, <1>4, <1>5, WrittenSpeaks
<1>7. Known(link, told)'
  BY <1>4, <1>6 DEF Known, NoIds
<1>8. UDPType'
  BY <1>1, <1>4, <1>6 DEF UDPType, Same
<1>9. ToldInv'
  BY <1>1, <1>4, <1>6, <1>7 DEF ToldInv
<1>10. LockInv'
  BY <1>1, <1>4, <1>6 DEF LockInv, Held, Same
<1> QED
  BY <1>8, <1>9, <1>10 DEF UDPInv

\* Letting go leaves an idle control in step.
LEMMA LetsGoIs ==
  ASSUME UDPType, LockInv, NEW l \in LinkType, Same(l)
  PROVE  LET m == UDP!LetsGo(l)
         IN /\ m \in LinkType /\ m.started = l.started
            /\ m.out = l.out \/ (client = "M17" /\ m.out = 0)
            /\ client = "M17" => m.out = 0 \/ net.state # "idle"
            /\ client \in UDP!Locking => Held(m, net)
            /\ Len(m.buffer) = Len(l.buffer)
<1>1. net.state \in {"idle", "in", "data"} /\ (client \in UDP!Locking => Held(l, net))
  BY DEF UDPType, NetType, LockInv, Held, Same
<1>2. CASE client \in UDP!Locking /\ net.state = "idle"
  <2>1. UDP!LetsGo(l) = UDP!reset(l)
    BY <1>2 DEF UDP!LetsGo
  <2>2. ~net.mixed
    BY <1>2 DEF LockInv, Held
  <2>3. Held(UDP!reset(l), net)
    BY <1>1, <1>2, <2>2, HeldIdle
  <2> QED
    BY <1>2, <2>1, <2>3, ResetIs
<1>3. CASE ~(client \in UDP!Locking /\ net.state = "idle")
  <2>1. UDP!LetsGo(l) = l
    BY <1>3 DEF UDP!LetsGo
  <2> QED
    BY <1>1, <1>3, <2>1 DEF UDP!Locking
<1> QED
  BY <1>2, <1>3

LEMMA EndsStep ==
  ASSUME UDPInv, UDP!Ends, UNCHANGED air PROVE UDPInv'
<1>1. /\ UDPType /\ ToldInv /\ LockInv /\ link \in LinkType /\ told \in ToldType /\ Same(link)
      /\ client # "POCSAG"
  BY LinkSame DEF UDPInv, UDPType, ToldInv, UDP!Ends
<1>2. rf = "talking" /\ rf' = "idle" /\ UNCHANGED <<client, enabled, open, net, air>>
  BY DEF UDP!Ends
<1>3. \E l \in LinkType, t \in ToldType :
         /\ link' = UDP!LetsGo(l) /\ told' = UDP!Over(t)
         /\ Same(l) /\ Known(l, t) /\ (client # "FM" => t.state # "open")
  <2>1. CASE \E w \in UDP!Written("end") : told' = UDP!Over(w.told) /\ link' = UDP!LetsGo(w.link)
    <3>1. PICK w \in UDP!Written("end") : told' = UDP!Over(w.told) /\ link' = UDP!LetsGo(w.link)
      BY <2>1
    <3>2. Same(w.link) /\ w.told \in ToldType /\ Known(w.link, w.told) /\ w.told.state # "open"
      BY <1>1, <1>2, WrittenEnds
    <3> QED
      BY <3>1, <3>2 DEF Same
  <2>2. CASE told' = UDP!Over(UDP!Lost) /\ link' = UDP!LetsGo(link)
    <3>1. UDP!Lost \in ToldType /\ Known(link, UDP!Lost) /\ (client # "FM" => UDP!Lost.state # "open")
      <4>1. CASE client = "FM"
        BY <1>1, <4>1 DEF UDP!Lost, ToldInv
      <4>2. CASE client # "FM"
        <5>1. UDP!Lost = [told EXCEPT !.state = "quiet"]
          BY <4>2 DEF UDP!Lost
        <5>2. UDP!Lost \in ToldType /\ UDP!Lost.state = "quiet" /\ UDP!Lost.last = told.last
          BY <1>1, <5>1 DEF ToldType
        <5> QED
          BY <1>1, <4>2, <5>2 DEF Known, ToldInv
      <4> QED
        BY <4>1, <4>2
    <3> QED
      BY <1>1, <2>2, <3>1
  <2> QED
    BY <2>1, <2>2 DEF UDP!Ends
<1>4. PICK l \in LinkType, t \in ToldType :
         /\ link' = UDP!LetsGo(l) /\ told' = UDP!Over(t)
         /\ Same(l) /\ Known(l, t) /\ (client # "FM" => t.state # "open")
  BY <1>3
<1>5. /\ link' \in LinkType /\ link'.started = l.started
      /\ link'.out = l.out \/ (client = "M17" /\ link'.out = 0)
      /\ client = "M17" => link'.out = 0 \/ net.state # "idle"
      /\ client \in UDP!Locking => Held(link', net)
      /\ Len(link'.buffer) = Len(l.buffer)
  BY <1>1, <1>4, LetsGoIs
<1>6. /\ told' \in ToldType /\ told'.state = t.state /\ told'.id = t.id
      /\ told'.last = IF client = "M17" /\ net.state # "idle" THEN 0 ELSE t.last
  BY <1>4, Configured DEF UDP!Over, ToldType
<1>7. Known(link, told)'
  BY <1>2, <1>4, <1>5, <1>6 DEF Known, NoIds
<1>8. UDPType'
  BY <1>1, <1>2, <1>5, <1>6 DEF UDPType
<1>9. ToldInv'
  BY <1>1, <1>2, <1>4, <1>5, <1>6, <1>7 DEF ToldInv
<1>10. LockInv'
  BY <1>1, <1>2, <1>4, <1>5 DEF LockInv, Same
<1> QED
  BY <1>8, <1>9, <1>10 DEF UDPInv

LEMMA RefusedStep ==
  ASSUME UDPInv, UDP!Refused, UNCHANGED air PROVE UDPInv'
<1>1. UDPType /\ ToldInv /\ LockInv /\ told \in ToldType
  BY DEF UDPInv, UDPType
<1>2. enabled /\ rf' \in {"refused", "invalid"} /\ UNCHANGED <<client, enabled, open, link, net, air>>
  BY DEF UDP!Refused
<1>3. \/ rf = "idle" /\ client # "FM" /\ told' = told
      \/ rf = "talking" /\ client = "D-Star" /\ told' = [told EXCEPT !.state = "quiet"]
  BY DEF UDP!Refused, UDP!Locking
<1>4. /\ told' \in ToldType /\ told'.id = told.id /\ told'.last = told.last
      /\ (told'.state = told.state /\ rf = "idle" /\ client # "FM")
         \/ (told'.state = "quiet" /\ client = "D-Star")
  BY <1>1, <1>3 DEF ToldType
<1>5. UDPType'
  BY <1>1, <1>2, <1>4 DEF UDPType
<1>6. ToldInv'
  BY <1>1, <1>2, <1>4 DEF ToldInv, Known, NoIds
<1>7. LockInv'
  BY <1>1, <1>2 DEF LockInv, Held
<1> QED
  BY <1>5, <1>6, <1>7 DEF UDPInv

LEMMA RefusedEndsStep ==
  ASSUME UDPInv, UDP!RefusedEnds, UNCHANGED air PROVE UDPInv'
<1>1. UDPType /\ ToldInv /\ LockInv /\ told \in ToldType /\ link \in LinkType /\ Same(link)
  BY LinkSame DEF UDPInv, UDPType
<1>2. rf \in {"refused", "invalid"} /\ rf' = "idle" /\ UNCHANGED <<client, enabled, open, net, told, air>>
  BY DEF UDP!RefusedEnds
<1>3. CASE client = "M17" \/ rf = "invalid"
  <2>1. link' = UDP!LetsGo(link)
    BY <1>3 DEF UDP!RefusedEnds
  <2>2. /\ link' \in LinkType /\ link'.started = link.started
        /\ link'.out = link.out \/ (client = "M17" /\ link'.out = 0)
        /\ client \in UDP!Locking => Held(link', net)
        /\ Len(link'.buffer) = Len(link.buffer)
    BY <1>1, <2>1, LetsGoIs
  <2>3. UDPType'
    BY <1>1, <1>2, <2>2 DEF UDPType
  <2>4. client # "FM" => told.state # "open"
    BY <1>1, <1>2 DEF ToldInv
  <2>5. ToldInv'
    BY <1>1, <1>2, <2>2, <2>4 DEF ToldInv, Known, NoIds
  <2>6. LockInv'
    BY <1>1, <1>2, <2>2 DEF LockInv
  <2> QED
    BY <2>3, <2>5, <2>6 DEF UDPInv
<1>4. CASE client # "M17" /\ rf # "invalid"
  <2> DEFINE x == link.in # 0 /\ net.state = "idle"
  <2>1. link' = [link EXCEPT !.left = x]
    BY <1>4 DEF UDP!RefusedEnds
  <2>2. x \in BOOLEAN
    OBVIOUS
  <2> HIDE DEF x
  <2>3. Same(link') /\ link'.out = link.out /\ link'.started = link.started
    BY <1>1, <2>1, <2>2 DEF LinkType, Same
  <2>4. UDPType'
    BY <1>1, <1>2, <2>3 DEF UDPType, Same
  <2>5. ToldInv'
    BY <1>1, <1>2, <1>4, <2>3 DEF ToldInv, Known, NoIds
  <2>6. LockInv'
    BY <1>1, <1>2, <2>3 DEF LockInv, Held, Same
  <2> QED
    BY <2>4, <2>5, <2>6 DEF UDPInv
<1> QED
  BY <1>3, <1>4

LEMMA ReopenedStep ==
  ASSUME UDPInv, UDP!Reopened, UNCHANGED air PROVE UDPInv'
<1>1. open' \in BOOLEAN /\ UNCHANGED <<client, enabled, link, rf, net, told, air>>
  BY DEF UDP!Reopened, UDP!Opens
<1> QED
  BY <1>1 DEF UDPInv, UDPType, ToldInv, Known, NoIds, LockInv, Held

LEMMA UDPEnableStep ==
  ASSUME UDPInv, NEW on \in BOOLEAN, UDP!enable(on), UNCHANGED air PROVE UDPInv'
<1>1. UDPType /\ ToldInv /\ LockInv /\ told \in ToldType /\ link \in LinkType /\ net \in NetType
  BY DEF UDPInv, UDPType
<1>2. enabled' = on /\ UNCHANGED <<client, open, air>>
  BY DEF UDP!enable
<1>3. CASE on
  <2>1. UNCHANGED <<rf, net, told>>
    BY <1>3 DEF UDP!enable
  <2>2. CASE enabled
    <3>1. link' = link
      BY <1>3, <2>2 DEF UDP!enable
    <3> QED
      BY <1>1, <1>2, <1>3, <2>1, <2>2, <3>1 DEF UDPInv, UDPType, ToldInv, Known, NoIds, LockInv, Held
  <2>3. CASE ~enabled
    <3>1. rf = "idle" /\ net.state = "idle" /\ (client \in UDP!Locking => ~net.mixed)
      BY <1>1, <2>3 DEF ToldInv, LockInv, Held
    <3>2. CASE client \in UDP!Locking
      <4>1. link' = UDP!reset(link) /\ client # "FM" /\ client # "POCSAG"
        BY <1>3, <2>3, <3>2 DEF UDP!enable, UDP!Locking
      <4>2. link' \in LinkType /\ Follows(link', link) /\ Len(link'.buffer) = Len(link.buffer)
            /\ (client = "M17" => link'.out = 0)
        BY <1>1, <4>1, ResetIs, ResetFollows
      <4>3. Held(link', net)
        BY <1>1, <3>1, <3>2, <4>1, HeldIdle DEF LockInv
      <4>4. UDPType'
        BY <1>1, <1>2, <2>1, <4>2 DEF UDPType
      <4>5. told.state # "open"
        BY <1>1, <3>1, <4>1 DEF ToldInv
      <4>6. ToldInv'
        BY <1>1, <1>2, <1>3, <2>1, <3>1, <4>1, <4>2, <4>5 DEF ToldInv, Known, NoIds, Follows
      <4>7. LockInv'
        BY <1>1, <1>2, <1>3, <2>1, <3>2, <4>2, <4>3 DEF LockInv
      <4> QED
        BY <4>4, <4>6, <4>7 DEF UDPInv
    <3>3. CASE client \notin UDP!Locking
      <4>1. link' = link \/ (client = "FM" /\ link' = [link EXCEPT !.buffer = << >>])
        BY <1>3, <2>3, <3>3 DEF UDP!enable
      <4>2. /\ link' \in LinkType /\ link'.out = link.out /\ link'.started = link.started
            /\ client # "FM" => link' = link
        BY <1>1, <4>1, EmptySeq DEF LinkType
      <4>3. UDPType'
        BY <1>1, <1>2, <2>1, <4>2 DEF UDPType
      <4>4. ToldInv'
        BY <1>1, <1>2, <1>3, <2>1, <3>1, <3>3, <4>2 DEF ToldInv, Known, NoIds, UDP!Locking
      <4>5. LockInv'
        BY <1>1, <1>2, <1>3, <2>1, <3>3, <4>2 DEF LockInv
      <4> QED
        BY <4>3, <4>4, <4>5 DEF UDPInv
    <3> QED
      BY <3>2, <3>3
  <2> QED
    BY <2>2, <2>3
<1>4. CASE ~on
  <2> DEFINE k == [UDP!Idle EXCEPT !.mixed = net.mixed]
             s == IF client = "FM" THEN told.state ELSE "quiet"
  <2>1. rf' = "idle" /\ net' = k /\ told' = [told EXCEPT !.state = s]
    BY <1>4 DEF UDP!enable
  <2>2. k \in NetType /\ k.state = "idle" /\ k.mixed = net.mixed
    BY <1>1, UDPIdle DEF NetType, UDP!Idle
  <2>3. s \in {"quiet", "open", "cut", "split", "headless"} /\ (client = "FM" => s = told.state)
        /\ (client # "FM" => s = "quiet")
    BY <1>1 DEF ToldType
  <2> HIDE DEF k, s
  <2>4. told' \in ToldType /\ told'.state = s /\ told'.id = told.id /\ told'.last = told.last
    BY <1>1, <2>1, <2>3 DEF ToldType
  <2>5. link' = link \/ (enabled /\ link' = [link EXCEPT !.buffer = << >>, !.left = FALSE])
    BY <1>4 DEF UDP!enable
  <2>6. /\ link' \in LinkType /\ link'.out = link.out /\ link'.started = link.started
        /\ link' = link \/ link'.buffer = << >>
    BY <1>1, <2>5, EmptySeq DEF LinkType
  <2>7. client \in UDP!Locking => ~net.mixed
    BY <1>1 DEF LockInv, Held
  <2>8. UDPType'
    BY <1>1, <1>2, <1>4, <2>1, <2>2, <2>4, <2>6 DEF UDPType
  <2>9. ToldInv'
    <3>1. CASE client = "FM"
      BY <1>1, <1>2, <1>4, <2>1, <2>3, <2>4, <2>6, <3>1 DEF ToldInv, Known, NoIds
    <3>2. CASE client # "FM"
      BY <1>1, <1>2, <1>4, <2>1, <2>3, <2>4, <2>6, <3>2 DEF ToldInv, Known, NoIds
    <3> QED
      BY <3>1, <3>2
  <2>10. LockInv'
    <3>1. CASE link' = link
      BY <1>1, <1>2, <2>1, <2>2, <2>7, <3>1 DEF LockInv, Held
    <3>2. CASE link'.buffer = << >>
      <4>1. (client \in UDP!Locking => Held(link', net')) /\ Len(link'.buffer) <= 1
        <5>1. (client \in UDP!Locking => ~net'.mixed) /\ net'.state = "idle"
          BY <2>1, <2>2, <2>7
        <5> QED
          BY <3>2, <5>1, EmptySeq DEF Held
      <4> QED
        BY <1>2, <2>1, <2>2, <2>7, <4>1 DEF LockInv
    <3> QED
      BY <2>6, <3>1, <3>2
  <2> QED
    BY <2>8, <2>9, <2>10 DEF UDPInv
<1> QED
  BY <1>3, <1>4

LEMMA UDPStarts ==
  ASSUME UDP!Init, air = 0 PROVE UDPInv
<1>1. UDPType
  BY UDPInit
<1>2. /\ link.out = 0 /\ link.started = FALSE /\ link.buffer = << >> /\ rf = "idle"
      /\ told.state = "quiet" /\ told.last = 0 /\ enabled
      /\ net.state = "idle" /\ net.mixed = FALSE
  BY DEF UDP!Init, UDP!Quiet, UDP!Idle
<1>3. ToldInv
  BY <1>2 DEF ToldInv, Known
<1>4. Held(link, net) /\ Len(link.buffer) <= 1
  BY <1>2, EmptySeq DEF Held
<1>5. LockInv
  BY <1>2, <1>4 DEF LockInv
<1> QED
  BY <1>1, <1>3, <1>5 DEF UDPInv

LEMMA UDPStep ==
  ASSUME UDPInv, UDP!Next, UNCHANGED air PROVE UDPInv'
<1>1. ASSUME UDP!NetSends PROVE UDPInv'
  <2>1. PICK ms \in 0 .. MaxElapse, p \in UDP!Packets : UDP!Turn(ms, p)
    BY <1>1 DEF UDP!NetSends
  <2>2. ms \in Nat
    BY Configured
  <2> QED
    BY <2>1, <2>2, TurnStep
<1>2. ASSUME UDP!NetSilent PROVE UDPInv'
  <2>1. PICK ms \in 0 .. MaxElapse : UDP!Turn(ms, UDP!None)
    BY <1>2 DEF UDP!NetSilent
  <2>2. ms \in Nat /\ UDP!None \in UDP!Packets \cup {UDP!None}
    BY Configured
  <2> QED
    BY <2>1, <2>2, TurnStep
<1> QED
  BY <1>1, <1>2, BeginsStep, SpeaksStep, EndsStep, RefusedStep, RefusedEndsStep, ReopenedStep,
     UDPEnableStep DEF UDP!Next

-----------------------------------------------------------------------------
(* The Kenwood client: types, and what the gateway is told.                *)

KLinkType == [seen : [1 .. Pieces -> Identity], headerSeen : BOOLEAN, out : Ids, data : BOOLEAN,
              late : BOOLEAN, rtcp : Clocks, hang : Clocks]

KNetType == [state : {"idle", "in"}, id : Identity, dog : Clocks, mixed : BOOLEAN]

KBoth == [link : KLinkType, net : KNetType]

KenwoodType ==
  /\ IsKenwood
  /\ enabled \in BOOLEAN /\ open \in BOOLEAN
  /\ link \in KLinkType
  /\ rf \in {"idle", "talking", "refused"}
  /\ net \in KNetType
  /\ told \in ToldType
  /\ air \in Identity

KToldInv ==
  /\ told.state \in {"quiet", "open", "cut"}
  /\ told.state = "open" => told.id = link.out
  /\ told.last \in {0, link.out}
  /\ rf # "talking" => told.state # "open"

LEMMA KenwoodTimers ==
  ASSUME NEW t \in Clocks, NEW n \in Nat
  PROVE  /\ Kenwood!SetTimeout(t, n) \in Clocks /\ Kenwood!Start(t) \in Clocks
         /\ Kenwood!Stop(t) \in Clocks /\ Kenwood!Clock(t, n) \in Clocks
<1>1. Kenwood!SetTimeout(t, n) \in Clocks
  BY DEF Clocks, Kenwood!SetTimeout, Kenwood!Unset
<1>2. Kenwood!Start(t) \in Clocks
  BY DEF Clocks, Kenwood!Start
<1>3. Kenwood!Stop(t) \in Clocks
  BY DEF Clocks, Kenwood!Stop
<1>4. Kenwood!Clock(t, n) \in Clocks
  BY DEF Clocks, Kenwood!Clock, Kenwood!IsRunning
<1> QED
  BY <1>1, <1>2, <1>3, <1>4

LEMMA KenwoodIdle == /\ Kenwood!Idle \in KNetType /\ Kenwood!Unset \in Clocks
                     /\ Kenwood!None \in [1 .. Pieces -> Identity]
<1>1. Kenwood!Unset \in Clocks
  BY DEF Kenwood!Unset, Clocks
<1>2. Kenwood!SetTimeout(Kenwood!Unset, WatchdogTime) \in Clocks
  BY <1>1, Configured, KenwoodTimers
<1> QED
  BY <1>1, <1>2, Configured DEF Kenwood!Idle, Kenwood!None, KNetType

\* m_sessionId++: another id.
LEMMA RaisedIs ==
  ASSUME NEW id \in Ids
  PROVE  Kenwood!Raised(id) \in Ids /\ Kenwood!Raised(id) \notin {0, id}
<1>1. ASSUME NEW m \in Nat, m > 1, NEW i \in 1 .. m
      PROVE  (IF i = m THEN 1 ELSE i + 1) \in 1 .. m /\ (IF i = m THEN 1 ELSE i + 1) \notin {0, i}
  BY <1>1
<1> QED
  BY <1>1, Configured DEF Kenwood!Raised

LEMMA KResetIs ==
  ASSUME NEW l \in KLinkType
  PROVE  LET m == Kenwood!reset(l)
         IN m \in KLinkType /\ m.out = l.out /\ m.seen = Kenwood!None /\ m.late = FALSE
<1>1. Kenwood!Stop(l.rtcp) \in Clocks /\ Kenwood!Stop(l.hang) \in Clocks
  BY Configured, KenwoodTimers DEF KLinkType
<1> QED
  BY <1>1, KenwoodIdle DEF Kenwood!reset, KLinkType

\* What is written leaves alone what is read.
KSame(l) == l \in KLinkType /\ l.seen = link.seen /\ l.late = link.late

LEMMA KGoesIs ==
  ASSUME NEW l, NEW f, NEW w \in Kenwood!Goes(l, f)
  PROVE  /\ w.link = l
         /\ w.told = [told EXCEPT !.state = "cut", !.last = 0] \/ w.told = Kenwood!Hears(f, l.out)
<1>1. PICK t \in Kenwood!Sent(f, l.out) : w = [link |-> l, told |-> t]
  BY DEF Kenwood!Goes
<1>2. t = [told EXCEPT !.state = "cut", !.last = 0] \/ t = Kenwood!Hears(f, l.out)
  BY DEF Kenwood!Sent
<1> QED
  BY <1>1, <1>2

LEMMA KToldFields ==
  ASSUME told \in ToldType, NEW s \in {"quiet", "open", "cut"}, NEW t,
         t = [told EXCEPT !.state = s] \/ t = [told EXCEPT !.state = s, !.last = 0]
  PROVE  t \in ToldType /\ t.state = s /\ t.id = told.id /\ t.last \in {0, told.last}
BY Configured DEF ToldType

KKnown(l, t) ==
  /\ t \in ToldType /\ t.state \in {"quiet", "open", "cut"}
  /\ t.state = "open" => t.id = l.out
  /\ t.last \in {0, l.out}

LEMMA KHeader ==
  ASSUME KenwoodType, KToldInv, rf = "idle", NEW w \in Kenwood!write("header")
  PROVE  KSame(w.link) /\ KKnown(w.link, w.told)
<1>1. link \in KLinkType /\ told \in ToldType
  BY DEF KenwoodType
<1>2. \E l \in KLinkType : KSame(l) /\ l.out = Kenwood!Raised(link.out) /\ w \in Kenwood!Goes(l, "header")
  <2> DEFINE h == Kenwood!Stop(link.hang)
             r == Kenwood!Start(link.rtcp)
             o == Kenwood!Raised(link.out)
  <2>1. h \in Clocks /\ r \in Clocks /\ o \in Ids
    BY <1>1, Configured, KenwoodTimers, RaisedIs DEF KLinkType
  <2>2. PICK data \in BOOLEAN :
          w \in Kenwood!Goes([[[link EXCEPT !.hang = h, !.rtcp = r] EXCEPT !.data = data] EXCEPT !.out = o], "header")
    <3>1. ASSUME NEW data \in BOOLEAN
          PROVE  [[Kenwood!writeRTCPStart(link) EXCEPT !.data = data] EXCEPT !.out = Kenwood!Raised(@)]
                   = [[[link EXCEPT !.hang = h, !.rtcp = r] EXCEPT !.data = data] EXCEPT !.out = o]
      BY <1>1 DEF Kenwood!writeRTCPStart, KLinkType
    <3> QED
      BY <3>1 DEF Kenwood!write, Kenwood!processIcomVoiceHeader, Kenwood!processIcomDataHeader,
         Kenwood!writeRTPVoiceHeader, Kenwood!writeRTPDataHeader
  <2> DEFINE l == [[[link EXCEPT !.hang = h, !.rtcp = r] EXCEPT !.data = data] EXCEPT !.out = o]
  <2> HIDE DEF h, r, o
  <2>3. KSame(l) /\ l.out = o /\ l \in KLinkType
    BY <1>1, <2>1 DEF KSame, KLinkType
  <2>4. w \in Kenwood!Goes(l, "header")
    BY <2>2
  <2> HIDE DEF l
  <2> QED
    BY <2>3, <2>4 DEF o
<1>3. PICK l \in KLinkType : KSame(l) /\ l.out = Kenwood!Raised(link.out) /\ w \in Kenwood!Goes(l, "header")
  BY <1>2
<1>4. l.out \in Ids /\ l.out \notin {0, link.out} /\ l.out \in Identity
  BY <1>1, <1>3, RaisedIs, Configured DEF KLinkType
<1>5. told.state \in {"quiet", "cut"} /\ told.last \in {0, link.out}
  BY DEF KToldInv
<1>6. Kenwood!Hears("header", l.out) = [state |-> "open", id |-> l.out, last |-> l.out]
  BY <1>4, <1>5 DEF Kenwood!Hears
<1>7. w.link = l /\ (\/ w.told = [told EXCEPT !.state = "cut", !.last = 0]
                     \/ w.told = [state |-> "open", id |-> l.out, last |-> l.out])
  BY <1>3, <1>6, KGoesIs
<1>8. KKnown(l, w.told)
  <2>1. CASE w.told = [told EXCEPT !.state = "cut", !.last = 0]
    <3>1. w.told \in ToldType /\ w.told.state = "cut" /\ w.told.last = 0
      BY <1>1, <2>1, Configured DEF ToldType
    <3> QED
      BY <3>1 DEF KKnown
  <2>2. CASE w.told = [state |-> "open", id |-> l.out, last |-> l.out]
    BY <1>4, <2>2 DEF KKnown, ToldType
  <2> QED
    BY <1>7, <2>1, <2>2
<1> QED
  BY <1>3, <1>7, <1>8

\* A frame, or the end, of voice.
LEMMA KVoice ==
  ASSUME KenwoodType, KToldInv, NEW l \in KLinkType, l.out = link.out, NEW f \in {"frame", "end"},
         NEW w \in Kenwood!Goes(l, f)
  PROVE  w.link = l /\ KKnown(l, w.told) /\ (f = "end" => w.told.state # "open")
<1>1. told \in ToldType /\ told.state \in {"quiet", "open", "cut"} /\ told.last \in {0, l.out}
      /\ (told.state = "open" => told.id = l.out)
  BY DEF KenwoodType, KToldInv
<1>2. CASE w.told = [told EXCEPT !.state = "cut", !.last = 0]
  <2>1. w.told \in ToldType /\ w.told.state = "cut" /\ w.told.last = 0
    BY <1>1, <1>2, Configured DEF ToldType
  <2> QED
    BY <2>1, KGoesIs DEF KKnown
<1>3. CASE w.told = Kenwood!Hears(f, l.out)
  <2>1. CASE told.state = "cut"
    <3>1. w.told = told
      BY <1>3, <2>1 DEF Kenwood!Hears
    <3> QED
      BY <1>1, <2>1, <3>1, KGoesIs DEF KKnown
  <2>2. CASE told.state # "cut"
    <3>1. w.told = [told EXCEPT !.state = IF f = "end" THEN "quiet" ELSE told.state]
      BY <1>1, <1>3, <2>2 DEF Kenwood!Hears
    <3>2. w.told \in ToldType /\ w.told.state = (IF f = "end" THEN "quiet" ELSE told.state)
          /\ w.told.id = told.id /\ w.told.last = told.last
      BY <1>1, <3>1 DEF ToldType
    <3> QED
      BY <1>1, <3>2, KGoesIs DEF KKnown
  <2> QED
    BY <2>1, <2>2
<1> QED
  BY <1>2, <1>3, KGoesIs

\* The pieces of data.
LEMMA KData ==
  ASSUME KenwoodType, KToldInv, NEW l \in KLinkType, NEW f \in {"frame", "end"},
         NEW w \in Kenwood!Apart(l, f)
  PROVE  /\ w.link = [l EXCEPT !.out = Kenwood!Raised(l.out)]
         /\ KKnown(w.link, w.told) /\ w.told.state # "open"
<1>1. told \in ToldType
  BY DEF KenwoodType
<1> DEFINE s == IF f = "end" THEN "quiet" ELSE "cut"
<1>2. w = [link |-> [l EXCEPT !.out = Kenwood!Raised(l.out)], told |-> [told EXCEPT !.state = s, !.last = 0]]
  BY DEF Kenwood!Apart
<1>3. s \in {"quiet", "cut"}
  OBVIOUS
<1> HIDE DEF s
<1>4. w.told \in ToldType /\ w.told.state = s /\ w.told.last = 0
  BY <1>1, <1>2, <1>3, Configured DEF ToldType
<1> QED
  BY <1>2, <1>3, <1>4 DEF KKnown

LEMMA KFrame ==
  ASSUME KenwoodType, KToldInv, NEW w \in Kenwood!write("frame")
  PROVE  KSame(w.link) /\ KKnown(w.link, w.told)
<1>1. link \in KLinkType /\ "frame" \in {"frame", "end"} /\ link.out \in Ids
  BY DEF KenwoodType, KLinkType
<1>2. w \in Kenwood!Apart(link, "frame") \/ w \in Kenwood!Goes(link, "frame")
  BY DEF Kenwood!write, Kenwood!processIcomDataData, Kenwood!processIcomVoiceData,
     Kenwood!writeRTPVoiceData, Kenwood!writeRTPDataData
<1>3. CASE w \in Kenwood!Apart(link, "frame")
  <2>1. w.link = [link EXCEPT !.out = Kenwood!Raised(link.out)] /\ KKnown(w.link, w.told)
    BY <1>1, <1>3, KData
  <2>2. Kenwood!Raised(link.out) \in Ids
    BY <1>1, RaisedIs
  <2> QED
    BY <1>1, <2>1, <2>2 DEF KSame, KLinkType
<1>4. CASE w \in Kenwood!Goes(link, "frame")
  <2>1. w.link = link /\ KKnown(link, w.told)
    BY <1>1, <1>4, KVoice
  <2> QED
    BY <1>1, <2>1 DEF KSame
<1> QED
  BY <1>2, <1>3, <1>4

LEMMA KEnd ==
  ASSUME KenwoodType, KToldInv, NEW w \in Kenwood!write("end")
  PROVE  KSame(w.link) /\ KKnown(w.link, w.told) /\ w.told.state # "open"
<1>1. link \in KLinkType /\ "end" \in {"frame", "end"} /\ link.out \in Ids
  BY DEF KenwoodType, KLinkType
<1> DEFINE h == Kenwood!Start(link.hang)
           l == [link EXCEPT !.hang = h]
<1>2. h \in Clocks
  BY <1>1, Configured, KenwoodTimers DEF KLinkType
<1>3. Kenwood!writeRTCPHang(link) = l
  BY <1>1 DEF Kenwood!writeRTCPHang, KLinkType
<1>4. w \in Kenwood!Apart(l, "end") \/ w \in Kenwood!Goes(l, "end")
  BY <1>3 DEF Kenwood!write, Kenwood!processIcomDataHeader, Kenwood!processIcomVoiceHeader,
     Kenwood!writeRTPVoiceTrailer, Kenwood!writeRTPDataTrailer
<1> HIDE DEF h
<1>5. KSame(l) /\ l.out = link.out /\ l \in KLinkType
  BY <1>1, <1>2 DEF KSame, KLinkType
<1> HIDE DEF l
<1>6. CASE w \in Kenwood!Apart(l, "end")
  <2>1. w.link = [l EXCEPT !.out = Kenwood!Raised(l.out)] /\ KKnown(w.link, w.told) /\ w.told.state # "open"
    BY <1>1, <1>5, <1>6, KData
  <2>2. Kenwood!Raised(l.out) \in Ids
    BY <1>1, <1>5, RaisedIs
  <2> QED
    BY <1>5, <2>1, <2>2 DEF KSame, KLinkType
<1>7. CASE w \in Kenwood!Goes(l, "end")
  <2>1. w.link = l /\ KKnown(l, w.told) /\ w.told.state # "open"
    BY <1>1, <1>5, <1>7, KVoice
  <2> QED
    BY <1>5, <2>1
<1> QED
  BY <1>4, <1>6, <1>7

-----------------------------------------------------------------------------
(* The Kenwood client: what comes in.                                      *)

\* As long as no trailer is lost the control is in what the gateway sends, a, and so are
\* the pieces that are collected.
Heard(l, n, a) ==
  /\ n.state = "in" /\ ~l.late => n.id = a /\ a # 0
  /\ ~l.late => \A i \in 1 .. Pieces : l.seen[i] \in {0, a}

KLockInv ==
  /\ ~enabled => net.state = "idle"
  /\ open /\ enabled => Heard(link, net, air)
  /\ ~net.mixed

KenwoodInv == KenwoodType /\ KToldInv /\ KLockInv

LEMMA HeardReset ==
  ASSUME NEW l \in KLinkType, NEW n, NEW a, n.state = "idle"
  PROVE  Heard(Kenwood!reset(l), n, a)
<1>1. Kenwood!reset(l).seen = Kenwood!None
  BY KResetIs
<1> QED
  BY <1>1 DEF Heard, Kenwood!None

LEMMA KNetFields ==
  ASSUME NEW n \in KNetType, NEW id \in Identity, NEW x \in BOOLEAN
  PROVE  /\ [n EXCEPT !.dog = Kenwood!Start(@)] \in KNetType
         /\ [n EXCEPT !.dog = Kenwood!Start(@), !.mixed = x] \in KNetType
         /\ [n EXCEPT !.state = "in", !.id = id, !.dog = Kenwood!Start(@)] \in KNetType
         /\ [Kenwood!Idle EXCEPT !.mixed = x] \in KNetType
         /\ [Kenwood!Idle EXCEPT !.mixed = x].state = "idle"
         /\ [Kenwood!Idle EXCEPT !.mixed = x].mixed = x
<1>1. Kenwood!Start(n.dog) \in Clocks
  BY Configured, KenwoodTimers DEF KNetType
<1>2. Kenwood!Idle \in KNetType
  BY KenwoodIdle
<1> QED
  BY <1>1, <1>2 DEF KNetType, Kenwood!Idle

\* What the control makes of a packet, one clause for each way it takes it.
LEMMA GivenIs ==
  ASSUME enabled, NEW b \in KBoth, NEW f \in {"header", "frame", "trailer"}, NEW id \in Identity
  PROVE  LET g == Kenwood!Given(b, f, id)
             x == b.net.mixed \/ (~b.link.late /\ id # b.net.id)
         IN /\ g \in KBoth
            /\ \/ g = b /\ b.net.state = "idle" /\ (rf # "idle" \/ f = "trailer")
               \/ /\ f = "trailer" /\ b.net.state = "in"
                  /\ g.link = Kenwood!reset(b.link)
                  /\ g.net.state = "idle" /\ g.net.mixed = x
               \/ /\ f # "trailer" /\ b.net.state = "idle"
                  /\ g.link = b.link
                  /\ g.net.state = "in" /\ g.net.id = id /\ g.net.mixed = b.net.mixed
               \/ /\ f # "trailer" /\ b.net.state = "in"
                  /\ g.link = b.link
                  /\ g.net.state = "in" /\ g.net.id = b.net.id
                  /\ g.net.mixed = IF f = "header" THEN b.net.mixed ELSE x
<1> DEFINE g == Kenwood!Given(b, f, id)
           x == b.net.mixed \/ (~b.link.late /\ id # b.net.id)
<1>1. b.link \in KLinkType /\ b.net \in KNetType /\ b.net.state \in {"idle", "in"}
      /\ b = [link |-> b.link, net |-> b.net] /\ b.net.mixed \in BOOLEAN
  BY DEF KBoth, KNetType
<1>2. x \in BOOLEAN
  BY <1>1 DEF KLinkType
<1>3. CASE b.net.state = "idle" /\ (rf # "idle" \/ f = "trailer")
  BY <1>3 DEF Kenwood!Given
<1>4. CASE f = "trailer" /\ b.net.state = "in"
  <2>1. g = [link |-> Kenwood!reset(b.link), net |-> [Kenwood!Idle EXCEPT !.mixed = x]]
    BY <1>4 DEF Kenwood!Given
  <2> HIDE DEF x
  <2>2. Kenwood!reset(b.link) \in KLinkType
    BY <1>1, KResetIs
  <2>3. [Kenwood!Idle EXCEPT !.mixed = x] \in KNetType /\ [Kenwood!Idle EXCEPT !.mixed = x].state = "idle"
        /\ [Kenwood!Idle EXCEPT !.mixed = x].mixed = x
    BY <1>1, <1>2, KNetFields
  <2> DEFINE m == Kenwood!reset(b.link)
             k == [Kenwood!Idle EXCEPT !.mixed = x]
  <2>4. m \in KLinkType /\ k \in KNetType /\ k.state = "idle" /\ k.mixed = x /\ g = [link |-> m, net |-> k]
    BY <2>1, <2>2, <2>3
  <2>5. m = Kenwood!reset(b.link)
    OBVIOUS
  <2> HIDE DEF m, k, g
  <2>6. g \in KBoth /\ g.link = m /\ g.net = k
    BY <2>4 DEF KBoth
  <2> QED
    BY <1>4, <2>4, <2>5, <2>6 DEF x, g
<1>5. CASE f # "trailer" /\ b.net.state = "idle" /\ rf = "idle"
  <2> DEFINE n == [b.net EXCEPT !.state = "in", !.id = id, !.dog = Kenwood!Start(@)]
  <2>1. g = [b EXCEPT !.net.state = "in", !.net.id = id, !.net.dog = Kenwood!Start(@)]
    BY <1>5 DEF Kenwood!Given
  <2>2. n \in KNetType /\ n.state = "in" /\ n.id = id /\ n.mixed = b.net.mixed
    BY <1>1, KNetFields DEF KNetType
  <2>3. g = [link |-> b.link, net |-> n]
    BY <1>1, <2>1 DEF KNetType, KBoth
  <2> HIDE DEF n
  <2> QED
    BY <1>1, <1>5, <2>2, <2>3 DEF KBoth
<1>6. CASE f # "trailer" /\ b.net.state = "in"
  <2> DEFINE y == IF f = "header" THEN b.net.mixed ELSE x
             n == [b.net EXCEPT !.dog = Kenwood!Start(@), !.mixed = y]
  <2>1. y \in BOOLEAN
    BY <1>1, <1>2
  <2>2. CASE f = "header"
    <3>1. g = [b EXCEPT !.net.dog = Kenwood!Start(@)]
      BY <1>6, <2>2 DEF Kenwood!Given
    <3>2. g = [link |-> b.link, net |-> [b.net EXCEPT !.dog = Kenwood!Start(@)]]
      BY <1>1, <3>1 DEF KBoth
    <3> DEFINE k == [b.net EXCEPT !.dog = Kenwood!Start(@)]
    <3>3. k \in KNetType /\ k.state = "in" /\ k.id = b.net.id /\ k.mixed = b.net.mixed
      BY <1>1, <1>6, KNetFields DEF KNetType
    <3>4. g = [link |-> b.link, net |-> k]
      BY <3>2
    <3> HIDE DEF k, g
    <3>5. g \in KBoth /\ g.link = b.link /\ g.net = k
      BY <1>1, <3>3, <3>4 DEF KBoth
    <3> QED
      BY <1>6, <2>2, <3>3, <3>5 DEF g
  <2>3. CASE f # "header"
    <3> DEFINE k == [b.net EXCEPT !.dog = Kenwood!Start(@), !.mixed = x]
    <3>1. g = [b EXCEPT !.net.dog = Kenwood!Start(@), !.net.mixed = x]
      BY <1>6, <2>3 DEF Kenwood!Given
    <3> HIDE DEF x
    <3>2. g = [link |-> b.link, net |-> k]
      BY <1>1, <3>1 DEF KBoth, KNetType
    <3>3. k \in KNetType /\ k.state = "in" /\ k.id = b.net.id /\ k.mixed = x
      BY <1>1, <1>2, <1>6, KNetFields DEF KNetType
    <3> HIDE DEF k
    <3>4. g \in KBoth /\ g.link = b.link /\ g.net = k
      BY <1>1, <3>2, <3>3 DEF KBoth
    <3> QED
      BY <1>6, <2>3, <3>3, <3>4 DEF x
  <2> QED
    BY <2>2, <2>3
<1> QED
  BY <1>1, <1>3, <1>4, <1>5, <1>6

\* What a turn has to do with the client and the control, b, while a is sent.
Right(b, a) == b \in KBoth /\ ~b.net.mixed /\ Heard(b.link, b.net, a)

\* With other values of the fields of the client that the pieces are about.
Collecting(b, h, s, e) ==
  [link |-> [b.link EXCEPT !.headerSeen = h, !.seen = s, !.late = e], net |-> b.net]

LEMMA KLinkFields ==
  ASSUME NEW b \in KBoth, NEW h \in BOOLEAN, NEW s \in [1 .. Pieces -> Identity], NEW e \in BOOLEAN
  PROVE  LET c == Collecting(b, h, s, e)
         IN /\ c \in KBoth /\ c.net = b.net /\ c.link.out = b.link.out
            /\ c.link.seen = s /\ c.link.late = e /\ c.link \in KLinkType
<1> DEFINE l == [b.link EXCEPT !.headerSeen = h, !.seen = s, !.late = e]
<1>1. l \in KLinkType /\ l.out = b.link.out /\ l.seen = s /\ l.late = e
  BY DEF KBoth, KLinkType
<1> HIDE DEF l
<1>2. [link |-> l, net |-> b.net] \in KBoth
  BY <1>1 DEF KBoth
<1> QED
  BY <1>1, <1>2 DEF l, Collecting

LEMMA CollectingIs ==
  ASSUME NEW b \in KBoth, NEW h \in BOOLEAN, NEW s
  PROVE  [b EXCEPT !.link.headerSeen = h, !.link.seen = s] = Collecting(b, h, s, b.link.late)
<1>1. b = [link |-> b.link, net |-> b.net] /\ b.link \in KLinkType
  BY DEF KBoth
<1> DEFINE l == [b.link EXCEPT !.headerSeen = h, !.seen = s]
<1>2. [b EXCEPT !.link.headerSeen = h, !.link.seen = s] = [link |-> l, net |-> b.net]
  <2> DEFINE m == [b.link EXCEPT !.headerSeen = h]
             d == [link |-> m, net |-> b.net]
  <2>1. [b EXCEPT !.link.headerSeen = h] = d
    BY <1>1
  <2>2. [d EXCEPT !.link.seen = s] = [link |-> [m EXCEPT !.seen = s], net |-> b.net]
    OBVIOUS
  <2>3. [b EXCEPT !.link.headerSeen = h, !.link.seen = s] = [[b EXCEPT !.link.headerSeen = h] EXCEPT !.link.seen = s]
    OBVIOUS
  <2>4. [m EXCEPT !.seen = s] = l
    BY <1>1 DEF KLinkType
  <2> HIDE DEF m, d, l
  <2> QED
    BY <2>1, <2>2, <2>3, <2>4
<1>3. l = [b.link EXCEPT !.headerSeen = h, !.seen = s, !.late = b.link.late]
  BY <1>1 DEF KLinkType
<1> HIDE DEF l
<1> QED
  BY <1>2, <1>3 DEF Collecting

LEMMA ReadsHeader ==
  ASSUME enabled, NEW b, Right(b, 0), NEW id \in Ids
  PROVE  LET c == Kenwood!processKenwoodVoiceHeader(b, "header", id)
         IN Right(c, id) /\ c.link.out = b.link.out
<1>0. PICK e \in BOOLEAN, h \in BOOLEAN : e = (b.link.late /\ b.net.state = "in") /\ h = TRUE
  OBVIOUS
<1> DEFINE d == Collecting(b, h, Kenwood!None, e)
           c == Kenwood!processKenwoodVoiceHeader(b, "header", id)
<1>1. /\ b \in KBoth /\ b.link \in KLinkType /\ b.net \in KNetType /\ b.net.state \in {"idle", "in"}
      /\ b = [link |-> b.link, net |-> b.net] /\ ~b.net.mixed
      /\ id \in Identity /\ id # 0
  BY Configured DEF Right, KBoth, KNetType, KLinkType
<1>2. e = (b.net.state = "in")
  BY <1>0, <1>1 DEF Right, Heard
<1>3. c = Kenwood!Given(d, "header", id)
  <2> DEFINE k == [b EXCEPT !.link.headerSeen = h, !.link.seen = Kenwood!None]
  <2> DEFINE m == [b.link EXCEPT !.headerSeen = h, !.seen = Kenwood!None, !.late = b.link.late]
  <2>1. k = Collecting(b, h, Kenwood!None, b.link.late)
    BY <1>1, CollectingIs
  <2>2. k \in KBoth /\ k.link.late = b.link.late
    BY <1>1, <2>1, KenwoodIdle, KLinkFields DEF KBoth, KLinkType
  <2> HIDE DEF k
  <2>3. d = [k EXCEPT !.link.late = e]
    <3>1. k = [link |-> m, net |-> b.net] /\ m \in KLinkType
      BY <2>1, <2>2 DEF Collecting, KBoth
    <3>2. [m EXCEPT !.late = e] = [b.link EXCEPT !.headerSeen = h, !.seen = Kenwood!None, !.late = e]
      BY <1>1 DEF KLinkType
    <3> HIDE DEF m
    <3>3. [k EXCEPT !.link.late = e] = [link |-> [m EXCEPT !.late = e], net |-> b.net]
      BY <3>1 DEF KLinkType
    <3> QED
      BY <3>2, <3>3 DEF Collecting
  <2>4. c = Kenwood!Given([k EXCEPT !.link.late = @ /\ b.net.state = "in"], "header", id)
    BY <1>0 DEF Kenwood!processKenwoodVoiceHeader, k
  <2>5. [k EXCEPT !.link.late = @ /\ b.net.state = "in"] = [k EXCEPT !.link.late = e]
    BY <1>0, <2>2 DEF KBoth
  <2> HIDE DEF d, c
  <2> QED
    BY <2>3, <2>4, <2>5
<1>4. /\ d \in KBoth /\ d.net = b.net /\ d.link.out = b.link.out
      /\ d.link.seen = Kenwood!None /\ d.link.late = e
  BY <1>1, KenwoodIdle, KLinkFields
<1> HIDE DEF d, c
<1>5. /\ c \in KBoth
      /\ \/ c = d /\ d.net.state = "idle"
         \/ /\ d.net.state = "idle" /\ c.link = d.link
            /\ c.net.state = "in" /\ c.net.id = id /\ c.net.mixed = d.net.mixed
         \/ /\ d.net.state = "in" /\ c.link = d.link
            /\ c.net.state = "in" /\ c.net.id = d.net.id /\ c.net.mixed = d.net.mixed
  BY <1>1, <1>3, <1>4, GivenIs
<1>6. c.link.seen = Kenwood!None /\ c.link.out = b.link.out /\ ~c.net.mixed
      /\ c.link.late = (b.net.state = "in")
  BY <1>1, <1>2, <1>4, <1>5
<1>7. Heard(c.link, c.net, id)
  BY <1>1, <1>4, <1>5, <1>6 DEF Heard, Kenwood!None
<1> QED
  BY <1>5, <1>6, <1>7 DEF Right, c

LEMMA ReadsTrailer ==
  ASSUME enabled, NEW b, NEW a \in Identity, Right(b, a)
  PROVE  LET c == Kenwood!processKenwoodVoiceHeader(b, "trailer", a)
         IN Right(c, 0) /\ c.link.out = b.link.out
<1>0. PICK h \in BOOLEAN : h = FALSE
  OBVIOUS
<1> DEFINE d == Collecting(b, h, Kenwood!None, b.link.late)
           g == Kenwood!Given(d, "trailer", a)
           c == Kenwood!processKenwoodVoiceHeader(b, "trailer", a)
<1>1. /\ b \in KBoth /\ b.link \in KLinkType /\ b.net \in KNetType /\ b.net.state \in {"idle", "in"}
      /\ b = [link |-> b.link, net |-> b.net] /\ ~b.net.mixed /\ b.link.late \in BOOLEAN
  BY DEF Right, KBoth, KNetType, KLinkType
<1>2. /\ d \in KBoth /\ d.net = b.net /\ d.link.out = b.link.out
      /\ d.link.seen = Kenwood!None /\ d.link.late = b.link.late /\ d.link \in KLinkType
  BY <1>1, KenwoodIdle, KLinkFields
<1>3. c = [g EXCEPT !.link.late = FALSE]
  <2>1. d = [b EXCEPT !.link.headerSeen = h, !.link.seen = Kenwood!None]
    BY <1>1, CollectingIs
  <2> HIDE DEF d
  <2> QED
    BY <1>0, <2>1 DEF Kenwood!processKenwoodVoiceHeader
<1> HIDE DEF d, c
<1>4. /\ g \in KBoth
      /\ \/ g = d /\ d.net.state = "idle"
         \/ /\ d.net.state = "in" /\ g.link = Kenwood!reset(d.link) /\ g.net.state = "idle"
            /\ g.net.mixed = (d.net.mixed \/ (~d.link.late /\ a # d.net.id))
  BY <1>1, <1>2, GivenIs
<1> HIDE DEF g
<1>5. d.net.state = "in" /\ ~d.link.late => d.net.id = a
  BY <1>2 DEF Right, Heard
<1>6. g.link.seen = Kenwood!None /\ g.net.state = "idle" /\ ~g.net.mixed /\ g.link.out = b.link.out
      /\ g.link \in KLinkType /\ g.net \in KNetType
  BY <1>1, <1>2, <1>4, <1>5, KResetIs DEF KBoth
<1>7. c = [link |-> [g.link EXCEPT !.late = FALSE], net |-> g.net]
  BY <1>3, <1>4 DEF KBoth
<1> DEFINE m == [g.link EXCEPT !.late = FALSE]
<1>8. m \in KLinkType /\ m.seen = Kenwood!None /\ m.out = b.link.out
  BY <1>6 DEF KLinkType
<1> HIDE DEF m
<1>9. c.link = m /\ c.net = g.net /\ c \in KBoth
  BY <1>6, <1>7, <1>8 DEF m, KBoth
<1>10. Heard(c.link, c.net, 0)
  BY <1>6, <1>8, <1>9 DEF Heard, Kenwood!None
<1> QED
  BY <1>6, <1>8, <1>9, <1>10 DEF Right, c

LEMMA ReadsVoice ==
  ASSUME enabled, NEW b, NEW a \in Ids, Right(b, a)
  PROVE  LET c == Kenwood!processKenwoodVoiceData(b, a)
         IN Right(c, a) /\ c.link.out = b.link.out
<1> DEFINE c == Kenwood!Given(b, "frame", a)
<1>1. b \in KBoth /\ ~b.net.mixed /\ a \in Identity /\ a # 0 /\ Heard(b.link, b.net, a)
  BY Configured DEF Right
<1>2. /\ c \in KBoth
      /\ \/ c = b
         \/ /\ c.link = b.link /\ c.net.state = "in" /\ c.net.id = a /\ c.net.mixed = b.net.mixed
         \/ /\ b.net.state = "in" /\ c.link = b.link /\ c.net.state = "in" /\ c.net.id = b.net.id
            /\ c.net.mixed = (b.net.mixed \/ (~b.link.late /\ a # b.net.id))
  BY <1>1, GivenIs
<1> HIDE DEF c
<1>3. c.link = b.link /\ ~c.net.mixed /\ Heard(c.link, c.net, a)
  BY <1>1, <1>2 DEF Heard
<1> QED
  BY <1>2, <1>3 DEF Right, c, Kenwood!processKenwoodVoiceData

LEMMA ReadsLateEntry ==
  ASSUME enabled, NEW b, NEW a \in Ids, Right(b, a), NEW n \in 1 .. Pieces
  PROVE  LET c == Kenwood!processKenwoodVoiceLateEntry(b, n, a)
         IN Right(c, a) /\ c.link.out = b.link.out
<1> DEFINE seen == [b.link.seen EXCEPT ![n] = IF @ = 0 THEN a ELSE @]
           whose == {seen[i] : i \in 1 .. Pieces}
           c == Kenwood!processKenwoodVoiceLateEntry(b, n, a)
<1>1. /\ b \in KBoth /\ b.link \in KLinkType /\ b.net \in KNetType
      /\ b = [link |-> b.link, net |-> b.net] /\ ~b.net.mixed /\ a \in Identity /\ a # 0
      /\ b.link.seen \in [1 .. Pieces -> Identity] /\ b.link.late \in BOOLEAN
      /\ b.link.headerSeen \in BOOLEAN /\ Heard(b.link, b.net, a)
  BY Configured DEF Right, KBoth, KLinkType
<1>2. seen \in [1 .. Pieces -> Identity]
  BY <1>1
<1>3. ~b.link.late => \A i \in 1 .. Pieces : seen[i] \in {0, a}
  BY <1>1 DEF Heard
<1>4. CASE 0 \in whose
  <2> DEFINE d == Collecting(b, b.link.headerSeen, seen, b.link.late)
  <2>1. c = d
    <3>1. c = [b EXCEPT !.link.seen = seen]
      BY <1>4 DEF Kenwood!processKenwoodVoiceLateEntry
    <3> HIDE DEF seen
    <3> QED
      BY <1>1, <3>1 DEF Collecting, KBoth, KLinkType
  <2> HIDE DEF seen
  <2>2. d \in KBoth /\ d.net = b.net /\ d.link.out = b.link.out /\ d.link.seen = seen
        /\ d.link.late = b.link.late
    BY <1>1, <1>2, KLinkFields
  <2> HIDE DEF d
  <2>3. Heard(d.link, d.net, a)
    BY <1>1, <1>3, <2>2 DEF Heard
  <2> QED
    BY <1>1, <2>1, <2>2, <2>3 DEF Right
<1>5. CASE 0 \notin whose
  <2>0. PICK h \in BOOLEAN : h = TRUE
    OBVIOUS
  <2> DEFINE d == Collecting(b, h, Kenwood!None, b.link.late)
             g == Kenwood!Given(d, "header", a)
  <2>1. ~b.link.late => whose = {a}
    <3>1. 1 \in 1 .. Pieces /\ seen[1] \in whose
      BY Configured
    <3> QED
      BY <1>3, <1>5, <3>1
  <2>2. /\ d \in KBoth /\ d.net = b.net /\ d.link.out = b.link.out /\ d.link.seen = Kenwood!None
        /\ d.link.late = b.link.late
    BY <1>1, KenwoodIdle, KLinkFields
  <2>3. d = [b EXCEPT !.link.headerSeen = h, !.link.seen = Kenwood!None]
    BY <1>1, CollectingIs
  <2>4. c = [g EXCEPT !.net.mixed = @ \/ (~b.link.late /\ whose # {a})]
    BY <1>5, <2>0, <2>3 DEF Kenwood!processKenwoodVoiceLateEntry
  <2> HIDE DEF d, c, whose, seen
  <2>5. /\ g \in KBoth
        /\ \/ g = d /\ d.net.state = "idle"
           \/ /\ d.net.state = "idle" /\ g.link = d.link
              /\ g.net.state = "in" /\ g.net.id = a /\ g.net.mixed = d.net.mixed
           \/ /\ d.net.state = "in" /\ g.link = d.link /\ g.net.state = "in"
              /\ g.net.id = d.net.id /\ g.net.mixed = d.net.mixed
    <3>1. d \in KBoth /\ "header" \in {"header", "frame", "trailer"} /\ a \in Identity
      BY <1>1, <2>2
    <3> QED
      BY ONLY enabled, <3>1, GivenIs
  <2> HIDE DEF g
  <2>6. g.link = d.link /\ ~g.net.mixed /\ Heard(g.link, g.net, a)
    BY <1>1, <2>2, <2>5 DEF Heard, Kenwood!None
  <2>7. c = g
    BY <2>1, <2>4, <2>5, <2>6 DEF KBoth, KNetType
  <2> QED
    BY <2>2, <2>5, <2>6, <2>7 DEF Right, c
<1> QED
  BY <1>4, <1>5

\* Whatever is read: the control is in what is sent.
LEMMA KReadIs ==
  ASSUME enabled, NEW b, NEW a \in Identity, Right(b, a), NEW n \in 1 .. Pieces,
         NEW f \in {"header", "frame", "trailer"}, NEW id \in Identity,
         f = "header" => a = 0 /\ id \in Ids,
         f # "header" => a # 0 /\ id = a
  PROVE  LET c == Kenwood!read(b, f, n, id)
         IN /\ f = "header" => Right(c, id)
            /\ f = "trailer" => Right(c, 0)
            /\ f = "frame" => Right(c, a)
            /\ c.link.out = b.link.out
<1>1. CASE f = "header"
  <2>1. Kenwood!read(b, f, n, id) = Kenwood!processKenwoodVoiceHeader(b, "header", id)
    BY <1>1 DEF Kenwood!read
  <2>2. Right(Kenwood!read(b, f, n, id), id) /\ Kenwood!read(b, f, n, id).link.out = b.link.out
    BY <1>1, <2>1, ReadsHeader
  <2> QED
    BY <1>1, <2>2
<1>2. CASE f = "trailer"
  <2>1. Kenwood!read(b, f, n, id) = Kenwood!processKenwoodVoiceHeader(b, "trailer", a)
    BY <1>2 DEF Kenwood!read
  <2>2. Right(Kenwood!read(b, f, n, id), 0) /\ Kenwood!read(b, f, n, id).link.out = b.link.out
    BY <1>2, <2>1, ReadsTrailer
  <2> QED
    BY <1>2, <2>2
<1>3. CASE f = "frame"
  <2>1. a \in Ids /\ id = a
    BY <1>3, Configured DEF Identity
  <2>2. \/ Kenwood!read(b, f, n, id) = Kenwood!processKenwoodVoiceData(b, a)
        \/ Kenwood!read(b, f, n, id) = Kenwood!processKenwoodVoiceLateEntry(b, n, a)
    BY <1>3, <2>1 DEF Kenwood!read
  <2>3. Right(Kenwood!read(b, f, n, id), a) /\ Kenwood!read(b, f, n, id).link.out = b.link.out
    BY <2>1, <2>2, ReadsVoice, ReadsLateEntry
  <2> QED
    BY <1>3, <2>3
<1>4. f = "header" \/ f = "trailer" \/ f = "frame"
  OBVIOUS
<1> QED
  BY <1>1, <1>2, <1>3, <1>4

\* The watchdog of the control.
LEMMA KWatchedIs ==
  ASSUME NEW b \in KBoth, NEW ms \in Nat
  PROVE  LET d == Kenwood!Watched(b, ms)
         IN /\ d \in KBoth /\ d.net.mixed = b.net.mixed /\ d.link.out = b.link.out
            /\ \/ d.link = Kenwood!reset(b.link) /\ d.net.state = "idle"
               \/ d.link = b.link /\ d.net.state = b.net.state /\ d.net.id = b.net.id
<1> DEFINE d == Kenwood!Watched(b, ms)
           n == [b.net EXCEPT !.dog = Kenwood!Clock(@, ms)]
<1>1. b.link \in KLinkType /\ b.net \in KNetType /\ b = [link |-> b.link, net |-> b.net]
      /\ b.net.mixed \in BOOLEAN
  BY DEF KBoth, KNetType
<1>2. Kenwood!Clock(b.net.dog, ms) \in Clocks
  BY <1>1, KenwoodTimers DEF KNetType
<1>3. n \in KNetType /\ n.state = b.net.state /\ n.id = b.net.id /\ n.mixed = b.net.mixed
  BY <1>1, <1>2 DEF KNetType
<1>4. \/ d = b
      \/ d = [link |-> Kenwood!reset(b.link), net |-> [Kenwood!Idle EXCEPT !.mixed = n.mixed]]
      \/ d = [b EXCEPT !.net = n]
  BY DEF Kenwood!Watched
<1> HIDE DEF n, d
<1>5. CASE d = b
  BY <1>1, <1>5 DEF d
<1>6. CASE d = [link |-> Kenwood!reset(b.link), net |-> [Kenwood!Idle EXCEPT !.mixed = n.mixed]]
  <2> DEFINE m == Kenwood!reset(b.link)
             k == [Kenwood!Idle EXCEPT !.mixed = n.mixed]
  <2>1. m \in KLinkType /\ m.out = b.link.out /\ m = Kenwood!reset(b.link)
    BY <1>1, KResetIs
  <2>2. n.mixed \in BOOLEAN
    BY <1>1, <1>3
  <2>3. k \in KNetType /\ k.state = "idle" /\ k.mixed = n.mixed
    BY <1>3, <2>2, KenwoodIdle, Configured, KNetFields
  <2> HIDE DEF m, k
  <2>4. d = [link |-> m, net |-> k]
    BY <1>6 DEF m, k
  <2>5. d \in KBoth /\ d.link = m /\ d.net = k
    BY <2>1, <2>3, <2>4 DEF KBoth
  <2> QED
    BY <1>3, <2>1, <2>3, <2>5 DEF d
<1>7. CASE d = [b EXCEPT !.net = n]
  <2>1. d = [link |-> b.link, net |-> n]
    BY <1>1, <1>7
  <2>2. d \in KBoth /\ d.link = b.link /\ d.net = n
    BY <1>1, <1>3, <2>1 DEF KBoth
  <2> QED
    BY <1>3, <2>2 DEF d
<1> QED
  BY <1>4, <1>5, <1>6, <1>7 DEF d

LEMMA ClockedIs ==
  ASSUME NEW l \in KLinkType, NEW ms \in Nat
  PROVE  LET m == Kenwood!Clocked(l, ms)
         IN m \in KLinkType /\ m.out = l.out /\ m.seen = l.seen /\ m.late = l.late
<1> DEFINE rtcp == Kenwood!Clock(l.rtcp, ms)
           hang == Kenwood!Clock(l.hang, ms)
           r == IF Kenwood!HasExpired(hang) THEN Kenwood!Stop(rtcp)
                ELSE IF Kenwood!HasExpired(rtcp) THEN Kenwood!Start(rtcp)
                ELSE rtcp
           h == IF Kenwood!HasExpired(hang) THEN Kenwood!Stop(hang) ELSE hang
<1>1. rtcp \in Clocks /\ hang \in Clocks
  BY KenwoodTimers DEF KLinkType
<1> HIDE DEF rtcp, hang
<1>2. r \in Clocks /\ h \in Clocks
  BY <1>1, Configured, KenwoodTimers
<1>3. Kenwood!Clocked(l, ms) = [l EXCEPT !.rtcp = r, !.hang = h]
  BY DEF Kenwood!Clocked, rtcp, hang
<1> HIDE DEF r, h
<1> QED
  BY <1>2, <1>3 DEF KLinkType

\* A turn of the loop.
LEMMA KTurnStep ==
  ASSUME KenwoodInv, NEW ms \in Nat, NEW f \in {"header", "frame", "trailer", "none"},
         Kenwood!Turn(ms, f)
  PROVE  KenwoodInv'
<1> DEFINE now == [link |-> link, net |-> net]
<1>1. /\ KenwoodType /\ KToldInv /\ KLockInv /\ link \in KLinkType /\ net \in KNetType
      /\ air \in Identity /\ now \in KBoth /\ now.link = link /\ now.net = net
  BY DEF KenwoodInv, KenwoodType, KBoth
<1>2. UNCHANGED <<client, enabled, open, rf, told>> /\ Kenwood!Packet(f)
  BY DEF Kenwood!Turn
<1>3. PICK id \in IF f = "header" THEN Ids ELSE {air}, n \in 1 .. Pieces, lost \in BOOLEAN :
        LET c == IF Kenwood!readRTP(f, lost) THEN Kenwood!read(now, f, n, id) ELSE now
            d == Kenwood!Watched(IF lost /\ f = "trailer" THEN [c EXCEPT !.link.late = TRUE] ELSE c, ms)
        IN /\ net' = d.net
           /\ link' = Kenwood!Clocked(d.link, ms)
           /\ air' = CASE f = "header" -> id [] f = "trailer" -> 0 [] OTHER -> air
  BY DEF Kenwood!Turn
<1> DEFINE c == IF Kenwood!readRTP(f, lost) THEN Kenwood!read(now, f, n, id) ELSE now
           e == IF lost /\ f = "trailer" THEN [c EXCEPT !.link.late = TRUE] ELSE c
           d == Kenwood!Watched(e, ms)
<1>4. /\ net' = d.net
      /\ link' = Kenwood!Clocked(d.link, ms)
      /\ f = "header" => air' = id
      /\ f = "trailer" => air' = 0
      /\ f \notin {"header", "trailer"} => air' = air
  BY <1>3
<1>5. /\ id \in Identity
      /\ f = "header" => air = 0 /\ id \in Ids
      /\ f # "header" => id = air
      /\ f \in {"frame", "trailer"} => air # 0
  BY <1>1, <1>2, <1>3, Configured DEF Kenwood!Packet
<1>6. air' \in Identity
  BY <1>1, <1>4, <1>5, Configured
<1> DEFINE Good == /\ e \in KBoth /\ ~e.net.mixed /\ e.link.out = link.out
                   /\ open /\ enabled => Heard(e.link, e.net, air')
                   /\ ~enabled => e.net.state = "idle"
<1>7. ASSUME Kenwood!readRTP(f, lost) PROVE Good
  <2>1. enabled /\ open /\ ~lost /\ f \in {"header", "frame", "trailer"}
    BY <1>7 DEF Kenwood!readRTP
  <2>2. Right(now, air)
    BY <1>1, <2>1 DEF KLockInv, Right
  <2>3. e = Kenwood!read(now, f, n, id) /\ e = c
    BY <1>7, <2>1
  <2>4. Right(e, air') /\ e.link.out = link.out
    <3> HIDE DEF now, e, c
    <3>0. /\ now \in KBoth /\ air \in Identity /\ id \in Identity /\ n \in 1 .. Pieces
          /\ f = "header" => air = 0 /\ id \in Ids
          /\ f # "header" => air # 0 /\ id = air
      BY <1>1, <1>5, <2>1
    <3>1. /\ f = "header" => Right(e, id)
          /\ f = "trailer" => Right(e, 0)
          /\ f = "frame" => Right(e, air)
          /\ e.link.out = now.link.out
      <4>1. /\ f = "header" => Right(Kenwood!read(now, f, n, id), id)
            /\ f = "trailer" => Right(Kenwood!read(now, f, n, id), 0)
            /\ f = "frame" => Right(Kenwood!read(now, f, n, id), air)
            /\ Kenwood!read(now, f, n, id).link.out = now.link.out
        BY ONLY <2>1, <2>2, <3>0, KReadIs
      <4> QED
        BY ONLY <2>3, <4>1
    <3> QED
      BY <1>1, <1>4, <2>1, <3>1
  <2> QED
    BY <2>1, <2>4 DEF Right
<1>8. ASSUME ~Kenwood!readRTP(f, lost) PROVE Good
  <2>1. c = now /\ (enabled /\ open => lost \/ f = "none")
    BY <1>8 DEF Kenwood!readRTP
  <2> HIDE DEF c
  <2>2. CASE lost /\ f = "trailer"
    <3>1. e = [now EXCEPT !.link.late = TRUE]
      BY <2>1, <2>2
    <3> DEFINE l == [link EXCEPT !.late = TRUE]
    <3>2. l \in KLinkType /\ l.out = link.out /\ l.late
      BY <1>1 DEF KLinkType
    <3>3. e = [link |-> l, net |-> net]
      BY <3>1
    <3> HIDE DEF l, e, now
    <3>4. e \in KBoth /\ e.link = l /\ e.net = net
      BY <1>1, <3>2, <3>3 DEF KBoth
    <3>5. Heard(e.link, e.net, air')
      BY <3>2, <3>4 DEF Heard
    <3> QED
      BY <1>1, <3>2, <3>4, <3>5 DEF KLockInv, Right
  <2>3. CASE ~(lost /\ f = "trailer")
    <3>1. e = now
      BY <2>1, <2>3
    <3> HIDE DEF e, now
    <3>2. open /\ enabled => Heard(link, net, air')
      <4>1. CASE f = "header"
        BY <1>1, <1>4, <1>5, <4>1 DEF KLockInv, Heard
      <4>2. CASE f # "header"
        BY <1>1, <1>4, <2>1, <2>3, <4>2 DEF KLockInv
      <4> QED
        BY <4>1, <4>2
    <3> QED
      BY <1>1, <3>1, <3>2 DEF KLockInv
  <2> QED
    BY <2>2, <2>3
<1>9. /\ e \in KBoth /\ ~e.net.mixed /\ e.link.out = link.out
      /\ open /\ enabled => Heard(e.link, e.net, air')
      /\ ~enabled => e.net.state = "idle"
  BY <1>7, <1>8
<1> HIDE DEF c, e, now
<1>10. /\ d \in KBoth /\ d.net.mixed = e.net.mixed /\ d.link.out = e.link.out
       /\ \/ d.link = Kenwood!reset(e.link) /\ d.net.state = "idle"
          \/ d.link = e.link /\ d.net.state = e.net.state /\ d.net.id = e.net.id
  BY <1>9, KWatchedIs
<1> HIDE DEF d
<1>11. e.link \in KLinkType /\ d.link \in KLinkType /\ d.net \in KNetType
  BY <1>9, <1>10 DEF KBoth
<1>12. open /\ enabled => Heard(d.link, d.net, air')
  <2>1. CASE d.link = Kenwood!reset(e.link) /\ d.net.state = "idle"
    BY <1>11, <2>1, HeardReset
  <2>2. CASE d.link = e.link /\ d.net.state = e.net.state /\ d.net.id = e.net.id
    BY <1>9, <2>2 DEF Heard
  <2> QED
    BY <1>10, <2>1, <2>2
<1>13. link' \in KLinkType /\ link'.out = link.out /\ link'.seen = d.link.seen /\ link'.late = d.link.late
  BY <1>4, <1>9, <1>10, <1>11, ClockedIs
<1>14. KenwoodType'
  BY <1>1, <1>2, <1>4, <1>6, <1>11, <1>13 DEF KenwoodType, IsKenwood
<1>15. KToldInv'
  BY <1>1, <1>2, <1>13 DEF KToldInv
<1>16. Heard(d.link, d.net, air') => Heard(link', net', air')
  BY <1>4, <1>13 DEF Heard
<1>17. ~enabled => d.net.state = "idle"
  BY <1>9, <1>10
<1>18. KLockInv'
  BY <1>1, <1>2, <1>4, <1>9, <1>10, <1>12, <1>16, <1>17 DEF KLockInv
<1> QED
  BY <1>14, <1>15, <1>18 DEF KenwoodInv

LEMMA KBeginsStep ==
  ASSUME KenwoodInv, Kenwood!Begins PROVE KenwoodInv'
<1>1. KenwoodType /\ KToldInv /\ KLockInv /\ enabled /\ rf = "idle" /\ rf' = "talking"
      /\ UNCHANGED <<client, enabled, open, net, air>>
  BY DEF KenwoodInv, Kenwood!Begins
<1>2. PICK w \in Kenwood!write("header") : link' = w.link /\ told' = w.told
  BY DEF Kenwood!Begins
<1>3. KSame(link') /\ KKnown(link', told')
  BY <1>1, <1>2, KHeader
<1>4. KenwoodType'
  BY <1>1, <1>3 DEF KenwoodType, IsKenwood, KSame, KKnown
<1>5. KToldInv'
  BY <1>1, <1>3 DEF KToldInv, KKnown
<1>6. KLockInv'
  BY <1>1, <1>3 DEF KLockInv, Heard, KSame
<1> QED
  BY <1>4, <1>5, <1>6 DEF KenwoodInv

LEMMA KFrameStep ==
  ASSUME KenwoodInv, Kenwood!Frame PROVE KenwoodInv'
<1>1. KenwoodType /\ KToldInv /\ KLockInv /\ rf = "talking"
      /\ UNCHANGED <<client, enabled, open, rf, net, air>>
  BY DEF KenwoodInv, Kenwood!Frame
<1>2. PICK w \in Kenwood!write("frame") : link' = w.link /\ told' = w.told
  BY DEF Kenwood!Frame
<1>3. KSame(link') /\ KKnown(link', told')
  BY <1>1, <1>2, KFrame
<1>4. KenwoodType'
  BY <1>1, <1>3 DEF KenwoodType, IsKenwood, KSame, KKnown
<1>5. KToldInv'
  BY <1>1, <1>3 DEF KToldInv, KKnown
<1>6. KLockInv'
  BY <1>1, <1>3 DEF KLockInv, Heard, KSame
<1> QED
  BY <1>4, <1>5, <1>6 DEF KenwoodInv

LEMMA KEndsStep ==
  ASSUME KenwoodInv, Kenwood!Ends PROVE KenwoodInv'
<1>1. KenwoodType /\ KToldInv /\ KLockInv /\ link \in KLinkType /\ told \in ToldType /\ KSame(link)
      /\ rf = "talking" /\ rf' = "idle" /\ UNCHANGED <<client, enabled, open, net, air>>
  BY DEF KenwoodInv, KenwoodType, Kenwood!Ends, KSame
<1>2. \E l \in KLinkType : /\ KSame(l) /\ KKnown(l, told') /\ told'.state # "open"
                           /\ link' = Kenwood!LetsGo(l)
  <2>1. CASE \E w \in Kenwood!write("end") : link' = Kenwood!LetsGo(w.link) /\ told' = w.told
    <3>1. PICK w \in Kenwood!write("end") : link' = Kenwood!LetsGo(w.link) /\ told' = w.told
      BY <2>1
    <3>2. KSame(w.link) /\ KKnown(w.link, w.told) /\ w.told.state # "open"
      BY <1>1, KEnd
    <3> QED
      BY <3>1, <3>2 DEF KSame
  <2>2. CASE link' = Kenwood!LetsGo(link) /\ told' = [told EXCEPT !.state = "quiet"]
    <3>1. told' \in ToldType /\ told'.state = "quiet" /\ told'.last = told.last
      BY <1>1, <2>2 DEF ToldType
    <3>2. KKnown(link, told')
      BY <1>1, <3>1 DEF KKnown, KToldInv
    <3> QED
      BY <1>1, <2>2, <3>1, <3>2
  <2> QED
    BY <2>1, <2>2 DEF Kenwood!Ends
<1>3. PICK l \in KLinkType : /\ KSame(l) /\ KKnown(l, told') /\ told'.state # "open"
                             /\ link' = Kenwood!LetsGo(l)
  BY <1>2
<1>4. link' \in KLinkType /\ link'.out = l.out
      /\ (link' = l \/ (link' = Kenwood!reset(l) /\ net.state = "idle"))
  BY <1>3, KResetIs DEF Kenwood!LetsGo
<1>5. KenwoodType'
  BY <1>1, <1>3, <1>4 DEF KenwoodType, IsKenwood, KKnown
<1>6. KToldInv'
  BY <1>1, <1>3, <1>4 DEF KToldInv, KKnown
<1>7. open /\ enabled => Heard(link', net, air)
  <2>1. CASE link' = l
    BY <1>1, <1>3, <2>1 DEF KLockInv, Heard, KSame
  <2>2. CASE link' = Kenwood!reset(l) /\ net.state = "idle"
    BY <1>3, <2>2, HeardReset
  <2> QED
    BY <1>4, <2>1, <2>2
<1>8. KLockInv'
  BY <1>1, <1>7 DEF KLockInv
<1> QED
  BY <1>5, <1>6, <1>8 DEF KenwoodInv

LEMMA KEnableStep ==
  ASSUME KenwoodInv, NEW on \in BOOLEAN, Kenwood!enable(on) PROVE KenwoodInv'
<1>1. KenwoodType /\ KToldInv /\ KLockInv /\ link \in KLinkType /\ told \in ToldType /\ net \in KNetType
      /\ enabled' = on /\ UNCHANGED <<client, open, air>>
  BY DEF KenwoodInv, KenwoodType, Kenwood!enable
<1>2. CASE on
  <2>1. UNCHANGED <<rf, net, told>>
    BY <1>2 DEF Kenwood!enable
  <2>2. link' \in KLinkType /\ link'.out = link.out
        /\ ((enabled /\ link' = link) \/ (~enabled /\ link' = Kenwood!reset(link)))
    BY <1>1, <1>2, KResetIs DEF Kenwood!enable
  <2>3. open => Heard(link', net, air)
    <3>1. CASE enabled
      BY <1>1, <2>2, <3>1 DEF KLockInv
    <3>2. CASE ~enabled
      BY <1>1, <2>2, <3>2, HeardReset DEF KLockInv
    <3> QED
      BY <3>1, <3>2
  <2>4. KenwoodType'
    BY <1>1, <2>1, <2>2 DEF KenwoodType, IsKenwood
  <2>5. KToldInv'
    BY <1>1, <2>1, <2>2 DEF KToldInv
  <2>6. KLockInv'
    BY <1>1, <1>2, <2>1, <2>3 DEF KLockInv
  <2> QED
    BY <2>4, <2>5, <2>6 DEF KenwoodInv
<1>3. CASE ~on
  <2> DEFINE k == [Kenwood!Idle EXCEPT !.mixed = net.mixed]
  <2>1. rf' = "idle" /\ net' = k /\ told' = [told EXCEPT !.state = "quiet"] /\ link' = link
    BY <1>3 DEF Kenwood!enable
  <2>2. k \in KNetType /\ k.state = "idle" /\ k.mixed = net.mixed
    BY <1>1, KNetFields, Configured DEF KNetType
  <2> HIDE DEF k
  <2>3. told' \in ToldType /\ told'.state = "quiet" /\ told'.last = told.last
    BY <1>1, <2>1 DEF ToldType
  <2>4. KenwoodType'
    BY <1>1, <2>1, <2>2, <2>3 DEF KenwoodType, IsKenwood
  <2>5. KToldInv'
    BY <1>1, <2>1, <2>3 DEF KToldInv
  <2>6. KLockInv'
    BY <1>1, <1>3, <2>1, <2>2 DEF KLockInv
  <2> QED
    BY <2>4, <2>5, <2>6 DEF KenwoodInv
<1> QED
  BY <1>2, <1>3

LEMMA KenwoodStarts ==
  ASSUME Kenwood!Init PROVE KenwoodInv
<1>1. Kenwood!SetTimeout(Kenwood!Unset, PollTime) \in Clocks /\ Kenwood!SetTimeout(Kenwood!Unset, HangTime) \in Clocks
  BY KenwoodIdle, Configured, KenwoodTimers
<1>2. link \in KLinkType /\ link.out = 1 /\ link.seen = Kenwood!None
  BY <1>1, KenwoodIdle, Configured DEF Kenwood!Init, KLinkType
<1>3. told \in ToldType /\ told.state = "quiet" /\ told.last = 0
  BY Configured DEF Kenwood!Init, ToldType
<1>4. net \in KNetType /\ net.state = "idle" /\ ~net.mixed
  BY KenwoodIdle DEF Kenwood!Init, Kenwood!Idle
<1>5. KenwoodType
  BY <1>2, <1>3, <1>4, Configured DEF Kenwood!Init, KenwoodType, IsKenwood
<1>6. KToldInv
  BY <1>2, <1>3 DEF KToldInv
<1>7. KLockInv
  BY <1>2, <1>4 DEF Kenwood!Init, KLockInv, Heard, Kenwood!None
<1> QED
  BY <1>5, <1>6, <1>7 DEF KenwoodInv

LEMMA KenwoodStep ==
  ASSUME KenwoodInv, Kenwood!Next PROVE KenwoodInv'
<1>1. ASSUME Kenwood!NetSends PROVE KenwoodInv'
  <2>1. PICK ms \in 0 .. MaxElapse, f \in {"header", "frame", "trailer"} : Kenwood!Turn(ms, f)
    BY <1>1 DEF Kenwood!NetSends
  <2>2. ms \in Nat /\ f \in {"header", "frame", "trailer", "none"}
    BY Configured
  <2> QED
    BY <2>1, <2>2, KTurnStep
<1>2. ASSUME Kenwood!NetSilent PROVE KenwoodInv'
  <2>1. PICK ms \in 0 .. MaxElapse : Kenwood!Turn(ms, "none")
    BY <1>2 DEF Kenwood!NetSilent
  <2>2. ms \in Nat
    BY Configured
  <2> QED
    BY <2>1, <2>2, KTurnStep
<1>3. ASSUME Kenwood!Refused PROVE KenwoodInv'
  BY <1>3 DEF Kenwood!Refused, KenwoodInv, KenwoodType, KToldInv, KLockInv, Heard, IsKenwood
<1>4. ASSUME Kenwood!RefusedEnds PROVE KenwoodInv'
  BY <1>4 DEF Kenwood!RefusedEnds, KenwoodInv, KenwoodType, KToldInv, KLockInv, Heard, IsKenwood
<1>5. ASSUME Kenwood!Reopened PROVE KenwoodInv'
  BY <1>5 DEF Kenwood!Reopened, Kenwood!Opens, KenwoodInv, KenwoodType, KToldInv, KLockInv, Heard, IsKenwood
<1> QED
  BY <1>1, <1>2, <1>3, <1>4, <1>5, KBeginsStep, KFrameStep, KEndsStep, KEnableStep DEF Kenwood!Next

-----------------------------------------------------------------------------
(* All the clients.                                                        *)

NetworksInv == UDPInv \/ KenwoodInv

LEMMA NotKenwood == "Kenwood" \notin UDP!Clients
BY DEF UDP!Clients, UDP!Locking

LEMMA InitOfNetworks == Init => NetworksInv
BY UDPStarts, KenwoodStarts DEF Init, NetworksInv

LEMMA StepOfNetworks == NetworksInv /\ [Next]_vars => NetworksInv'
<1> SUFFICES ASSUME NetworksInv, [Next]_vars PROVE NetworksInv'
  OBVIOUS
<1>1. CASE UDPInv
  <2>1. ~IsKenwood
    BY <1>1, NotKenwood DEF UDPInv, UDPType, IsKenwood
  <2>2. CASE UDP!Next /\ UNCHANGED air
    BY <1>1, <2>2, UDPStep DEF NetworksInv
  <2>3. CASE UNCHANGED vars
    BY <1>1, <2>3 DEF NetworksInv, UDPInv, UDPType, ToldInv, Known, LockInv, Held, vars
  <2> QED
    BY <2>1, <2>2, <2>3 DEF Next
<1>2. CASE KenwoodInv
  <2>1. IsKenwood
    BY <1>2 DEF KenwoodInv, KenwoodType
  <2>2. CASE Kenwood!Next
    BY <1>2, <2>2, KenwoodStep DEF NetworksInv
  <2>3. CASE UNCHANGED vars
    BY <1>2, <2>3 DEF NetworksInv, KenwoodInv, KenwoodType, KToldInv, KLockInv, Heard, IsKenwood, vars
  <2> QED
    BY <2>1, <2>2, <2>3 DEF Next
<1> QED
  BY <1>1, <1>2 DEF NetworksInv

\* What the client is locked to, what its buffer holds and what the control is in are
\* of one transmission, whatever the gateway sends, the socket loses or the operator
\* does; and the gateway is told under the id the client goes by.  A behaviour is that
\* of one client.
THEOREM NetworksInvariant == Spec => []NetworksInv
BY InitOfNetworks, StepOfNetworks, PTL DEF Spec

LEMMA OneOfInv == NetworksInv => OneTransmission
BY NotKenwood DEF NetworksInv, UDPType, UDPInv, LockInv, Held, KenwoodInv, KLockInv, OneTransmission

LEMMA OneIdOfInv == NetworksInv => ToldUnderOneId
BY DEF NetworksInv, UDPInv, ToldInv, Known, KenwoodInv, KToldInv, ToldUnderOneId

LEMMA DrainedOfInv == NetworksInv => Drained
BY DEF NetworksInv, UDPInv, LockInv, KenwoodInv, KenwoodType, Drained, UDP!Drained

\* A control hears one transmission of the network from its first packet to its last,
\* however many the gateway sends at once, and whatever is lost, comes twice or out of
\* order (but for what OneTransmission leaves out).
THEOREM HeardOneAtATime == Spec => []OneTransmission
BY NetworksInvariant, OneOfInv, PTL

\* The gateway is never told a transmission of a radio under two ids, nor without its
\* header, nor two that follow each other under one id, for any number of ids above one
\* (but for what ToldUnderOneId leaves out).
THEOREM ToldOneAtATime == Spec => []ToldUnderOneId
BY NetworksInvariant, OneIdOfInv, PTL

\* What is read on every turn leaves nothing in m_buffer but what came last: none is
\* lost there, for every capacity that holds one packet.
THEOREM BufferDrained == Spec => []Drained
BY NetworksInvariant, DrainedOfInv, PTL

=============================================================================
