--------------------------- MODULE NetworkClients ---------------------------
(***************************************************************************)
(* The clients of the gateways, one for each mode: what a protocol control *)
(* writes goes out in UDP packets, what the gateway sends is checked,      *)
(* queued in m_buffer and read by the control.  A behaviour is that of one *)
(* of them, client.  Packets are lost, come twice, out of order, and of    *)
(* several transmissions at once.  On every turn of the loop the control   *)
(* first handles what a radio sent, then reads; then the client is         *)
(* clocked.  The Kenwood client is a module of its own.                    *)
(***************************************************************************)
EXTENDS Timers, Sequences

CONSTANTS Ids,           \* of transmissions (m_inId, m_outId, m_streamId, the YSF tag)
          Encrypted,     \* those of M17 transmissions that are, and are not let through
          Data,          \* those of M17 transmissions that are of data
          Capacity,      \* of m_buffer (1000 or 2000 bytes; here in packets' pieces)
          PollTime,      \* between polls or pings (5, 10 or 60 s)
          WatchdogTime,  \* of the control
          MaxElapse      \* bound: time between two calls of clock

VARIABLES client, enabled,
          open,    \* the socket is
          link,    \* in, out: m_inId (m_tag), m_outId (m_streamId); started: m_seqNo # 0;
                   \* buffer: m_buffer; poll: m_pollTimer (m_pingTimer, m_timer); polled:
                   \* whether the last clock sent one; left: nobody will let go of in
          rf,      \* what the control hears from a radio: "idle", "talking", "refused"
                   \* (REJECTED), "invalid" (of D-Star)
          net,     \* the network's transmission as the control sees it: state; id; dog:
                   \* m_networkWatchdog; late, mixed: see OneTransmission
          told     \* what the gateway hears: state; id; last: the id before

vars == <<client, enabled, open, link, rf, net, told>>

Locking == {"D-Star", "YSF", "M17"}
Polling == {"D-Star", "YSF", "M17", "DMR", "FM"}
Clients == Locking \cup {"DMR", "P25", "NXDN", "POCSAG", "FM"}

Quiet == [state |-> "quiet", id |-> 0, last |-> 0]
Idle  == [state |-> "idle", id |-> 0, dog |-> SetTimeout(Unset, WatchdogTime),
          late |-> FALSE, mixed |-> FALSE]

\* The host ends if it cannot open the socket.
Init == /\ client \in Clients
        /\ enabled = TRUE
        /\ open = TRUE
        /\ link = [in |-> 0, out |-> 0, started |-> FALSE, buffer |-> <<>>, polled |-> FALSE,
                   left |-> FALSE,
                   poll |-> IF client \in Polling THEN Start(SetTimeout(Unset, PollTime))
                                                  ELSE Unset]
        /\ rf = "idle"
        /\ net = Idle
        /\ told = Quiet

-----------------------------------------------------------------------------
(* What is let go of.                                                      *)

\* reset.  What waits in the buffer stays there, stale.
reset(l) == [l EXCEPT !.in = 0, !.left = FALSE,
                      !.out = IF client = "M17" THEN 0 ELSE @,
                      !.buffer = [i \in DOMAIN @ |-> [@[i] EXCEPT !.stale = TRUE]]]

\* To the gateway a transmission that changes its id is another.
Torn(t, changed) == IF changed /\ t.state = "open" THEN [t EXCEPT !.state = "cut"] ELSE t

-----------------------------------------------------------------------------
(* What goes out: the control writes what a radio sends.                   *)

\* What the gateway makes of a packet.  A sound transmission has one id, no other has
\* had, and where there are headers begins with one.
Hears(t, f, id) ==
  IF t.state \in {"cut", "split", "headless"} /\ f # "header" THEN t
  ELSE IF t.state = "open"
    THEN [t EXCEPT !.state = IF id # t.id THEN "split" ELSE IF f = "end" THEN "quiet" ELSE @]
  ELSE IF f = "header" \/ client = "M17"
    THEN IF id # 0 /\ id = t.last THEN [t EXCEPT !.state = "split"]
                                  ELSE [state |-> "open", id |-> id, last |-> id]
  ELSE IF f = "end" THEN t
  ELSE [t EXCEPT !.state = "headless"]

\* CUDPSocket::write: to a socket that is open it may fail, too.  The controls do not
\* notice.
Sent(f, id) == {[told EXCEPT !.state = "cut"]} \cup (IF open THEN {Hears(told, f, id)} ELSE {})

Goes(l, f) == {[link |-> l, told |-> t] : t \in Sent(f, l.out)}

\* An id is drawn at random; that it is the last one again is left out.
Fresh == Ids \ {link.out, told.last}

Drawn(f) == UNION {Goes([link EXCEPT !.out = id], f) : id \in Fresh}

\* CDStarNetwork.  The header is sent twice.
writeHeader == Drawn("header")

writeData(f) == Goes(link, f)

\* CYSFNetwork::write: the count and the end are all that changes.
YSFWrite(f) == Goes(link, f)

\* CM17Network::write: an id is made where there is none.
M17Write(f) == IF link.out = 0 THEN Drawn(f) ELSE Goes(link, f)

\* A mutant: a header goes out under the id of the transmission before.
DMRWrite_Once(f) == IF link.out = 0 \/ f = "csbk" THEN Drawn(f) ELSE Goes(link, f)

\* CDMRNetwork::write: headers, and CSBKs, are given an id.
DMRWrite(f) == CASE f = "header" -> Drawn(f)
                 [] f = "csbk" -> {[link |-> [link EXCEPT !.out = id],
                                    told |-> Torn(told, TRUE)] : id \in Fresh}
                 [] OTHER -> Goes(link, f)

\* CP25Network: the nine records of a unit go out one by one, until one cannot be sent,
\* and behind them that of the end.  What the transmission is, is in the first unit.
writeLDU1(f) == Goes(link, IF f = "end" THEN f ELSE "header")

writeLDU2(f) == Goes(link, f)

\* CNXDNIcomNetwork::write: nothing tells transmissions apart but what is in the frame.
IcomWrite(f) == Goes(link, f)

\* CFMNetwork.  It says that it starts when it has sent no audio since the last end: none
\* goes out if that cannot be said.
writeStart == IF open THEN {link, [link EXCEPT !.started = TRUE]} ELSE {link}

FMWriteData ==
  IF link.started THEN Goes(link, "frame")
  ELSE {[link |-> l, told |-> IF l.started THEN Hears(told, "header", 0) ELSE told] : l \in writeStart}

writeEnd == Goes([link EXCEPT !.started = FALSE], "end")

\* CFMControl::writeModem: of its state the modem's FM tells the network nothing, of its
\* audio what makes whole samples.
FMHeard(f) == CASE f = "header" -> {[link |-> link, told |-> told]}
                [] f = "frame" -> FMWriteData \cup {[link |-> link, told |-> told]}
                [] f = "end" -> writeEnd

Written(f) ==
  CASE client = "D-Star" -> IF f = "header" THEN writeHeader ELSE writeData(f)
    [] client = "YSF" -> YSFWrite(f)
    [] client = "M17" -> M17Write(f)
    [] client = "DMR" -> DMRWrite(f)
    [] client = "P25" -> writeLDU1(f) \cup (IF f = "header" THEN {} ELSE writeLDU2(f))
    [] client = "NXDN" -> IcomWrite(f)
    [] client = "FM" -> FMHeard(f)

Begins == /\ enabled
          /\ client # "POCSAG"
          /\ rf = "idle"
          /\ rf' = "talking"
          /\ \E w \in Written("header") : link' = w.link /\ told' = w.told
          /\ UNCHANGED <<client, enabled, open, net>>

Speaks == /\ rf = "talking"
          /\ \E f \in {"frame"} \cup (IF client = "DMR" THEN {"csbk"} ELSE {}) :
             \E w \in Written(f) : link' = w.link /\ told' = w.told
          /\ UNCHANGED <<client, enabled, open, rf, net>>

\* A mutant: what was refused is not let go of.
LetsGo_Never(l) == l

\* The control's writeEndRF, with an end or without.  D-Star, YSF and M17 let go of the
\* network's transmission they have refused meanwhile.
LetsGo(l) == IF client \in Locking /\ net.state = "idle" THEN reset(l) ELSE l

\* M17 keeps its id where the network has the channel: the next has the same.
Over(t) == IF client = "M17" /\ net.state # "idle" THEN [t EXCEPT !.last = 0] ELSE t

Lost == IF client = "FM" THEN told ELSE [told EXCEPT !.state = "quiet"]

Ends == /\ rf = "talking"
        /\ rf' = "idle"
        /\ \/ \E w \in Written("end") : told' = Over(w.told) /\ link' = LetsGo(w.link)
           \/ told' = Over(Lost) /\ link' = LetsGo(link)
        /\ UNCHANGED <<client, enabled, open, net>>

\* A radio that is refused; in D-Star also one that had been accepted, and one that does
\* not call this repeater.  The controls of DMR, P25, POCSAG and FM refuse none for long.
Refused == /\ enabled
           /\ \/ rf = "idle" /\ client \in Locking \cup {"NXDN"} /\ UNCHANGED told
              \/ rf = "talking" /\ client = "D-Star" /\ told' = [told EXCEPT !.state = "quiet"]
           /\ rf' \in {"refused"} \cup (IF client = "D-Star" THEN {"invalid"} ELSE {})
           /\ UNCHANGED <<client, enabled, open, link, net>>

\* Behind a radio that was rejected M17 alone lets go, and D-Star behind an invalid one.
RefusedEnds == /\ rf \in {"refused", "invalid"}
               /\ rf' = "idle"
               /\ link' = IF client = "M17" \/ rf = "invalid" THEN LetsGo(link)
                          ELSE [link EXCEPT !.left = link.in # 0 /\ net.state = "idle"]
               /\ UNCHANGED <<client, enabled, open, net, told>>

-----------------------------------------------------------------------------
(* What comes in: the control reads, on every turn, what waits.            *)

Hearing(n, r) == [n EXCEPT !.dog = Start(@), !.mixed = @ \/ (~n.late /\ r.id # n.id)]

\* M17 takes the transmission for what its first packet says: of data, or of audio.
Entering(n, r) ==
  [n EXCEPT !.state = IF client = "M17" /\ r.id \in Data THEN "data" ELSE "in",
            !.id = r.id, !.late = r.stale, !.dog = Start(@)]

\* The control's writeEndNet.  To DMR, P25 and NXDN's there is nothing to let go of.
Ended(b) == [link |-> IF client \in Locking THEN reset(b.link) ELSE b.link,
             net |-> [Idle EXCEPT !.mixed = b.net.mixed]]

\* The control's writeNetwork, for the packet r: nothing of the network while a radio
\* has the channel, and where there are headers nothing without one.
Entered(b, r) ==
  CASE client = "D-Star" /\ (rf = "talking" \/ r.kind # "header") -> b
    [] client \in {"YSF", "DMR", "P25", "NXDN"} /\ (rf # "idle" \/ r.kind = "end") -> b
    [] client = "M17" /\ (rf # "idle" \/ r.id \in Encrypted) -> [b EXCEPT !.link = reset(@)]
    [] OTHER -> LET c == [link |-> [b.link EXCEPT !.left = FALSE], net |-> Entering(b.net, r)]
                IN IF r.kind = "end" /\ c.net.state = "in" THEN Ended(c) ELSE c

\* Of data M17 has no use, and looks for no end.  A page and FM's audio are of no
\* transmission.
Taken(b, r) ==
  IF ~enabled \/ client \in {"POCSAG", "FM"} THEN b
  ELSE IF b.net.state = "idle" THEN Entered(b, r)
  ELSE IF client = "M17" /\ r.id \in Encrypted
    THEN [link |-> reset(b.link), net |-> [b.net EXCEPT !.dog = Start(@), !.late = TRUE]]
  ELSE IF b.net.state = "data" \/ (client = "D-Star" /\ r.kind = "header")
    THEN [b EXCEPT !.net.dog = Start(@)]
  ELSE IF r.kind = "end" THEN Ended([b EXCEPT !.net = Hearing(@, r)])
  ELSE [b EXCEPT !.net = Hearing(@, r)]

\* A packet of which only the length did not fit is bare: where it is read, the payload is
\* taken for a length.
Rest(buffer) == LET s == Tail(buffer)
                IN IF Head(buffer).bare /\ s # <<>> THEN [s EXCEPT ![1].bare = TRUE] ELSE s

\* A mutant: a control that has no use for the network does not read it.
Reads_WhenIdle(b) ==
  IF b.link.buffer = <<>> \/ rf # "idle" THEN {b}
  ELSE {Taken([b EXCEPT !.link.buffer = Tail(@)], Head(b.link.buffer))}

\* read: one packet.
Reads(b) == LET r == Head(b.link.buffer)
                c == [b EXCEPT !.link.buffer = Rest(@)]
            IN {IF b.link.buffer = <<>> THEN b ELSE IF r.bare THEN c ELSE Taken(c, r)}

\* CFMControl::readModem, where the modem has space, with CFMNetwork::readData: 160 samples
\* whichever packets they came in.
FMReads(b) == {[b EXCEPT !.link.buffer = SubSeq(@, i, Len(@))] : i \in 1 .. Len(b.link.buffer) + 1}

\* CPOCSAGControl::readNetwork, which reads nothing while pages are sent.
readNetwork(b) == Reads(b) \cup {b}

\* The control's clock, with its watchdog: M17's is for audio.
Watched(b, ms) ==
  IF b.net.state # "in" THEN b
  ELSE LET n == [b.net EXCEPT !.dog = Clock(@, ms)]
       IN IF HasExpired(n.dog) THEN Ended(b) ELSE [b EXCEPT !.net = n]

-----------------------------------------------------------------------------
(* clock of the client.                                                    *)

\* A packet takes two pieces of m_buffer, of which the first is its length.
Room(buffer) ==
  Capacity - 2 * Len(buffer) + (IF buffer # <<>> /\ Head(buffer).bare THEN 1 ELSE 0)

\* addData, of the length and then of the packet: what does not fit empties the buffer.
Queued(l, p) ==
  LET r == [kind |-> p.kind, id |-> p.id, bare |-> FALSE, stale |-> FALSE]
      room == Room(l.buffer)
  IN [l EXCEPT !.buffer = CASE room > 2 -> Append(@, r)
                            [] room = 2 -> <<>>
                            [] room < 2 -> <<[r EXCEPT !.bare = TRUE]>>]

\* The same of packets that have no length.
QueuedWhole(l, p) ==
  [l EXCEPT !.buffer = IF Room(@) > 2 THEN Append(@, [kind |-> p.kind, id |-> p.id, bare |-> FALSE, stale |-> FALSE])
                                      ELSE <<>>]

\* A mutant: the id is not compared.
DStarTakes_AnyId(l, p) ==
  CASE p.kind = "header" -> IF l.in = 0 THEN Queued([l EXCEPT !.in = p.id], p) ELSE l
    [] p.kind = "end" -> Queued([l EXCEPT !.in = 0], p)
    [] OTHER -> Queued(l, p)

\* What clock passes on to the control.  CDStarNetwork: of a transmission locked to by its
\* header, until its end.
DStarTakes(l, p) ==
  IF p.kind = "header" THEN IF l.in = 0 THEN Queued([l EXCEPT !.in = p.id], p) ELSE l
  ELSE IF p.id # l.in THEN l
  ELSE IF p.kind = "end" THEN Queued([l EXCEPT !.in = 0], p)
  ELSE Queued(l, p)

\* CYSFNetwork: of a gateway locked to by whatever packet.
YSFTakes(l, p) ==
  IF l.in \notin {0, p.id} THEN l
  ELSE QueuedWhole([l EXCEPT !.in = IF p.kind = "end" THEN 0 ELSE p.id], p)

\* CM17Network: the control lets go at the end.
M17Takes(l, p) == IF l.in \notin {0, p.id} THEN l ELSE Queued([l EXCEPT !.in = p.id], p)

\* CDMRNetwork, CP25Network and CPOCSAGNetwork: all that comes.
DMRTakes(l, p) == Queued(l, p)
P25Takes(l, p) == Queued(l, p)
POCSAGTakes(l, p) == Queued(l, p)

\* CNXDNIcomNetwork: what has the length of a frame.  CFMNetwork: only audio.
IcomTakes(l, p) == QueuedWhole(l, p)
FMTakes(l, p) == IF p.kind = "frame" THEN QueuedWhole(l, p) ELSE l

Takes(l, p) ==
  CASE client = "D-Star" -> DStarTakes(l, p)
    [] client = "YSF" -> YSFTakes(l, p)
    [] client = "M17" -> M17Takes(l, p)
    [] client = "DMR" -> DMRTakes(l, p)
    [] client = "P25" -> P25Takes(l, p)
    [] client = "NXDN" -> IcomTakes(l, p)
    [] client = "POCSAG" -> POCSAGTakes(l, p)
    [] client = "FM" -> FMTakes(l, p)

\* The polls go on whatever else happens.
Polls(l, ms) ==
  LET t == Clock(l.poll, ms)
  IN [l EXCEPT !.poll = IF HasExpired(t) THEN Start(t) ELSE t, !.polled = HasExpired(t)]

Packets == [kind : {"header", "frame", "end"}, id : Ids]

None == [kind |-> "none", id |-> 0]

\* A turn of the loop: the control, then the client, which reads one packet at most.
Turn(ms, p) ==
  LET now == [link |-> link, net |-> net]
  IN \E b \in CASE client = "POCSAG" -> readNetwork(now) [] client = "FM" -> FMReads(now)
                [] OTHER -> Reads(now) :
       LET c == Watched(b, ms)
           l == Polls(c.link, ms)
       IN /\ net' = c.net
          /\ \/ p = None /\ link' = l
             \/ p # None /\ open /\ link' = IF enabled THEN Takes(l, p) ELSE l
          /\ told' = Torn(told, link'.out # link.out)
          /\ UNCHANGED <<client, enabled, open, rf>>

NetSends == \E ms \in 0 .. MaxElapse, p \in Packets : Turn(ms, p)

NetSilent == \E ms \in 0 .. MaxElapse : Turn(ms, None)

\* CUDPSocket::open: the address is looked up, a socket made, and bound; each may fail.
Opens == open' \in BOOLEAN

\* CUDPSocket::read finds that the socket is none any more: it is opened again, once.
Reopened == /\ open
            /\ Opens
            /\ UNCHANGED <<client, enabled, link, rf, net, told>>

\* enable, of the client and of its control.
enable(on) ==
  /\ enabled' = on
  /\ link' = CASE on /\ ~enabled /\ client \in Locking -> reset(link)
               [] on /\ ~enabled /\ client = "FM" -> [link EXCEPT !.buffer = <<>>]
               [] ~on /\ enabled -> [link EXCEPT !.buffer = <<>>, !.left = FALSE]
               [] OTHER -> link
  /\ IF ~on THEN /\ rf' = "idle"
                 /\ net' = [Idle EXCEPT !.mixed = net.mixed]
                 /\ told' = [told EXCEPT !.state = IF client = "FM" THEN @ ELSE "quiet"]
            ELSE UNCHANGED <<rf, net, told>>
  /\ UNCHANGED <<client, open>>

Next == \/ Begins \/ Speaks \/ Ends \/ Refused \/ RefusedEnds
        \/ NetSends \/ NetSilent
        \/ Reopened
        \/ \E on \in BOOLEAN : enable(on)

Timely == \E ms \in 1 .. MaxElapse, p \in Packets \cup {None} : Turn(ms, p)

\* Nothing of what the control reads on every turn is lost in the buffer, and none of it
\* is misread.
Drained == client \in {"POCSAG", "FM"} \/ Len(link.buffer) <= 1

Unlocked == link.in = 0 \/ link.left \/ net.state = "data"

=============================================================================
