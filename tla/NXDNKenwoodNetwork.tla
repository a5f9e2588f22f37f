------------------------ MODULE NXDNKenwoodNetwork ------------------------
(***************************************************************************)
(* CNXDNKenwoodNetwork: the client of NXDN that speaks as a Kenwood        *)
(* repeater does, the voice in RTP and what goes with it in RTCP.  It has  *)
(* no queue, and locks to nothing: what tells transmissions apart are      *)
(* their headers and trailers.  A header that was lost is made up from the *)
(* SACCH pieces of the voice.  The gateway sends one transmission after    *)
(* another, and any packet may be lost.  The control is CNXDNControl.      *)
(***************************************************************************)
EXTENDS Timers

CONSTANTS Ids,           \* of transmissions; 0 .. 255 for m_sessionId
          Pieces,        \* of the SACCH (4)
          PollTime,      \* m_rtcpTimer (200 ms)
          HangTime,      \* m_hangTimer (5 s)
          WatchdogTime,  \* of the control
          MaxElapse      \* bound: time between two calls of clock

VARIABLES client, enabled, open,
          link,    \* seen: whose each piece is, 0 for none; headerSeen: m_headerSeen;
                   \* out: m_sessionId; rtcp, hang: the timers; data: what the radio sends;
                   \* late: a trailer was lost
          rf, net, \* as in NetworkClients
          told,
          air      \* the transmission the gateway sends; 0 between two

vars == <<client, enabled, open, link, rf, net, told, air>>

None == [n \in 1 .. Pieces |-> 0]

Idle == [state |-> "idle", id |-> 0, dog |-> SetTimeout(Unset, WatchdogTime),
         mixed |-> FALSE]

Init == /\ client = "Kenwood"
        /\ enabled = TRUE
        /\ open = TRUE
        /\ link = [seen |-> None, headerSeen |-> FALSE, out |-> 1, data |-> FALSE,
                   late |-> FALSE,
                   rtcp |-> SetTimeout(Unset, PollTime), hang |-> SetTimeout(Unset, HangTime)]
        /\ rf = "idle"
        /\ net = Idle
        /\ told = [state |-> "quiet", id |-> 0, last |-> 0]
        /\ air = 0

Max == CHOOSE id \in Ids : \A i \in Ids : i <= id

\* m_sessionId++
Raised(id) == IF id = Max THEN 1 ELSE id + 1

-----------------------------------------------------------------------------
(* What goes out.                                                          *)

Hears(f, id) ==
  IF told.state \in {"cut", "split"} /\ f # "header" THEN told
  ELSE IF (told.state = "open" /\ id # told.id) \/ (f = "header" /\ id = told.last)
    THEN [told EXCEPT !.state = "split"]
  ELSE IF f = "header" THEN [state |-> "open", id |-> id, last |-> id]
  ELSE [told EXCEPT !.state = IF f = "end" THEN "quiet" ELSE @]

Sent(f, id) == {[told EXCEPT !.state = "cut", !.last = 0]} \cup (IF open THEN {Hears(f, id)} ELSE {})

Goes(l, f) == {[link |-> l, told |-> t] : t \in Sent(f, l.out)}

\* Data that belongs together goes out in pieces, each under an id of its own.
Apart(l, f) ==
  {[link |-> [l EXCEPT !.out = Raised(@)],
    told |-> [told EXCEPT !.state = IF f = "end" THEN "quiet" ELSE "cut", !.last = 0]]}

writeRTPVoiceHeader(l) == Goes([l EXCEPT !.out = Raised(@)], "header")

writeRTPVoiceData(l) == Goes(l, "frame")

writeRTPVoiceTrailer(l) == Goes(l, "end")

writeRTPDataHeader(l) == Goes([l EXCEPT !.out = Raised(@)], "header")

writeRTPDataData(l) == Apart(l, "frame")

writeRTPDataTrailer(l) == Apart(l, "end")

\* With the start the pings begin, which with the trailer become hangs, for a while.
writeRTCPStart(l) == [l EXCEPT !.hang = Stop(@), !.rtcp = Start(@)]

writeRTCPHang(l) == [l EXCEPT !.hang = Start(@)]

\* For a header, and for a trailer.
processIcomVoiceHeader(f) ==
  IF f = "header" THEN writeRTPVoiceHeader([writeRTCPStart(link) EXCEPT !.data = FALSE])
                  ELSE writeRTPVoiceTrailer(writeRTCPHang(link))

processIcomVoiceData == writeRTPVoiceData(link)

processIcomDataHeader(f) ==
  IF f = "header" THEN writeRTPDataHeader([writeRTCPStart(link) EXCEPT !.data = TRUE])
                  ELSE writeRTPDataTrailer(writeRTCPHang(link))

processIcomDataData == writeRTPDataData(link)

\* write, by the type of the message.
write(f) == CASE f = "header" -> processIcomVoiceHeader(f) \cup processIcomDataHeader(f)
              [] f = "frame" -> IF link.data THEN processIcomDataData ELSE processIcomVoiceData
              [] f = "end" -> IF link.data THEN processIcomDataHeader(f) ELSE processIcomVoiceHeader(f)

Begins == /\ enabled
          /\ rf = "idle"
          /\ rf' = "talking"
          /\ \E w \in write("header") : link' = w.link /\ told' = w.told
          /\ UNCHANGED <<client, enabled, open, net, air>>

Frame == /\ rf = "talking"
         /\ \E w \in write("frame") : link' = w.link /\ told' = w.told
         /\ UNCHANGED <<client, enabled, open, rf, net, air>>

reset(l) == [l EXCEPT !.rtcp = Stop(@), !.hang = Stop(@), !.headerSeen = FALSE, !.seen = None,
                      !.late = FALSE]

\* The control's writeEndRF: the client is reset unless the network has the channel,
\* and with it the hang the trailer has begun.
LetsGo(l) == IF net.state = "idle" THEN reset(l) ELSE l

Ends == /\ rf = "talking"
        /\ rf' = "idle"
        /\ \/ \E w \in write("end") : link' = LetsGo(w.link) /\ told' = w.told
           \/ link' = LetsGo(link) /\ told' = [told EXCEPT !.state = "quiet"]
        /\ UNCHANGED <<client, enabled, open, net, air>>

Refused == /\ enabled
           /\ rf = "idle"
           /\ rf' = "refused"
           /\ UNCHANGED <<client, enabled, open, link, net, told, air>>

RefusedEnds == /\ rf = "refused"
               /\ rf' = "idle"
               /\ UNCHANGED <<client, enabled, open, link, net, told, air>>

-----------------------------------------------------------------------------
(* What comes in: read, called by the control, and what the control makes  *)
(* of it.                                                                  *)

\* The control refuses the network while a radio is heard; a header does not replace the
\* transmission it is in.
Given(b, f, id) ==
  LET mixed == b.net.mixed \/ (~b.link.late /\ id # b.net.id)
  IN IF ~enabled \/ (b.net.state = "idle" /\ (rf # "idle" \/ f = "trailer")) THEN b
     ELSE IF f = "trailer" THEN [link |-> reset(b.link), net |-> [Idle EXCEPT !.mixed = mixed]]
     ELSE IF b.net.state = "idle"
       THEN [b EXCEPT !.net.state = "in", !.net.id = id, !.net.dog = Start(@)]
     ELSE IF f = "header" THEN [b EXCEPT !.net.dog = Start(@)]
     ELSE [b EXCEPT !.net.dog = Start(@), !.net.mixed = mixed]

\* A header, and a trailer; either begins the collection of pieces anew.
processKenwoodVoiceHeader(b, f, id) ==
  LET c == [b EXCEPT !.link.headerSeen = f = "header", !.link.seen = None]
  IN IF f = "header" THEN Given([c EXCEPT !.link.late = @ /\ b.net.state = "in"], f, id)
     ELSE [Given(c, f, id) EXCEPT !.link.late = FALSE]

processKenwoodVoiceData(b, id) == Given(b, "frame", id)

\* A piece that is there is not replaced.  With all of them a header is made up, of
\* whomever the pieces are.
processKenwoodVoiceLateEntry(b, n, id) ==
  LET seen == [b.link.seen EXCEPT ![n] = IF @ = 0 THEN id ELSE @]
      whose == {seen[i] : i \in 1 .. Pieces}
  IN IF 0 \in whose THEN [b EXCEPT !.link.seen = seen]
     ELSE LET c == Given([b EXCEPT !.link.headerSeen = TRUE, !.link.seen = None], "header", id)
          IN [c EXCEPT !.net.mixed = @ \/ (~b.link.late /\ whose # {id})]

read(b, f, n, id) ==
  IF f \in {"header", "trailer"} THEN processKenwoodVoiceHeader(b, f, id)
  ELSE IF b.link.headerSeen THEN processKenwoodVoiceData(b, id)
  ELSE processKenwoodVoiceLateEntry(b, n, id)

\* readRTP: whether a packet is read that has come.
readRTP(f, lost) == enabled /\ open /\ ~lost /\ f # "none"

\* The gateway sends the next packet; where it is lost nothing is read.
Packet(f) == CASE f = "header" -> air = 0
               [] f \in {"frame", "trailer"} -> air # 0
               [] OTHER -> TRUE

Watched(b, ms) ==
  IF b.net.state = "idle" THEN b
  ELSE LET n == [b.net EXCEPT !.dog = Clock(@, ms)]
       IN IF HasExpired(n.dog) THEN [link |-> reset(b.link), net |-> [Idle EXCEPT !.mixed = n.mixed]]
                               ELSE [b EXCEPT !.net = n]

\* clock: pings while a radio speaks, hangs for a while thereafter.
Clocked(l, ms) ==
  LET rtcp == Clock(l.rtcp, ms)
      hang == Clock(l.hang, ms)
  IN [l EXCEPT !.rtcp = IF HasExpired(hang) THEN Stop(rtcp)
                        ELSE IF HasExpired(rtcp) THEN Start(rtcp)
                        ELSE rtcp,
               !.hang = IF HasExpired(hang) THEN Stop(hang) ELSE hang]

\* A turn of the loop: the control reads at most one packet, then the client is clocked.
Turn(ms, f) ==
  /\ Packet(f)
  /\ \E id \in IF f = "header" THEN Ids ELSE {air}, n \in 1 .. Pieces, lost \in BOOLEAN :
       LET b == [link |-> link, net |-> net]
           c == IF readRTP(f, lost) THEN read(b, f, n, id) ELSE b
           d == Watched(IF lost /\ f = "trailer" THEN [c EXCEPT !.link.late = TRUE] ELSE c, ms)
       IN /\ net' = d.net
          /\ link' = Clocked(d.link, ms)
          /\ air' = CASE f = "header" -> id [] f = "trailer" -> 0 [] OTHER -> air
  /\ UNCHANGED <<client, enabled, open, rf, told>>

NetSends == \E ms \in 0 .. MaxElapse, f \in {"header", "frame", "trailer"} : Turn(ms, f)

NetSilent == \E ms \in 0 .. MaxElapse : Turn(ms, "none")

\* CUDPSocket::open.
Opens == open' \in BOOLEAN

Reopened == /\ open
            /\ Opens
            /\ UNCHANGED <<client, enabled, link, rf, net, told, air>>

\* enable: switched off it goes on pinging.
enable(on) == /\ enabled' = on
              /\ link' = IF on /\ ~enabled THEN reset(link) ELSE link
              /\ IF ~on THEN /\ rf' = "idle"
                             /\ net' = [Idle EXCEPT !.mixed = net.mixed]
                             /\ told' = [told EXCEPT !.state = "quiet"]
                        ELSE UNCHANGED <<rf, net, told>>
              /\ UNCHANGED <<client, open, air>>

Next == \/ Begins \/ Frame \/ Ends \/ Refused \/ RefusedEnds
        \/ NetSends \/ NetSilent \/ Reopened
        \/ \E on \in BOOLEAN : enable(on)

Timely == \E ms \in 1 .. MaxElapse, f \in {"header", "frame", "trailer", "none"} : Turn(ms, f)

\* Pings end with what a radio says, or a little later.
Unlocked == ~IsRunning(link.rtcp)

=============================================================================
