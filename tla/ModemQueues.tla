---------------------------- MODULE ModemQueues ----------------------------
(***************************************************************************)
(* The queues between the modem and the protocol controls.  On each turn   *)
(* of its loop the host reads at most one received frame of each protocol, *)
(* hands over at most one frame of each to transmit, and calls clock: the  *)
(* status of the modem is asked for, one frame is received, and, when the  *)
(* playout timer has expired, one frame of each protocol is fed to the     *)
(* modem as far as it has room by its last status.  A queue holds the runs *)
(* of bytes that were added to it, each by one addData.                    *)
(***************************************************************************)
EXTENDS Integers, Sequences, FiniteSets

CONSTANTS Fits,        \* the protocols to check together, and the bounds on their frames
          Length,      \* the size of the queues, by protocol
          Payload,     \* the bytes of the longest frame that is received
          Room         \* what the modem's own buffer holds, by protocol, in its units

\* DMR has a queue for each slot.
AllProtocols == {"DStar", "DMR1", "DMR2", "YSF", "P25", "NXDN", "M17", "POCSAG", "FM"}

\* The protocols in use, and the most frames of each handed over and received.
Fit == [protocols : SUBSET AllProtocols, handed : Nat, received : Nat]

VARIABLES fit,         \* a member of Fits
          turn,        \* where the loop is
          rx, tx,      \* the queues
          space,       \* m_xxxSpace: the modem's room as the host counts it
          room,        \* the modem's room as it is
          toModem,     \* fed or asked, and not taken by the modem yet
          toHost,      \* sent by the modem and not read yet
          fed,         \* units fed since the status was asked for, until its answer is read
          ahead,       \* the most of them there ever were, and one at least
          received, handed,   \* how many frames there were
          got,         \* the number of the last frame the host read
          taken,       \* the number of the last frame fed, or dropped with its queue
          excused      \* protocols with a frame queued without its length

vars == <<fit, turn, rx, tx, space, room, toModem, toHost, fed, ahead, received, handed, got,
          taken, excused>>

-----------------------------------------------------------------------------
(* The protocols.  rx: the tag each kind of frame of the modem is queued   *)
(* with; tx: the length of each kind the host writes, as its control hands *)
(* it over; units: what a frame takes of the modem's room.                 *)

DStarRx == [HEADER |-> "HEADER", DATA |-> "DATA", LOST |-> "LOST", EOT |-> "EOT"]
DMRRx   == [DATA |-> "DATA", TERMINATOR |-> "EOT", LOST |-> "LOST"]
YSFRx   == [DATA |-> "DATA", LOST |-> "LOST"]
P25Rx   == [HDR |-> "HEADER", LDU |-> "DATA", LOST |-> "LOST"]
NXDNRx  == [DATA |-> "DATA", LOST |-> "LOST"]
M17Rx   == [LINK_SETUP |-> "HEADER", STREAM |-> "DATA", EOT |-> "EOT", LOST |-> "LOST"]
FMRx    == [DATA |-> "DATA", STATUS |-> "HEADER", EOT |-> "EOT", RSSI |-> "RSSI"]

Received(p) == CASE p = "DStar" -> DStarRx [] p \in {"DMR1", "DMR2"} -> DMRRx
                 [] p = "YSF" -> YSFRx     [] p = "P25" -> P25Rx
                 [] p = "NXDN" -> NXDNRx   [] p = "M17" -> M17Rx
                 [] p = "FM" -> FMRx

DStarTx  == [HEADER |-> 42, DATA |-> 13, EOT |-> 1]
DMRTx    == [DATA |-> 35, EOT |-> 35]
YSFTx    == [DATA |-> 122, EOT |-> 122]
P25Tx    == [HEADER |-> 101, DATA |-> 218, EOT |-> 20]
NXDNTx   == [DATA |-> 50, EOT |-> 50]
M17Tx    == [HEADER |-> 50, DATA |-> 50, EOT |-> 50]
POCSAGTx == [DATA |-> 68]
FMTx     == [DATA |-> 240, SHORT |-> 3]

Written(p) == CASE p = "DStar" -> DStarTx [] p \in {"DMR1", "DMR2"} -> DMRTx
                [] p = "YSF" -> YSFTx     [] p = "P25" -> P25Tx
                [] p = "NXDN" -> NXDNTx   [] p = "M17" -> M17Tx
                [] p = "POCSAG" -> POCSAGTx [] p = "FM" -> FMTx

\* hasDStarSpace and its like reckon with frames of this length.
FrameLength(p) == CASE p = "DStar" -> 12 [] p \in {"DMR1", "DMR2"} -> 33
                    [] p = "YSF" -> 120  [] p = "P25" -> 216
                    [] p \in {"NXDN", "M17"} -> 48 [] p = "POCSAG" -> 68

Units(p, kind) == IF p = "DStar" /\ kind = "HEADER" THEN 4 ELSE 1

-----------------------------------------------------------------------------
(* CRingBuffer, see Fifo: a run of bytes that does not fit empties it.     *)

Used(q) == LET sum[i \in 0 .. Len(q)] == IF i = 0 THEN 0 ELSE sum[i - 1] + q[i].bytes
           IN sum[Len(q)]

Free(p, q) == Length[p] - Used(q)

Add(p, q, run) == IF run.bytes >= Free(p, q) THEN << >> ELSE Append(q, run)

\* A record is a length and the bytes it counts; the length of an FM frame is an
\* unsigned int.
LengthRun(p, n) == [what |-> "LENGTH", bytes |-> IF p = "FM" THEN 4 ELSE 1, n |-> n, kind |-> "NONE"]

Starts(q) == {i \in DOMAIN q : q[i].what = "LENGTH"}

\* What follows the record at the head.
Rest(q) == LET later == Starts(q) \ {1}
           IN IF later = {} THEN << >>
              ELSE SubSeq(q, CHOOSE i \in later : \A j \in later : i <= j, Len(q))

Whole(q) == /\ q # << >> => 1 \in Starts(q)
            /\ \A i \in Starts(q) : i < Len(q) /\ i + 1 \notin Starts(q)

-----------------------------------------------------------------------------
fitted == fit.protocols

Init == /\ fit \in Fits
        /\ turn = "READ"
        /\ rx = [p \in fitted |-> << >>]
        /\ tx = [p \in fitted |-> << >>]
        /\ space = [p \in fitted |-> 0]
        /\ room = [p \in fitted |-> Room[p]]
        /\ toModem = << >>
        /\ toHost = << >>
        /\ fed = [p \in fitted |-> 0]
        /\ ahead = [p \in fitted |-> 1]
        /\ received = [p \in fitted |-> 0]
        /\ handed = [p \in fitted |-> 0]
        /\ got = [p \in fitted |-> 0]
        /\ taken = [p \in fitted |-> 0]
        /\ excused = {}

\* readDStarData and its like, for every protocol, and whether or not the host has
\* a use for the frame.
Read ==
  /\ turn = "READ" /\ turn' = "WRITE"
  /\ LET due(p) == rx[p] # << >>
     IN /\ got' = [p \in fitted |-> IF due(p) THEN Head(rx[p]).n ELSE got[p]]
        /\ rx' = [p \in fitted |-> IF due(p) THEN Rest(rx[p]) ELSE rx[p]]
  /\ UNCHANGED <<fit, tx, space, room, toModem, toHost, fed, ahead, received, handed, taken,
                 excused>>

-----------------------------------------------------------------------------
(* The host hands frames over.                                             *)

\* Mutant: room for the frame is enough.
HasSpace_One(p) == IF p = "FM" THEN Free(p, tx[p]) > 0
                   ELSE Free(p, tx[p]) \div (FrameLength(p) + 4) > 0

HasSpace(p) == IF p = "FM" THEN Free(p, tx[p]) > 0
               ELSE Free(p, tx[p]) \div (FrameLength(p) + 4) > 1

\* The bytes that are sent for a frame: its tag becomes the header of the frame.
Sent(p, kind) == Written(p)[kind] + (IF p \in {"POCSAG", "FM"} THEN 3 ELSE 2)

\* writeDStarData and its like.
Queue(p, kind, n) ==
  Add(p, Add(p, tx[p], LengthRun(p, n)),
      [what |-> "FRAME", bytes |-> Sent(p, kind), n |-> n, kind |-> kind])

\* hasDStarSpace reckons with a frame of data, hasFMSpace with no length at all.
MayOverflow(p, kind) == p = "FM" \/ (p = "DStar" /\ kind = "HEADER")

Write ==
  /\ turn = "WRITE" /\ turn' = "CLOCK"
  /\ \/ UNCHANGED <<tx, handed, taken, excused>>
     \/ \E p \in fitted : \E kind \in DOMAIN Written(p) :
          /\ handed[p] < fit.handed
          /\ HasSpace(p)
          /\ handed' = [handed EXCEPT ![p] = @ + 1]
          /\ tx' = [tx EXCEPT ![p] = Queue(p, kind, handed[p] + 1)]
          /\ taken' = IF MayOverflow(p, kind) /\ tx'[p] = << >>
                        THEN [taken EXCEPT ![p] = handed[p] + 1] ELSE taken
          /\ excused' = IF p = "FM" /\ ~Whole(tx'[p]) THEN excused \cup {p} ELSE excused
  /\ UNCHANGED <<fit, rx, space, room, toModem, toHost, fed, ahead, received, got>>

\* The slot begins a transmission of the radio: what the network had queued is
\* dropped here and in the modem.
writeDMRAbort(p) ==
  /\ turn = "WRITE"
  /\ tx[p] # << >>
  /\ tx' = [tx EXCEPT ![p] = << >>]
  /\ taken' = [taken EXCEPT ![p] = handed[p]]
  /\ toModem' = Append(toModem, [what |-> "ABORT", of |-> p, units |-> 0])
  /\ UNCHANGED <<fit, turn, rx, space, room, toHost, fed, ahead, received, handed, got, excused>>

Abort == \E p \in fitted \cap {"DMR1", "DMR2"} : writeDMRAbort(p)

-----------------------------------------------------------------------------
(* clock.                                                                  *)

Asked == \/ \E i \in DOMAIN toModem : toModem[i].what = "GET_STATUS"
         \/ \E i \in DOMAIN toHost : toHost[i].what = "STATUS"

\* Mutant: the status is asked for only with nothing left to feed.
Poll_WhenIdle == \/ UNCHANGED <<toModem, fed>>
                 \/ /\ ~Asked /\ \A p \in fitted : tx[p] = << >>
                    /\ toModem' = Append(toModem, [what |-> "GET_STATUS", of |-> "NONE", units |-> 0])
                    /\ fed' = [p \in fitted |-> 0]

\* The status timer.
Poll == \/ UNCHANGED <<toModem, fed>>
        \/ /\ ~Asked
           /\ toModem' = Append(toModem, [what |-> "GET_STATUS", of |-> "NONE", units |-> 0])
           /\ fed' = [p \in fitted |-> 0]

\* A received frame is queued under its tag.
Receipt(f) ==
  LET tag    == Received(f.of)[f.kind]
      tagged == Add(f.of, Add(f.of, rx[f.of], LengthRun(f.of, f.n)),
                    [what |-> "TAG", bytes |-> 1, n |-> f.n, kind |-> tag])
  IN IF tag = "LOST" THEN tagged
     ELSE Add(f.of, tagged, [what |-> "PAYLOAD", bytes |-> Payload, n |-> f.n, kind |-> "NONE"])

\* A status replaces the host's own count.
ReadStatus(f) == [p \in fitted |-> f.spaces[p]]

Receive ==
  IF toHost = << >> THEN UNCHANGED <<toHost, rx, space>>
  ELSE /\ toHost' = Tail(toHost)
       /\ LET f == Head(toHost)
          IN IF f.what = "STATUS"
               THEN space' = ReadStatus(f) /\ UNCHANGED rx
               ELSE rx' = [rx EXCEPT ![f.of] = Receipt(f)] /\ UNCHANGED space

Clock == /\ turn = "CLOCK" /\ turn' = "FEED"
         /\ Poll
         /\ Receive
         /\ UNCHANGED <<fit, tx, room, ahead, received, handed, got, taken, excused>>

\* The frame at the head may be fed.  D-Star looks at what it is; the others keep
\* one unit in hand.  Mutant: they do not.
MayFeed_All(p) == /\ Whole(tx[p]) /\ tx[p] # << >>
                  /\ space[p] > 0
                  /\ p = "DStar" /\ tx[p][2].kind = "HEADER" => space[p] > 4

MayFeed(p) == /\ Whole(tx[p]) /\ tx[p] # << >>
              /\ space[p] > 1
              /\ p = "DStar" /\ tx[p][2].kind = "HEADER" => space[p] > 4

\* What feeding those of ps takes of the room for p.
Taking(p, ps) == IF p \in ps THEN Units(p, tx[p][2].kind) ELSE 0

FrameOf(p, ps) == IF p \notin ps THEN << >>
                  ELSE << [what |-> "FRAME", of |-> p, units |-> Units(p, tx[p][2].kind)] >>

\* The queues are looked at in this order.
Fed(ps) == toModem \o FrameOf("DStar", ps) \o FrameOf("DMR1", ps) \o FrameOf("DMR2", ps)
           \o FrameOf("YSF", ps) \o FrameOf("P25", ps) \o FrameOf("NXDN", ps)
           \o FrameOf("M17", ps) \o FrameOf("POCSAG", ps) \o FrameOf("FM", ps)

\* The playout timer has not expired...
Wait == /\ turn = "FEED" /\ turn' = "READ"
        /\ UNCHANGED <<fit, rx, tx, space, room, toModem, toHost, fed, ahead, received, handed,
                       got, taken, excused>>

\* ...or it has.
Feed ==
  LET ps == {p \in fitted : MayFeed(p)}
  IN /\ turn = "FEED" /\ turn' = "READ"
     /\ ps # {}
     /\ toModem' = Fed(ps)
     /\ space' = [p \in fitted |-> space[p] - Taking(p, ps)]
     /\ taken' = [p \in fitted |-> IF p \in ps THEN Head(tx[p]).n ELSE taken[p]]
     /\ tx' = [p \in fitted |-> IF p \in ps THEN Rest(tx[p]) ELSE tx[p]]
     /\ fed' = [p \in fitted |-> IF Asked THEN fed[p] + Taking(p, ps) ELSE 0]
     /\ ahead' = [p \in fitted |-> IF fed'[p] > ahead[p] THEN fed'[p] ELSE ahead[p]]
     /\ UNCHANGED <<fit, rx, room, toHost, received, handed, got, excused>>

-----------------------------------------------------------------------------
(* The modem.                                                              *)

\* It takes what comes in order: a frame uses its room, or finds none and is lost, a
\* status tells it.
ModemTakes ==
  /\ toModem # << >>
  /\ toModem' = Tail(toModem)
  /\ LET f == Head(toModem)
     IN CASE f.what = "FRAME" /\ f.units <= room[f.of] ->
               room' = [room EXCEPT ![f.of] = @ - f.units] /\ UNCHANGED toHost
          [] f.what = "FRAME" /\ f.units > room[f.of] -> UNCHANGED <<room, toHost>>
          [] f.what = "ABORT" -> room' = [room EXCEPT ![f.of] = Room[f.of]] /\ UNCHANGED toHost
          [] OTHER -> /\ toHost' = Append(toHost, [what |-> "STATUS", spaces |-> room])
                      /\ UNCHANGED room
  /\ UNCHANGED <<fit, turn, rx, tx, space, fed, ahead, received, handed, got, taken, excused>>

\* It transmits.
ModemDrains == \E p \in fitted : /\ room[p] < Room[p]
                                 /\ room' = [room EXCEPT ![p] = @ + 1]
                                 /\ UNCHANGED <<fit, turn, rx, tx, space, toModem, toHost, fed,
                                                ahead, received, handed, got, taken, excused>>

\* It receives.
ModemReceives ==
  \E p \in fitted \ {"POCSAG"} : \E kind \in DOMAIN Received(p) :
    /\ received[p] < fit.received
    /\ received' = [received EXCEPT ![p] = @ + 1]
    /\ toHost' = Append(toHost, [what |-> "RECEIVED", of |-> p, kind |-> kind,
                                 n |-> received[p] + 1])
    /\ UNCHANGED <<fit, turn, rx, tx, space, room, toModem, fed, ahead, handed, got, taken,
                   excused>>

Next == Read \/ Write \/ Abort \/ Clock \/ Wait \/ Feed
        \/ ModemTakes \/ ModemDrains \/ ModemReceives

Turn == Read \/ Write \/ Clock \/ Wait \/ Feed

Asks == Clock /\ toModem' # toModem

\* The loop goes round, the status and the playout timer expire again and again, and
\* the modem goes on.
Fairness == /\ WF_vars(Turn) /\ SF_vars(Asks) /\ SF_vars(Feed)
            /\ WF_vars(ModemTakes) /\ WF_vars(ModemDrains)

Spec == Init /\ [][Next]_vars /\ Fairness

-----------------------------------------------------------------------------
(* Properties.                                                             *)

\* The elements of q at S carry the numbers after last up to end, each once and in order.
InOrder(q, S, last, end) ==
  /\ \A i \in S : q[i].n \in last + 1 .. end
  /\ \A i, j \in S : i < j => q[i].n < q[j].n
  /\ \A n \in last + 1 .. end : \E i \in S : q[i].n = n

Coming(q, p) == {i \in DOMAIN q : q[i].what = "RECEIVED" /\ q[i].of = p}

\* What the modem received reaches the host, and what the host hands over reaches the
\* modem, in whole records, in order and without a gap, although nothing checks that a
\* received frame fits and hasXXXSpace reckons with other lengths than are written; but
\* for what is dropped as a whole (a slot's queue on purpose, a queue in which a D-Star
\* header or an FM frame finds no room), and until an FM frame is queued without its
\* length.
FramesKept ==
  \A p \in fitted :
    /\ Whole(rx[p])
    /\ LET way == rx[p] \o toHost
       IN InOrder(way, Starts(way) \cup Coming(way, p), got[p], received[p])
    /\ p \notin excused => /\ Whole(tx[p])
                           /\ InOrder(tx[p], Starts(tx[p]), taken[p], handed[p])

\* The frames of p that are under way, and the room they will take.
FramesUnderWay(p) == {i \in DOMAIN toModem : toModem[i].what = "FRAME" /\ toModem[i].of = p}

UnderWay(p) == Cardinality(FramesUnderWay(p))
               + 3 * Cardinality({i \in FramesUnderWay(p) : toModem[i].units = 4})

\* A status replaces the host's count, and knows nothing of what was fed since it was
\* asked for.  What is under way to the modem then exceeds the room it has by no more
\* than was ever fed in advance of a status like that, less the unit MayFeed keeps in
\* hand: nothing is lost as long as one unit is fed in advance, a D-Star header (four)
\* may be, and so may a frame if two are fed while one status is under way.
FrameFits == \A p \in fitted : UnderWay(p) <= room[p] + ahead[p] - 1

\* Every frame handed over is fed to the modem in the end: the queues run dry again and
\* again.
AllFed == []<>(\A p \in fitted : tx[p] = << >>)

=============================================================================
