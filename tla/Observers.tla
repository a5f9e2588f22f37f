------------------------------ MODULE Observers -----------------------------
(***************************************************************************)
(* Who hears what comes out of a protocol control: the radios, which hear  *)
(* m_queue, and the network, which is told.                                *)
(***************************************************************************)

\* The radios hear frame f ("header", "frame", "end") of party p ("rf", a radio that
\* is repeated, or "net").  They hear two at once, "mixed", when a frame of one comes
\* before the other has ended or was given up.
Hear(radio, p, f) ==
  IF radio = "mixed" \/ (radio \in {"rf", "net"} /\ radio # p) THEN "mixed"
  ELSE IF f = "end" THEN "quiet"
  ELSE p

\* Radios that can only follow what began with a header: "headless" is what did not.
\* Where frames are withheld on purpose they have been "cut" off, and wait for the
\* next header.  Two more are heard of P25 and of NXDN: "doubled", a radio and the
\* network at once, for as long as the network transmits; "stray", a frame that is part
\* of nothing.
HearHeaded(radio, p, f) ==
  CASE radio = "doubled" -> "doubled"
    [] radio = "headless" \/ (radio \in {"quiet", "stray"} /\ f = "frame") -> "headless"
    [] radio = "cut" /\ f = "frame" -> "cut"
    [] OTHER -> Hear(radio, p, f)

Hushed(radio, p, how) == IF radio \in {p, "quiet", "cut", "stray"} THEN how ELSE radio

\* A transmission is over without an end, or frames of it are withheld.
Quiet(radio, p) == Hushed(radio, p, "quiet")
Cut(radio, p) == Hushed(radio, p, "cut")

\* The network is told a transmission, from its header to its end.  One that is
\* lost, or has timed out, may have no end.
Tell(stream, f) ==
  IF f = "header" THEN "open"
  ELSE IF stream # "open" THEN "headless"
  ELSE IF f = "end" THEN "closed"
  ELSE stream
=============================================================================
