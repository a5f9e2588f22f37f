------------------------------ MODULE MCModem ------------------------------
(***************************************************************************)
(* Modem with three small instances.  Framing: lengths of up to five in    *)
(* one byte, so that both forms of the header are used with payloads of    *)
(* one to four bytes, over a serial link, which waits for the rest of a    *)
(* frame, fails once, and carries payloads that hold no byte a frame could *)
(* start with; and over one that returns parts, with something transmitted *)
(* in between, never fails, and carries any payload.  Link: two            *)
(* configurations that protocol 1 cannot tell apart.  Queues: one protocol *)
(* at a time, mostly one way, with queues a little larger than two frames  *)
(* and a modem that holds two, so that one is fed in advance of a status   *)
(* (D-Star: a header and a frame; NXDN: three, so that two are).           *)
(***************************************************************************)
EXTENDS Modem

MCTypes  == {8}
MCSerial == [splits |-> FALSE, tx |-> {2, 6}, errors |-> 1,
             payloads |-> {<< >>, <<1>>, <<1, 2, 3>>, <<1, 2, 3, 4>>}]
MCParts  == [splits |-> TRUE, tx |-> {2, 6}, errors |-> 0,
             payloads |-> {<<9>>, <<9, 4>>, <<1, 9, 0>>, <<9, 0, 9, 8>>}]
MCLinks  == {MCSerial, MCParts}
MCReply  == <<1>>

MCModes == {{"DMR"}, {"DMR", "FM"}}

MCProtocols == {"DStar", "DMR1", "YSF", "P25", "NXDN", "M17", "POCSAG", "FM"}
MCFits == {[protocols |-> {p}, handed |-> 3, received |-> 0] : p \in MCProtocols}
          \cup {[protocols |-> {p}, handed |-> 1, received |-> 2] : p \in MCProtocols \ {"POCSAG"}}
          \cup {[protocols |-> {"NXDN"}, handed |-> 4, received |-> 0]}
MCLength == [DStar |-> 80, DMR1 |-> 120, YSF |-> 380, P25 |-> 662, NXDN |-> 160,
             M17 |-> 160, POCSAG |-> 220, FM |-> 500]
MCRoom == [p \in DOMAIN MCLength |-> CASE p = "DStar" -> 5 [] p = "NXDN" -> 3 [] OTHER -> 2]

=============================================================================
