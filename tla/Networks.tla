------------------------------ MODULE Networks ------------------------------
(***************************************************************************)
(* The clients of the gateways, the Kenwood one and the others: a          *)
(* behaviour is that of one of them, client.                               *)
(***************************************************************************)
EXTENDS Integers

CONSTANTS Ids, Encrypted, Data, Capacity, Pieces, PollTime, HangTime, WatchdogTime, MaxElapse

VARIABLES client, enabled, open, link, rf, net, told, air

vars == <<client, enabled, open, link, rf, net, told, air>>

UDP == INSTANCE NetworkClients
Kenwood == INSTANCE NXDNKenwoodNetwork

\* An id is never the one before it, and a packet fits into a buffer that is empty.
ASSUME NetworksAssumption == /\ Kenwood!Max \in Nat /\ Kenwood!Max > 1
                             /\ Ids = 1 .. Kenwood!Max
                             /\ Capacity \in Nat /\ Capacity > 2
                             /\ Pieces \in Nat \ {0}
                             /\ PollTime \in Nat /\ HangTime \in Nat
                             /\ WatchdogTime \in Nat /\ MaxElapse \in Nat

IsKenwood == client = "Kenwood"

Init == \/ UDP!Init /\ air = 0
        \/ Kenwood!Init

Next == \/ ~IsKenwood /\ UDP!Next /\ UNCHANGED air
        \/ IsKenwood /\ Kenwood!Next

NetSends == \/ ~IsKenwood /\ UDP!NetSends /\ UNCHANGED air
            \/ IsKenwood /\ Kenwood!NetSends

Timely == \/ ~IsKenwood /\ UDP!Timely /\ UNCHANGED air
          \/ IsKenwood /\ Kenwood!Timely

\* The loop runs, and time passes.
Spec == Init /\ [][Next]_vars /\ WF_vars(Timely)

-----------------------------------------------------------------------------
(* Properties.                                                             *)

\* However many transmissions the gateway of D-Star, M17 or YSF sends at once, and whatever
\* is lost of them, comes twice or out of order: the control hears one from its first
\* packet to its last.  (YSF's id is the callsign of who sends: two transmissions of one
\* gateway are one.)  Not so where a radio's transmission, as it ended, let go of a
\* transmission whose first packet was still in m_buffer: the control enters it, and the
\* client is locked to none.  The Kenwood client, which has no ids to go by, tells two apart
\* as long as no trailer is lost.  The clients of DMR, P25 and NXDN's Icom pass on all that
\* comes, and there two at once are heard as one; pages and FM's audio have none to mix.
OneTransmission == client \in UDP!Locking \cup {"Kenwood"} => ~net.mixed

\* Each transmission of a radio is told to the gateway under one id, another than that of
\* the one before, and where there are headers from its header on.  Not so in DMR with a
\* CSBK or a header of data in its midst, in M17 where the network sends meanwhile, nor
\* the data of Kenwood; and an id that is drawn twice running is left out.
ToldUnderOneId == told.state \notin {"split", "headless"}

\* Nothing of what the control reads on every turn is lost in the buffer, and none of it
\* is misread.  POCSAG does not read while it sends, nor FM while the modem is full.
Drained == IsKenwood \/ UDP!Drained

Unlocked == IF IsKenwood THEN Kenwood!Unlocked ELSE UDP!Unlocked

\* No client stays locked to a transmission, and none pings for a radio's, unless it is
\* switched off, the gateway sends for ever or radios do.  Not so a lock that was taken
\* while a radio was rejected, or as it was, which nobody lets go of ("left"); and not so
\* in M17 one to a transmission of data, whose end the control does not look for and which
\* no watchdog gives up: client and control stay with it until they are switched off.  And
\* who is to poll the gateway polls it again and again.
NeverStuck ==
  /\ []<>(Unlocked \/ ~enabled) \/ []<><<NetSends>>_vars \/ []<>(rf # "idle")
  /\ []<>(client \in UDP!Polling => link.polled)

=============================================================================
