----------------------------- MODULE ModemLink -----------------------------
(***************************************************************************)
(* The link to the modem: how CModem::open sets a modem up, how clock      *)
(* notices that it has fallen silent and opens it again, and how a remote  *)
(* command reconfigures it from another thread, whatever the main thread   *)
(* is doing.  Frames are whole here (ModemFraming cuts them out of the     *)
(* bytes), but for the one a modem falls silent in; a command's answer may *)
(* come after the host has stopped waiting for it.                         *)
(***************************************************************************)
EXTENDS Timers, Sequences

CONSTANTS Modes,         \* what a configuration switches on: sets of modes
          FMParameters,  \* how many FM parameter sets are written (3, or 4 with external FM)
          Protocols,     \* m_protocolVersion: 1 or 2
          MaxResponses,  \* MAX_RESPONSES
          Attempts,      \* the questions readVersion asks
          SilenceTime,   \* m_inactivityTimer, in periods of m_statusTimer
          MaxElapse,     \* bound: the longest time between two calls of clock
          MaxOutages, MaxRefusals, MaxOthers, MaxReconfigures, MaxBusyPorts,
          MaxStalls, MaxBadWrites,  \* bounds: what the environment does,
          MaxTroubles,   \* bound: and all of it together
          MaxTransit     \* bound: frames on the way in one direction

VARIABLES step,          \* where open() stands, or how it ended
          tries,         \* readVersion: i, setConfig and its like: count
          ours,          \* the configuration open() has put together and not written yet
          wanted,        \* the modes setModeParams was last given
          protocol, fm,  \* the firmware's protocol version, the FM parameter sets
          m_inactivityTimer,
          reconf,        \* processEnableCommand on its thread, see Resting
          toModem, toHost,
          modem,         \* the modem: alive, and the modes it is configured for
          heard,         \* a status was had since the link was opened
          lost,          \* why the modem may not have the configuration that is wanted
          left           \* what the environment may still do

link   == <<step, tries, ours, m_inactivityTimer, heard>>
host   == <<wanted, reconf>>
given  == <<protocol, fm>>
vars   == <<link, host, given, toModem, toHost, modem, lost, left>>

\* The command's thread: at rest, between setModeParams and writeConfig, in a read that
\* never returns; in between, the frames it may still read.
Resting == 0
Setting == MaxResponses + 1
Stuck   == MaxResponses + 2

\* The four commands that set the FM parameters; the last for external FM only.
FMSteps == <<"FM1", "FM2", "FM3", "FM4">>

\* What open() writes once it has the version, in this order: the FM parameters if FM is
\* enabled once the configuration is through with.
After(s) ==
  CASE s = "FREQ"   -> "CONFIG"
    [] s = "CONFIG" -> IF "FM" \in wanted /\ fm > 0 THEN FMSteps[1] ELSE "USE"
    [] OTHER        -> LET i == CHOOSE j \in DOMAIN FMSteps : FMSteps[j] = s
                       IN IF i >= fm THEN "USE" ELSE FMSteps[i + 1]

Commanding == step \in {"FREQ", "CONFIG", "FM1", "FM2", "FM3", "FM4"}

Ended == step \in {"EXITED", "CRASHED", "ABORTED"}

Init == /\ step = "VERSION"
        /\ tries = 0
        /\ ours = << >>
        /\ wanted \in Modes
        /\ protocol \in Protocols
        /\ fm \in FMParameters
        /\ m_inactivityTimer = SetTimeout(Unset, SilenceTime)
        /\ reconf = Resting
        /\ toModem = << >>
        /\ toHost = << >>
        /\ modem = [alive |-> TRUE, modes |-> {}]
        /\ heard = FALSE
        /\ lost = {"AWAY"}
        /\ left = [outages |-> MaxOutages, refusals |-> MaxRefusals, others |-> MaxOthers,
                   reconfigures |-> MaxReconfigures, busy |-> MaxBusyPorts,
                   stalls |-> MaxStalls, writes |-> MaxBadWrites,
                   all |-> MaxTroubles, first |-> TRUE]

Spend(what) == /\ left[what] > 0 /\ left.all > 0
               /\ left' = [left EXCEPT ![what] = @ - 1, !.all = @ - 1]

-----------------------------------------------------------------------------
(* The commands.                                                           *)

\* setConfig1: the firmware of protocol 1 has no FM; setConfig2 writes all.
Config1(modes) == modes \ {"FM"}

Config2(modes) == modes

ConfigOf(modes) == IF protocol = 1 THEN Config1(modes) ELSE Config2(modes)

Command(name, modes) == [name |-> name, modes |-> modes]

\* What is written to a modem that is not there is lost.
Send(command) == /\ Len(toModem) < MaxTransit
                 /\ toModem' = IF modem.alive THEN Append(toModem, command) ELSE toModem

\* Any other command than the configuration.
Write(name) == Send(Command(name, {}))

Asked(name) == \E i \in DOMAIN toModem : toModem[i].name = name

\* A whole frame is there to be read.
Readable == toHost # << >> /\ Head(toHost) \notin {"PART", "CUT"}

\* The main thread is in the midst of CUARTController::read, which has had the first
\* byte of a payload and waits for the rest, for ever if need be.
Blocked == ~Ended /\ toHost # << >> /\ Head(toHost) = "CUT"

-----------------------------------------------------------------------------
(* open().                                                                 *)

\* The port was deleted by an earlier failure: what follows uses a null pointer.
\* The first open() is createModem's, and its failure ends the program.
OpenFails == step' = IF left.first THEN "EXITED" ELSE "GONE"

\* readVersion asks; with no answer in some three seconds it asks again.  A question
\* that cannot be written ends open().
AskVersion == /\ step = "VERSION"
              /\ ~Asked("VERSION")
              /\ toHost = << >>
              /\ tries < Attempts
              /\ tries' = tries + 1
              /\ \/ Write("VERSION") /\ UNCHANGED <<step, left>>
                 \/ OpenFails /\ Spend("writes") /\ UNCHANGED toModem
              /\ UNCHANGED <<ours, m_inactivityTimer, heard, host, given, toHost, modem, lost>>

\* Mutant: the inactivity timer is left as it is.
ReadVersion_NoStop ==
  /\ step = "VERSION" /\ Readable
  /\ toHost' = Tail(toHost)
  /\ IF Head(toHost) # "VERSION"
       THEN UNCHANGED <<link, toModem, left>>
       ELSE /\ tries' = 0
            /\ \/ step' = "FREQ" /\ Write("FREQ") /\ UNCHANGED left
               \/ OpenFails /\ Spend("writes") /\ UNCHANGED toModem
            /\ UNCHANGED <<ours, m_inactivityTimer, heard>>
  /\ UNCHANGED <<host, given, modem, lost>>

ReadVersion ==
  /\ step = "VERSION" /\ Readable
  /\ toHost' = Tail(toHost)
  /\ IF Head(toHost) # "VERSION"
       THEN UNCHANGED <<link, toModem, left>>
       ELSE /\ tries' = 0
            /\ m_inactivityTimer' = Stop(m_inactivityTimer)
            /\ \/ step' = "FREQ" /\ Write("FREQ") /\ UNCHANGED left
               \/ OpenFails /\ Spend("writes") /\ UNCHANGED toModem
            /\ UNCHANGED <<ours, heard>>
  /\ UNCHANGED <<host, given, modem, lost>>

\* The last attempt brought nothing either.
NoVersion == /\ step = "VERSION"
             /\ ~Asked("VERSION") /\ toHost = << >>
             /\ tries = Attempts
             /\ OpenFails
             /\ UNCHANGED <<tries, ours, m_inactivityTimer, heard, host, given, toModem, toHost,
                            modem, lost, left>>

\* The next command cannot be written.
NotWritten == /\ OpenFails
              /\ Spend("writes")
              /\ UNCHANGED <<toModem, heard>>

\* The command is done with: the next one is written, or open() returns true.  The
\* configuration is put together first.
Proceed ==
  /\ tries' = 0
  /\ LET next == After(step)
     IN \/ next = "USE" /\ step' = "USE" /\ heard' = FALSE
           /\ left' = [left EXCEPT !.first = FALSE]
           /\ UNCHANGED <<toModem, ours>>
        \/ next = "CONFIG" /\ step' = "CONFIG" /\ ours' = <<ConfigOf(wanted)>>
           /\ UNCHANGED <<toModem, heard, left>>
        \/ next \notin {"USE", "CONFIG"} /\ step' = next /\ Write(next)
           /\ UNCHANGED <<ours, heard, left>>
        \/ next \notin {"USE", "CONFIG"} /\ NotWritten /\ UNCHANGED ours

\* The configuration open() has put together is written.
WriteConfig ==
  /\ ours # << >>
  /\ ours' = << >>
  /\ \/ Send(Command("CONFIG", ours[1])) /\ UNCHANGED <<step, heard, left>>
     \/ NotWritten
  /\ UNCHANGED <<tries, m_inactivityTimer, host, given, toHost, modem, lost>>

\* An acknowledgement, a refusal, or a frame of another kind, of which there may
\* not be too many.  Nothing says which command an answer is for.
Answered ==
  /\ Commanding /\ ours = << >> /\ Readable
  /\ toHost' = Tail(toHost)
  /\ CASE Head(toHost) = "ACK" -> Proceed
       [] Head(toHost) = "NAK" -> OpenFails /\ UNCHANGED <<tries, ours, toModem, heard, left>>
       [] OTHER -> /\ UNCHANGED <<ours, toModem, heard, left>>
                   /\ IF tries + 1 >= MaxResponses
                        THEN OpenFails /\ UNCHANGED tries
                        ELSE tries' = tries + 1 /\ UNCHANGED step
  /\ UNCHANGED <<m_inactivityTimer, host, given, modem, lost>>

\* Nothing to read after ten milliseconds counts as an acknowledgement.
Unanswered == /\ Commanding /\ ours = << >> /\ toHost = << >>
              /\ Proceed
              /\ UNCHANGED <<m_inactivityTimer, host, given, toHost, modem, lost>>

\* The frame the modem fell silent in is read.
ReadPart == /\ Commanding \/ step \in {"VERSION", "USE"}
            /\ ours = << >>
            /\ toHost # << >> /\ Head(toHost) = "PART"
            /\ toHost' = <<"CUT">>
            /\ UNCHANGED <<link, host, given, toModem, modem, lost, left>>

-----------------------------------------------------------------------------
(* clock(), once the modem is in use.                                      *)

\* The timers are clocked, the inactivity timer only once a status has come; the
\* status is asked for every period.
Clocked(ticks) ==
  /\ step = "USE" /\ ~Blocked
  /\ ~HasExpired(m_inactivityTimer)
  /\ m_inactivityTimer' = Clock(m_inactivityTimer, ticks)
  /\ IF Asked("STATUS") \/ Len(toModem) = MaxTransit
       THEN UNCHANGED toModem ELSE Write("STATUS")
  /\ UNCHANGED <<step, tries, ours, heard, host, given, toHost, modem, lost>>

\* A modem that is there answers within a period, and the loop reads it in time...
Tick == /\ toHost = << >>
        /\ modem.alive => toModem = << >>
        /\ Clocked(1)
        /\ UNCHANGED left

\* ...unless something else holds the loop up.
Stall == /\ Spend("stalls")
         /\ \E ticks \in 2 .. MaxElapse : Clocked(ticks)

\* Mutant: a status does not start the inactivity timer.
Receive_NoStart ==
  /\ step = "USE" /\ Readable
  /\ toHost' = Tail(toHost)
  /\ heard' = (heard \/ Head(toHost) = "STATUS")
  /\ UNCHANGED <<step, tries, ours, m_inactivityTimer, host, given, toModem, modem, lost, left>>

\* One frame is read and acted upon: a status shows that the modem is there; an
\* acknowledgement or a refusal that comes late is logged at most.
Receive ==
  /\ step = "USE" /\ Readable
  /\ ~HasExpired(m_inactivityTimer)
  /\ toHost' = Tail(toHost)
  /\ IF Head(toHost) = "STATUS"
       THEN m_inactivityTimer' = Start(m_inactivityTimer) /\ heard' = TRUE
       ELSE UNCHANGED <<m_inactivityTimer, heard>>
  /\ UNCHANGED <<step, tries, ours, host, given, toModem, modem, lost, left>>

\* No reply for some time: the port is closed, and so is what was on its way.  open()
\* begins after two seconds, and writes the configuration again.
Reset == /\ step = "USE" /\ ~Blocked
         /\ HasExpired(m_inactivityTimer)
         /\ step' = "CLOSED"
         /\ tries' = 0
         /\ toHost' = << >>
         /\ toModem' = << >>
         /\ lost' = lost \ {"CROSSED", "UNWRITTEN"}
         /\ UNCHANGED <<ours, m_inactivityTimer, heard, host, given, modem, left>>

\* The port is opened; while it cannot be, open() is tried again after five seconds.
Retry == /\ step = "CLOSED"
         /\ \/ step' = "VERSION" /\ UNCHANGED left
            \/ Spend("busy") /\ UNCHANGED step
         /\ UNCHANGED <<tries, ours, m_inactivityTimer, heard, host, given, toModem, toHost, modem,
                        lost>>

\* open() failed with the port open, and deleted it: the next open() uses it.
RetryGone == /\ step = "GONE"
             /\ step' = "CRASHED"
             /\ UNCHANGED <<tries, ours, m_inactivityTimer, heard, host, given, toModem, toHost,
                            modem, lost, left>>

-----------------------------------------------------------------------------
(* processEnableCommand, called on the thread the command arrived on, once *)
(* the modem was opened a first time.  Nothing keeps it from coming while  *)
(* the main thread is in clock, or in the open() it calls there.           *)

\* The mode is switched on or off, and the modem told.
Reconfigure ==
  /\ reconf = Resting
  /\ ~left.first /\ ~Ended
  /\ Spend("reconfigures")
  /\ \E modes \in Modes \ {wanted} : wanted' = modes
  /\ reconf' = Setting
  /\ UNCHANGED <<link, given, toModem, toHost, modem, lost>>

\* Mutant: the new modes are not written.
ReconfigureWrites_Not ==
  /\ reconf = Setting /\ ~Ended
  /\ reconf' = Resting
  /\ UNCHANGED <<wanted, link, given, toModem, toHost, modem, lost, left>>

\* writeConfig: a failed write is logged.  What open() has put together meanwhile, and
\* writes later, is older.  A port that is closed or deleted ends the program.
ReconfigureWrites ==
  /\ reconf = Setting /\ ~Ended
  /\ \/ /\ step \in {"CLOSED", "GONE"}
        /\ step' = "ABORTED"
        /\ UNCHANGED <<reconf, toModem, lost, left>>
     \/ /\ step \notin {"CLOSED", "GONE"}
        /\ reconf' = MaxResponses
        /\ Send(Command("CONFIG", ConfigOf(wanted)))
        /\ lost' = IF ours # << >> THEN lost \cup {"CROSSED"} ELSE lost
        /\ UNCHANGED <<step, left>>
     \/ /\ step \notin {"CLOSED", "GONE"}
        /\ Spend("writes")
        /\ reconf' = Resting
        /\ lost' = IF step \notin {"VERSION", "FREQ"} THEN lost \cup {"UNWRITTEN"} ELSE lost
        /\ UNCHANGED <<step, toModem>>
  /\ UNCHANGED <<wanted, tries, ours, m_inactivityTimer, heard, given, toHost, modem>>

\* It waits as open() does, and reads frames meant for clock meanwhile.
ReconfigureReads ==
  /\ reconf \in 1 .. MaxResponses
  /\ ~Blocked
  /\ IF toHost = << >>
       THEN reconf' = Resting /\ UNCHANGED toHost
       ELSE /\ toHost' = Tail(toHost)
            /\ reconf' = CASE Head(toHost) \in {"ACK", "NAK"} -> Resting
                           [] Head(toHost) = "PART"           -> Stuck
                           [] OTHER                           -> reconf - 1
  /\ UNCHANGED <<wanted, link, given, toModem, modem, lost, left>>

-----------------------------------------------------------------------------
(* The modem.                                                              *)

\* What it sends completes the frame it fell silent in, if there is one.
Replies(answer) ==
  IF toHost # << >> /\ toHost[Len(toHost)] \in {"PART", "CUT"}
    THEN toHost' = [toHost EXCEPT ![Len(toHost)] = "OTHER"]
    ELSE Len(toHost) < MaxTransit /\ toHost' = Append(toHost, answer)

\* It takes a command and answers it; a refused one changes nothing.
ModemTakes ==
  /\ modem.alive /\ toModem # << >>
  /\ toModem' = Tail(toModem)
  /\ LET c == Head(toModem)
     IN \/ /\ c.name \in {"VERSION", "STATUS"}
           /\ Replies(c.name)
           /\ UNCHANGED <<modem, lost, left>>
        \/ /\ c.name \notin {"VERSION", "STATUS"}
           /\ Replies("ACK")
           /\ modem' = IF c.name = "CONFIG" THEN [modem EXCEPT !.modes = c.modes] ELSE modem
           /\ lost' = IF c.name = "CONFIG" THEN lost \ {"AWAY", "REFUSED"} ELSE lost
           /\ UNCHANGED left
        \/ /\ c.name \notin {"VERSION", "STATUS"}
           /\ Replies("NAK")
           /\ Spend("refusals")
           /\ lost' = IF c.name = "CONFIG" THEN lost \cup {"REFUSED"} ELSE lost
           /\ UNCHANGED modem
  /\ UNCHANGED <<link, host, given>>

\* A frame nobody asked for: received data, a debug message.
ModemTalks == /\ modem.alive
              /\ Replies("OTHER")
              /\ Spend("others")
              /\ UNCHANGED <<link, host, given, toModem, modem, lost>>

\* The cable, or the power, fails; what was under way to the modem is lost.  A frame may
\* have been under way the other way, of which the beginning of the payload is there.
ModemFails == /\ modem.alive
              /\ Spend("outages")
              /\ modem' = [modem EXCEPT !.alive = FALSE]
              /\ toModem' = << >>
              /\ lost' = lost \cup {"AWAY"}
              /\ \/ UNCHANGED toHost
                 \/ Len(toHost) < MaxTransit /\ toHost' = Append(toHost, "PART")
              /\ UNCHANGED <<link, host, given>>

\* It comes back, with its configuration or without; nothing tells the host.
ModemReturns == /\ ~modem.alive
                /\ \E modes \in {modem.modes, {}} : modem' = [alive |-> TRUE, modes |-> modes]
                /\ toModem' = << >>
                /\ UNCHANGED <<link, host, given, toHost, lost, left>>

-----------------------------------------------------------------------------
Loop == \/ AskVersion \/ ReadVersion \/ NoVersion \/ WriteConfig \/ Answered \/ Unanswered
        \/ ReadPart \/ Tick \/ Receive \/ Reset \/ Retry \/ RetryGone

Next == \/ Loop \/ Stall \/ Reconfigure \/ ReconfigureWrites \/ ReconfigureReads
        \/ ModemTakes \/ ModemTalks \/ ModemFails \/ ModemReturns

\* The loop runs on, unless it is Blocked, so does the thread that reconfigures, and a
\* modem that is there answers.
Fairness == WF_vars(Loop) /\ WF_vars(ReconfigureReads) /\ WF_vars(ModemTakes)

Spec == Init /\ [][Next]_vars /\ Fairness

-----------------------------------------------------------------------------
(* Properties.                                                             *)

\* While the modem is in use, no command is about to write to it and no configuration
\* is under way, it is configured for the modes the host means it to have, in the form
\* of its protocol version, wherever in clock or open() a command came, and whoever read
\* its answer.  Except that nothing is done about a configuration the modem refused, if
\* that answer is not the one that is waited for, nor about one a command failed to
\* write, or wrote before open() wrote an older one; nor about a modem that was away and
\* back unnoticed.
ModesAgree ==
  (step = "USE" /\ reconf # Setting /\ ~Asked("CONFIG") /\ lost = {}) =>
    modem.modes = ConfigOf(wanted)

\* A modem in use that answered once and then falls silent is reset; unless it fell
\* silent in the midst of a payload and the main thread waits for the rest of it.
SilenceNoticed == []<>~(step = "USE" /\ heard /\ ~modem.alive /\ ~Blocked)

\* A modem that is there for good is in use for good in the end, whatever resets
\* there were before; unless the program has ended over a failed open, or over a
\* command while the port was closed, or the main thread waits for the rest of a frame.
ComesBack ==
  <>[](modem.alive) => <>[](step = "USE") \/ <>Ended \/ <>[]Blocked

\* clock asserts that there is a port; so does every open() after the first.
PortThere == step # "CRASHED"

=============================================================================
