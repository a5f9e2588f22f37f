----------------------------- MODULE Lifecycle ------------------------------
(***************************************************************************)
(* The life of the process: main with its restart loop, the part of        *)
(* CMMDVMHost::run that creates things and destroys them again, the signal *)
(* handler, and the threads of the MQTT library, which call back into the  *)
(* host at any time while their connection is open.  What the host does in *)
(* its loop is HostMode's; here the loop only serves m_reload.             *)
(*                                                                         *)
(* The process ends when fault is set: an assertion has failed, or memory  *)
(* that was freed was used and that was noticed.                           *)
(***************************************************************************)
EXTENDS Integers

CONSTANTS Signals,      \* the signals sent: subsets of {1, 2, 15}
          Messages,     \* the MQTT messages that come: "RELOAD", "mode", "display"
          Gateways,     \* whose clients the configuration asks for
          Failing,      \* the stages of run that may fail: "conf", "mqtt",
                        \* "modem", "networks"
          MaxSignals,   \* bound: signals sent
          MaxRuns       \* bound: runs

ASSUME LifeAssumption == /\ Signals \subseteq {1, 2, 15}
                         /\ Messages \subseteq {"RELOAD", "mode", "display"}
                         /\ Failing \subseteq {"conf", "mqtt", "modem", "networks"}
                         /\ MaxSignals \in Nat /\ MaxRuns \in Nat

VARIABLES main,         \* what main does next
          host,         \* the pointer: is there a CMMDVMHost?
          remote, modem,   \* m_remoteControl and m_modem of that host
          lookups,      \* are its reload threads alive?
          clients,      \* m_dstarNetwork, m_dmrNetwork ... of that host
          m_mqtt,       \* the connection m_mqtt points to, 0 for none
          abandoned,    \* connections left open and no longer pointed to
          client,       \* what the thread of each connection does
          m_signal, m_killed, m_reload,
          logged,       \* what main has logged of the last run
          fault,
          signals, runs \* how many there were

objects == <<host, remote, modem, lookups, clients>>
mqtt == <<m_mqtt, abandoned, client>>
flags == <<m_signal, m_killed, m_reload>>
counts == <<signals, runs>>
vars == <<main, objects, mqtt, flags, logged, fault, counts>>

Connections == 1 .. MaxRuns

NoClients == [g \in Gateways |-> "null"]

Init == /\ main = "reset"
        /\ host = FALSE
        /\ remote = "null" /\ modem = "null"
        /\ lookups = FALSE
        /\ clients = NoClients
        /\ m_mqtt = 0
        /\ abandoned = {}
        /\ client = [c \in Connections |-> "none"]
        /\ m_signal = 0 /\ m_killed = FALSE /\ m_reload = FALSE
        /\ logged = "nothing"
        /\ fault = "none"
        /\ signals = 0 /\ runs = 0

Goto(from, to) == main = from /\ main' = to

-----------------------------------------------------------------------------
(* main before the run, and run as far as the loop.                        *)

resetSignal == /\ Goto("reset", "resetKilled")
               /\ m_signal' = 0
               /\ UNCHANGED <<objects, mqtt, m_killed, m_reload, logged, fault, counts>>

resetKilled == /\ Goto("resetKilled", "new")
               /\ m_killed' = FALSE
               /\ UNCHANGED <<objects, mqtt, m_signal, m_reload, logged, fault, counts>>

newHost == /\ Goto("new", "conf")
           /\ runs < MaxRuns
           /\ runs' = runs + 1
           /\ host' = TRUE
           /\ remote' = "null" /\ modem' = "null" /\ clients' = NoClients
           /\ UNCHANGED <<lookups, mqtt, flags, logged, fault, signals>>

\* run returns 1, and leaves everything as it is, sockets that are open included, but
\* for a modem, or a client, that did not open.
returnEarly(stage) ==
  /\ stage \in Failing
  /\ Goto(stage, "delete")
  /\ modem' \in IF stage = "modem" THEN {"null", "live"} ELSE {modem}
  /\ UNCHANGED <<host, remote, lookups, clients, mqtt, flags, logged, fault, counts>>

\* With it goes becoming a daemon.
readConf == /\ Goto("conf", "mqtt")
            /\ UNCHANGED <<objects, mqtt, flags, logged, fault, counts>>

\* What m_mqtt pointed to, if a run that failed early left it open.
Overwritten == {m_mqtt} \ {0}

\* Mutant: the remote control comes with the connection it listens on.
openMqtt_Remote ==
  /\ Goto("mqtt", "newModem")
  /\ m_mqtt' = runs
  /\ client' = [client EXCEPT ![runs] = "idle"]
  /\ abandoned' = abandoned \cup Overwritten
  /\ remote' = "live"
  /\ UNCHANGED <<host, modem, lookups, clients, flags, logged, fault, counts>>

\* The thread of the library is started; without a broker the host goes on.
openMqtt ==
  /\ Goto("mqtt", "newModem")
  /\ \/ /\ m_mqtt' = runs
        /\ client' = [client EXCEPT ![runs] = "idle"]
     \/ /\ "mqtt" \in Failing
        /\ m_mqtt' = 0
        /\ UNCHANGED client
  /\ abandoned' = abandoned \cup Overwritten
  /\ UNCHANGED <<objects, flags, logged, fault, counts>>

\* The first part of createModem: the configuration, the modem and its port.
newModem == /\ Goto("newModem", "modem")
            /\ modem' = "live"
            /\ UNCHANGED <<host, remote, lookups, clients, mqtt, flags, logged, fault, counts>>

\* The rest of it: the modem is told its parameters, and opened.
openModem == /\ Goto("modem", "networks")
             /\ UNCHANGED <<objects, mqtt, flags, logged, fault, counts>>

\* createDStarNetwork, createDMRNetwork ... for the modes that are enabled; a mode the
\* firmware has not is none of them.
createNetwork(g) == /\ main = "networks"
                    /\ clients[g] = "null"
                    /\ clients' = [clients EXCEPT ![g] = "live"]
                    /\ UNCHANGED <<main, host, remote, modem, lookups, mqtt, flags, logged,
                                    fault, counts>>

\* Nothing can fail any more.  The id lookup, if a mode needs it, starts a thread if it
\* is to be reloaded.
createLookups == /\ Goto("networks", "controls")
                 /\ lookups' \in BOOLEAN
                 /\ UNCHANGED <<host, remote, modem, clients, mqtt, flags, logged, fault, counts>>

\* With that of NXDN comes its lookup.
createControls == /\ Goto("controls", "remote")
                  /\ lookups' \in {lookups, TRUE}
                  /\ UNCHANGED <<host, remote, modem, clients, mqtt, flags, logged, fault, counts>>

createRemote == /\ Goto("remote", "loop")
                /\ remote' = "live"
                /\ UNCHANGED <<host, modem, lookups, clients, mqtt, flags, logged, fault, counts>>

-----------------------------------------------------------------------------
(* The loop, and the rest of run.                                          *)

\* Mutant: the request stays.
iterate_KeepsReload == /\ main = "loop" /\ ~m_killed
                       /\ UNCHANGED vars

\* while (!m_killed): the iteration that finds m_reload set clears it.
iterate == /\ main = "loop" /\ ~m_killed
           /\ m_reload' = FALSE
           /\ UNCHANGED <<main, objects, mqtt, m_signal, m_killed, logged, fault, counts>>

leaveLoop == /\ Goto("loop", "stopLookups")
             /\ m_killed
             /\ UNCHANGED <<objects, mqtt, flags, logged, fault, counts>>

\* Their threads are joined.
stopLookups == /\ Goto("stopLookups", "closeNetworks")
               /\ lookups' = FALSE
               /\ UNCHANGED <<host, remote, modem, clients, mqtt, flags, logged, fault, counts>>

\* Neither here nor below are the pointers cleared, and the MQTT thread still runs.
closeNetworks == /\ Goto("closeNetworks", "deleteRemote")
                 /\ clients' = [g \in Gateways |-> IF clients[g] = "live" THEN "freed" ELSE "null"]
                 /\ UNCHANGED <<host, remote, modem, lookups, mqtt, flags, logged, fault, counts>>

deleteRemote == /\ Goto("deleteRemote", "deleteModem")
                /\ remote' = "freed"
                /\ UNCHANGED <<host, modem, lookups, clients, mqtt, flags, logged, fault, counts>>

deleteModem == /\ Goto("deleteModem", "closeMqtt")
               /\ modem' = "freed"
               /\ UNCHANGED <<host, remote, lookups, clients, mqtt, flags, logged, fault, counts>>

\* The library's thread is cancelled wherever it is, and joined.
Closed == [client EXCEPT ![m_mqtt] = "none"]

closeMqtt == /\ Goto("closeMqtt", "delete")
             /\ client' = IF m_mqtt # 0 THEN Closed ELSE client
             /\ m_mqtt' = 0
             /\ UNCHANGED <<objects, abandoned, flags, logged, fault, counts>>

-----------------------------------------------------------------------------
(* main after the run.                                                     *)

\* A command that is still being carried out goes on with what was the host.
deleteHost ==
  /\ Goto("delete", "switch")
  /\ host' = FALSE
  /\ client' = [c \in Connections |-> IF client[c] = "mode" THEN "stale" ELSE client[c]]
  /\ UNCHANGED <<remote, modem, lookups, clients, m_mqtt, abandoned, flags, logged, fault,
                  counts>>

\* The log says whether the process exits or restarts.
switchSignal ==
  /\ Goto("switch", "while")
  /\ logged' = CASE m_signal = 0 -> "nothing"
                 [] m_signal = 1 -> "restarting"
                 [] OTHER        -> "exited"
  /\ m_reload' = (m_reload \/ m_signal = 1)
  /\ UNCHANGED <<objects, mqtt, m_signal, m_killed, fault, counts>>

\* Mutant: whatever ended the run, it is started again.
Again_Always == TRUE

Again == m_reload \/ m_signal = 1

restart == /\ Goto("while", "reset")
           /\ Again
           /\ UNCHANGED <<objects, mqtt, flags, logged, fault, counts>>

LogFinalise == /\ Goto("while", "exit")
               /\ ~Again
               /\ client' = IF m_mqtt # 0 THEN Closed ELSE client
               /\ m_mqtt' = 0
               /\ UNCHANGED <<objects, abandoned, flags, logged, fault, counts>>

Main == \/ resetSignal \/ resetKilled \/ newHost \/ readConf \/ openMqtt
        \/ newModem \/ openModem \/ (\E g \in Gateways : createNetwork(g))
        \/ createLookups \/ createControls \/ createRemote
        \/ \E stage \in {"conf", "modem", "networks"} : returnEarly(stage)
        \/ iterate \/ leaveLoop \/ stopLookups \/ closeNetworks \/ deleteRemote \/ deleteModem
        \/ closeMqtt \/ deleteHost \/ switchSignal \/ restart \/ LogFinalise

-----------------------------------------------------------------------------
(* Signals and messages.                                                   *)

sigHandler == \E s \in Signals :
  /\ main # "exit"
  /\ signals < MaxSignals
  /\ signals' = signals + 1
  /\ m_killed' = TRUE
  /\ m_signal' = s
  /\ UNCHANGED <<main, objects, mqtt, m_reload, logged, fault, runs>>

\* Another thread comes upon freed memory: with luck nothing is noticed.
Used(object) == fault' \in IF object = "freed" THEN {"freed", "none"} ELSE {"none"}

\* onCommand, and the test of m_remoteControl in remoteControl.
onCommand(c) ==
  /\ client[c] = "idle"
  /\ IF ~host
       THEN /\ fault' = "assert host"
            /\ UNCHANGED client
       ELSE /\ Used(remote)
            /\ \E m \in Messages \ {"display"} :
                 client' = [client EXCEPT ![c] = IF remote = "null" THEN "idle" ELSE m]
  /\ UNCHANGED <<main, objects, m_mqtt, abandoned, flags, logged, counts>>

\* remoteControl, having found a remote control: RELOAD.
RELOAD(c) == /\ client[c] = "RELOAD"
             /\ m_reload' = TRUE
             /\ client' = [client EXCEPT ![c] = "idle"]
             /\ UNCHANGED <<main, objects, m_mqtt, abandoned, m_signal, m_killed, logged,
                             fault, counts>>

\* The other commands end in the modem, and switch clients on or off.
modeCommand(c) ==
  /\ client[c] \in {"mode", "stale"}
  /\ \/ client[c] = "stale" /\ Used("freed")
     \/ client[c] = "mode" /\ modem = "null" /\ fault' = "no modem"
     \/ /\ client[c] = "mode" /\ modem # "null"
        /\ \E o \in {modem} \cup {clients[g] : g \in Gateways} : Used(o)
  /\ client' = [client EXCEPT ![c] = "idle"]
  /\ UNCHANGED <<main, objects, m_mqtt, abandoned, flags, logged, counts>>

onDisplay(c) ==
  /\ client[c] = "idle"
  /\ "display" \in Messages
  /\ IF ~host THEN fault' = "assert host"
              ELSE IF modem = "null" THEN fault' = "assert modem"
                                     ELSE Used(modem)
  /\ UNCHANGED <<main, objects, mqtt, flags, logged, counts>>

Library(c) == onCommand(c) \/ RELOAD(c) \/ modeCommand(c) \/ onDisplay(c)

Next == /\ fault = "none"
        /\ \/ resetSignal \/ resetKilled \/ newHost \/ readConf \/ openMqtt
           \/ newModem \/ openModem \/ (\E g \in Gateways : createNetwork(g))
           \/ createLookups \/ createControls \/ createRemote
           \/ \E stage \in {"conf", "modem", "networks"} : returnEarly(stage)
           \/ iterate \/ leaveLoop \/ stopLookups \/ closeNetworks \/ deleteRemote \/ deleteModem
           \/ closeMqtt \/ deleteHost \/ switchSignal \/ restart \/ LogFinalise
           \/ sigHandler
           \/ \E c \in Connections : \/ onCommand(c) \/ RELOAD(c)
                                     \/ modeCommand(c) \/ onDisplay(c)

\* The main thread runs; signals and messages need not come.
Spec == Init /\ [][Next]_vars /\ WF_vars(fault = "none" /\ Main)

-----------------------------------------------------------------------------
Startup == {"new", "conf", "mqtt", "newModem", "modem", "networks", "controls", "remote"}
Shutdown == {"stopLookups", "closeNetworks", "deleteRemote", "deleteModem", "closeMqtt", "delete"}

\* main is inside run, or has not yet looked at the signal that ended it.
InRun == main \in Startup \cup {"loop"} \cup Shutdown \cup {"switch"}

\* When main returns, no thread of the lookups or of the MQTT library is left to
\* call into what is gone, although a run that fails early closes nothing itself:
\* unless the next run made another connection and lost sight of the first.
ExitsAlone ==
  main = "exit" => /\ ~lookups
                   /\ \A c \in Connections : client[c] # "none" => c \in abandoned

\* Whatever is open can still be closed: the open connection is the one m_mqtt
\* points to, through restarts and failed starts; again but for what a run that
\* failed early left behind.  So a restart after a full run finds none open.
OneConnection ==
  \A c \in Connections : client[c] # "none" => c \in {m_mqtt} \cup abandoned

\* A command that gets past the test of m_remoteControl finds a modem: none is
\* acted upon before the modem exists, in this run or the next.
CommandFindsModem == fault # "no modem"

\* Why: remoteControl looks for a remote control, run creates that after the modem
\* and the host deletes it before, and no command outlives its host.
LifeInv ==
  /\ lookups => main \in {"controls", "remote", "loop", "stopLookups"}
  /\ main = "exit" => m_mqtt = 0
  /\ host <=> main \in (Startup \ {"new"}) \cup {"loop"} \cup Shutdown
  /\ main \in Startup \ {"new"} => remote = "null"
  /\ main \in {"modem", "networks", "controls", "remote"} => modem = "live"
  /\ main \in {"loop", "stopLookups", "closeNetworks", "deleteRemote"} => remote # "null"
  /\ host /\ remote # "null" => modem # "null"
  /\ \A c \in Connections : client[c] = "mode" => host /\ remote # "null"

Terminated == main = "exit" \/ fault # "none"

\* Once run is under way, a SIGTERM or SIGINT ends the process, unless a SIGHUP
\* follows it or a reload is pending.  (One that comes between the two resets of
\* main is lost: it is on record in m_signal, and m_killed is FALSE.)
TermExits ==
  (InRun /\ m_killed /\ m_signal \in {2, 15}) ~> (Terminated \/ m_signal = 1 \/ m_reload)

\* A request to reload is served, in this run or in the next.
ReloadServed == m_reload ~> (~m_reload \/ Terminated \/ runs = MaxRuns)

=============================================================================
