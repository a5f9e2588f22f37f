-------------------------- MODULE Lifecycle_proofs --------------------------
(***************************************************************************)
(* What the order in which the process creates and destroys things is good *)
(* for, whatever signals and messages come, and however often it restarts. *)
(***************************************************************************)
EXTENDS Lifecycle, TLAPS

ClientType == client \in [Connections -> {"none", "idle", "RELOAD", "mode", "stale"}]

Safe == ClientType /\ OneConnection /\ LifeInv /\ CommandFindsModem

LEMMA SafeInit == ASSUME Init PROVE Safe
BY DEF Init, Safe, ClientType, OneConnection, LifeInv, CommandFindsModem, Startup, Shutdown

-----------------------------------------------------------------------------
(* The connections.                                                        *)

LEMMA ClientStep ==
  ASSUME ClientType, OneConnection, [Next]_vars
  PROVE  ClientType' /\ OneConnection'
<1>0. \A c \in Connections : c # 0
  BY LifeAssumption DEF LifeAssumption, Connections
<1>1. CASE openMqtt
  <2>1. CASE m_mqtt' = runs /\ client' = [client EXCEPT ![runs] = "idle"]
    BY <1>0, <1>1, <2>1 DEF openMqtt, Overwritten, ClientType, OneConnection
  <2>2. CASE m_mqtt' = 0 /\ UNCHANGED client
    BY <1>0, <1>1, <2>2 DEF openMqtt, Overwritten, ClientType, OneConnection
  <2> QED
    BY <1>1, <2>1, <2>2 DEF openMqtt
<1>2. CASE closeMqtt \/ LogFinalise
  <2>1. m_mqtt' = 0 /\ abandoned' = abandoned
    BY <1>2 DEF closeMqtt, LogFinalise
  <2>2. CASE m_mqtt # 0
    <3>1. client' = [client EXCEPT ![m_mqtt] = "none"]
      BY <1>2, <2>2 DEF closeMqtt, LogFinalise, Closed
    <3> QED
      BY <2>1, <3>1 DEF ClientType, OneConnection
  <2>3. CASE m_mqtt = 0
    <3>1. UNCHANGED client
      BY <1>2, <2>3 DEF closeMqtt, LogFinalise
    <3> QED
      BY <2>1, <2>3, <3>1 DEF ClientType, OneConnection
  <2> QED
    BY <2>2, <2>3
<1>3. CASE deleteHost
  BY <1>3 DEF deleteHost, ClientType, OneConnection
<1>4. CASE \E c \in Connections : Library(c)
  <2>1. PICK c \in Connections : Library(c)
    BY <1>4
  <2>2. UNCHANGED <<m_mqtt, abandoned>> /\ (client[c] # "none" \/ UNCHANGED client)
    BY <2>1 DEF Library, onCommand, RELOAD, modeCommand, onDisplay, mqtt
  <2>3. PICK does \in {"idle", "RELOAD", "mode", "stale"} :
          client' = [client EXCEPT ![c] = does] \/ UNCHANGED client
    BY <2>1, LifeAssumption DEF LifeAssumption, Library, onCommand, RELOAD, modeCommand,
       onDisplay, mqtt
  <2> QED
    BY <2>2, <2>3 DEF ClientType, OneConnection
<1>5. CASE \/ resetSignal \/ resetKilled \/ newHost \/ readConf \/ newModem \/ openModem
           \/ (\E g \in Gateways : createNetwork(g)) \/ createLookups \/ createControls
           \/ createRemote \/ (\E stage \in {"conf", "modem", "networks"} : returnEarly(stage))
           \/ iterate \/ leaveLoop \/ stopLookups \/ closeNetworks \/ deleteRemote
           \/ deleteModem \/ switchSignal \/ restart \/ sigHandler \/ UNCHANGED vars
  <2>1. UNCHANGED <<m_mqtt, abandoned, client>>
    BY <1>5 DEF resetSignal, resetKilled, newHost, readConf, newModem, openModem,
       createNetwork, createLookups, createControls, createRemote, returnEarly, iterate,
       leaveLoop, stopLookups, closeNetworks, deleteRemote, deleteModem, switchSignal, restart,
       sigHandler, vars, mqtt
  <2> QED
    BY <2>1 DEF ClientType, OneConnection
<1> QED
  BY <1>1, <1>2, <1>3, <1>4, <1>5 DEF Next, Library

-----------------------------------------------------------------------------
(* The objects.                                                            *)

LEMMA LifeMain ==
  ASSUME ClientType, LifeInv, Main
  PROVE  LifeInv'
<1> USE DEF Startup, Shutdown, Goto
<1>1. CASE resetSignal \/ resetKilled \/ readConf \/ openModem \/ leaveLoop \/ restart
  BY <1>1 DEF resetSignal, resetKilled, readConf, openModem, leaveLoop, restart, objects, mqtt,
     LifeInv
<1>2. CASE newHost
  BY <1>2 DEF newHost, mqtt, LifeInv
<1>3. CASE \E stage \in {"conf", "modem", "networks"} : returnEarly(stage)
  <2>1. PICK stage \in {"conf", "modem", "networks"} : returnEarly(stage)
    BY <1>3
  <2>2. /\ main = stage /\ main' = "delete" /\ host /\ remote = "null" /\ ~lookups
        /\ UNCHANGED <<host, remote, lookups, client, m_mqtt>>
    BY <2>1 DEF returnEarly, mqtt, LifeInv
  <2> QED
    BY <2>2 DEF LifeInv
<1>4. CASE openMqtt
  <2>1. \A c \in Connections : client'[c] = "mode" => client[c] = "mode"
    BY <1>4 DEF openMqtt, ClientType
  <2>2. main = "mqtt" /\ main' = "newModem" /\ UNCHANGED <<host, remote, modem, lookups>>
    BY <1>4 DEF openMqtt, objects
  <2> QED
    BY <2>1, <2>2 DEF LifeInv
<1>5. CASE \/ newModem \/ (\E g \in Gateways : createNetwork(g))
           \/ createLookups \/ createRemote
  BY <1>5 DEF newModem, createNetwork, createLookups, createRemote, mqtt, LifeInv
<1>5a. CASE createControls
  <2>1. main = "controls" /\ main' = "remote" /\ UNCHANGED <<host, remote, modem, client, m_mqtt>>
    BY <1>5a DEF createControls, mqtt
  <2>2. modem = "live" /\ remote = "null" /\ host
    BY <2>1 DEF LifeInv
  <2> QED
    BY <2>1, <2>2 DEF LifeInv
<1>6. CASE iterate
  BY <1>6 DEF iterate, objects, mqtt, LifeInv
<1>7. CASE stopLookups \/ closeNetworks \/ deleteRemote \/ deleteModem
  BY <1>7 DEF stopLookups, closeNetworks, deleteRemote, deleteModem, mqtt, LifeInv
<1>8. CASE closeMqtt
  <2>1. \A c \in Connections : client'[c] = "mode" => client[c] = "mode"
    BY <1>8 DEF closeMqtt, Closed, ClientType
  <2>2. main = "closeMqtt" /\ main' = "delete" /\ UNCHANGED objects
    BY <1>8 DEF closeMqtt
  <2> QED
    BY <2>1, <2>2 DEF objects, LifeInv
<1>9. CASE deleteHost
  <2>1. \A c \in Connections : client'[c] # "mode"
    BY <1>9 DEF deleteHost, ClientType
  <2>2. /\ main = "delete" /\ main' = "switch" /\ host' = FALSE
        /\ UNCHANGED <<remote, modem, lookups>>
    BY <1>9 DEF deleteHost
  <2> QED
    BY <2>1, <2>2 DEF LifeInv
<1>10. CASE switchSignal
  BY <1>10 DEF switchSignal, objects, mqtt, LifeInv
<1>11. CASE LogFinalise
  <2>1. \A c \in Connections : client'[c] = "mode" => client[c] = "mode"
    BY <1>11 DEF LogFinalise, Closed, ClientType
  <2>2. main = "while" /\ main' = "exit" /\ m_mqtt' = 0 /\ UNCHANGED objects
    BY <1>11 DEF LogFinalise
  <2> QED
    BY <2>1, <2>2 DEF objects, LifeInv
<1> QED
  BY <1>1, <1>2, <1>3, <1>4, <1>5, <1>5a, <1>6, <1>7, <1>8, <1>9, <1>10, <1>11 DEF Main

\* A command is taken up only by a host with a remote control.
LEMMA LifeLibrary ==
  ASSUME ClientType, LifeInv, NEW c \in Connections, Library(c)
  PROVE  LifeInv'
<1>1. UNCHANGED <<main, objects, m_mqtt>>
  BY DEF Library, onCommand, RELOAD, modeCommand, onDisplay, mqtt
<1>2. ASSUME NEW d \in Connections, client'[d] = "mode"
      PROVE  client[d] = "mode" \/ (host /\ remote # "null")
  <2>1. CASE onCommand(c)
    BY <1>2, <2>1 DEF onCommand, ClientType
  <2>2. CASE RELOAD(c) \/ modeCommand(c) \/ onDisplay(c)
    BY <1>2, <2>2 DEF RELOAD, modeCommand, onDisplay, mqtt, ClientType
  <2> QED
    BY <2>1, <2>2 DEF Library
<1>3. UNCHANGED <<main, host, remote, modem, lookups, m_mqtt>>
  BY <1>1 DEF objects
<1> QED
  BY <1>2, <1>3 DEF LifeInv

LEMMA SafeStep ==
  ASSUME Safe, [Next]_vars
  PROVE  Safe'
<1>0. ClientType /\ OneConnection /\ LifeInv /\ CommandFindsModem
  BY DEF Safe
<1>1. ClientType' /\ OneConnection'
  BY <1>0, ClientStep
<1>2. CASE Main
  <2>1. LifeInv'
    BY <1>0, <1>2, LifeMain
  <2>2. UNCHANGED fault
    BY <1>2 DEF Main, resetSignal, resetKilled, newHost, returnEarly, readConf, openMqtt,
       newModem, openModem, createNetwork, createLookups, createControls, createRemote, iterate,
       leaveLoop, stopLookups, closeNetworks, deleteRemote, deleteModem, closeMqtt, deleteHost,
       switchSignal, restart, LogFinalise
  <2> QED
    BY <1>0, <1>1, <2>1, <2>2 DEF Safe, CommandFindsModem
<1>3. CASE \E c \in Connections : Library(c)
  <2>1. PICK c \in Connections : Library(c)
    BY <1>3
  <2>2. LifeInv'
    BY <1>0, <2>1, LifeLibrary
  <2>3. fault' # "no modem"
    <3>1. CASE modeCommand(c)
      <4>1. client[c] = "mode" => modem # "null"
        BY <1>0 DEF LifeInv
      <4>2. \A o \in {"null", "live", "freed"} \cup {modem} \cup {clients[g] : g \in Gateways} :
              Used(o) => fault' # "no modem"
        BY DEF Used
      <4> QED
        BY <3>1, <4>1, <4>2 DEF modeCommand
    <3>2. CASE RELOAD(c) \/ onCommand(c) \/ onDisplay(c)
      BY <1>0, <3>2 DEF RELOAD, onCommand, onDisplay, Used, CommandFindsModem
    <3> QED
      BY <2>1, <3>1, <3>2 DEF Library
  <2> QED
    BY <1>1, <2>2, <2>3 DEF Safe, CommandFindsModem
<1>4. CASE sigHandler \/ UNCHANGED vars
  <2>1. UNCHANGED <<main, host, remote, modem, lookups, m_mqtt, client, fault>>
    BY <1>4 DEF sigHandler, vars, objects, mqtt
  <2> QED
    BY <1>0, <1>1, <2>1 DEF Safe, LifeInv, CommandFindsModem
<1> QED
  BY <1>2, <1>3, <1>4 DEF Next, Main, Library

\* No command is acted upon before there is a modem, every open connection can
\* still be closed or was abandoned by a run that failed, and when main returns only
\* such a connection still has a thread: for any number of signals and restarts.
THEOREM LifeIsSafe == Spec => [](CommandFindsModem /\ OneConnection /\ ExitsAlone)
<1>1. Init => Safe
  BY SafeInit
<1>2. Safe /\ [Next]_vars => Safe'
  BY SafeStep
<1>3. Safe => CommandFindsModem /\ OneConnection /\ ExitsAlone
  <2>1. \A c \in Connections : c # 0
    BY LifeAssumption DEF LifeAssumption, Connections
  <2> QED
    BY <2>1 DEF Safe, LifeInv, OneConnection, ExitsAlone
<1> QED
  BY <1>1, <1>2, <1>3, PTL DEF Spec

=============================================================================
