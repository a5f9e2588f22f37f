----------------------------- MODULE HostRemote -----------------------------
(***************************************************************************)
(* The mode controller with the remote control: commands come on the       *)
(* thread of the MQTT library and are carried out there, between any two   *)
(* steps of the main loop and without a lock.  Not modelled: the paging    *)
(* commands, which only queue a page, and RELOAD, which is IdLookup's.     *)
(***************************************************************************)
EXTENDS HostMode

CONSTANT RemoteTimeouts   \* the timeouts a mode command may ask for

ASSUME RemoteAssumption == "mqtt" \in Threads /\ RemoteTimeouts \subseteq Nat \ {0}

VARIABLE command    \* the command being carried out, and what is next of it

remoteVars == <<vars, command>>

NoCommand == [do |-> "nothing", proto |-> "none", on |-> FALSE]

\* The library delivers one message after the other.
Ready == command = NoCommand /\ Returned("mqtt")

Doing(what) == command.do = what /\ Returned("mqtt")

\* What `mode`, `enable` and `disable` can name.
Commanded == Protos \ {"POCSAG"}

RemoteInit == Init /\ command = NoCommand

-----------------------------------------------------------------------------
\* mode idle and mode lockout.
modeCommand(to) ==
  /\ Ready
  /\ m_fixedMode' = FALSE
  /\ setMode("mqtt", to)
  /\ UNCHANGED <<loop, m_mode, access, timers, m_cwIdPending, status, modem, command>>

\* mode <mode> [<timeout>|fixed]: the RF hang time first, none for FM, ...
processModeCommand(p) ==
  /\ Ready
  /\ p = "FM" => p \in enabled
  /\ m_fixedMode' = FALSE
  /\ m_modeTimer' = SetTimeout(m_modeTimer, IF p = "FM" THEN 0 ELSE RFHang)
  /\ command' = [NoCommand EXCEPT !.do = "argument", !.proto = p]
  /\ UNCHANGED <<loop, call, m_mode, access, m_dmrTXTimer, m_cwIdTimer,
                 dmrBeaconDurationTimer, m_cwIdPending, status, modem>>

\* ... then the argument.
processModeArgument ==
  /\ Doing("argument")
  /\ \/ UNCHANGED <<m_fixedMode, m_modeTimer>>
     \/ m_fixedMode' = TRUE /\ UNCHANGED m_modeTimer
     \/ /\ \E t \in RemoteTimeouts : m_modeTimer' = SetTimeout(m_modeTimer, t)
        /\ UNCHANGED m_fixedMode
  /\ setMode("mqtt", command.proto)
  /\ command' = NoCommand
  /\ UNCHANGED <<loop, m_mode, access, m_dmrTXTimer, m_cwIdTimer, dmrBeaconDurationTimer,
                 m_cwIdPending, status, modem>>

\* enable and disable: the flag, and with a change of it the configuration, ...
processEnableCommand(p, on) ==
  /\ Ready
  /\ enabled' = IF on THEN enabled \cup {p} ELSE enabled \ {p}
  /\ command' = [do |-> IF enabled' = enabled THEN "network" ELSE "config",
                 proto |-> p, on |-> on]
  /\ UNCHANGED <<loop, call, m_mode, m_fixedMode, ctlOn, netOn, timers, m_cwIdPending,
                 status, modem>>

\* ... which asks for MODE_IDLE, whatever the mode, ...
writeConfig ==
  /\ Doing("config")
  /\ modemMode' = "IDLE"
  /\ command' = [command EXCEPT !.do = "network"]
  /\ UNCHANGED <<loop, call, m_mode, m_fixedMode, access, timers, m_cwIdPending, status,
                 carrier, down>>

\* ... and the network, whatever the mode.  FM's is left alone.
enableNetwork ==
  /\ Doing("network")
  /\ netOn' = IF command.proto = "FM" THEN netOn
              ELSE IF command.on THEN netOn \cup {command.proto}
              ELSE netOn \ {command.proto}
  /\ command' = NoCommand
  /\ UNCHANGED <<loop, call, m_mode, m_fixedMode, enabled, ctlOn, timers, m_cwIdPending,
                 status, modem>>

\* cw: idle first, so that the text can be sent, and then the text.
CW ==
  /\ Ready
  /\ setMode("mqtt", "IDLE")
  /\ command' = [NoCommand EXCEPT !.do = "cw"]
  /\ UNCHANGED <<loop, m_mode, m_fixedMode, access, timers, m_cwIdPending, status, modem>>

sendCWId ==
  /\ Doing("cw")
  /\ command' = NoCommand
  /\ UNCHANGED vars

CommandArrives == \/ \E to \in {"IDLE", "LOCKOUT"} : modeCommand(to)
                  \/ \E p \in Commanded : processModeCommand(p)
                  \/ \E p \in Commanded, on \in BOOLEAN : processEnableCommand(p, on)
                  \/ CW

Remote == \/ processModeArgument \/ writeConfig \/ enableNetwork \/ sendCWId
          \/ (setModeStep("mqtt") \/ downlinkStep("mqtt")) /\ UNCHANGED command

RemoteNext == \/ Main /\ UNCHANGED command
              \/ CommandArrives
              \/ Remote

RemoteSpec == RemoteInit /\ [][RemoteNext]_remoteVars

-----------------------------------------------------------------------------
RemoteTypeOK ==
  /\ TypeOK
  /\ command \in [do : {"nothing", "argument", "config", "network", "cw"},
                  proto : Commanded \cup {"none"}, on : BOOLEAN]

=============================================================================
