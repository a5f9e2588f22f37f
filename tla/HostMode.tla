------------------------------ MODULE HostMode ------------------------------
(***************************************************************************)
(* The mode controller: the main loop of CMMDVMHost::run and setMode.  All *)
(* protocols share one modem; the first to receive a frame, from the air   *)
(* or from its network, takes the modem into its mode, and gives it back   *)
(* when its hang time has run out.  Station identification (CW), the DMR   *)
(* downlink carrier and the DMR roaming beacons hang on the same mode.     *)
(*                                                                         *)
(* Only the main loop acts here.  setMode, and whatever is done to the DMR *)
(* downlink, is split where another thread could see it half done, so that *)
(* a second caller can be composed; a single call of a timer is one step.  *)
(*                                                                         *)
(* One tick is the time in which a loop that is not held up surely has a   *)
(* fresh status of the modem, which it asks for every 250 ms: a third of a *)
(* second.  An iteration that is held up, in the first place by reopening  *)
(* the modem, which sleeps four seconds and more inside CModem::clock, is  *)
(* accounted for in the next one.  Not modelled: DMR trunking, AX.25.      *)
(***************************************************************************)
EXTENDS Integers, Timers

CONSTANTS Threads,      \* the threads that may call setMode; "main" is the loop's
          Protos,       \* the protocols that are configured
          Duplex,       \* m_duplex
          Beacons,      \* whether DMR roaming beacons are configured
          RFHang,       \* m_xxxRFModeHang
          NetHang,      \* m_xxxNetModeHang
          CWIdTime,     \* m_cwIdTime, 0 when the CW ID is disabled
          TXHang,       \* the timeout of m_dmrTXTimer
          BeaconTime,   \* the timeout of dmrBeaconDurationTimer
          MaxTick       \* bound: the most ticks one iteration takes

AllProtos == {"D-Star", "DMR", "YSF", "P25", "NXDN", "M17", "POCSAG", "FM"}

ASSUME HostAssumption ==
  /\ "main" \in Threads
  /\ Protos \subseteq AllProtos
  /\ Duplex \in BOOLEAN
  /\ Beacons \in BOOLEAN /\ (Beacons => "DMR" \in Protos)
  /\ {RFHang, NetHang, CWIdTime, TXHang, BeaconTime, MaxTick} \subseteq Nat

VARIABLES
  pc,           \* what the loop does next
  ms,           \* the ticks this iteration accounts for
  frame,        \* the protocol that had a frame in this iteration, or "none"
  call,         \* setMode in progress: its argument and how far it got
  m_mode, m_fixedMode,
  enabled,      \* the protocols whose m_xxxEnabled is set
  ctlOn,        \* the controls that are enabled
  netOn,        \* the networks that are enabled
  m_modeTimer, m_dmrTXTimer, m_cwIdTimer, dmrBeaconDurationTimer,
  m_cwIdPending,
  m_tx, m_cd, m_lockout, m_error,   \* CModem's view of the modem
  modemMode,    \* the mode the modem itself is in
  carrier,      \* the DMR downlink of the modem: started, on for a status, off
  downlink,     \* what each thread is doing to the downlink, and how far it got
  slow,         \* observer: an iteration took more than a tick, downlink not off since
  crossed       \* observer: two threads were at the downlink at once, not off since

loop    == <<pc, ms, frame>>
access  == <<enabled, ctlOn, netOn>>
timers  == <<m_modeTimer, m_dmrTXTimer, m_cwIdTimer, dmrBeaconDurationTimer>>
status  == <<m_tx, m_cd, m_lockout, m_error>>
down    == <<downlink, slow, crossed>>
modem   == <<modemMode, carrier, down>>

vars == <<loop, call, m_mode, m_fixedMode, access, timers, m_cwIdPending,
          status, modem>>

Modes == Protos \cup {"IDLE", "LOCKOUT", "ERROR"}

Phases == {"switch", "modem", "mode", "timer", "done"}

Quiescent == [to |-> "IDLE", at |-> "done"]

Idle(t) == downlink[t] = "idle"

Returned(t) == call[t].at = "done" /\ Idle(t)

\* Protocols that setMode switches on whether or not they are enabled.
Unconditional == Protos \cap {"POCSAG"}

MayRun == enabled \cup Unconditional

-----------------------------------------------------------------------------
(* The downlink.  Whoever starts it calls writeDMRStart(true) and starts   *)
(* the timer, whoever stops it writeDMRStart(false) and stops the timer:   *)
(* two steps, without a lock.  writeDMRStart sends nothing when the status *)
(* already agrees, and the status may be a poll behind.                    *)

Started(c) == IF m_tx \/ c = "on" THEN c ELSE "starting"

\* Mutant: the status test inverted.
Stopped_Inverted(c) == IF m_tx THEN c ELSE "off"

Stopped(c) == IF m_tx THEN "off" ELSE c

Crossing(t) == \E u \in Threads \ {t} : ~Idle(u)

GoOn(t, what) == downlink' = [downlink EXCEPT ![t] = what]

Begin(t, what) == GoOn(t, what) /\ crossed' = (crossed \/ Crossing(t))

writeDMRStart(t) ==
  /\ \/ downlink[t] = "start" /\ carrier' = Started(carrier) /\ GoOn(t, "started")
     \/ downlink[t] = "stop" /\ carrier' = Stopped(carrier) /\ GoOn(t, "stopped")
  /\ UNCHANGED <<loop, call, m_mode, m_fixedMode, access, timers, m_cwIdPending,
                 status, modemMode, slow, crossed>>

timeDownlink(t) ==
  /\ \/ downlink[t] = "started" /\ m_dmrTXTimer' = Start(m_dmrTXTimer)
     \/ downlink[t] = "stopped" /\ m_dmrTXTimer' = Stop(m_dmrTXTimer)
  /\ GoOn(t, "idle")
  /\ crossed' = (Crossing(t) \/ (crossed /\ carrier # "off"))
  /\ UNCHANGED <<loop, call, m_mode, m_fixedMode, access, m_modeTimer, m_cwIdTimer,
                 dmrBeaconDurationTimer, m_cwIdPending, status, modemMode, carrier, slow>>

downlinkStep(t) == writeDMRStart(t) \/ timeDownlink(t)

-----------------------------------------------------------------------------
(* setMode.                                                                *)

\* Mutant: the transmit status left to writeDMRStart alone.
LeavesDMR_Unseen(to) == /\ to \in {"FM", "LOCKOUT", "ERROR", "IDLE"}
                        /\ m_mode = "DMR" /\ Duplex
                        /\ to = "IDLE" => "DMR" \in enabled

\* setMode stops the DMR downlink when DMR is left for one of these.
LeavesDMR(to) == /\ to \in {"FM", "LOCKOUT", "ERROR", "IDLE"}
                 /\ m_mode = "DMR" /\ Duplex /\ m_tx
                 /\ to = "IDLE" => "DMR" \in enabled

\* Mutant: the others are left as they are.
SwitchedOn_Additive(on, to) == CASE to \in Protos -> on \cup ({to} \cap MayRun)
                                 [] to = "IDLE"   -> on \cup MayRun
                                 [] OTHER         -> {}

\* The networks and the controls, all of them alike, after setMode(to).
SwitchedOn(on, to) == CASE to \in Protos -> {to} \cap (on \cup MayRun)
                        [] to = "IDLE"   -> on \cup MayRun
                        [] OTHER         -> {}

setModeSwitch(t) ==
  /\ call[t].at = "switch"
  /\ LET to == call[t].to
     IN /\ netOn' = SwitchedOn(netOn, to)
        /\ ctlOn' = SwitchedOn(ctlOn, to)
        /\ IF LeavesDMR(to) THEN Begin(t, "stop") ELSE UNCHANGED <<downlink, crossed>>
        /\ call' = [call EXCEPT ![t] = IF to \in Protos \ MayRun
                                          THEN Quiescent ELSE [@ EXCEPT !.at = "modem"]]
  /\ UNCHANGED <<loop, m_mode, m_fixedMode, enabled, timers, m_cwIdPending, status,
                 modemMode, carrier, slow>>

\* Mutant: the interval set but not started.
Rearmed_Unstarted(t) == SetTimeout(t, CWIdTime)

Rearmed(t) == Start(SetTimeout(t, CWIdTime))

\* The mode CModem::setMode is called with, if it is.
ModemModeFor(to) == CASE to = "LOCKOUT" -> "IDLE"
                      [] to = "ERROR"   -> modemMode
                      [] OTHER          -> to

\* CModem::setMode, then the DMR start, or the identification on leaving ERROR.
setModeModem(t) ==
  /\ call[t].at = "modem"
  /\ LET to == call[t].to
     IN /\ modemMode' = ModemModeFor(to)
        /\ IF to = "DMR" /\ Duplex THEN Begin(t, "start") ELSE UNCHANGED <<downlink, crossed>>
        /\ IF to = "IDLE" /\ m_mode = "ERROR"
             THEN /\ m_cwIdPending' = FALSE
                  /\ m_cwIdTimer' = Rearmed(m_cwIdTimer)
             ELSE UNCHANGED <<m_cwIdPending, m_cwIdTimer>>
  /\ call' = [call EXCEPT ![t].at = "mode"]
  /\ UNCHANGED <<loop, m_mode, m_fixedMode, access, m_modeTimer, m_dmrTXTimer,
                 dmrBeaconDurationTimer, status, carrier, slow>>

setModeAssign(t) ==
  /\ call[t].at = "mode"
  /\ m_mode' = call[t].to
  /\ call' = [call EXCEPT ![t].at = "timer"]
  /\ UNCHANGED <<loop, m_fixedMode, access, timers, m_cwIdPending, status, modem>>

HangTimer(to) == IF to \in Protos THEN Start(m_modeTimer) ELSE Stop(m_modeTimer)

setModeTimer(t) ==
  /\ call[t].at = "timer"
  /\ m_modeTimer' = HangTimer(call[t].to)
  /\ call' = [call EXCEPT ![t] = Quiescent]
  /\ UNCHANGED <<loop, m_mode, m_fixedMode, access, m_dmrTXTimer, m_cwIdTimer,
                 dmrBeaconDurationTimer, m_cwIdPending, status, modem>>

setModeStep(t) ==
  Idle(t) /\ (setModeSwitch(t) \/ setModeModem(t) \/ setModeAssign(t) \/ setModeTimer(t))

setMode(t, to) == call' = [call EXCEPT ![t] = [to |-> to, at |-> "switch"]]

-----------------------------------------------------------------------------
(* The loop.  Each stage runs once the setMode it follows has returned.    *)

At(stage) == pc = stage /\ Returned("main")

\* Go on to the next stage, through setMode(to) if the condition holds.
SwitchIf(condition, to) == IF condition THEN setMode("main", to) ELSE UNCHANGED call

\* Mutant: a lockout that is never released.
LockoutMode_Latched == IF m_lockout THEN "LOCKOUT" ELSE m_mode

\* The mode the lockout input asks for.
LockoutMode == CASE m_lockout -> "LOCKOUT"
                 [] ~m_lockout /\ m_mode = "LOCKOUT" -> "IDLE"
                 [] OTHER -> m_mode

checkLockout ==
  /\ At("lockout")
  /\ pc' = "error"
  /\ frame' = "none"
  /\ SwitchIf(LockoutMode # m_mode, LockoutMode)
  /\ UNCHANGED <<ms, m_mode, m_fixedMode, access, timers, m_cwIdPending, status, modem>>

checkError ==
  /\ At("error")
  /\ pc' = "rf"
  /\ CASE m_error /\ m_mode # "ERROR" -> setMode("main", "ERROR")
       [] ~m_error /\ m_mode = "ERROR" -> setMode("main", "IDLE")
       [] OTHER -> UNCHANGED call
  /\ UNCHANGED <<ms, frame, m_mode, m_fixedMode, access, timers, m_cwIdPending, status, modem>>

\* Frames from the modem.  Of the frames of one iteration at most those of
\* one protocol have an effect: the first wakes its mode, and a mode ignores
\* the frames of the others.  Transmit-only POCSAG never has one.
Receivable == {p \in Protos \ {"POCSAG"} : p \in enabled \/ p = "M17"}

Wakeable == m_mode = "IDLE"

StopsBeacon(p) == dmrBeaconDurationTimer' = IF p = "DMR" THEN Stop(dmrBeaconDurationTimer)
                                                         ELSE dmrBeaconDurationTimer

rfWake(p) ==
  /\ At("rf")
  /\ Wakeable /\ p \in Receivable /\ p \in ctlOn
  /\ m_modeTimer' = SetTimeout(m_modeTimer, RFHang)
  /\ setMode("main", p)
  /\ StopsBeacon(p)
  /\ frame' = p
  /\ pc' = "hang"
  /\ UNCHANGED <<ms, m_mode, m_fixedMode, access, m_dmrTXTimer, m_cwIdTimer,
                 m_cwIdPending, status, modem>>

\* With the downlink down only a wakeup is accepted; it brings the downlink up
\* again and does not extend the hang time.
rfContinue(p) ==
  /\ At("rf")
  /\ m_mode = p /\ p \in Receivable /\ p \in ctlOn
  /\ IF p = "DMR" /\ Duplex /\ ~m_tx
       THEN /\ Begin("main", "start")
            /\ UNCHANGED <<m_modeTimer, m_dmrTXTimer, dmrBeaconDurationTimer>>
       ELSE /\ m_modeTimer' = Start(m_modeTimer)
            /\ StopsBeacon(p)
            /\ m_dmrTXTimer' = IF p = "DMR" /\ Duplex THEN Start(m_dmrTXTimer)
                                                       ELSE m_dmrTXTimer
            /\ UNCHANGED <<downlink, crossed>>
  /\ frame' = p
  /\ pc' = "hang"
  /\ UNCHANGED <<ms, call, m_mode, m_fixedMode, access, m_cwIdTimer, m_cwIdPending,
                 status, modemMode, carrier, slow>>

rfNothing ==
  /\ At("rf")
  /\ pc' = "hang"
  /\ UNCHANGED <<ms, frame, call, m_mode, m_fixedMode, access, timers, m_cwIdPending,
                 status, modem>>

\* Mutant: the hang time does not end while the channel is occupied.
HangOver_Clear == ~m_fixedMode /\ HasExpired(m_modeTimer) /\ ~m_tx /\ ~m_cd

HangOver == ~m_fixedMode /\ HasExpired(m_modeTimer)

checkHang ==
  /\ At("hang")
  /\ pc' = "net"
  /\ SwitchIf(HangOver, "IDLE")
  /\ UNCHANGED <<ms, frame, m_mode, m_fixedMode, access, timers, m_cwIdPending, status, modem>>

\* Frames a control has queued for the modem; a disabled control has none.
netWake(p) ==
  /\ At("net")
  /\ Wakeable /\ p \in ctlOn
  /\ m_modeTimer' = SetTimeout(m_modeTimer, NetHang)
  /\ setMode("main", p)
  /\ frame' = p
  /\ pc' = "write"
  /\ UNCHANGED <<ms, m_mode, m_fixedMode, access, m_dmrTXTimer, m_cwIdTimer,
                 dmrBeaconDurationTimer, m_cwIdPending, status, modem>>

netContinue(p) ==
  /\ At("net")
  /\ m_mode = p /\ p \in ctlOn
  /\ frame' = p
  /\ pc' = "write"
  /\ UNCHANGED <<ms, call, m_mode, m_fixedMode, access, timers, m_cwIdPending, status, modem>>

netNothing ==
  /\ At("net")
  /\ pc' = "clock"
  /\ UNCHANGED <<ms, frame, call, m_mode, m_fixedMode, access, timers, m_cwIdPending,
                 status, modem>>

\* The frame is written if its mode is the one now in force.
netWrite ==
  /\ At("write")
  /\ pc' = "clock"
  /\ IF m_mode = frame
       THEN /\ m_modeTimer' = Start(m_modeTimer)
            /\ StopsBeacon(frame)
            /\ IF frame = "DMR" /\ Duplex THEN Begin("main", "start")
                                          ELSE UNCHANGED <<downlink, crossed>>
       ELSE UNCHANGED <<m_modeTimer, dmrBeaconDurationTimer, downlink, crossed>>
  /\ UNCHANGED <<ms, frame, call, m_mode, m_fixedMode, access, m_dmrTXTimer, m_cwIdTimer,
                 m_cwIdPending, status, modemMode, carrier, slow>>

\* The time since the last iteration is taken, CModem::clock called, and the
\* mode timer clocked.  A status that follows a DMR start may have been composed
\* before it, the next one not; there surely is one in an iteration that ends a
\* tick and was not held up.
modemClock ==
  /\ At("clock")
  /\ pc' = "cw"
  /\ ms' \in 0 .. MaxTick
  /\ slow' = (slow \/ ms' > 1)
  /\ \/ /\ ms' # 1
        /\ UNCHANGED status
     \/ /\ m_tx' \in IF carrier = "on" THEN {TRUE} ELSE BOOLEAN
        /\ m_cd' \in BOOLEAN
        /\ m_lockout' \in BOOLEAN
        /\ UNCHANGED m_error
  /\ carrier' = IF carrier = "off" THEN "off" ELSE "on"
  /\ m_modeTimer' = IF m_fixedMode THEN m_modeTimer ELSE Clock(m_modeTimer, ms')
  /\ UNCHANGED <<frame, call, m_mode, m_fixedMode, access, m_dmrTXTimer, m_cwIdTimer,
                 dmrBeaconDurationTimer, m_cwIdPending, modemMode, downlink, crossed>>

\* A modem that fell silent is closed and opened again within one call of
\* CModem::clock, which leaves it idle and the host none the wiser.
modemSilent ==
  /\ At("clock")
  /\ pc' = "reopen"
  /\ m_error' = TRUE
  /\ UNCHANGED <<ms, frame, call, m_mode, m_fixedMode, access, timers, m_cwIdPending,
                 m_tx, m_cd, m_lockout, modem>>

modemReopen ==
  /\ At("reopen")
  /\ pc' = "cw"
  /\ m_error' = FALSE
  /\ modemMode' = "IDLE"
  /\ carrier' = "off"
  /\ ms' \in 0 .. MaxTick
  /\ slow' = (slow \/ ms' > 1)
  /\ m_modeTimer' = IF m_fixedMode THEN m_modeTimer ELSE Clock(m_modeTimer, ms')
  /\ UNCHANGED <<frame, call, m_mode, m_fixedMode, access, m_dmrTXTimer, m_cwIdTimer,
                 dmrBeaconDurationTimer, m_cwIdPending, m_tx, m_cd, m_lockout,
                 downlink, crossed>>

AirClear == ~m_tx /\ ~m_cd

\* Mutant: the timer looked at instead of the latch.
MayIdentify_Timer == m_mode = "IDLE" /\ AirClear /\ IsRunning(m_cwIdTimer)

MayIdentify == m_mode = "IDLE" /\ AirClear

cwId ==
  /\ At("cw")
  /\ pc' = "beacon"
  /\ LET clocked == Clock(m_cwIdTimer, ms)
         pending == m_cwIdPending \/ HasExpired(clocked)
         stopped == IF HasExpired(clocked) THEN Stop(clocked) ELSE clocked
     IN IF pending /\ MayIdentify
          THEN /\ m_cwIdPending' = FALSE
               /\ m_cwIdTimer' = Rearmed(stopped)
          ELSE /\ m_cwIdPending' = pending
               /\ m_cwIdTimer' = stopped
  /\ UNCHANGED <<ms, frame, call, m_mode, m_fixedMode, access, m_modeTimer,
                 m_dmrTXTimer, dmrBeaconDurationTimer, status, modem>>

\* Mutant: the beacon takes the channel whatever its mode.
beacon_AnyMode ==
  /\ At("beacon")
  /\ Beacons /\ ~m_tx
  /\ pc' = "duration"
  /\ dmrBeaconDurationTimer' = Start(dmrBeaconDurationTimer)
  /\ SwitchIf(~m_fixedMode /\ m_mode # "DMR", "DMR")
  /\ UNCHANGED <<ms, frame, m_mode, m_fixedMode, access, m_modeTimer, m_dmrTXTimer,
                 m_cwIdTimer, m_cwIdPending, status, modem>>

\* A beacon falls due by its interval or because the network asked for one.
beacon ==
  /\ At("beacon")
  /\ Beacons /\ m_mode \in {"IDLE", "DMR"} /\ ~m_tx
  /\ pc' = "duration"
  /\ dmrBeaconDurationTimer' = Start(dmrBeaconDurationTimer)
  /\ SwitchIf(~m_fixedMode /\ m_mode = "IDLE", "DMR")
  /\ UNCHANGED <<ms, frame, m_mode, m_fixedMode, access, m_modeTimer, m_dmrTXTimer,
                 m_cwIdTimer, m_cwIdPending, status, modem>>

noBeacon ==
  /\ At("beacon")
  /\ pc' = "duration"
  /\ UNCHANGED <<ms, frame, call, m_mode, m_fixedMode, access, timers, m_cwIdPending,
                 status, modem>>

beaconDuration ==
  /\ At("duration")
  /\ pc' = "tx"
  /\ LET clocked == Clock(dmrBeaconDurationTimer, ms)
     IN /\ dmrBeaconDurationTimer' = IF HasExpired(clocked) THEN Stop(clocked) ELSE clocked
        /\ SwitchIf(HasExpired(clocked) /\ ~m_fixedMode, "IDLE")
  /\ UNCHANGED <<ms, frame, m_mode, m_fixedMode, access, m_modeTimer, m_dmrTXTimer,
                 m_cwIdTimer, m_cwIdPending, status, modem>>

dmrTX ==
  /\ At("tx")
  /\ pc' = "expired"
  /\ ms' = 0
  /\ m_dmrTXTimer' = Clock(m_dmrTXTimer, ms)
  /\ UNCHANGED <<frame, call, m_mode, m_fixedMode, access, m_modeTimer, m_cwIdTimer,
                 dmrBeaconDurationTimer, m_cwIdPending, status, modem>>

dmrTXExpired ==
  /\ At("expired")
  /\ pc' = "pocsag"
  /\ IF HasExpired(m_dmrTXTimer) THEN Begin("main", "stop") ELSE UNCHANGED <<downlink, crossed>>
  /\ UNCHANGED <<ms, frame, call, m_mode, m_fixedMode, access, timers, m_cwIdPending,
                 status, modemMode, carrier, slow>>

\* The end of an iteration.
NextIteration ==
  /\ At("pocsag")
  /\ pc' = "lockout"
  /\ slow' = (slow /\ carrier # "off")
  /\ UNCHANGED <<ms, frame, call, m_mode, m_fixedMode, enabled, ctlOn, timers,
                 m_cwIdPending, status, modemMode, carrier, downlink, crossed>>

\* Every 30 s the paging network is switched to what the mode allows.
pocsagDue ==
  /\ NextIteration
  /\ "POCSAG" \in Protos
  /\ netOn' = IF m_mode \in {"IDLE", "POCSAG"} /\ "POCSAG" \in enabled
                THEN netOn \cup {"POCSAG"} ELSE netOn \ {"POCSAG"}

pocsagNotDue == NextIteration /\ UNCHANGED netOn

-----------------------------------------------------------------------------
Stages == {"lockout", "error", "rf", "hang", "net", "write", "clock", "reopen",
           "cw", "beacon", "duration", "tx", "expired", "pocsag"}

Operations == {"idle", "start", "started", "stop", "stopped"}

SetUp(period) == SetTimeout(Unset, period)

\* The state in which run enters its loop, just after setMode(MODE_IDLE): the
\* first identification is due after a quarter of the interval.
Init ==
  /\ pc = "lockout" /\ ms = 0 /\ frame = "none"
  /\ call = [t \in Threads |-> Quiescent]
  /\ m_mode = "IDLE" /\ m_fixedMode = FALSE
  /\ enabled = Protos /\ ctlOn = Protos /\ netOn = Protos
  /\ m_modeTimer = Unset
  /\ m_dmrTXTimer = SetUp(TXHang)
  /\ m_cwIdTimer = Start(SetUp(CWIdTime \div 4))
  /\ dmrBeaconDurationTimer = IF Beacons THEN SetUp(BeaconTime) ELSE Unset
  /\ m_cwIdPending = FALSE
  /\ m_tx = FALSE /\ m_cd = FALSE /\ m_lockout = FALSE /\ m_error = FALSE
  /\ modemMode = "IDLE" /\ carrier = "off"
  /\ downlink = [t \in Threads |-> "idle"] /\ slow = FALSE /\ crossed = FALSE

Traffic == \E p \in Protos : rfWake(p) \/ rfContinue(p) \/ netWake(p) \/ netContinue(p)

Loop == \/ checkLockout \/ checkError \/ Traffic \/ rfNothing \/ checkHang \/ netNothing
        \/ netWrite \/ modemClock \/ modemSilent \/ modemReopen \/ cwId
        \/ beacon \/ noBeacon \/ beaconDuration \/ dmrTX \/ dmrTXExpired
        \/ pocsagDue \/ pocsagNotDue

Main == Loop \/ setModeStep("main") \/ downlinkStep("main")

Next == Main

Spec == Init /\ [][Next]_vars

\* The loop never blocks, and time passes: it cannot go round for ever in less
\* than a tick, nor reset the modem for ever instead.
Fairness == WF_vars(Main) /\ SF_vars(modemClock /\ ms' > 0)

FairSpec == Spec /\ Fairness

-----------------------------------------------------------------------------
TypeOK ==
  /\ pc \in Stages /\ ms \in 0 .. MaxTick /\ frame \in Protos \cup {"none"}
  /\ call \in [Threads -> [to : Modes, at : Phases]]
  /\ m_mode \in Modes /\ m_fixedMode \in BOOLEAN
  /\ enabled \subseteq Protos /\ ctlOn \subseteq Protos /\ netOn \subseteq Protos
  /\ m_modeTimer \in Timer /\ m_dmrTXTimer \in Timer
  /\ m_cwIdTimer \in Timer /\ dmrBeaconDurationTimer \in Timer
  /\ m_cwIdPending \in BOOLEAN
  /\ m_tx \in BOOLEAN /\ m_cd \in BOOLEAN /\ m_lockout \in BOOLEAN /\ m_error \in BOOLEAN
  /\ modemMode \in Protos \cup {"IDLE"}
  /\ carrier \in {"off", "starting", "on"}
  /\ downlink \in [Threads -> Operations] /\ slow \in BOOLEAN /\ crossed \in BOOLEAN

Settled == \A t \in Threads : Returned(t)

Wanted(mode) == CASE mode \in Protos -> {mode}
                  [] mode = "IDLE"   -> Protos
                  [] OTHER           -> {}

\* Between two mode changes exactly the protocols of the mode are let through:
\* its own in a protocol's mode, every one when idle, none in lockout.  A
\* protocol left on would queue frames for a modem that is in another mode,
\* one left off would be deaf until the next mode change.
Listening == Settled => ctlOn = Wanted(m_mode) /\ netOn = Wanted(m_mode)

\* The modem is in the mode the host believes, or idle: idle in lockout, and
\* after a reset the host did not notice.  It is never in another protocol.
ModemFollows == Settled => modemMode \in {m_mode, "IDLE"}

\* The obligation to identify is never lost: the interval is counting or an
\* identification is pending, and never both.
IdentificationDue == CWIdTime >= 4 => (IsRunning(m_cwIdTimer) <=> ~m_cwIdPending)

\* The DMR downlink is never left up unattended: while it is commanded on, the
\* timer that will take it down is counting or about to be started, whichever
\* way DMR mode was left and however old the transmit status was when it was.
\* Two cases are excepted, and the code has both: an iteration that was held up,
\* whose time runs the timer out before a status has shown the transmitter on,
\* so that the stop is not sent and the timer stopped nevertheless; and two
\* threads that start and stop the downlink at the same time, one of which
\* stops the timer of the other.
CarrierTimed == carrier # "off" =>
                  \/ IsRunning(m_dmrTXTimer)
                  \/ \E t \in Threads : downlink[t] = "started"
                  \/ slow \/ crossed

\* Traffic is only looked at in a state that agrees with the lockout input.
LockoutHonoured == At("rf") => (m_lockout <=> m_mode = "LOCKOUT")

\* One protocol never takes the channel from another: every change of mode
\* starts or ends in idle or lockout.
NoHandover == [][m_mode' # m_mode => {m_mode, m_mode'} \cap {"IDLE", "LOCKOUT"} # {}]_vars

Keyed == m_cwIdPending /\ ~m_cwIdPending'

\* A pending identification is only keyed into a modem that is itself idle:
\* in any other state the modem refuses it, and the host counts it as done.
IdKeyedIdle == [][Keyed => modemMode = "IDLE"]_vars

-----------------------------------------------------------------------------
(* Inductive strengthenings of the invariants.                             *)

To == call["main"].to
Phase == call["main"].at

\* Two threads are at the downlink.
Overlap == \E t \in Threads : ~Idle(t) /\ Crossing(t)

\* While the downlink is up, and neither an iteration was held up nor the threads
\* crossed: its timer counts or is about to; whoever is about to stop the downlink
\* has seen the transmitter on, so that the stop is sent; whoever is about to stop
\* the timer has stopped the downlink; and as long as the transmitter has not been
\* seen on, hardly any time has passed.
Attended ==
  /\ \A t \in Threads : downlink[t] = "stop" => m_tx
  /\ \A t \in Threads : downlink[t] # "stopped"
  /\ (\A t \in Threads : downlink[t] # "started") =>
       /\ m_dmrTXTimer.timer > 0
       /\ ~m_tx => m_dmrTXTimer.timer + ms <= IF carrier = "starting" THEN 2 ELSE 3

CarrierInv ==
  /\ m_dmrTXTimer.timeout = TXHang + 1
  /\ carrier = "starting" => ~m_tx
  /\ pc \notin {"cw", "beacon", "duration", "tx"} => ms = 0
  /\ ms > 1 => slow
  /\ Overlap => crossed
  /\ carrier # "off" => slow \/ crossed \/ Attended

\* What a setMode that is half done has already changed and what not.
ChannelInv ==
  /\ enabled = Protos
  /\ \A t \in Threads \ {"main"} : call[t] = Quiescent
  /\ m_error => pc = "reopen"
  /\ m_mode # "ERROR" /\ To # "ERROR"
  /\ Phase \in {"switch", "modem", "mode"} /\ To \in Protos => m_mode = "IDLE"
  /\ Phase = "timer" => m_mode = To
  /\ LET on == Wanted(IF Phase \in {"switch", "done"} THEN m_mode ELSE To)
     IN ctlOn = on /\ netOn = on
  /\ modemMode \in {"IDLE", IF Phase \in {"mode", "timer"} THEN To ELSE m_mode}

LockoutInv ==
  /\ pc = "rf" => Phase = "done"
  /\ pc \in {"error", "rf"} =>
       (m_lockout <=> (IF Phase = "done" THEN m_mode ELSE To) = "LOCKOUT")

-----------------------------------------------------------------------------
\* There is no traffic any more, and no beacon falls due.
Quiet == <>[](frame = "none") /\ <>[][~beacon]_vars

\* No mode's hang time has been set so far.
NoHangTime == m_modeTimer.timeout = 0

\* Once traffic and beacons have ceased for good the host comes back to idle for good
\* (or is locked out): its hang time ends every mode, or its duration a beacon.  One
\* case is excepted, and the code has it: when the first to take the channel is a
\* beacon, which sets no hang time, and traffic then stops the beacon's timer, the
\* mode's timer never starts, and the host stays in DMR mode.
ReturnsToIdle == Quiet => <>[](m_mode \in {"IDLE", "LOCKOUT"} \/ NoHangTime)

\* Once traffic and beacons have ceased and the air is clear for good, a pending
\* identification is keyed (but for the host that stays in DMR mode as above).
Identifies == (Quiet /\ <>[](AirClear /\ ~m_lockout))
                => (m_cwIdPending /\ ~NoHangTime ~> ~m_cwIdPending)

=============================================================================
