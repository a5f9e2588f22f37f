---------------------------- MODULE Host_proofs -----------------------------
(***************************************************************************)
(* Proofs about the host program: the mode controller of HostMode, for any *)
(* set of protocols, any hang times and intervals and iterations of any    *)
(* length, and HostRemote, where the MQTT thread is a second caller of     *)
(* setMode.  In order: type correctness, the identification that is never  *)
(* lost, the downlink that is never left up, the one protocol that is let  *)
(* through, and what survives the commands of the MQTT thread.             *)
(***************************************************************************)
EXTENDS HostRemote, TLAPS

\* Every operation of CTimer leaves a timer that has not counted past its
\* timeout.
LEMMA TimerClosed ==
  ASSUME NEW t \in Timer, NEW n \in Nat
  PROVE  /\ SetTimeout(t, n) \in Timer
         /\ Start(t) \in Timer
         /\ Stop(t) \in Timer
         /\ Clock(t, n) \in Timer
<1>1. SetTimeout(t, n) \in Timer
  BY DEF Timer, SetTimeout, Unset
<1>2. Start(t) \in Timer
  BY DEF Timer, Start
<1>3. Stop(t) \in Timer
  BY DEF Timer, Stop
<1>4. Clock(t, n) \in Timer
  BY DEF Timer, Clock, IsRunning
<1> QED
  BY <1>1, <1>2, <1>3, <1>4

LEMMA UnsetType == Unset \in Timer
BY DEF Unset, Timer

\* The constants, in the form the steps below use them.
LEMMA Constants ==
  /\ RFHang \in Nat /\ NetHang \in Nat /\ CWIdTime \in Nat
  /\ TXHang \in Nat /\ BeaconTime \in Nat /\ MaxTick \in Nat
  /\ "main" \in Threads
BY HostAssumption DEF HostAssumption

LEMMA SetModeType ==
  ASSUME call \in [Threads -> [to : Modes, at : Phases]],
         NEW t \in Threads, NEW to \in Modes, setMode(t, to)
  PROVE  call' \in [Threads -> [to : Modes, at : Phases]]
BY DEF setMode, Phases

LEMMA SwitchIfType ==
  ASSUME call \in [Threads -> [to : Modes, at : Phases]],
         NEW to \in Modes, NEW condition \in BOOLEAN, SwitchIf(condition, to)
  PROVE  call' \in [Threads -> [to : Modes, at : Phases]]
BY SetModeType, Constants DEF SwitchIf

LEMMA InitType == Init => TypeOK
<1> SUFFICES ASSUME Init PROVE TypeOK
  OBVIOUS
<1>1. SetUp(TXHang) \in Timer /\ SetUp(BeaconTime) \in Timer
  BY TimerClosed, UnsetType, Constants DEF SetUp
<1>2. Start(SetUp(CWIdTime \div 4)) \in Timer
  <2>1. CWIdTime \div 4 \in Nat
    BY Constants
  <2>2. SetUp(CWIdTime \div 4) \in Timer
    BY <2>1, TimerClosed, UnsetType DEF SetUp
  <2> QED
    BY <2>2, TimerClosed
<1>3. call \in [Threads -> [to : Modes, at : Phases]]
  BY DEF Init, Quiescent, Modes, Phases
<1>4. /\ m_modeTimer \in Timer /\ m_dmrTXTimer \in Timer
      /\ m_cwIdTimer \in Timer /\ dmrBeaconDurationTimer \in Timer
  BY <1>1, <1>2, UnsetType DEF Init
<1>5. pc \in Stages /\ ms \in 0 .. MaxTick /\ frame \in Protos \cup {"none"}
  BY Constants DEF Init, Stages
<1>6. m_mode \in Modes /\ m_fixedMode \in BOOLEAN
  BY DEF Init, Modes
<1>7. enabled \subseteq Protos /\ ctlOn \subseteq Protos /\ netOn \subseteq Protos
  BY DEF Init
<1>8. /\ m_cwIdPending \in BOOLEAN /\ m_tx \in BOOLEAN /\ m_cd \in BOOLEAN
      /\ m_lockout \in BOOLEAN /\ m_error \in BOOLEAN
  BY DEF Init
<1>9. /\ modemMode \in Protos \cup {"IDLE"} /\ carrier \in {"off", "starting", "on"}
      /\ downlink \in [Threads -> Operations] /\ slow \in BOOLEAN /\ crossed \in BOOLEAN
  BY DEF Init, Operations
<1> QED
  BY <1>3, <1>4, <1>5, <1>6, <1>7, <1>8, <1>9 DEF TypeOK

(* Type correctness, by the groups of variables an action can disturb. *)
LoopType == pc \in Stages /\ ms \in 0 .. MaxTick /\ frame \in Protos \cup {"none"}
CallType == call \in [Threads -> [to : Modes, at : Phases]]
ModeType == m_mode \in Modes /\ m_fixedMode \in BOOLEAN
AccessType == enabled \subseteq Protos /\ ctlOn \subseteq Protos /\ netOn \subseteq Protos
TimerType == /\ m_modeTimer \in Timer /\ m_dmrTXTimer \in Timer
             /\ m_cwIdTimer \in Timer /\ dmrBeaconDurationTimer \in Timer
StatusType == /\ m_cwIdPending \in BOOLEAN /\ m_tx \in BOOLEAN /\ m_cd \in BOOLEAN
              /\ m_lockout \in BOOLEAN /\ m_error \in BOOLEAN
ModemType == /\ modemMode \in Protos \cup {"IDLE"} /\ carrier \in {"off", "starting", "on"}
             /\ downlink \in [Threads -> Operations] /\ slow \in BOOLEAN /\ crossed \in BOOLEAN

LEMMA Groups == TypeOK <=> /\ LoopType /\ CallType /\ ModeType /\ AccessType
                           /\ TimerType /\ StatusType /\ ModemType
BY DEF TypeOK, LoopType, CallType, ModeType, AccessType, TimerType, StatusType, ModemType

(* The steps. *)

LEMMA CallSteps ==
  ASSUME TypeOK, NEW t \in Threads, setModeStep(t)
  PROVE  TypeOK'
<1>0. /\ LoopType /\ CallType /\ ModeType /\ AccessType
      /\ TimerType /\ StatusType /\ ModemType
  BY Groups
<1>1. CASE setModeSwitch(t)
  <2>1. CallType'
    BY <1>0, <1>1, Constants DEF setModeSwitch, CallType, Phases, Quiescent, Modes,
       loop, access, timers, status, modem, down
  <2>2. AccessType'
    BY <1>0, <1>1 DEF setModeSwitch, AccessType, SwitchedOn, MayRun, Unconditional,
       loop, access, timers, status, modem, down
  <2>3. TimerType'
    BY <1>0, <1>1, TimerClosed DEF setModeSwitch, TimerType,
       loop, access, timers, status, modem, down
  <2>4. ModemType'
    BY <1>0, <1>1 DEF setModeSwitch, ModemType, Begin, GoOn, Operations,
       loop, access, timers, status, modem, down
  <2>5. LoopType' /\ ModeType' /\ StatusType'
    BY <1>0, <1>1 DEF setModeSwitch, access, loop, modem, status, timers,
       LoopType, ModeType, StatusType, down
  <2> QED
    BY <2>1, <2>2, <2>3, <2>4, <2>5 DEF TypeOK, LoopType, CallType, ModeType, AccessType,
       TimerType, StatusType, ModemType
<1>2. CASE setModeModem(t)
  <2>1. CallType'
    BY <1>0, <1>2, Constants DEF setModeModem, CallType, Phases,
       loop, access, timers, status, modem, down
  <2>2. TimerType'
    BY <1>0, <1>2, TimerClosed, Constants DEF setModeModem, TimerType, Rearmed,
       loop, access, timers, status, modem, down
  <2>3. StatusType'
    BY <1>0, <1>2 DEF setModeModem, StatusType,
       loop, access, timers, status, modem, down
  <2>4. ModemType'
    BY <1>0, <1>2, HostAssumption DEF setModeModem, ModemType, CallType, ModemModeFor, Begin, GoOn, Operations, Modes,
       loop, access, timers, status, modem, down
  <2>5. LoopType' /\ ModeType' /\ AccessType'
    BY <1>0, <1>2 DEF setModeModem, access, loop, modem, status, timers,
       LoopType, ModeType, AccessType, down
  <2> QED
    BY <2>1, <2>2, <2>3, <2>4, <2>5 DEF TypeOK, LoopType, CallType, ModeType, AccessType,
       TimerType, StatusType, ModemType
<1>3. CASE setModeAssign(t)
  <2>1. CallType'
    BY <1>0, <1>3, Constants DEF setModeAssign, CallType, Phases,
       loop, access, timers, status, modem, down
  <2>2. ModeType'
    BY <1>0, <1>3, Constants DEF setModeAssign, ModeType, CallType,
       loop, access, timers, status, modem, down
  <2>3. LoopType' /\ AccessType' /\ TimerType' /\ StatusType' /\ ModemType'
    BY <1>0, <1>3 DEF setModeAssign, access, loop, modem, status, timers,
       LoopType, AccessType, TimerType, StatusType, ModemType, down
  <2> QED
    BY <2>1, <2>2, <2>3 DEF TypeOK, LoopType, CallType, ModeType, AccessType,
       TimerType, StatusType, ModemType
<1>4. CASE setModeTimer(t)
  <2>1. CallType'
    BY <1>0, <1>4, Constants DEF setModeTimer, CallType, Phases, Quiescent, Modes,
       loop, access, timers, status, modem, down
  <2>2. TimerType'
    BY <1>0, <1>4, TimerClosed DEF setModeTimer, TimerType, HangTimer,
       loop, access, timers, status, modem, down
  <2>3. LoopType' /\ ModeType' /\ AccessType' /\ StatusType' /\ ModemType'
    BY <1>0, <1>4 DEF setModeTimer, access, loop, modem, status, timers,
       LoopType, ModeType, AccessType, StatusType, ModemType, down
  <2> QED
    BY <2>1, <2>2, <2>3 DEF TypeOK, LoopType, CallType, ModeType, AccessType,
       TimerType, StatusType, ModemType
<1> QED
  BY <1>1, <1>2, <1>3, <1>4 DEF setModeStep

LEMMA TrafficSteps ==
  ASSUME TypeOK, NEW p \in Protos, rfWake(p) \/ rfContinue(p) \/ netWake(p) \/ netContinue(p)
  PROVE  TypeOK'
<1>0. /\ LoopType /\ CallType /\ ModeType /\ AccessType
      /\ TimerType /\ StatusType /\ ModemType
  BY Groups
<1>1. CASE rfWake(p)
  <2>1. LoopType'
    BY <1>0, <1>1 DEF rfWake, LoopType, Stages,
       loop, access, timers, status, modem, down
  <2>2. CallType'
    BY <1>0, <1>1, SetModeType, Constants DEF rfWake, CallType, Modes,
       loop, access, timers, status, modem, down
  <2>3. TimerType'
    BY <1>0, <1>1, TimerClosed, Constants DEF rfWake, TimerType, StopsBeacon,
       loop, access, timers, status, modem, down
  <2>4. ModeType' /\ AccessType' /\ StatusType' /\ ModemType'
    BY <1>0, <1>1 DEF rfWake, access, loop, modem, status, timers,
       ModeType, AccessType, StatusType, ModemType, down
  <2> QED
    BY <2>1, <2>2, <2>3, <2>4 DEF TypeOK, LoopType, CallType, ModeType, AccessType,
       TimerType, StatusType, ModemType
<1>2. CASE rfContinue(p)
  <2>1. LoopType'
    BY <1>0, <1>2 DEF rfContinue, LoopType, Stages,
       loop, access, timers, status, modem, down
  <2>2. TimerType'
    BY <1>0, <1>2, TimerClosed DEF rfContinue, TimerType, StopsBeacon,
       loop, access, timers, status, modem, down
  <2>3. ModemType'
    BY <1>0, <1>2 DEF rfContinue, ModemType, Begin, GoOn, Operations,
       loop, access, timers, status, modem, down
  <2>4. CallType' /\ ModeType' /\ AccessType' /\ StatusType'
    BY <1>0, <1>2 DEF rfContinue, access, loop, modem, status, timers,
       CallType, ModeType, AccessType, StatusType, down
  <2> QED
    BY <2>1, <2>2, <2>3, <2>4 DEF TypeOK, LoopType, CallType, ModeType, AccessType,
       TimerType, StatusType, ModemType
<1>3. CASE netWake(p)
  <2>1. LoopType'
    BY <1>0, <1>3 DEF netWake, LoopType, Stages,
       loop, access, timers, status, modem, down
  <2>2. CallType'
    BY <1>0, <1>3, SetModeType, Constants DEF netWake, CallType, Modes,
       loop, access, timers, status, modem, down
  <2>3. TimerType'
    BY <1>0, <1>3, TimerClosed, Constants DEF netWake, TimerType,
       loop, access, timers, status, modem, down
  <2>4. ModeType' /\ AccessType' /\ StatusType' /\ ModemType'
    BY <1>0, <1>3 DEF netWake, access, loop, modem, status, timers,
       ModeType, AccessType, StatusType, ModemType, down
  <2> QED
    BY <2>1, <2>2, <2>3, <2>4 DEF TypeOK, LoopType, CallType, ModeType, AccessType,
       TimerType, StatusType, ModemType
<1>4. CASE netContinue(p)
  <2>1. LoopType'
    BY <1>0, <1>4 DEF netContinue, LoopType, Stages,
       loop, access, timers, status, modem, down
  <2>2. CallType' /\ ModeType' /\ AccessType' /\ TimerType' /\ StatusType' /\ ModemType'
    BY <1>0, <1>4 DEF netContinue, access, loop, modem, status, timers,
       CallType, ModeType, AccessType, TimerType, StatusType, ModemType, down
  <2> QED
    BY <2>1, <2>2 DEF TypeOK, LoopType, CallType, ModeType, AccessType,
       TimerType, StatusType, ModemType
<1> QED
  BY <1>1, <1>2, <1>3, <1>4 DEF Traffic

LEMMA LoopSteps ==
  ASSUME TypeOK, Loop, ~Traffic
  PROVE  TypeOK'
<1>0. /\ LoopType /\ CallType /\ ModeType /\ AccessType
      /\ TimerType /\ StatusType /\ ModemType
  BY Groups
<1>1. CASE checkLockout
  <2>1. LoopType'
    BY <1>0, <1>1 DEF checkLockout, LoopType, Stages,
       loop, access, timers, status, modem, down
  <2>2. CallType'
    BY <1>0, <1>1, SwitchIfType DEF checkLockout, CallType, ModeType, LockoutMode, Modes,
       loop, access, timers, status, modem, down
  <2>3. ModeType' /\ AccessType' /\ TimerType' /\ StatusType' /\ ModemType'
    BY <1>0, <1>1 DEF checkLockout, access, loop, modem, status, timers,
       ModeType, AccessType, TimerType, StatusType, ModemType, down
  <2> QED
    BY <2>1, <2>2, <2>3 DEF TypeOK, LoopType, CallType, ModeType, AccessType,
       TimerType, StatusType, ModemType
<1>2. CASE checkError
  <2>1. LoopType'
    BY <1>0, <1>2 DEF checkError, LoopType, Stages,
       loop, access, timers, status, modem, down
  <2>2. CallType'
    BY <1>0, <1>2, SetModeType, Constants DEF checkError, CallType, Modes,
       loop, access, timers, status, modem, down
  <2>3. ModeType' /\ AccessType' /\ TimerType' /\ StatusType' /\ ModemType'
    BY <1>0, <1>2 DEF checkError, access, loop, modem, status, timers,
       ModeType, AccessType, TimerType, StatusType, ModemType, down
  <2> QED
    BY <2>1, <2>2, <2>3 DEF TypeOK, LoopType, CallType, ModeType, AccessType,
       TimerType, StatusType, ModemType
<1>3. CASE rfNothing
  <2>1. LoopType'
    BY <1>0, <1>3 DEF rfNothing, LoopType, Stages,
       loop, access, timers, status, modem, down
  <2>2. CallType' /\ ModeType' /\ AccessType' /\ TimerType' /\ StatusType' /\ ModemType'
    BY <1>0, <1>3 DEF rfNothing, access, loop, modem, status, timers,
       CallType, ModeType, AccessType, TimerType, StatusType, ModemType, down
  <2> QED
    BY <2>1, <2>2 DEF TypeOK, LoopType, CallType, ModeType, AccessType,
       TimerType, StatusType, ModemType
<1>4. CASE checkHang
  <2>1. LoopType'
    BY <1>0, <1>4 DEF checkHang, LoopType, Stages,
       loop, access, timers, status, modem, down
  <2>2. CallType'
    BY <1>0, <1>4, SwitchIfType DEF checkHang, CallType, ModeType, Modes, HangOver, HasExpired,
       loop, access, timers, status, modem, down
  <2>3. ModeType' /\ AccessType' /\ TimerType' /\ StatusType' /\ ModemType'
    BY <1>0, <1>4 DEF checkHang, access, loop, modem, status, timers,
       ModeType, AccessType, TimerType, StatusType, ModemType, down
  <2> QED
    BY <2>1, <2>2, <2>3 DEF TypeOK, LoopType, CallType, ModeType, AccessType,
       TimerType, StatusType, ModemType
<1>5. CASE netNothing
  <2>1. LoopType'
    BY <1>0, <1>5 DEF netNothing, LoopType, Stages,
       loop, access, timers, status, modem, down
  <2>2. CallType' /\ ModeType' /\ AccessType' /\ TimerType' /\ StatusType' /\ ModemType'
    BY <1>0, <1>5 DEF netNothing, access, loop, modem, status, timers,
       CallType, ModeType, AccessType, TimerType, StatusType, ModemType, down
  <2> QED
    BY <2>1, <2>2 DEF TypeOK, LoopType, CallType, ModeType, AccessType,
       TimerType, StatusType, ModemType
<1>6. CASE netWrite
  <2>1. LoopType'
    BY <1>0, <1>6 DEF netWrite, LoopType, Stages,
       loop, access, timers, status, modem, down
  <2>2. TimerType'
    BY <1>0, <1>6, TimerClosed DEF netWrite, TimerType, StopsBeacon,
       loop, access, timers, status, modem, down
  <2>3. ModemType'
    BY <1>0, <1>6 DEF netWrite, ModemType, Begin, GoOn, Operations,
       loop, access, timers, status, modem, down
  <2>4. CallType' /\ ModeType' /\ AccessType' /\ StatusType'
    BY <1>0, <1>6 DEF netWrite, access, loop, modem, status, timers,
       CallType, ModeType, AccessType, StatusType, down
  <2> QED
    BY <2>1, <2>2, <2>3, <2>4 DEF TypeOK, LoopType, CallType, ModeType, AccessType,
       TimerType, StatusType, ModemType
<1>7. CASE modemClock
  <2>1. LoopType'
    BY <1>0, <1>7 DEF modemClock, LoopType, Stages,
       loop, access, timers, status, modem, down
  <2>2. TimerType'
    <3>1. ms' \in Nat
      BY <2>1, Constants DEF LoopType
    <3>2. m_modeTimer \in Timer
      BY <1>0 DEF TimerType
    <3>3. Clock(m_modeTimer, ms') \in Timer
      BY <3>1, <3>2, TimerClosed
    <3> QED
      BY <1>0, <1>7, <3>3 DEF modemClock, TimerType
  <2>3. StatusType'
    BY <1>0, <1>7 DEF modemClock, StatusType,
       loop, access, timers, status, modem, down
  <2>4. ModemType'
    BY <1>0, <1>7 DEF modemClock, ModemType,
       loop, access, timers, status, modem, down
  <2>5. CallType' /\ ModeType' /\ AccessType'
    BY <1>0, <1>7 DEF modemClock, access, loop, modem, status, timers,
       CallType, ModeType, AccessType, down
  <2> QED
    BY <2>1, <2>2, <2>3, <2>4, <2>5 DEF TypeOK, LoopType, CallType, ModeType, AccessType,
       TimerType, StatusType, ModemType
<1>8. CASE modemSilent
  <2>1. LoopType'
    BY <1>0, <1>8 DEF modemSilent, LoopType, Stages,
       loop, access, timers, status, modem, down
  <2>2. StatusType'
    BY <1>0, <1>8 DEF modemSilent, StatusType,
       loop, access, timers, status, modem, down
  <2>3. CallType' /\ ModeType' /\ AccessType' /\ TimerType' /\ ModemType'
    BY <1>0, <1>8 DEF modemSilent, access, loop, modem, status, timers,
       CallType, ModeType, AccessType, TimerType, ModemType, down
  <2> QED
    BY <2>1, <2>2, <2>3 DEF TypeOK, LoopType, CallType, ModeType, AccessType,
       TimerType, StatusType, ModemType
<1>9. CASE modemReopen
  <2>1. LoopType'
    BY <1>0, <1>9 DEF modemReopen, LoopType, Stages,
       loop, access, timers, status, modem, down
  <2>2. TimerType'
    <3>1. ms' \in Nat
      BY <2>1, Constants DEF LoopType
    <3>2. m_modeTimer \in Timer
      BY <1>0 DEF TimerType
    <3>3. Clock(m_modeTimer, ms') \in Timer
      BY <3>1, <3>2, TimerClosed
    <3> QED
      BY <1>0, <1>9, <3>3 DEF modemReopen, TimerType
  <2>3. StatusType'
    BY <1>0, <1>9 DEF modemReopen, StatusType,
       loop, access, timers, status, modem, down
  <2>4. ModemType'
    BY <1>0, <1>9 DEF modemReopen, ModemType,
       loop, access, timers, status, modem, down
  <2>5. CallType' /\ ModeType' /\ AccessType'
    BY <1>0, <1>9 DEF modemReopen, access, loop, modem, status, timers,
       CallType, ModeType, AccessType, down
  <2> QED
    BY <2>1, <2>2, <2>3, <2>4, <2>5 DEF TypeOK, LoopType, CallType, ModeType, AccessType,
       TimerType, StatusType, ModemType
<1>10. CASE cwId
  <2>1. LoopType'
    BY <1>0, <1>10 DEF cwId, LoopType, Stages,
       loop, access, timers, status, modem, down
  <2>2. TimerType'
    <3>1. ms \in Nat /\ m_cwIdTimer \in Timer
      BY <1>0, Constants DEF LoopType, TimerType
    <3>2. PICK clocked \in Timer : clocked = Clock(m_cwIdTimer, ms)
      BY <3>1, TimerClosed
    <3>3. PICK stopped \in Timer : stopped = IF HasExpired(clocked) THEN Stop(clocked) ELSE clocked
      BY <3>2, TimerClosed
    <3>4. Rearmed(stopped) \in Timer
      <4>1. SetTimeout(stopped, CWIdTime) \in Timer
        BY <3>3, TimerClosed, Constants
      <4> QED
        BY <4>1, TimerClosed DEF Rearmed
    <3>5. m_cwIdTimer' \in {stopped, Rearmed(stopped)}
      BY <1>10, <3>2, <3>3 DEF cwId
    <3>6. UNCHANGED <<m_modeTimer, m_dmrTXTimer, dmrBeaconDurationTimer>>
      BY <1>10 DEF cwId
    <3> QED
      BY <1>0, <3>3, <3>4, <3>5, <3>6 DEF TimerType
  <2>3. StatusType'
    BY <1>0, <1>10 DEF cwId, StatusType, HasExpired,
       loop, access, timers, status, modem, down
  <2>4. CallType' /\ ModeType' /\ AccessType' /\ ModemType'
    BY <1>0, <1>10 DEF cwId, access, loop, modem, status, timers,
       CallType, ModeType, AccessType, ModemType, down
  <2> QED
    BY <2>1, <2>2, <2>3, <2>4 DEF TypeOK, LoopType, CallType, ModeType, AccessType,
       TimerType, StatusType, ModemType
<1>11. CASE beacon
  <2>1. LoopType'
    BY <1>0, <1>11 DEF beacon, LoopType, Stages,
       loop, access, timers, status, modem, down
  <2>2. CallType'
    BY <1>0, <1>11, SwitchIfType, HostAssumption DEF beacon, CallType, Modes, HostAssumption,
       loop, access, timers, status, modem, down
  <2>3. TimerType'
    BY <1>0, <1>11, TimerClosed DEF beacon, TimerType,
       loop, access, timers, status, modem, down
  <2>4. ModeType' /\ AccessType' /\ StatusType' /\ ModemType'
    BY <1>0, <1>11 DEF beacon, access, loop, modem, status, timers,
       ModeType, AccessType, StatusType, ModemType, down
  <2> QED
    BY <2>1, <2>2, <2>3, <2>4 DEF TypeOK, LoopType, CallType, ModeType, AccessType,
       TimerType, StatusType, ModemType
<1>12. CASE noBeacon
  <2>1. LoopType'
    BY <1>0, <1>12 DEF noBeacon, LoopType, Stages,
       loop, access, timers, status, modem, down
  <2>2. CallType' /\ ModeType' /\ AccessType' /\ TimerType' /\ StatusType' /\ ModemType'
    BY <1>0, <1>12 DEF noBeacon, access, loop, modem, status, timers,
       CallType, ModeType, AccessType, TimerType, StatusType, ModemType, down
  <2> QED
    BY <2>1, <2>2 DEF TypeOK, LoopType, CallType, ModeType, AccessType,
       TimerType, StatusType, ModemType
<1>13. CASE beaconDuration
  <2>1. LoopType'
    BY <1>0, <1>13 DEF beaconDuration, LoopType, Stages,
       loop, access, timers, status, modem, down
  <2>2. CallType'
    BY <1>0, <1>13, SwitchIfType DEF beaconDuration, CallType, ModeType, Modes, HasExpired,
       loop, access, timers, status, modem, down
  <2>3. TimerType'
    BY <1>0, <1>13, TimerClosed, Constants DEF beaconDuration, TimerType, LoopType,
       loop, access, timers, status, modem, down
  <2>4. ModeType' /\ AccessType' /\ StatusType' /\ ModemType'
    BY <1>0, <1>13 DEF beaconDuration, access, loop, modem, status, timers,
       ModeType, AccessType, StatusType, ModemType, down
  <2> QED
    BY <2>1, <2>2, <2>3, <2>4 DEF TypeOK, LoopType, CallType, ModeType, AccessType,
       TimerType, StatusType, ModemType
<1>14. CASE dmrTX
  <2>1. LoopType'
    BY <1>0, <1>14, Constants DEF dmrTX, LoopType, Stages
  <2>2. TimerType'
    BY <1>0, <1>14, TimerClosed, Constants DEF dmrTX, TimerType, LoopType
  <2>3. CallType' /\ ModeType' /\ AccessType' /\ StatusType' /\ ModemType'
    BY <1>0, <1>14 DEF dmrTX, access, loop, modem, status, timers,
       CallType, ModeType, AccessType, StatusType, ModemType, down
  <2> QED
    BY <2>1, <2>2, <2>3 DEF TypeOK, LoopType, CallType, ModeType, AccessType,
       TimerType, StatusType, ModemType
<1>15. CASE dmrTXExpired
  <2>1. LoopType'
    BY <1>0, <1>15 DEF dmrTXExpired, LoopType, Stages
  <2>2. ModemType'
    BY <1>0, <1>15 DEF dmrTXExpired, ModemType, Begin, GoOn, Operations
  <2>3. CallType' /\ ModeType' /\ AccessType' /\ TimerType' /\ StatusType'
    BY <1>0, <1>15 DEF dmrTXExpired, access, status, timers,
       CallType, ModeType, AccessType, TimerType, StatusType
  <2> QED
    BY <2>1, <2>2, <2>3 DEF TypeOK, LoopType, CallType, ModeType, AccessType,
       TimerType, StatusType, ModemType
<1>16. CASE pocsagDue \/ pocsagNotDue
  <2>1. LoopType'
    BY <1>0, <1>16 DEF pocsagDue, pocsagNotDue, NextIteration, LoopType, Stages
  <2>2. AccessType'
    BY <1>0, <1>16 DEF pocsagDue, pocsagNotDue, NextIteration, AccessType
  <2>3. ModemType'
    BY <1>0, <1>16 DEF pocsagDue, pocsagNotDue, NextIteration, ModemType
  <2>4. CallType' /\ ModeType' /\ TimerType' /\ StatusType'
    BY <1>0, <1>16 DEF pocsagDue, pocsagNotDue, NextIteration, status, timers,
       CallType, ModeType, TimerType, StatusType
  <2> QED
    BY <2>1, <2>2, <2>3, <2>4 DEF TypeOK, LoopType, CallType, ModeType, AccessType,
       TimerType, StatusType, ModemType
<1> QED
  BY <1>1, <1>2, <1>3, <1>4, <1>5, <1>6, <1>7, <1>8, <1>9, <1>10, <1>11, <1>12, <1>13, <1>14, <1>15, <1>16 DEF Loop

\* What a thread does to the downlink, on whichever thread.
LEMMA DownlinkSteps ==
  ASSUME TypeOK, NEW t \in Threads, downlinkStep(t)
  PROVE  TypeOK'
<1>0. /\ LoopType /\ CallType /\ ModeType /\ AccessType
      /\ TimerType /\ StatusType /\ ModemType
  BY Groups
<1>1. CASE writeDMRStart(t)
  <2>1. ModemType'
    BY <1>0, <1>1 DEF writeDMRStart, ModemType, Begin, GoOn, Operations, Started, Stopped, Crossing
  <2>2. /\ LoopType' /\ CallType' /\ ModeType' /\ AccessType' /\ TimerType' /\ StatusType'
    BY <1>0, <1>1 DEF writeDMRStart, loop, access, timers, status,
       LoopType, CallType, ModeType, AccessType, TimerType, StatusType
  <2> QED
    BY <2>1, <2>2 DEF TypeOK, LoopType, CallType, ModeType, AccessType,
       TimerType, StatusType, ModemType
<1>2. CASE timeDownlink(t)
  <2>1. ModemType'
    BY <1>0, <1>2 DEF timeDownlink, ModemType, GoOn, Operations, Crossing
  <2>2. TimerType'
    BY <1>0, <1>2, TimerClosed DEF timeDownlink, TimerType
  <2>3. /\ LoopType' /\ CallType' /\ ModeType' /\ AccessType' /\ StatusType'
    BY <1>0, <1>2 DEF timeDownlink, loop, access, status,
       LoopType, CallType, ModeType, AccessType, StatusType
  <2> QED
    BY <2>1, <2>2, <2>3 DEF TypeOK, LoopType, CallType, ModeType, AccessType,
       TimerType, StatusType, ModemType
<1> QED
  BY <1>1, <1>2 DEF downlinkStep

LEMMA TypeStep ==
  ASSUME TypeOK, [Next]_vars
  PROVE  TypeOK'
<1>1. CASE setModeStep("main")
  BY <1>1, CallSteps, Constants
<1>2. CASE Traffic
  BY <1>2, TrafficSteps DEF Traffic
<1>3. CASE Loop /\ ~Traffic
  BY <1>3, LoopSteps
<1>4. CASE UNCHANGED vars
  BY <1>4 DEF vars, loop, access, timers, status, modem, TypeOK, down
<1>5. CASE downlinkStep("main")
  BY <1>5, DownlinkSteps, Constants
<1> QED
  BY <1>1, <1>2, <1>3, <1>4, <1>5 DEF Next, Main

\* Every variable of the mode controller keeps its type, through every stage of the
\* loop and every phase of setMode.
THEOREM TypeCorrect == Spec => []TypeOK
<1>1. TypeOK /\ [Next]_vars => TypeOK'
  BY TypeStep
<1> QED
  BY InitType, <1>1, PTL DEF Spec


-----------------------------------------------------------------------------
(* The obligation to identify.                                             *)

LEMMA IdentificationInit == ASSUME Init PROVE IdentificationDue
<1> SUFFICES ASSUME CWIdTime >= 4 PROVE IsRunning(m_cwIdTimer) <=> ~m_cwIdPending
  BY DEF IdentificationDue
<1>1. CWIdTime \in Nat /\ CWIdTime \div 4 > 0
  BY Constants
<1>2. m_cwIdTimer = Start(SetUp(CWIdTime \div 4)) /\ m_cwIdPending = FALSE
  BY DEF Init
<1>3. SetUp(CWIdTime \div 4).timeout > 0
  BY <1>1 DEF SetUp, SetTimeout, Unset
<1>4. IsRunning(Start(SetUp(CWIdTime \div 4)))
  <2>1. SetUp(CWIdTime \div 4) = [timeout |-> CWIdTime \div 4 + 1, timer |-> 0]
    BY <1>1 DEF SetUp, SetTimeout, Unset
  <2> QED
    BY <1>3, <2>1 DEF Start, IsRunning
<1> QED
  BY <1>2, <1>4

LEMMA RearmedRuns ==
  ASSUME NEW t \in Timer, CWIdTime >= 4
  PROVE  IsRunning(Rearmed(t))
<1>1. CWIdTime \in Nat /\ CWIdTime > 0
  BY Constants
<1>2. /\ SetTimeout(t, CWIdTime) \in [timeout : Nat, timer : Nat]
      /\ SetTimeout(t, CWIdTime).timeout = CWIdTime + 1
  BY <1>1 DEF SetTimeout, Timer
<1> QED
  BY <1>1, <1>2 DEF Rearmed, Start, IsRunning

LEMMA ClockRuns ==
  ASSUME NEW t \in Timer, NEW n \in Nat
  PROVE  IsRunning(Clock(t, n)) <=> IsRunning(t)
BY DEF Clock, IsRunning, Timer

LEMMA IdentificationStep ==
  ASSUME TypeOK, IdentificationDue, [Next]_vars
  PROVE  IdentificationDue'
<1> SUFFICES ASSUME CWIdTime >= 4 PROVE (IsRunning(m_cwIdTimer) <=> ~m_cwIdPending)'
  BY DEF IdentificationDue
<1>1. m_cwIdTimer \in Timer /\ m_cwIdPending \in BOOLEAN /\ ms \in Nat
  BY Constants DEF TypeOK
<1>2. IsRunning(m_cwIdTimer) <=> ~m_cwIdPending
  BY DEF IdentificationDue
<1>3. CASE cwId
  <2> DEFINE clocked == Clock(m_cwIdTimer, ms)
             stopped == IF HasExpired(clocked) THEN Stop(clocked) ELSE clocked
             pending == m_cwIdPending \/ HasExpired(clocked)
  <2>1. clocked \in Timer /\ stopped \in Timer
    BY <1>1, TimerClosed
  <2>2. CASE pending /\ MayIdentify
    <3>1. m_cwIdTimer' = Rearmed(stopped) /\ m_cwIdPending' = FALSE
      BY <1>3, <2>2 DEF cwId
    <3> QED
      BY <3>1, <2>1, RearmedRuns
  <2>3. CASE ~(pending /\ MayIdentify)
    <3>1. m_cwIdTimer' = stopped /\ m_cwIdPending' = pending
      BY <1>3, <2>3 DEF cwId
    <3>2. IsRunning(clocked) <=> IsRunning(m_cwIdTimer)
      BY <1>1, ClockRuns
    <3>3. CASE HasExpired(clocked)
      <4>1. ~IsRunning(Stop(clocked))
        BY <2>1 DEF Stop, IsRunning, Timer
      <4> QED
        BY <3>1, <3>3, <4>1
    <3>4. CASE ~HasExpired(clocked)
      BY <3>1, <3>2, <3>4, <1>2
    <3> QED
      BY <3>3, <3>4
  <2> QED
    BY <2>2, <2>3
<1>4. CASE setModeModem("main")
  <2>1. CASE call["main"].to = "IDLE" /\ m_mode = "ERROR"
    BY <1>4, <2>1, <1>1, RearmedRuns DEF setModeModem
  <2>2. CASE ~(call["main"].to = "IDLE" /\ m_mode = "ERROR")
    BY <1>4, <2>2, <1>2 DEF setModeModem
  <2> QED
    BY <2>1, <2>2
<1>5. CASE UNCHANGED <<m_cwIdTimer, m_cwIdPending>>
  BY <1>5, <1>2
<1>6. cwId \/ setModeModem("main") \/ UNCHANGED <<m_cwIdTimer, m_cwIdPending>>
  BY DEF Next, Main, Loop, Traffic, setModeStep, setModeSwitch, setModeAssign, setModeTimer,
     checkLockout, checkError, rfWake, rfContinue, rfNothing, checkHang, netWake,
     netContinue, netNothing, netWrite, modemClock, modemSilent, modemReopen, beacon,
     noBeacon, beaconDuration, dmrTX, dmrTXExpired, pocsagDue,
       pocsagNotDue, NextIteration, downlinkStep, writeDMRStart, timeDownlink, vars, timers, loop
<1> QED
  BY <1>3, <1>4, <1>5, <1>6

\* The CW interval is counting or an identification is pending, never neither,
\* so the obligation survives every mode change, lockout and modem reset.
THEOREM IdentificationNeverLost == Spec => []IdentificationDue
<1>1. Init => IdentificationDue
  BY IdentificationInit
<1>2. TypeOK /\ IdentificationDue /\ [Next]_vars => IdentificationDue'
  BY IdentificationStep
<1> QED
  BY <1>1, <1>2, TypeCorrect, PTL DEF Spec

-----------------------------------------------------------------------------
(* The downlink.                                                           *)

\* The stages between the clock of an iteration and its transmit timer.
Told == {"cw", "beacon", "duration", "tx"}

\* What the transmit timer becomes.
LEMMA DownlinkTimer ==
  ASSUME TypeOK, m_dmrTXTimer.timeout = TXHang + 1, TXHang >= 3
  PROVE  /\ Start(m_dmrTXTimer) = [timeout |-> TXHang + 1, timer |-> 1]
         /\ Stop(m_dmrTXTimer) = [timeout |-> TXHang + 1, timer |-> 0]
         /\ m_dmrTXTimer.timer \in Nat /\ m_dmrTXTimer.timer <= TXHang + 1
<1>1. m_dmrTXTimer \in [timeout : Nat, timer : Nat] /\ m_dmrTXTimer.timer <= m_dmrTXTimer.timeout
  BY DEF TypeOK, Timer
<1> QED
  BY <1>1, Constants DEF Start, Stop

\* A thread that nobody crosses is alone.
LEMMA Alone ==
  ASSUME NEW t \in Threads, ~Crossing(t)
  PROVE  ~Overlap /\ \A u \in Threads : u # t => downlink[u] = "idle"
BY DEF Overlap, Crossing, Idle

LEMMA CarrierInit == ASSUME Init, TXHang >= 3 PROVE CarrierInv
<1>1. m_dmrTXTimer = [timeout |-> TXHang + 1, timer |-> 0]
  BY Constants DEF Init, SetUp, SetTimeout, Unset
<1>2. carrier = "off" /\ ms = 0 /\ ~Overlap
  BY DEF Init, Overlap, Idle
<1> QED
  BY <1>1, <1>2 DEF CarrierInv

\* An action that touches neither the downlink nor its timer nor the clock.
LEMMA CarrierKept ==
  ASSUME CarrierInv,
         UNCHANGED <<carrier, m_dmrTXTimer, m_tx, ms, downlink, slow, crossed>>,
         pc \in Told => pc' \in Told
  PROVE  CarrierInv'
<1>1. (Attended => Attended') /\ (Overlap' => Overlap)
  BY DEF Attended, Overlap, Crossing, Idle
<1> QED
  BY <1>1 DEF CarrierInv, Told

\* A thread sets about starting or stopping the downlink.  It only stops one that
\* is seen to be on, or whose timer has run out.
LEMMA CarrierBegun ==
  ASSUME TypeOK, CarrierInv, NEW t \in Threads, Idle(t), NEW what \in {"start", "stop"},
         Begin(t, what), UNCHANGED <<carrier, m_dmrTXTimer, m_tx, ms, slow>>,
         pc \in Told => pc' \in Told,
         what = "stop" => m_tx \/ m_dmrTXTimer.timer + ms > 3
  PROVE  CarrierInv'
<1>1. /\ downlink'[t] = what /\ downlink[t] = "idle"
      /\ \A u \in Threads \ {t} : downlink'[u] = downlink[u]
      /\ crossed' = (crossed \/ Crossing(t))
  BY DEF Begin, GoOn, Idle, TypeOK
<1>2. CASE Crossing(t)
  BY <1>1, <1>2 DEF CarrierInv, Told
<1>3. CASE ~Crossing(t)
  <2>1. ~Overlap /\ \A u \in Threads : downlink[u] = "idle"
    BY <1>1, <1>3, Alone
  <2>2. Attended => Attended'
    <3>1. \A u \in Threads : downlink'[u] = "stop" => what = "stop"
      BY <1>1, <2>1
    <3>2. \A u \in Threads : downlink'[u] \notin {"stopped", "started"}
      BY <1>1, <2>1
    <3>3. ASSUME Attended PROVE what = "stop" => m_tx
      <4>1. ~m_tx => m_dmrTXTimer.timer + ms <= IF carrier = "starting" THEN 2 ELSE 3
        BY <2>1, <3>3 DEF Attended
      <4>2. m_dmrTXTimer.timer \in Nat /\ ms \in Nat
        BY Constants DEF TypeOK, Timer
      <4> QED
        BY <4>1, <4>2
    <3> QED
      BY <2>1, <3>1, <3>2, <3>3 DEF Attended
  <2>3. ~Overlap'
    BY <1>1, <2>1 DEF Overlap, Crossing, Idle
  <2>4. crossed' = crossed
    BY <1>1, <1>3 DEF TypeOK
  <2> QED
    BY <2>1, <2>2, <2>3, <2>4 DEF CarrierInv, Told
<1> QED
  BY <1>2, <1>3

\* The write.
LEMMA CarrierWritten ==
  ASSUME TypeOK, CarrierInv, NEW t \in Threads, writeDMRStart(t)
  PROVE  CarrierInv'
<1>1. UNCHANGED <<pc, ms, slow, m_tx, m_dmrTXTimer, crossed>>
  BY DEF writeDMRStart, loop, timers, status
<1>2. /\ \A u \in Threads \ {t} : downlink'[u] = downlink[u]
      /\ downlink[t] = "start" => downlink'[t] = "started" /\ carrier' = Started(carrier)
      /\ downlink[t] # "start" =>
           downlink[t] = "stop" /\ downlink'[t] = "stopped" /\ carrier' = Stopped(carrier)
  BY DEF writeDMRStart, GoOn, TypeOK
<1>3. carrier' = "starting" => ~m_tx'
  BY <1>1, <1>2 DEF CarrierInv, Started, Stopped
<1>4. ASSUME carrier' # "off" PROVE slow' \/ crossed' \/ Attended'
  <2>1. CASE Crossing(t)
    <3>1. Overlap
      BY <1>2, <2>1 DEF Overlap, Idle
    <3> QED
      BY <1>1, <3>1 DEF CarrierInv
  <2>2. CASE ~Crossing(t)
    <3>1. \A u \in Threads : u # t => downlink[u] = "idle"
      BY <2>2, Alone
    <3>2. CASE downlink[t] = "start"
      <4>1. \A u \in Threads : downlink'[u] \notin {"stop", "stopped"}
        BY <1>2, <3>1, <3>2
      <4>2. downlink'[t] = "started"
        BY <1>2, <3>2
      <4> QED
        BY <4>1, <4>2 DEF Attended
    <3>3. CASE downlink[t] # "start"
      <4>1. carrier # "off" /\ ~m_tx
        BY <1>2, <1>4, <3>3 DEF Stopped
      <4>2. slow \/ crossed
        BY <1>2, <3>3, <4>1 DEF CarrierInv, Attended
      <4> QED
        BY <1>1, <4>2
    <3> QED
      BY <3>2, <3>3
  <2> QED
    BY <2>1, <2>2
<1>5. Overlap' => Overlap
  BY <1>2 DEF Overlap, Crossing, Idle
<1> QED
  BY <1>1, <1>3, <1>4, <1>5 DEF CarrierInv

\* The timer.
LEMMA CarrierTold ==
  ASSUME TypeOK, CarrierInv, TXHang >= 3, NEW t \in Threads, timeDownlink(t)
  PROVE  CarrierInv'
<1>1. /\ UNCHANGED <<pc, ms, slow, m_tx, carrier>>
      /\ crossed' = (Crossing(t) \/ (crossed /\ carrier # "off"))
  BY DEF timeDownlink, loop, status
<1>2. /\ \A u \in Threads \ {t} : downlink'[u] = downlink[u]
      /\ downlink'[t] = "idle"
      /\ downlink[t] = "started" => m_dmrTXTimer' = [timeout |-> TXHang + 1, timer |-> 1]
      /\ downlink[t] # "started" =>
           downlink[t] = "stopped" /\ m_dmrTXTimer' = [timeout |-> TXHang + 1, timer |-> 0]
  <2>1. m_dmrTXTimer.timeout = TXHang + 1
    BY DEF CarrierInv
  <2> QED
    BY <2>1, DownlinkTimer DEF timeDownlink, GoOn, TypeOK
<1>3. m_dmrTXTimer'.timeout = TXHang + 1
  BY <1>2
<1>4. ASSUME carrier # "off" PROVE slow' \/ crossed' \/ Attended'
  <2>1. CASE Crossing(t)
    BY <1>1, <2>1
  <2>2. CASE ~Crossing(t)
    <3>1. \A u \in Threads : u # t => downlink[u] = "idle"
      BY <2>2, Alone
    <3>2. CASE downlink[t] = "started"
      <4>1. \A u \in Threads : downlink'[u] = "idle"
        BY <1>2, <3>1
      <4>2. ms \in Nat /\ (ms <= 1 \/ slow)
        BY Constants DEF CarrierInv, TypeOK
      <4>3. m_dmrTXTimer'.timer = 1
        BY <1>2, <3>2
      <4> QED
        BY <1>1, <4>1, <4>2, <4>3 DEF Attended
    <3>3. CASE downlink[t] # "started"
      <4>1. slow \/ crossed
        BY <1>2, <1>4, <3>3 DEF CarrierInv, Attended
      <4> QED
        BY <1>1, <1>4, <4>1
    <3> QED
      BY <3>2, <3>3
  <2> QED
    BY <2>1, <2>2
<1>5. Overlap' => crossed'
  <2>1. ASSUME Overlap' PROVE Crossing(t)
    BY <1>2, <2>1 DEF Overlap, Crossing, Idle
  <2> QED
    BY <1>1, <2>1
<1> QED
  BY <1>1, <1>3, <1>4, <1>5 DEF CarrierInv

\* A frame makes the timer fresh, with the downlink up.
LEMMA CarrierFresh ==
  ASSUME TypeOK, CarrierInv, TXHang >= 3, m_dmrTXTimer' = Start(m_dmrTXTimer),
         UNCHANGED <<carrier, m_tx, ms, downlink, slow, crossed>>,
         pc \notin Told, pc' \notin Told
  PROVE  CarrierInv'
<1>1. m_dmrTXTimer'.timeout = TXHang + 1 /\ m_dmrTXTimer'.timer = 1
  BY DownlinkTimer DEF CarrierInv
<1>2. ms = 0
  BY DEF CarrierInv, Told
<1>3. (Attended => Attended') /\ (Overlap' => Overlap)
  BY <1>1, <1>2 DEF Attended, Overlap, Crossing, Idle
<1> QED
  BY <1>1, <1>2, <1>3 DEF CarrierInv, Told

\* The clock.  In an iteration that was not held up a downlink whose start has been
\* answered by a status is seen to be on before its timer is told of the time.
LEMMA CarrierClocked ==
  ASSUME TypeOK, CarrierInv, modemClock
  PROVE  CarrierInv'
<1>1. /\ UNCHANGED <<m_dmrTXTimer, downlink, crossed>>
      /\ pc' = "cw" /\ ms' \in 0 .. MaxTick /\ slow' = (slow \/ ms' > 1)
      /\ carrier' = IF carrier = "off" THEN "off" ELSE "on"
  BY DEF modemClock
<1>2. ms = 0 /\ ms' \in Nat /\ m_dmrTXTimer.timer \in Nat
  BY <1>1, Constants DEF modemClock, At, CarrierInv, TypeOK, Timer
<1>3. Overlap' => Overlap
  BY <1>1 DEF Overlap, Crossing, Idle
<1>4. ASSUME Attended, carrier # "off", ms' <= 1 PROVE Attended'
  <2>1. carrier' = "on"
    BY <1>1, <1>4
  <2>2. m_tx => m_tx' \/ carrier = "starting"
    <3>1. carrier = "on" \/ carrier = "starting"
      BY <1>4 DEF TypeOK
    <3> QED
      BY <3>1 DEF modemClock, status, TypeOK
  <2>3. m_tx => m_tx'
    BY <2>2 DEF CarrierInv
  <2>4. \A t \in Threads : downlink'[t] = downlink[t]
    BY <1>1
  <2>5. (\A t \in Threads : downlink[t] # "started") => m_dmrTXTimer.timer > 0
    BY <1>4 DEF Attended
  <2>6. ASSUME \A t \in Threads : downlink[t] # "started", ~m_tx'
        PROVE  m_dmrTXTimer.timer + ms' <= 3
    <3>1. m_dmrTXTimer.timer <= IF carrier = "starting" THEN 2 ELSE 3
      BY <1>2, <1>4, <2>3, <2>6 DEF Attended
    <3>2. CASE carrier = "starting"
      BY <1>2, <1>4, <3>1, <3>2
    <3>3. CASE carrier # "starting"
      <4>1. carrier = "on"
        BY <1>4, <3>3 DEF TypeOK
      <4>2. ms' # 1
        BY <2>6, <4>1 DEF modemClock
      <4> QED
        BY <1>2, <1>4, <3>1, <3>3, <4>2
    <3> QED
      BY <3>2, <3>3
  <2> QED
    BY <1>1, <1>4, <2>1, <2>3, <2>4, <2>5, <2>6 DEF Attended
<1>5. m_dmrTXTimer'.timeout = TXHang + 1
  BY <1>1 DEF CarrierInv
<1>6. ASSUME carrier' # "off" PROVE slow' \/ crossed' \/ Attended'
  <2>1. carrier # "off"
    BY <1>1, <1>6
  <2>2. slow \/ crossed \/ Attended
    BY <2>1 DEF CarrierInv
  <2>3. ms' > 1 \/ ms' <= 1
    BY <1>2
  <2> QED
    BY <1>1, <1>4, <2>1, <2>2, <2>3
<1> QED
  BY <1>1, <1>3, <1>5, <1>6 DEF CarrierInv

\* The transmit timer is told of the time, once in an iteration.
LEMMA CarrierCounted ==
  ASSUME TypeOK, CarrierInv, TXHang >= 3, dmrTX
  PROVE  CarrierInv'
<1>1. /\ UNCHANGED <<carrier, m_tx, downlink, slow, crossed>>
      /\ pc' = "expired" /\ ms' = 0
      /\ m_dmrTXTimer' = Clock(m_dmrTXTimer, ms)
  BY DEF dmrTX, status, modem, down
<1>2. /\ m_dmrTXTimer \in [timeout : Nat, timer : Nat] /\ ms \in Nat
      /\ m_dmrTXTimer.timer <= m_dmrTXTimer.timeout
  BY Constants DEF TypeOK, Timer
<1>3. /\ m_dmrTXTimer'.timeout = m_dmrTXTimer.timeout /\ m_dmrTXTimer'.timer \in Nat
      /\ m_dmrTXTimer'.timer <= m_dmrTXTimer.timer + ms
      /\ m_dmrTXTimer.timer > 0 => m_dmrTXTimer'.timer > 0
  <2>1. CASE IsRunning(m_dmrTXTimer)
    <3>1. PICK n \in Nat :
            /\ n = IF m_dmrTXTimer.timer + ms <= m_dmrTXTimer.timeout
                     THEN m_dmrTXTimer.timer + ms ELSE m_dmrTXTimer.timeout
            /\ m_dmrTXTimer' = [m_dmrTXTimer EXCEPT !.timer = n]
      BY <1>1, <1>2, <2>1 DEF Clock
    <3>2. m_dmrTXTimer'.timer = n /\ m_dmrTXTimer'.timeout = m_dmrTXTimer.timeout
      BY <1>2, <3>1
    <3> QED
      BY <1>2, <2>1, <3>1, <3>2 DEF IsRunning
  <2>2. CASE ~IsRunning(m_dmrTXTimer)
    BY <1>1, <1>2, <2>2 DEF Clock, IsRunning
  <2> QED
    BY <2>1, <2>2
<1>4. Overlap' => Overlap
  BY <1>1 DEF Overlap, Crossing, Idle
<1>5. Attended => Attended'
  <2>1. ASSUME Attended, \A t \in Threads : downlink[t] # "started", ~m_tx
        PROVE  m_dmrTXTimer'.timer + 0 <= IF carrier = "starting" THEN 2 ELSE 3
    <3>1. m_dmrTXTimer.timer + ms <= IF carrier = "starting" THEN 2 ELSE 3
      BY <2>1 DEF Attended
    <3> QED
      BY <1>2, <1>3, <3>1
  <2> QED
    BY <1>1, <1>3, <2>1 DEF Attended
<1> QED
  BY <1>1, <1>3, <1>4, <1>5 DEF CarrierInv, Told

\* The modem that was reopened has no downlink, and an iteration that has ended
\* without one starts afresh.
LEMMA CarrierDown ==
  ASSUME TypeOK, CarrierInv, modemReopen \/ NextIteration
  PROVE  CarrierInv'
<1>1. CASE modemReopen
  <2>1. /\ carrier' = "off" /\ slow' = (slow \/ ms' > 1) /\ pc' = "cw"
        /\ UNCHANGED <<m_dmrTXTimer, downlink, crossed>>
    BY <1>1 DEF modemReopen
  <2>2. Overlap' => Overlap
    BY <2>1 DEF Overlap, Crossing, Idle
  <2> QED
    BY <2>1, <2>2 DEF CarrierInv
<1>2. CASE NextIteration
  <2>1. /\ UNCHANGED <<carrier, m_dmrTXTimer, m_tx, ms, downlink, crossed>>
        /\ slow' = (slow /\ carrier # "off") /\ pc = "pocsag" /\ pc' = "lockout"
    BY <1>2 DEF NextIteration, At, timers, status
  <2>2. ms = 0
    BY <2>1 DEF CarrierInv
  <2>3. CASE carrier = "off"
    <3>1. Overlap' => Overlap
      BY <2>1 DEF Overlap, Crossing, Idle
    <3> QED
      BY <2>1, <2>2, <2>3, <3>1 DEF CarrierInv
  <2>4. CASE carrier # "off"
    <3>1. slow' = slow
      BY <2>1, <2>4 DEF TypeOK
    <3> QED
      BY <2>1, <3>1, CarrierKept DEF Told
  <2> QED
    BY <2>3, <2>4
<1> QED
  BY <1>1, <1>2

\* setMode, on whichever thread.
LEMMA CarrierSetMode ==
  ASSUME TypeOK, CarrierInv, NEW t \in Threads, setModeStep(t)
  PROVE  CarrierInv'
<1>1. UNCHANGED <<carrier, m_dmrTXTimer, m_tx, ms, pc, slow>> /\ Idle(t)
  BY DEF setModeStep, setModeSwitch, setModeModem, setModeAssign, setModeTimer,
     loop, timers, status, modem, down
<1>2. \/ UNCHANGED <<downlink, crossed>>
      \/ Begin(t, "start")
      \/ Begin(t, "stop") /\ m_tx
  BY DEF setModeStep, setModeSwitch, setModeModem, setModeAssign, setModeTimer,
     modem, down, LeavesDMR
<1>3. CASE UNCHANGED <<downlink, crossed>>
  BY <1>1, <1>3, CarrierKept
<1>4. CASE Begin(t, "start")
  BY <1>1, <1>4, CarrierBegun
<1>5. CASE Begin(t, "stop") /\ m_tx
  BY <1>1, <1>5, CarrierBegun
<1> QED
  BY <1>2, <1>3, <1>4, <1>5

LEMMA CarrierStep ==
  ASSUME TypeOK, CarrierInv, TXHang >= 3, [Next]_vars
  PROVE  CarrierInv'
<1>0. "main" \in Threads
  BY Constants
<1>1. CASE setModeStep("main")
  BY <1>0, <1>1, CarrierSetMode
<1>2. CASE downlinkStep("main")
  BY <1>0, <1>2, CarrierWritten, CarrierTold DEF downlinkStep
<1>3. CASE \E p \in Protos : rfContinue(p)
  <2>1. PICK p \in Protos : rfContinue(p)
    BY <1>3
  <2>2. /\ pc = "rf" /\ pc' = "hang" /\ Idle("main")
        /\ UNCHANGED <<carrier, m_tx, ms, slow>>
    BY <2>1 DEF rfContinue, At, Returned, status
  <2>3. \/ Begin("main", "start") /\ UNCHANGED m_dmrTXTimer
        \/ UNCHANGED <<downlink, crossed>> /\ m_dmrTXTimer' \in {m_dmrTXTimer, Start(m_dmrTXTimer)}
    BY <2>1 DEF rfContinue
  <2>4. pc \notin Told /\ pc' \notin Told
    BY <2>2 DEF Told
  <2>5. CASE Begin("main", "start") /\ UNCHANGED m_dmrTXTimer
    BY <1>0, <2>2, <2>4, <2>5, CarrierBegun
  <2>6. CASE UNCHANGED <<downlink, crossed>> /\ m_dmrTXTimer' = m_dmrTXTimer
    BY <2>2, <2>4, <2>6, CarrierKept
  <2>7. CASE UNCHANGED <<downlink, crossed>> /\ m_dmrTXTimer' = Start(m_dmrTXTimer)
    BY <2>2, <2>4, <2>7, CarrierFresh
  <2> QED
    BY <2>3, <2>5, <2>6, <2>7
<1>4. CASE netWrite
  <2>1. /\ pc = "write" /\ pc' = "clock" /\ Idle("main")
        /\ UNCHANGED <<carrier, m_dmrTXTimer, m_tx, ms, slow>>
        /\ Begin("main", "start") \/ UNCHANGED <<downlink, crossed>>
    BY <1>4 DEF netWrite, At, Returned, status
  <2>2. pc \notin Told
    BY <2>1 DEF Told
  <2> QED
    BY <1>0, <2>1, <2>2, CarrierBegun, CarrierKept
<1>5. CASE modemClock
  BY <1>5, CarrierClocked
<1>6. CASE dmrTX
  BY <1>6, CarrierCounted
<1>7. CASE dmrTXExpired
  <2>1. /\ pc = "expired" /\ pc' = "pocsag" /\ Idle("main")
        /\ UNCHANGED <<carrier, m_dmrTXTimer, m_tx, ms, slow>>
        /\ \/ Begin("main", "stop") /\ HasExpired(m_dmrTXTimer)
           \/ UNCHANGED <<downlink, crossed>>
    BY <1>7 DEF dmrTXExpired, At, Returned, timers, status
  <2>2. pc \notin Told
    BY <2>1 DEF Told
  <2>3. HasExpired(m_dmrTXTimer) => m_dmrTXTimer.timer + ms > 3
    <3>1. m_dmrTXTimer.timeout = TXHang + 1 /\ ms \in Nat /\ m_dmrTXTimer.timer \in Nat
      BY Constants DEF CarrierInv, TypeOK, Timer
    <3> QED
      BY <3>1, Constants DEF HasExpired
  <2> QED
    BY <1>0, <2>1, <2>2, <2>3, CarrierBegun, CarrierKept
<1>8. CASE modemReopen \/ pocsagDue \/ pocsagNotDue
  BY <1>8, CarrierDown DEF pocsagDue, pocsagNotDue
<1>9. CASE modemSilent
  <2>1. pc = "clock" /\ UNCHANGED <<carrier, m_dmrTXTimer, m_tx, ms, downlink, slow, crossed>>
    BY <1>9 DEF modemSilent, At, timers, modem, down
  <2> QED
    BY <2>1, CarrierKept DEF Told
<1>10. CASE \E p \in Protos : rfWake(p) \/ netWake(p) \/ netContinue(p)
  <2>1. /\ UNCHANGED <<carrier, m_dmrTXTimer, m_tx, ms, downlink, slow, crossed>>
        /\ pc \in {"rf", "net"}
    BY <1>10 DEF rfWake, netWake, netContinue, At, timers, status, modem, down
  <2> QED
    BY <2>1, CarrierKept DEF Told
<1>11. CASE checkLockout \/ checkError \/ rfNothing \/ checkHang \/ netNothing
  <2>1. /\ UNCHANGED <<carrier, m_dmrTXTimer, m_tx, ms, downlink, slow, crossed>>
        /\ pc \in {"lockout", "error", "rf", "hang", "net"}
    BY <1>11 DEF checkLockout, checkError, rfNothing, checkHang, netNothing, At,
       timers, status, modem, down
  <2> QED
    BY <2>1, CarrierKept DEF Told
<1>12. CASE cwId \/ beacon \/ noBeacon \/ beaconDuration
  <2>1. /\ UNCHANGED <<carrier, m_dmrTXTimer, m_tx, ms, downlink, slow, crossed>>
        /\ pc' \in {"beacon", "duration", "tx"}
    BY <1>12 DEF cwId, beacon, noBeacon, beaconDuration, timers, status, modem, down
  <2> QED
    BY <2>1, CarrierKept DEF Told
<1>13. CASE UNCHANGED vars
  BY <1>13, CarrierKept DEF vars, loop, timers, status, modem, down, Told
<1> QED
  BY <1>1, <1>2, <1>3, <1>4, <1>5, <1>6, <1>7, <1>8, <1>9, <1>10, <1>11, <1>12, <1>13
     DEF Next, Main, Loop, Traffic

LEMMA CarrierSafe == ASSUME TypeOK, CarrierInv PROVE CarrierTimed
BY DEF TypeOK, Timer, CarrierInv, Attended, CarrierTimed, IsRunning

\* While the DMR downlink is up the timer that takes it down is counting or about
\* to be started, whichever way DMR mode is left, if the transmit hang is at least
\* a second; except after an iteration that was held up, however long.
THEOREM CarrierAttended ==
  ASSUME TXHang >= 3
  PROVE  Spec => []CarrierTimed
<1>1. Init => CarrierInv
  BY CarrierInit
<1>2. TypeOK /\ CarrierInv /\ [Next]_vars => CarrierInv'
  BY CarrierStep
<1>3. TypeOK /\ CarrierInv => CarrierTimed
  BY CarrierSafe
<1> QED
  BY <1>1, <1>2, <1>3, TypeCorrect, PTL DEF Spec

-----------------------------------------------------------------------------
(* The channel: which protocol is let through, and the modem's mode.       *)

\* The names of the modes are distinct.
LEMMA ModeNames ==
  /\ "IDLE" \notin Protos /\ "LOCKOUT" \notin Protos /\ "ERROR" \notin Protos
  /\ "none" \notin Protos
BY HostAssumption DEF HostAssumption, AllProtos

\* The main thread's call, before and after it is assigned.
LEMMA MainCall ==
  ASSUME TypeOK, NEW c, call' = [call EXCEPT !["main"] = c]
  PROVE  call'["main"] = c /\ \A t \in Threads \ {"main"} : call'[t] = call[t]
BY Constants DEF TypeOK

LEMMA MainCallType ==
  ASSUME TypeOK
  PROVE  /\ call["main"] \in [to : Modes, at : Phases]
         /\ To \in Modes /\ Phase \in Phases
BY Constants DEF TypeOK, To, Phase

\* With every protocol enabled, setMode switches on what the new mode wants.
LEMMA SwitchedOnWanted ==
  ASSUME NEW to \in Modes, NEW m, enabled = Protos, NEW on, on = Wanted(m),
         to \in Protos => m = "IDLE", to # "ERROR",
         m \in {"IDLE", "LOCKOUT"} \cup Protos
  PROVE  SwitchedOn(on, to) = Wanted(to)
<1>1. MayRun = Protos /\ on \subseteq Protos
  BY ModeNames DEF MayRun, Unconditional, Wanted
<1>2. CASE to \in Protos
  BY <1>1, <1>2 DEF SwitchedOn, Wanted
<1>3. CASE to = "IDLE"
  BY <1>1, <1>3, ModeNames DEF SwitchedOn, Wanted
<1>4. CASE to = "LOCKOUT"
  BY <1>4, ModeNames DEF SwitchedOn, Wanted
<1> QED
  BY <1>2, <1>3, <1>4 DEF Modes

LEMMA ChannelInit == ASSUME Init PROVE ChannelInv
<1>1. call["main"] = Quiescent /\ \A t \in Threads \ {"main"} : call[t] = Quiescent
  BY Constants DEF Init
<1>2. To = "IDLE" /\ Phase = "done"
  BY <1>1 DEF To, Phase, Quiescent
<1>3. Wanted("IDLE") = Protos
  BY ModeNames DEF Wanted
<1> QED
  BY <1>1, <1>2, <1>3 DEF Init, ChannelInv

\* An action of the loop that calls no setMode and leaves the modes alone.
LEMMA ChannelKept ==
  ASSUME ChannelInv, UNCHANGED <<call, m_mode, enabled, ctlOn, netOn, modemMode>>,
         m_error' => pc' = "reopen"
  PROVE  ChannelInv'
BY DEF ChannelInv, To, Phase

\* An action of the loop that calls setMode.
LEMMA ChannelCalled ==
  ASSUME TypeOK, ChannelInv, NEW to, setMode("main", to), Phase = "done",
         to # "ERROR", to \in Protos => m_mode = "IDLE",
         UNCHANGED <<m_mode, enabled, ctlOn, netOn, modemMode, m_error>>,
         pc # "reopen"
  PROVE  ChannelInv'
<1>1. /\ call'["main"] = [to |-> to, at |-> "switch"]
      /\ \A t \in Threads \ {"main"} : call'[t] = call[t]
  BY MainCall DEF setMode
<1>2. To' = to /\ Phase' = "switch"
  BY <1>1 DEF To, Phase
<1> QED
  BY <1>1, <1>2 DEF ChannelInv

LEMMA ChannelSetMode ==
  ASSUME TypeOK, ChannelInv, setModeStep("main")
  PROVE  ChannelInv'
<1>0. /\ call["main"] \in [to : Modes, at : Phases] /\ To \in Modes /\ Phase \in Phases
      /\ To = call["main"].to /\ Phase = call["main"].at
  BY MainCallType DEF To, Phase
<1>1. CASE setModeSwitch("main")
  <2>1. Phase = "switch" /\ enabled = Protos /\ MayRun = Protos
    BY <1>0, <1>1 DEF setModeSwitch, ChannelInv, MayRun, Unconditional
  <2>2. call' = [call EXCEPT !["main"] = [call["main"] EXCEPT !.at = "modem"]]
    BY <1>0, <1>1, <2>1 DEF setModeSwitch
  <2>3. /\ To' = To /\ Phase' = "modem"
        /\ \A t \in Threads \ {"main"} : call'[t] = call[t]
    BY <1>0, <2>2, MainCall DEF To, Phase
  <2>4. ctlOn = Wanted(m_mode) /\ netOn = Wanted(m_mode)
    BY <2>1 DEF ChannelInv
  <2>5. m_mode \in {"IDLE", "LOCKOUT"} \cup Protos
    BY DEF TypeOK, ChannelInv, Modes
  <2>6. To # "ERROR" /\ (To \in Protos => m_mode = "IDLE")
    BY <2>1 DEF ChannelInv
  <2>7. ctlOn' = Wanted(To) /\ netOn' = Wanted(To)
    BY <1>0, <1>1, <2>1, <2>4, <2>5, <2>6, SwitchedOnWanted DEF setModeSwitch
  <2>8. UNCHANGED <<pc, m_mode, enabled, m_error, modemMode>>
    BY <1>1 DEF setModeSwitch, loop, status
  <2> QED
    BY <2>1, <2>3, <2>7, <2>8 DEF ChannelInv, Wanted
<1>2. CASE setModeModem("main")
  <2>1. Phase = "modem" /\ call' = [call EXCEPT !["main"] = [call["main"] EXCEPT !.at = "mode"]]
    BY <1>0, <1>2 DEF setModeModem
  <2>2. /\ To' = To /\ Phase' = "mode"
        /\ \A t \in Threads \ {"main"} : call'[t] = call[t]
    BY <1>0, <2>1, MainCall DEF To, Phase
  <2>3. modemMode' \in {"IDLE", To}
    BY <1>0, <1>2 DEF setModeModem, ModemModeFor, ChannelInv
  <2>4. UNCHANGED <<pc, m_mode, enabled, ctlOn, netOn, m_error>>
    BY <1>2 DEF setModeModem, loop, access, status
  <2> QED
    BY <2>1, <2>2, <2>3, <2>4 DEF ChannelInv, Wanted
<1>3. CASE setModeAssign("main")
  <2>1. Phase = "mode" /\ call' = [call EXCEPT !["main"] = [call["main"] EXCEPT !.at = "timer"]]
    BY <1>0, <1>3 DEF setModeAssign
  <2>2. /\ To' = To /\ Phase' = "timer"
        /\ \A t \in Threads \ {"main"} : call'[t] = call[t]
    BY <1>0, <2>1, MainCall DEF To, Phase
  <2>3. m_mode' = To /\ UNCHANGED <<pc, enabled, ctlOn, netOn, m_error, modemMode>>
    BY <1>0, <1>3 DEF setModeAssign, loop, access, status, modem, down
  <2> QED
    BY <2>1, <2>2, <2>3 DEF ChannelInv, Wanted
<1>4. CASE setModeTimer("main")
  <2>1. Phase = "timer" /\ call' = [call EXCEPT !["main"] = Quiescent]
    BY <1>0, <1>4 DEF setModeTimer
  <2>2. /\ To' = "IDLE" /\ Phase' = "done"
        /\ \A t \in Threads \ {"main"} : call'[t] = call[t]
    BY <2>1, MainCall DEF To, Phase, Quiescent
  <2>3. m_mode = To /\ UNCHANGED <<pc, m_mode, enabled, ctlOn, netOn, m_error, modemMode>>
    BY <2>1, <1>4 DEF setModeTimer, loop, access, status, modem, ChannelInv, down
  <2> QED
    BY <2>1, <2>2, <2>3 DEF ChannelInv, Wanted
<1> QED
  BY <1>1, <1>2, <1>3, <1>4 DEF setModeStep

LEMMA ChannelStep ==
  ASSUME TypeOK, ChannelInv, [Next]_vars
  PROVE  ChannelInv'
<1>1. CASE setModeStep("main")
  BY <1>1, ChannelSetMode
<1>2. CASE checkLockout
  <2>1. Phase = "done" /\ pc # "reopen" /\ LockoutMode \in {"LOCKOUT", "IDLE", m_mode}
    BY <1>2 DEF checkLockout, At, Returned, Phase, LockoutMode
  <2>2. UNCHANGED <<m_mode, enabled, ctlOn, netOn, modemMode, m_error>> /\ pc' = "error"
    BY <1>2 DEF checkLockout, access, status, modem, down
  <2>3. CASE LockoutMode # m_mode
    <3>1. setMode("main", LockoutMode)
      BY <1>2, <2>3 DEF checkLockout, SwitchIf
    <3> QED
      BY <2>1, <2>2, <2>3, <3>1, ModeNames, ChannelCalled
  <2>4. CASE LockoutMode = m_mode
    <3>1. UNCHANGED call /\ ~m_error
      BY <1>2, <2>4 DEF checkLockout, SwitchIf, ChannelInv, At
    <3> QED
      BY <2>2, <3>1, ChannelKept
  <2> QED
    BY <2>3, <2>4
<1>3. CASE checkError
  <2>1. ~m_error /\ m_mode # "ERROR"
    BY <1>3 DEF checkError, At, ChannelInv
  <2>2. UNCHANGED call
    BY <1>3, <2>1 DEF checkError
  <2>3. UNCHANGED <<m_mode, enabled, ctlOn, netOn, modemMode, m_error>>
    BY <1>3 DEF checkError, access, status, modem, down
  <2> QED
    BY <2>1, <2>2, <2>3, ChannelKept
<1>4. CASE \E p \in Protos : rfWake(p) \/ netWake(p)
  <2>1. PICK p \in Protos : rfWake(p) \/ netWake(p)
    BY <1>4
  <2>2. /\ setMode("main", p) /\ Phase = "done" /\ m_mode = "IDLE" /\ pc # "reopen"
        /\ UNCHANGED <<m_mode, enabled, ctlOn, netOn, modemMode, m_error>>
    BY <2>1 DEF rfWake, netWake, At, Returned, Phase, Wakeable, access, status, modem, down
  <2> QED
    BY <2>2, ModeNames, ChannelCalled
<1>5. CASE checkHang
  <2>1. /\ Phase = "done" /\ pc # "reopen" /\ pc' = "net"
        /\ UNCHANGED <<m_mode, enabled, ctlOn, netOn, modemMode, m_error>>
    BY <1>5 DEF checkHang, At, Returned, Phase, access, status, modem, down
  <2>2. setMode("main", "IDLE") \/ UNCHANGED call
    BY <1>5 DEF checkHang, SwitchIf
  <2>3. ~m_error
    BY <2>1 DEF ChannelInv
  <2> QED
    BY <2>1, <2>2, <2>3, ModeNames, ChannelCalled, ChannelKept
<1>6. CASE beacon
  <2>1. /\ Phase = "done" /\ pc # "reopen" /\ pc' = "duration"
        /\ UNCHANGED <<m_mode, enabled, ctlOn, netOn, modemMode, m_error>>
    BY <1>6 DEF beacon, At, Returned, Phase, access, status, modem, down
  <2>2. (setMode("main", "DMR") /\ m_mode = "IDLE") \/ UNCHANGED call
    BY <1>6 DEF beacon, SwitchIf
  <2>3. ~m_error
    BY <2>1 DEF ChannelInv
  <2> QED
    BY <2>1, <2>2, <2>3, ModeNames, ChannelCalled, ChannelKept
<1>7. CASE beaconDuration
  <2>1. /\ Phase = "done" /\ pc # "reopen" /\ pc' = "tx"
        /\ UNCHANGED <<m_mode, enabled, ctlOn, netOn, modemMode, m_error>>
    BY <1>7 DEF beaconDuration, At, Returned, Phase, access, status, modem, down
  <2>2. setMode("main", "IDLE") \/ UNCHANGED call
    BY <1>7 DEF beaconDuration, SwitchIf
  <2>3. ~m_error
    BY <2>1 DEF ChannelInv
  <2> QED
    BY <2>1, <2>2, <2>3, ModeNames, ChannelCalled, ChannelKept
<1>8. CASE modemReopen
  <2>1. Phase = "done" /\ modemMode' = "IDLE" /\ m_error' = FALSE
    BY <1>8 DEF modemReopen, At, Returned, Phase
  <2>2. UNCHANGED <<call, m_mode, enabled, ctlOn, netOn>>
    BY <1>8 DEF modemReopen, access
  <2> QED
    BY <2>1, <2>2 DEF ChannelInv, To, Phase
<1>9. CASE modemSilent
  <2>1. pc' = "reopen" /\ UNCHANGED <<call, m_mode, enabled, ctlOn, netOn, modemMode>>
    BY <1>9 DEF modemSilent, access, modem, down
  <2> QED
    BY <2>1, ChannelKept
<1>10. CASE pocsagDue
  <2>1. /\ Phase = "done" /\ pc = "pocsag" /\ "POCSAG" \in Protos
        /\ UNCHANGED <<call, m_mode, enabled, ctlOn, modemMode, m_error>>
    BY <1>10 DEF pocsagDue, NextIteration, At, Returned, Phase, status
  <2>2. netOn = Wanted(m_mode) /\ enabled = Protos /\ ~m_error
    BY <2>1 DEF ChannelInv
  <2>3. netOn' = IF m_mode \in {"IDLE", "POCSAG"}
                   THEN netOn \cup {"POCSAG"} ELSE netOn \ {"POCSAG"}
    BY <1>10, <2>1, <2>2 DEF pocsagDue
  <2>4. CASE m_mode \in {"IDLE", "POCSAG"}
    <3>1. "POCSAG" \in Wanted(m_mode)
      BY <2>1, <2>4, ModeNames DEF Wanted
    <3> QED
      BY <2>1, <2>2, <2>3, <2>4, <3>1, ChannelKept
  <2>5. CASE m_mode \notin {"IDLE", "POCSAG"}
    <3>1. "POCSAG" \notin Wanted(m_mode)
      BY <2>1, <2>5, ModeNames DEF Wanted
    <3>2. netOn' = netOn
      BY <2>2, <2>3, <2>5, <3>1
    <3> QED
      BY <2>1, <2>2, <3>2, ChannelKept
  <2> QED
    BY <2>4, <2>5
<1>11. CASE modemClock
  <2>1. /\ pc = "clock" /\ UNCHANGED m_error
        /\ UNCHANGED <<call, m_mode, enabled, ctlOn, netOn, modemMode>>
    BY <1>11 DEF modemClock, At, access, status
  <2> QED
    BY <2>1, ChannelKept DEF ChannelInv
<1>12. CASE \E p \in Protos : rfContinue(p) \/ netContinue(p)
  <2>1. /\ pc # "reopen" /\ UNCHANGED m_error
        /\ UNCHANGED <<call, m_mode, enabled, ctlOn, netOn, modemMode>>
    BY <1>12 DEF rfContinue, netContinue, At, access, status, modem, down
  <2> QED
    BY <2>1, ChannelKept DEF ChannelInv
<1>13. CASE \/ rfNothing \/ netNothing \/ netWrite \/ cwId \/ noBeacon \/ dmrTX
            \/ dmrTXExpired \/ pocsagNotDue
  <2>1. /\ pc # "reopen" /\ UNCHANGED m_error
        /\ UNCHANGED <<call, m_mode, enabled, ctlOn, netOn, modemMode>>
    BY <1>13 DEF rfNothing, netNothing, netWrite, cwId, noBeacon, dmrTX, dmrTXExpired,
       pocsagNotDue, NextIteration, At, access, status, modem, down
  <2> QED
    BY <2>1, ChannelKept DEF ChannelInv
<1>14. CASE UNCHANGED vars
  <2>1. UNCHANGED <<pc, m_error, call, m_mode, enabled, ctlOn, netOn, modemMode>>
    BY <1>14 DEF vars, loop, access, status, modem, down
  <2> QED
    BY <2>1 DEF ChannelInv, To, Phase
<1>15. CASE downlinkStep("main")
  <2>1. UNCHANGED <<pc, m_error, call, m_mode, enabled, ctlOn, netOn, modemMode>>
    BY <1>15 DEF downlinkStep, writeDMRStart, timeDownlink, loop, access, status
  <2> QED
    BY <2>1 DEF ChannelInv, To, Phase
<1> QED
  BY <1>1, <1>2, <1>3, <1>4, <1>5, <1>6, <1>7, <1>8, <1>9, <1>10, <1>11, <1>12, <1>13, <1>14,
     <1>15 DEF Next, Main, Loop, Traffic

LEMMA ChannelHolds == Spec => [](TypeOK /\ ChannelInv)
<1>1. Init => ChannelInv
  BY ChannelInit
<1>2. TypeOK /\ ChannelInv /\ [Next]_vars => ChannelInv'
  BY ChannelStep
<1> QED
  BY <1>1, <1>2, TypeCorrect, PTL DEF Spec

\* Between mode changes exactly the protocols of the mode are let through, and
\* the modem is in that mode or idle, for any set of protocols.
THEOREM ChannelIsExclusive == Spec => [](Listening /\ ModemFollows)
<1>1. TypeOK /\ ChannelInv => Listening /\ ModemFollows
  <2> SUFFICES ASSUME TypeOK, ChannelInv, Settled
               PROVE  /\ ctlOn = Wanted(m_mode) /\ netOn = Wanted(m_mode)
                      /\ modemMode \in {m_mode, "IDLE"}
    BY DEF Listening, ModemFollows
  <2>1. Phase = "done"
    BY Constants DEF Settled, Returned, Phase
  <2> QED
    BY <2>1 DEF ChannelInv
<1> QED
  BY <1>1, ChannelHolds, PTL

\* No step of the loop or of setMode hands the channel from one protocol to
\* another.
THEOREM ChannelNeverHandedOver == Spec => NoHandover
<1>1. TypeOK /\ ChannelInv /\ [Next]_vars
        => [m_mode' # m_mode => {m_mode, m_mode'} \cap {"IDLE", "LOCKOUT"} # {}]_vars
  <2> SUFFICES ASSUME TypeOK, ChannelInv, [Next]_vars, m_mode' # m_mode
               PROVE  {m_mode, m_mode'} \cap {"IDLE", "LOCKOUT"} # {}
    OBVIOUS
  <2>1. setModeAssign("main") \/ UNCHANGED m_mode
    BY DEF Next, Main, Loop, Traffic, setModeStep, setModeSwitch, setModeModem, setModeTimer,
       checkLockout, checkError, rfWake, rfContinue, rfNothing, checkHang, netWake,
       netContinue, netNothing, netWrite, modemClock, modemSilent, modemReopen, cwId,
       beacon, noBeacon, beaconDuration, dmrTX, dmrTXExpired, pocsagDue,
       pocsagNotDue, NextIteration, downlinkStep, writeDMRStart, timeDownlink, vars
  <2>2. Phase = "mode" /\ m_mode' = To
    BY <2>1 DEF setModeAssign, Phase, To
  <2>3. To \in Modes
    BY MainCallType
  <2> QED
    BY <2>2, <2>3 DEF ChannelInv, Modes
<1> QED
  BY <1>1, ChannelHolds, PTL DEF Spec, NoHandover

\* An identification is only keyed into a modem that is idle itself.
THEOREM IdentificationAccepted == Spec => IdKeyedIdle
<1>1. TypeOK /\ ChannelInv /\ [Next]_vars => [Keyed => modemMode = "IDLE"]_vars
  <2> SUFFICES ASSUME TypeOK, ChannelInv, [Next]_vars, Keyed
               PROVE  modemMode = "IDLE"
    OBVIOUS
  <2>1. cwId \/ setModeModem("main") \/ UNCHANGED m_cwIdPending
    BY DEF Next, Main, Loop, Traffic, setModeStep, setModeSwitch, setModeAssign, setModeTimer,
       checkLockout, checkError, rfWake, rfContinue, rfNothing, checkHang, netWake,
       netContinue, netNothing, netWrite, modemClock, modemSilent, modemReopen,
       beacon, noBeacon, beaconDuration, dmrTX, dmrTXExpired, pocsagDue,
       pocsagNotDue, NextIteration, downlinkStep, writeDMRStart, timeDownlink, vars
  <2>2. CASE cwId
    <3>1. MayIdentify
      BY <2>2 DEF cwId, Keyed
    <3>2. m_mode = "IDLE" /\ Phase = "done"
      BY <2>2, <3>1 DEF cwId, MayIdentify, At, Returned, Phase
    <3> QED
      BY <3>2 DEF ChannelInv
  <2>3. CASE setModeModem("main")
    BY <2>3 DEF setModeModem, Keyed, ChannelInv
  <2>4. CASE UNCHANGED m_cwIdPending
    BY <2>4 DEF Keyed
  <2> QED
    BY <2>1, <2>2, <2>3, <2>4
<1> QED
  BY <1>1, ChannelHolds, PTL DEF Spec, IdKeyedIdle

-----------------------------------------------------------------------------
(* The lockout input.                                                      *)

LEMMA LockoutStep ==
  ASSUME TypeOK, ChannelInv, LockoutInv, [Next]_vars
  PROVE  LockoutInv'
<1>0. /\ call["main"] \in [to : Modes, at : Phases]
      /\ To = call["main"].to /\ Phase = call["main"].at
  BY MainCallType DEF To, Phase
<1>1. CASE checkLockout
  <2>1. Phase = "done" /\ pc' = "error" /\ m_mode' = m_mode /\ m_lockout' = m_lockout
    BY <1>1 DEF checkLockout, At, Returned, Phase, status
  <2>2. CASE LockoutMode # m_mode
    <3>1. call' = [call EXCEPT !["main"] = [to |-> LockoutMode, at |-> "switch"]]
      BY <1>1, <2>2 DEF checkLockout, SwitchIf, setMode
    <3>2. To' = LockoutMode /\ Phase' = "switch"
      BY <3>1, MainCall DEF To, Phase
    <3>3. m_lockout <=> LockoutMode = "LOCKOUT"
      BY <2>2 DEF LockoutMode
    <3> QED
      BY <2>1, <3>2, <3>3 DEF LockoutInv
  <2>3. CASE LockoutMode = m_mode
    <3>1. UNCHANGED call
      BY <1>1, <2>3 DEF checkLockout, SwitchIf
    <3>2. m_lockout <=> m_mode = "LOCKOUT"
      BY <2>3 DEF LockoutMode
    <3> QED
      BY <2>1, <3>1, <3>2 DEF LockoutInv, To, Phase
  <2> QED
    BY <2>2, <2>3
<1>2. CASE checkError
  <2>1. pc = "error" /\ pc' = "rf" /\ Phase = "done" /\ ~m_error /\ m_mode # "ERROR"
    BY <1>2 DEF checkError, At, Returned, Phase, ChannelInv
  <2>2. UNCHANGED <<call, m_mode, m_lockout>>
    BY <1>2, <2>1 DEF checkError, status
  <2> QED
    BY <2>1, <2>2 DEF LockoutInv, To, Phase
<1>3. CASE setModeStep("main")
  <2>1. UNCHANGED <<pc, m_lockout>> /\ Phase # "done"
    BY <1>3 DEF setModeStep, setModeSwitch, setModeModem, setModeAssign, setModeTimer,
       loop, status, Phase
  <2>2. pc # "rf"
    BY <2>1 DEF LockoutInv
  <2>3. CASE setModeSwitch("main") \/ setModeModem("main")
    <3>1. PICK at \in {"modem", "mode"} :
            call' = [call EXCEPT !["main"] = [call["main"] EXCEPT !.at = at]]
      <4>1. CASE setModeModem("main")
        BY <4>1 DEF setModeModem
      <4>2. CASE setModeSwitch("main")
        <5>1. MayRun = Protos /\ Phase = "switch"
          BY <1>0, <4>2 DEF setModeSwitch, ChannelInv, MayRun, Unconditional
        <5> QED
          BY <4>2, <5>1 DEF setModeSwitch
      <4> QED
        BY <2>3, <4>1, <4>2
    <3>2. call'["main"] = [call["main"] EXCEPT !.at = at]
      BY <3>1, MainCall
    <3>3. To' = To /\ Phase' # "done"
      BY <1>0, <3>1, <3>2 DEF To, Phase
    <3> QED
      BY <2>1, <2>2, <3>3 DEF LockoutInv
  <2>4. CASE setModeAssign("main")
    <3>1. call' = [call EXCEPT !["main"] = [call["main"] EXCEPT !.at = "timer"]]
      BY <2>4 DEF setModeAssign
    <3>2. call'["main"] = [call["main"] EXCEPT !.at = "timer"]
      BY <3>1, MainCall
    <3>3. To' = To /\ Phase' # "done"
      BY <1>0, <3>2 DEF To, Phase
    <3> QED
      BY <2>1, <2>2, <3>3 DEF LockoutInv
  <2>5. CASE setModeTimer("main")
    <3>1. call' = [call EXCEPT !["main"] = Quiescent] /\ Phase = "timer" /\ m_mode' = m_mode
      BY <1>0, <2>5 DEF setModeTimer
    <3>2. Phase' = "done" /\ m_mode = To
      BY <3>1, MainCall DEF Phase, Quiescent, ChannelInv
    <3> QED
      BY <2>1, <2>2, <3>1, <3>2 DEF LockoutInv
  <2> QED
    BY <1>3, <2>3, <2>4, <2>5 DEF setModeStep
<1>4. CASE Loop /\ ~(checkLockout \/ checkError)
  <2>1. pc' \notin {"error", "rf"}
    BY <1>4 DEF Loop, Traffic,
       rfWake, rfContinue, rfNothing, checkHang, netWake, netContinue, netNothing, netWrite,
       modemClock, modemSilent, modemReopen, cwId, beacon, noBeacon, beaconDuration, dmrTX,
       dmrTXExpired, pocsagDue, pocsagNotDue, NextIteration
  <2> QED
    BY <2>1 DEF LockoutInv
<1>5. CASE UNCHANGED vars
  BY <1>5 DEF vars, loop, status, LockoutInv, To, Phase
<1>6. CASE downlinkStep("main")
  <2>1. UNCHANGED <<pc, m_lockout, call, m_mode>>
    BY <1>6 DEF downlinkStep, writeDMRStart, timeDownlink, loop, status
  <2> QED
    BY <2>1 DEF LockoutInv, To, Phase
<1> QED
  BY <1>1, <1>2, <1>3, <1>4, <1>5, <1>6 DEF Next, Main

\* Whenever the loop looks for traffic, its mode agrees with the lockout input
\* the modem last reported.
THEOREM LockoutComesFirst == Spec => []LockoutHonoured
<1>1. Init => LockoutInv
  BY DEF Init, LockoutInv
<1>2. TypeOK /\ ChannelInv /\ LockoutInv /\ [Next]_vars => LockoutInv'
  BY LockoutStep
<1>3. TypeOK /\ LockoutInv => LockoutHonoured
  BY DEF LockoutInv, LockoutHonoured, At, Returned, Phase
<1> QED
  BY <1>1, <1>2, <1>3, ChannelHolds, PTL DEF Spec


-----------------------------------------------------------------------------
(***************************************************************************)
(* The DMR downlink stays attended when setMode has a second caller: what  *)
(* CarrierInv says of the loop survives every command on the MQTT thread,  *)
(* at any point of an iteration and of a setMode of the loop.              *)
(***************************************************************************)

LEMMA CommandConstants ==
  /\ "mqtt" \in Threads
  /\ \A n \in RemoteTimeouts : n \in Nat
  /\ Commanded \subseteq Protos
BY RemoteAssumption DEF RemoteAssumption, Commanded

CommandType == command \in [do : {"nothing", "argument", "config", "network", "cw"},
                            proto : Commanded \cup {"none"}, on : BOOLEAN]

\* A command that still needs its protocol has one.
CommandNamed == command.do \in {"argument", "config", "network"} => command.proto \in Commanded

RemoteInv == TypeOK /\ CommandType /\ CommandNamed

LEMMA RemoteInvInit == ASSUME RemoteInit PROVE RemoteInv
<1>1. TypeOK
  BY InitType DEF RemoteInit
<1>2. CommandType /\ CommandNamed
  BY DEF RemoteInit, NoCommand, CommandType, CommandNamed
<1> QED
  BY <1>1, <1>2 DEF RemoteInv

\* A thread's call of setMode, nothing else of the loop and the channel touched.
LEMMA CalledType ==
  ASSUME TypeOK, NEW t \in Threads, NEW to \in Modes, setMode(t, to),
         UNCHANGED <<loop, m_mode, access, m_dmrTXTimer, m_cwIdTimer, dmrBeaconDurationTimer,
                     m_cwIdPending, status, modem>>,
         m_fixedMode' \in BOOLEAN, m_modeTimer' \in Timer
  PROVE  TypeOK'
<1>1. CallType'
  BY SetModeType, Groups DEF CallType
<1>2. /\ LoopType' /\ ModeType' /\ AccessType' /\ TimerType' /\ StatusType' /\ ModemType'
  BY Groups DEF LoopType, ModeType, AccessType, TimerType, StatusType, ModemType,
     loop, access, status, modem, down
<1> QED
  BY <1>1, <1>2 DEF TypeOK, LoopType, CallType, ModeType, AccessType,
     TimerType, StatusType, ModemType

LEMMA CommandBegins ==
  ASSUME RemoteInv, CommandArrives
  PROVE  RemoteInv'
<1>0. TypeOK /\ CommandType /\ m_modeTimer \in Timer /\ m_fixedMode \in BOOLEAN
  BY DEF RemoteInv, TypeOK
<1>1. ASSUME NEW to \in {"IDLE", "LOCKOUT"}, modeCommand(to) PROVE RemoteInv'
  <2>1. TypeOK'
    <3>1. to \in Modes
      BY DEF Modes
    <3>2. UNCHANGED <<loop, m_mode, access, m_dmrTXTimer, m_cwIdTimer,
                      dmrBeaconDurationTimer, m_cwIdPending, status, modem>>
      BY <1>1 DEF modeCommand, timers
    <3>3. m_fixedMode' \in BOOLEAN /\ m_modeTimer' \in Timer /\ setMode("mqtt", to)
      BY <1>0, <1>1 DEF modeCommand, timers
    <3> QED
      BY <1>0, <3>1, <3>2, <3>3, CommandConstants, CalledType
  <2>2. (CommandType /\ CommandNamed)'
    BY <1>1 DEF modeCommand, RemoteInv, CommandType, CommandNamed
  <2> QED
    BY <2>1, <2>2 DEF RemoteInv
<1>2. ASSUME NEW p \in Commanded, processModeCommand(p) PROVE RemoteInv'
  <2>1. m_modeTimer' \in Timer
    <3>1. (IF p = "FM" THEN 0 ELSE RFHang) \in Nat
      BY Constants
    <3> QED
      BY <1>0, <1>2, <3>1, TimerClosed DEF processModeCommand
  <2>2. TypeOK'
    BY <1>0, <1>2, <2>1 DEF processModeCommand, TypeOK, loop, access, status, modem, down
  <2>3. command' = [do |-> "argument", proto |-> p, on |-> FALSE]
    BY <1>2 DEF processModeCommand, NoCommand
  <2>4. (CommandType /\ CommandNamed)'
    BY <2>3 DEF CommandType, CommandNamed
  <2> QED
    BY <2>2, <2>4 DEF RemoteInv
<1>3. ASSUME NEW p \in Commanded, NEW on \in BOOLEAN, processEnableCommand(p, on)
      PROVE  RemoteInv'
  <2>1. enabled' \subseteq Protos
    BY <1>0, <1>3, CommandConstants DEF processEnableCommand, TypeOK
  <2>2. TypeOK'
    BY <1>0, <1>3, <2>1 DEF processEnableCommand, TypeOK, loop, timers, status, modem, down
  <2>3. PICK what \in {"network", "config"} :
          command' = [do |-> what, proto |-> p, on |-> on]
    BY <1>3 DEF processEnableCommand
  <2>4. (CommandType /\ CommandNamed)'
    BY <2>3 DEF CommandType, CommandNamed
  <2> QED
    BY <2>2, <2>4 DEF RemoteInv
<1>4. ASSUME CW PROVE RemoteInv'
  <2>1. TypeOK'
    <3>1. "IDLE" \in Modes
      BY DEF Modes
    <3>2. UNCHANGED <<loop, m_mode, access, m_dmrTXTimer, m_cwIdTimer,
                      dmrBeaconDurationTimer, m_cwIdPending, status, modem>>
      BY <1>4 DEF CW, timers
    <3>3. m_fixedMode' \in BOOLEAN /\ m_modeTimer' \in Timer /\ setMode("mqtt", "IDLE")
      BY <1>0, <1>4 DEF CW, timers
    <3> QED
      BY <1>0, <3>1, <3>2, <3>3, CommandConstants, CalledType
  <2>2. command' = [do |-> "cw", proto |-> "none", on |-> FALSE]
    BY <1>4 DEF CW, NoCommand
  <2>3. (CommandType /\ CommandNamed)'
    BY <2>2 DEF CommandType, CommandNamed
  <2> QED
    BY <2>1, <2>3 DEF RemoteInv
<1> QED
  BY <1>1, <1>2, <1>3, <1>4 DEF CommandArrives

LEMMA CommandGoesOn ==
  ASSUME RemoteInv, Remote
  PROVE  RemoteInv'
<1>0. TypeOK /\ CommandType /\ CommandNamed /\ m_modeTimer \in Timer /\ m_fixedMode \in BOOLEAN
  BY DEF RemoteInv, TypeOK
<1>1. CASE processModeArgument
  <2>1. m_modeTimer' \in Timer
    BY <1>0, <1>1, TimerClosed, CommandConstants DEF processModeArgument
  <2>2. m_fixedMode' \in BOOLEAN
    BY <1>0, <1>1 DEF processModeArgument
  <2>3. command.proto \in Modes
    BY <1>0, <1>1, CommandConstants DEF processModeArgument, Doing, CommandNamed, Modes
  <2>4. setMode("mqtt", command.proto)
        /\ UNCHANGED <<loop, m_mode, access, m_dmrTXTimer, m_cwIdTimer,
                       dmrBeaconDurationTimer, m_cwIdPending, status, modem>>
    BY <1>1 DEF processModeArgument
  <2>5. TypeOK'
    BY <1>0, <2>1, <2>2, <2>3, <2>4, CommandConstants, CalledType
  <2>6. (CommandType /\ CommandNamed)'
    BY <1>1 DEF processModeArgument, NoCommand, CommandType, CommandNamed
  <2> QED
    BY <2>5, <2>6 DEF RemoteInv
<1>2. CASE writeConfig
  <2>1. TypeOK'
    BY <1>0, <1>2 DEF writeConfig, TypeOK, loop, access, timers, status, down
  <2>2. (CommandType /\ CommandNamed)'
    BY <1>0, <1>2 DEF writeConfig, Doing, CommandType, CommandNamed
  <2> QED
    BY <2>1, <2>2 DEF RemoteInv
<1>3. CASE enableNetwork
  <2>1. netOn' \subseteq Protos
    <3>1. command.proto \in Commanded \cup {"none"}
      BY <1>0 DEF CommandType
    <3>2. command.on => command.proto \in Commanded
      BY <1>0, <1>3 DEF enableNetwork, Doing, CommandNamed
    <3> QED
      BY <1>0, <1>3, <3>1, <3>2, CommandConstants DEF enableNetwork, TypeOK
  <2>2. TypeOK'
    BY <1>0, <1>3, <2>1 DEF enableNetwork, TypeOK, loop, timers, status, modem, down
  <2>3. (CommandType /\ CommandNamed)'
    BY <1>3 DEF enableNetwork, NoCommand, CommandType, CommandNamed
  <2> QED
    BY <2>2, <2>3 DEF RemoteInv
<1>4. CASE sendCWId
  <2>1. TypeOK'
    BY <1>0, <1>4 DEF sendCWId, vars, loop, access, timers, status, modem, TypeOK, down
  <2>2. (CommandType /\ CommandNamed)'
    BY <1>4 DEF sendCWId, NoCommand, CommandType, CommandNamed
  <2> QED
    BY <2>1, <2>2 DEF RemoteInv
<1>5. CASE (setModeStep("mqtt") \/ downlinkStep("mqtt")) /\ UNCHANGED command
  <2>1. TypeOK'
    BY <1>0, <1>5, CallSteps, DownlinkSteps, CommandConstants
  <2>2. (CommandType /\ CommandNamed)'
    BY <1>0, <1>5 DEF CommandType, CommandNamed
  <2> QED
    BY <2>1, <2>2 DEF RemoteInv
<1> QED
  BY <1>1, <1>2, <1>3, <1>4, <1>5 DEF Remote

LEMMA RemoteInvStep ==
  ASSUME RemoteInv, [RemoteNext]_remoteVars
  PROVE  RemoteInv'
<1>1. CASE Main /\ UNCHANGED command
  <2>1. TypeOK'
    BY <1>1, TypeStep DEF RemoteInv, Next
  <2> QED
    BY <1>1, <2>1 DEF RemoteInv, CommandType, CommandNamed
<1>2. CASE CommandArrives
  BY <1>2, CommandBegins
<1>3. CASE Remote
  BY <1>3, CommandGoesOn
<1>4. CASE UNCHANGED remoteVars
  <2>1. TypeOK'
    BY <1>4, TypeStep DEF RemoteInv, remoteVars
  <2> QED
    BY <1>4, <2>1 DEF remoteVars, RemoteInv, CommandType, CommandNamed
<1> QED
  BY <1>1, <1>2, <1>3, <1>4 DEF RemoteNext

\* The types hold with commands from the MQTT thread between any two steps.
THEOREM RemoteTypeCorrect == RemoteSpec => []RemoteTypeOK
<1>1. RemoteInit => RemoteInv
  BY RemoteInvInit
<1>2. RemoteInv /\ [RemoteNext]_remoteVars => RemoteInv'
  BY RemoteInvStep
<1>3. RemoteInv => RemoteTypeOK
  BY DEF RemoteInv, RemoteTypeOK, CommandType
<1> QED
  BY <1>1, <1>2, <1>3, PTL DEF RemoteSpec

-----------------------------------------------------------------------------
(* The downlink.                                                           *)

\* What a command does itself, it does without touching the downlink: only the
\* setMode it calls does.
LEMMA CommandSteps ==
  ASSUME CommandArrives \/ processModeArgument \/ writeConfig \/ enableNetwork \/ sendCWId
  PROVE  UNCHANGED <<pc, ms, carrier, m_dmrTXTimer, m_tx, downlink, slow, crossed>>
<1>1. CASE CommandArrives
  <2>1. ASSUME NEW to \in {"IDLE", "LOCKOUT"}, modeCommand(to)
        PROVE  UNCHANGED <<pc, ms, carrier, m_dmrTXTimer, m_tx, downlink, slow, crossed>>
    BY <2>1 DEF modeCommand, loop, timers, status, modem, down
  <2>2. ASSUME NEW p \in Commanded, processModeCommand(p)
        PROVE  UNCHANGED <<pc, ms, carrier, m_dmrTXTimer, m_tx, downlink, slow, crossed>>
    BY <2>2 DEF processModeCommand, loop, status, modem, down
  <2>3. ASSUME NEW p \in Commanded, NEW on \in BOOLEAN, processEnableCommand(p, on)
        PROVE  UNCHANGED <<pc, ms, carrier, m_dmrTXTimer, m_tx, downlink, slow, crossed>>
    BY <2>3 DEF processEnableCommand, loop, timers, status, modem, down
  <2>4. ASSUME CW PROVE UNCHANGED <<pc, ms, carrier, m_dmrTXTimer, m_tx, downlink, slow, crossed>>
    BY <2>4 DEF CW, loop, timers, status, modem, down
  <2> QED
    BY <1>1, <2>1, <2>2, <2>3, <2>4 DEF CommandArrives
<1>2. CASE processModeArgument
  BY <1>2 DEF processModeArgument, loop, status, modem, down
<1>3. CASE writeConfig
  BY <1>3 DEF writeConfig, loop, timers, status, down
<1>4. CASE enableNetwork
  BY <1>4 DEF enableNetwork, loop, timers, status, modem, down
<1>5. CASE sendCWId
  BY <1>5 DEF sendCWId, vars, loop, timers, status, modem, down
<1> QED
  BY <1>1, <1>2, <1>3, <1>4, <1>5

LEMMA CarrierRemoteStep ==
  ASSUME RemoteInv, CarrierInv, TXHang >= 3, [RemoteNext]_remoteVars
  PROVE  CarrierInv'
<1>0. TypeOK
  BY DEF RemoteInv
<1>1. CASE (Main /\ UNCHANGED command) \/ UNCHANGED remoteVars
  BY <1>0, <1>1, CarrierStep DEF Next, remoteVars
<1>2. CASE CommandArrives \/ processModeArgument \/ writeConfig \/ enableNetwork \/ sendCWId
  BY <1>2, CommandSteps, CarrierKept
<1>3. CASE setModeStep("mqtt") /\ UNCHANGED command
  BY <1>0, <1>3, CarrierSetMode, CommandConstants
<1>4. CASE downlinkStep("mqtt") /\ UNCHANGED command
  BY <1>0, <1>4, CarrierWritten, CarrierTold, CommandConstants DEF downlinkStep
<1> QED
  BY <1>1, <1>2, <1>3, <1>4 DEF RemoteNext, Remote

\* While the DMR downlink is up the timer that takes it down is counting or about
\* to be started, whatever commands the MQTT thread carries out, and wherever in
\* the loop, in its setMode and in its dealings with the downlink they fall;
\* except after an iteration that was held up, and after a command and the loop
\* were at the downlink at the same time.
THEOREM CarrierAttendedRemotely ==
  ASSUME TXHang >= 3
  PROVE  RemoteSpec => []CarrierTimed
<1>1. RemoteInit => CarrierInv
  BY CarrierInit DEF RemoteInit
<1>2. RemoteInv /\ CarrierInv /\ [RemoteNext]_remoteVars => CarrierInv'
  BY CarrierRemoteStep
<1>3. RemoteInv /\ CarrierInv => CarrierTimed
  BY CarrierSafe DEF RemoteInv
<1>4. RemoteInit => RemoteInv
  BY RemoteInvInit
<1>5. RemoteInv /\ [RemoteNext]_remoteVars => RemoteInv'
  BY RemoteInvStep
<1> QED
  BY <1>1, <1>2, <1>3, <1>4, <1>5, PTL DEF RemoteSpec

=============================================================================
