# MMDVM-Host in TLA+

MMDVM-Host drives a digital voice modem for amateur radio repeaters and
hotspots: frames of eight protocols go from the modem to network gateways and
back, one protocol at a time. This directory holds TLA+ specifications of the
program, the TLC configurations that check them and TLAPS proofs. Source files
are named relative to `src/`.

1. [Inventory](#1-inventory) – the parts of the program and what is hard about them
2. [Modules](#2-modules) – which module models which part, and how
3. [Runs](#3-runs) – what is model-checked, with which bounds
4. [Fairness](#4-fairness) – what the liveness properties assume
5. [Proofs](#5-proofs) – what is proved, and along which argument
6. [Findings](#6-findings) – where the code and its own text disagree
7. [Plan](#7-plan) – what is left to do
8. [Not modelled](#8-not-modelled) – and why

## 1. Inventory

The program is one process. The main thread runs a loop (`CMMDVMHost::run`)
that hardly ever blocks (reopening the modem takes seconds, a read from the serial port
waits for a frame begun): it reads frames the modem has queued, passes them to a
protocol control, reads frames the controls have queued, passes them to the
modem, and clocks everything with the milliseconds that have passed. Two kinds
of threads run beside it: the MQTT library's thread, which delivers remote
commands and display data, and the lookup threads, which reload the id tables.

| part | state | operations | talks to |
|---|---|---|---|
| Mode controller (`MMDVM-Host.cpp` run, setMode) | `m_mode`, `m_modeTimer`, `m_cwIdTimer`, `m_cwIdPending`, `m_dmrTXTimer`, beacon timers, `m_fixedMode`, `m_xxxEnabled` | one iteration of the loop, `setMode` | modem, every control and network, lock file, JSON |
| Lifecycle (`main`, signal handler) | `m_killed`, `m_signal`, `m_reload`, `host` | start, stop, restart on SIGHUP | mode controller, MQTT, lookups |
| Remote control (`RemoteControl.cpp`, `remoteControl`) | parsed command, `m_fixedMode`, enables | mode, enable, disable, page, cw, reload | called on the MQTT thread; calls `setMode` |
| Modem (`Modem.cpp`) | per-protocol receive and transmit queues, frame parser, status (`m_tx`, `m_cd`, `m_lockout`, `m_error`, spaces), status, inactivity and playout timers | open, close, clock, read/write per protocol, setMode, DMR start and abort, CW ID | modem port (UART, UDP, I2C), loop |
| DMR (`DMRControl`, `DMRSlot`, `DMRAccessControl`) | RF and network state, link control, sequence numbers, watchdogs, embedded LC, frame queue, per slot | writeModem, writeNetwork, readModem, clock, enable | modem, DMR network, lookup |
| D-Star, YSF, P25, NXDN, M17 controls | RF and network state, header or LC, timeouts, frame queue | the same five | modem, their network |
| POCSAG control | page queue, output queue, batch state | sendPage..., readModem, clock, enable | POCSAG network |
| FM control | resampling buffers | writeModem, readModem, clock, enable | FM network |
| Network clients | socket, receive queue, enabled flag, stream ids, poll and reset timers | write, read, clock, enable, close | UDP gateways |
| Ring buffer (`RingBuffer.h`) | array, two indices | addData, getData, peek, clear | every queue above |
| Timer, StopWatch | timeout, count | start, stop, clock, hasExpired | everywhere |
| Lookups (`DMRLookup`, `NXDNLookup`, `UserDB`) | table behind a mutex, stop and reload flags | read, reload, find, stop | controls, main thread, own thread |
| MQTT connection | library handle, connected flag | open, publish, close, callbacks | log, JSON, remote control |
| Codecs and tables, Conf, Log, RSSI | none that changes while running | pure functions | everywhere |

What makes each part correct, and what is hard about it:

* **Mode controller.** Only the mode's own protocol is let through; one
  protocol does not take the channel from another; a mode ends when its traffic
  ends; the station identifies itself, and not over traffic; the DMR downlink
  is not left up; lockout wins. Hard because seven timers, the modem's status
  (up to 250 ms old) and `setMode` interact, in any order, because a frame
  may arrive between any two of them, and because remote commands call
  `setMode` from another thread without a lock.
* **Lifecycle.** A signal ends or restarts the process; nothing is used after
  it was deleted; nothing is left open that nobody can close. Hard because
  signals and the MQTT thread arrive between any two statements.
* **Modem.** Frames are parsed whole or not at all; the queues hold whole
  frames; a modem that falls silent is brought back. Hard at full queues, short
  reads, failed reads and failed opens.
* **Protocol controls.** A transmission has one beginning and one end towards
  the modem and towards the network; missing network frames are replaced; a
  transmission that is too long, or that ends without its terminator, is
  ended by a timer. Hard with lost, repeated and reordered frames.
* **Ring buffer and frame queues.** First in, first out, frame by frame.
* **Lookups.** A find sees a whole table; what could be found stays findable; a
  reload request is served; stopping does not hang.

PROJECT.json lists the hazards one by one, at their lines, with the properties
that watch them.

## 2. Modules

| module | models | kind |
|---|---|---|
| `Fifo` | what a `CRingBuffer` promises | abstract specification |
| `RingBuffer` | `RingBuffer.h` | component; implements `Fifo` |
| `FrameQueue` | the length-prefixed frame queue of a control (`DMRSlot.cpp` writeQueueRF, writeQueueNet, readModem) | component |
| `Timers` | `CTimer` | operators |
| `HostMode` | the loop of `CMMDVMHost::run` and `setMode` | component |
| `HostRemote` | `remoteControl` on the MQTT thread, beside `HostMode` | composition: EXTENDS `HostMode` |
| `ModemFraming` | `CModem::getResponse`, `readVersion`, the buffer `clock` shares with them | component |
| `ModemLink` | `CModem::open`, its commands and their answers, silence and reset, reconfiguration from another thread | component |
| `ModemQueues` | `CModem`'s receive and transmit queues, `hasXXXSpace`, the status, the playout timer | component |
| `Modem` | the three views of `CModem` side by side | composition |
| `DMRSlot` | `CDMRSlot` | component |
| `Exchange` | what every protocol control promises of its channel | abstract specification |
| `Observers` | who hears what a control sends: radios and network | operators |
| `YSFControl`, `P25Control`, `NXDNControl`, `DStarControl`, `M17Control`, `POCSAGControl` | the control of that protocol | components |
| `Controls` | the six controls side by side; implement `Exchange` | composition |
| `NetworkClients` | the UDP clients of the gateways, and what their controls do with them; `CUDPSocket` | component |
| `NXDNKenwoodNetwork` | the client that speaks to Kenwood repeaters | component |
| `Networks` | both side by side | composition |
| `IdLookup` | `CDMRLookup`, `CUserDB` and their callers | component |
| `Lifecycle` | `main`, the signal handler, creation and deletion in `run`, MQTT callbacks | component |
| `MC...` | instances for TLC | model checking |
| `Queue_proofs`, `Host_proofs`, `Modem_proofs`, `DMRSlot_proofs`, `Controls_proofs`, `Networks_proofs`, `IdLookup_proofs`, `Lifecycle_proofs` | proofs | TLAPS |

Operators whose name carries a suffix (`LateEntry_NoHeader`, `HasSpace_One`) and
whose comment says "Mutant" are plausible mistakes in the code. Nothing uses
them; each is put in the place of the operator it is named after to see that
the properties of a run notice.

`Modem`, `Controls` and `Networks` put several components into one
specification. These share nothing in the program that the modules keep, so a
behaviour is that of one of them, which the initial state chooses; the
properties are then stated once for all of them, as the components have the
same shape.

### RingBuffer and Fifo

The state is the array and the two indices; `reply` is what the last call
returned. Each method is an action, split where `addData` has an early return.
`Contents` reads the array from one index to the other: the refinement mapping
under which every action is one of `Fifo`. `clear` inside an overflowing
`addData` is part of that action.

### FrameQueue

`queue` is the byte queue with every byte tagged by what its writer meant it to be,
a length or payload; the reader does not look at the tag. `writeQueue` is
`writeQueueNet` (and `writeQueueRF`, which first asks whether the network is
transmitting), `readModem` trusts whatever byte comes first, `clearQueue` is what
`enable(false)` does. The guard of `writeQueue` is one byte short of what the
ring buffer needs, and `LossOnlyAtBoundary` says exactly when that costs the
queue.

### HostMode

One iteration of the loop is a sequence of stages (`pc`): lockout, error, frames
from the modem, hang time, frames for the modem, `CModem::clock`, CW ID,
beacons, beacon duration, DMR transmit timer, POCSAG timer. Every stage is one
action per outcome. `setMode` is a call (`call[t]`) that goes through four
phases - switch the networks and controls, command the modem, assign `m_mode`,
set `m_modeTimer` - which is the order of the code; the next stage waits until
it has returned. What is done to the DMR downlink is an operation of its own
(`downlink[t]`): the caller's test, `writeDMRStart` with its own, starting or stopping
`m_dmrTXTimer`, one step each, in `setMode` (`setModeSwitch`, `setModeModem`), at a DMR
frame, and when the timer has expired (`dmrTX`). These are separate actions because a second
thread interleaves with them in `HostRemote`; `Threads` is a parameter for that.

The modem is the environment. It answers a poll at least once a tick with a
status; `carrier` is what has been commanded of its DMR downlink, `m_tx` what
the host has last been told. A downlink that was `starting` when the status was
composed may be missing from it: that is the poll delay. The modem may fall
silent at any time, which `CModem::clock` notices and repairs
(`modemSilent`, `modemReopen`).

The time of an iteration is read before `CModem::clock` (1391-1394), so that what a
reopening in it takes, four seconds and more, is accounted for in the next one. `ms` may
be up to `MaxTick`, whatever the hang times are. Two observers record where that, or
a second thread, undoes the downlink's timer: `slow`, an iteration of more than one
tick, and `crossed`, two threads at the downlink at once; both are reset when the
downlink is down. What happens then is the code's fault and in section 6.

Abstractions: a tick is the time in which a loop that is not held up surely has a fresh
status, a third of a second; frames are reduced to their protocol; of the
frames handled in one iteration at most one protocol's has an effect, so one
is chosen; the TIMED and the NETWORK beacons differ only in when one is due,
which is left open; `m_fixedMode` and `m_xxxEnabled` do not change without the
remote control. DMR trunking is not modelled.

### HostRemote

A command is carried out by the thread of the MQTT library, one at a time, in
the steps the code takes between two writes the loop could notice: a mode
command sets the hang time first (`processModeCommand`), reads its argument and
calls `setMode` (`processModeArgument`); `enable` and `disable` set the flag,
write the configuration, which asks the modem for idle (`writeConfig`), and
switch the network (`enableNetwork`); `cw` goes idle and then sends
(`CW`, `sendCWId`). `setMode` runs as `call["mqtt"]` with the same phases as the
loop's, and so do its operations on the downlink. There is no lock, so every step of
the loop, the phases of its own `setMode` and the steps from `writeDMRStart` to the timer
included, may fall between. Paging commands only queue a page;
RELOAD is in `IdLookup` and `Lifecycle`; what a page command does is in
`POCSAGControl`.

### ModemFraming

`getResponse` is called once per turn of the loop and goes on where the last
call ran out of bytes: one action per parser state, `Complete` when the frame
is handed to the caller. Every byte carries as a ghost the frame it was sent
in, its place and the frame's size; `dispatched` lists what was acted upon, 0
for anything that is not exactly what was sent. `link` is the port: a serial
port waits for the rest of a read, a UDP or I2C port may return parts.
`Transmit` is the later part of `clock`, which builds the frame to send in
`m_buffer`, the buffer the parser collects in. Over a serial port no payload is left
there between two calls; over a UDP port, which returns parts, the frame half read is
written over, which `spoilt` records: `FramesIntact` says that it happens there
only. A byte of a payload may be taken for the start of a frame once the reader has
lost its place, since the protocol escapes nothing; `Findable` says of a behaviour that it
cannot come to that. `Reopen` closes and opens the port and leaves `m_state` alone, as the
code does.

### ModemLink

`step` is where `open` stands: the version, the frequency, the configuration,
the FM parameters in the order of the code, then `USE`; or how it ended (`BUSY`:
the port did not open, tried again; `GONE`: the port was deleted; `EXITED`: the
first open failed, so the host ends). A command waits for its answer for a
bounded number of reads (`MaxResponses`) and counts as done when none came
(`Unanswered`): its answer may arrive later and is then taken for that of the
next command, or only logged by `clock` (`Receive`). `toModem` and `toHost` are
the frames on the way. `Clocked` is `clock` as far as time matters: the
inactivity timer, which a status starts, and the reset when it expires.
`Reconfigure` is what an enable command does on the MQTT thread, between any two
steps of the loop, those of `open` included: it sets the mode flags, writes the
configuration (`ReconfigureWrites`: the write may fail, and while the port is closed an
assertion ends the program) and waits for the answer, taking what the loop would have
read (`ReconfigureReads`). The modem may refuse a command, fail, in the midst of a frame
if it comes to that, and return without its configuration. A read that has the first byte
of a payload waits for the rest (`Blocked`), for ever if the modem is gone. `lost` names
why the modem may not have what is wanted with nobody noticing: it was away (`AWAY`), it
refused and the answer was taken for another's (`REFUSED`), a command's write failed
(`UNWRITTEN`), or `open` wrote an older configuration behind it (`CROSSED`). Both
protocol versions are modelled; they differ in what a configuration can say. The FM
parameters that follow it depend on the configuration file only.

### ModemQueues

One turn of the loop: `Read` (a control reads at most one received frame),
`Write` (hands one over if `HasSpace`), `Clock` (asks for the status on its
timer and takes one frame that came), `Feed` (when the playout timer has
expired, one frame of each protocol for which the last status left room, in the
order of the code). A queue is a sequence of runs of bytes, one for each
`addData`; what a reader takes for a length is whatever run comes first, and
`Add` empties the queue when a run does not fit, as `CRingBuffer` does. The byte
counts of what is written are those of the code, protocol by protocol; of what
is received the longest counts, `Payload`. `taken` is the number of the last frame
fed, or dropped with its queue, so that `FramesKept` goes on across a radio that
takes the slot and a header that empties the queue. It stops (`excused`) where
an FM frame is queued without its length. `space` is the room as the host counts it, replaced
by each status and reduced by each frame fed; `room` is the modem's own. A
status may be answered before a frame fed meanwhile arrives, and any number of frames may
be fed before its answer comes; `ahead` is the most units that ever were.

### DMRSlot

One slot, with a variable for each field that decides anything: both states,
whether each side has a link control, the embedded link control being
collected, the sequence numbers, frame counters, timers and timeouts.
`writeModem` is the disjunction of what a received frame can do, by its kind and
by the state; `writeNetwork` likewise; `clock` runs the watchdog, the packet
timer with the frames it makes up, and both timeouts, in the order of the code;
`enable` switches off and on. Whatever decoding or access control make of a
frame is left open, and a full queue drops one. A header of the network is queued whole
while the packet timer of an earlier voice still runs, and the frames `clock` then
inserts are heard behind it; a frame's number may be any the gateway can give, inside
the superframe or not (`LastNumber`). Three observers see the result:
`radio`, someone who listens to the queue and follows the superframe; `stream`,
the network; `activity`, the short LC.

### The protocol controls, Observers and Exchange

The six modules have the same variables, so that `Controls` can put them side by
side: `rf` and `net` are records of what the control keeps of the radio's and of
the network's transmission, with the timers of each. `writeModem`,
`writeNetwork`, `clock` and `enable` are the four calls of the loop. The frames
are the kinds the code tells apart; a frame that is damaged, refused, or has no
valid callsign, takes the branch the code has for it. `Observers` has the
radios that hear `m_queue` and the network that is told: `Hear` notes when the
radios get a frame of one party in the midst of another ("mixed"), or of a transmission
that has no header; `Tell` when the network is told one without. Everything queued is
heard, what P25 repeats of a radio between the frames of the network ("doubled": voice,
TSDU and PDU) and the message NXDN queues while idle ("stray") included.

* `YSFControl`: the frames of header, voice, data and terminator; what the payload
  adds to the callsigns; the count of the network's frames.
* `P25Control`: headers, LDU1 and LDU2, TSDUs, PDUs and terminators; the LDU that
  waits to be told to the network; the nine records the network sends for each. A
  terminator of the network while idle divides by a count of zero if none has come before
  (1319): the step is there, and what the division does is left open.
* `NXDNControl`: VCALL, voice, TX_REL, data; the call message from a FACCH1 or from
  the SACCHs of a superframe, for either side.
* `DStarControl`: headers, the frame held back (the look-back), syncs, slow data as
  blocks towards a header, data and EOT, and the acknowledgement and error replies
  with their timers.
* `M17Control`: LSF frames and fragments, late entry, audio, EOT, and the LSF that
  goes with each frame to the network.
* `POCSAGControl`: the pages that wait, `processData` and the batches it fills,
  the network's pages and those of commands, and what switching off drops.

`Exchange` is the arbitration all of them promise: who holds the channel, and
who may take it from whom. The refinement mapping reads the holder from the two
states: the network when its state is not IDLE, else the radio when it is in
AUDIO or DATA.

### NetworkClients, NXDNKenwoodNetwork and Networks

`client` says which client a behaviour is about. `link` has the fields of the
client: the ids received and sent, `m_buffer` as a sequence of packets, the poll
timer. `Turn` is one turn of the loop: the control reads (`Reads`), the watchdog
of the control counts, the client is clocked, which takes one packet from the
socket (`Takes`, by client) and polls (`Polls`). `Begins`, `Speaks`, `Ends` and
`Refused` are what the control does with a radio's transmission, which may write
to the client and, when it ends, reset it. The gateway may send packets of any
transmission in any order, which stands for loss, repetition and reordering;
the record `net` follows what the control makes of them, `told` what the gateway
hears. D-Star, M17 and YSF lock to one transmission; DMR, P25 and Icom pass on
all that comes, and `net.mixed` shows that their controls hear it mixed. `Data` are the
ids under which M17 sends data: the control enters them, looks for no end and has no
watchdog for them. `Reopened` is the socket that is closed and opened again after an error;
if that fails the client is deaf. In the Kenwood client `link.seen` has, for each
piece of a call message, the transmission it came from.

### IdLookup

Two loaders, the loop before it starts (or at a reload without a thread) and
the reload thread, go through `CUserDB::load`: open, lock, clear, a line at a
time, unlock. `find` waits for the lock. A RELOAD command sets the host's
`m_reload`; the loop passes it on to the lookup's flag; the thread clears that
after a load, successful or not. `wanted` is a ghost: the newest file a
command asked for while nothing was being loaded. A request made during a
reload may be lost, and `RequestServed` does not claim otherwise.

### Lifecycle

`main` is the place in `main` and in `run`: reset the flags, create the host,
read the configuration, connect, create and open the modem, the clients of the
networks, the id lookups, the controls, the remote control, loop, and back in the
order of the shutdown. Runs that
fail early return without cleaning up, as the code does: the connection stays
open, and if the host is started again the next run overwrites the pointer
(`abandoned`). `client[c]` is what the thread of connection `c` does; a command
it has begun goes on after the host was deleted (`stale`). Assertions and the
use of freed memory set `fault`, which ends the process; freed memory may also
be used unnoticed. `m_signal` and `m_killed` are written by the handler between
any two steps.

## 3. Runs

| run | configuration | shows |
|---|---|---|
| `ring` | five slots, calls of 0 to 5 items of two values | the buffer implements `Fifo` |
| `frames` | ten bytes, frames of 1, 2 and 4 bytes, payload bytes that read as a short and as a long length | framing survives every order of writes, reads and clears; loss at one fill level only |
| `host` | DMR duplex with beacons, D-Star, M17 and POCSAG; iterations of up to three ticks | who may use the channel, what `setMode` leaves behind, identification, the downlink, lockout |
| `host_live` | DMR and D-Star, with beacons, fair | modes end, identifications are sent; but for DMR mode begun by a beacon and kept by traffic |
| `remote` | DMR, every command at any moment | the downlink is timed, whatever the commands interrupt, unless two threads are at it at once |
| `modem` | framing: two links, frames of one to four bytes; link: two configurations, both protocol versions, one of each kind of failure; queues: one protocol at a time, one way or both | what is acted upon is what was sent; the modem is configured as the host believes, or it is known why not; a silent modem comes back; queues keep frames whole; by how much the modem can be overrun |
| `modem_retry` | the link alone | violation, section 6 |
| `dmr` | one slot, simplex or duplex, four-frame superframes, with and without a timeout | link control, superframes, headers, short LC, and that the slot is given back |
| `controls` | each of six controls, simplex or duplex, with and without a timeout | who is heard and told what, no stale callers, the channel is given back, `Exchange` is implemented |
| `networks` | each of nine clients, three ids, one of them encrypted, one of data | one transmission at a time from end to end behind the clients that lock, one id for each that goes out, nothing lost in the buffer, no lock for ever but to M17's data |
| `lookup` | five files (two entries, none, missing, one), with and without a thread | finds see whole tables and never older ones, requests are served, nothing hangs |
| `life` | three runs, two signals out of SIGHUP and SIGTERM, every message, every failure, one client | signals and reload requests take effect; no command before there is a modem |

Bounds and why they are enough:

* `host`: the hang times, the transmit hang and the CW interval are one to four
  ticks, and an iteration takes up to three, as long as the transmit hang, so that every
  timer can expire before, in the same iteration as, and after every other, and all of
  them in an iteration that was held up. Four protocols stand
  for eight: DMR is the only one with a downlink and a beacon, M17 the only one
  whose frames are taken without being enabled, POCSAG is switched on
  unconditionally and never received, D-Star stands for the five that are alike.
* `remote`: DMR alone, because the downlink is DMR's, with hang times of one tick
  and identification off, because identification is `host`'s subject; what
  matters is the number of points at which a command can fall, and that is kept.
  A transmit hang of three ticks and iterations of up to two: `slow` is reached, by one
  iteration of two ticks, `crossed` by every pair of steps at the downlink.
* `host_live`: iterations of one tick, since held-up ones only make timers expire sooner.
* `ring`: five slots have both indices wrap past each other with calls up to
  the whole array. `frames`: ten bytes reach every amount of free space with
  frames of three lengths.
* `modem`, framing: `ShortMax` is 5 and `FrameStart` 9 instead of 255 and 224, so
  that both header forms occur with payloads of up to four bytes. The serial
  payloads hold no `FrameStart`, because after the failed read a reader could not tell
  such a payload from a frame; the other link, which returns parts and has frames
  transmitted between them but no errors, carries any payload.
* `modem`, link: three frames on the way in each direction let an answer be late
  by one command; each failure happens once, in every place, and three of them in one
  behaviour. `FMParameters` is 1: the others are commands like it.
* `modem`, queues: the queue lengths are a little more than two frames of the
  protocol, in the bytes of the code, instead of some thousand, so that three frames
  meet a full queue; the modem holds two frames, so that one is fed in advance of a
  status, D-Star five units, a header and a frame, and NXDN three, with four frames
  written, so that two are fed in advance. The frames go mostly one way,
  because the two directions share only the clock.
* `dmr`: the superframe has 4 frames instead of 6: a first one, two with
  fragments of a link control, and a last; lost frames, made-up frames and late
  entry then meet at every position. The watchdog takes two ticks, a packet time
  one, a data transmission two blocks. A frame's number is up to 4, one more than the
  superframe has.
* `controls`: a header in three pieces instead of 4, 6 or 18, so that it can be
  incomplete in more than one way; two blocks of data; a count of three frames
  that wraps; POCSAG batches of three slots, two waiting pages.
* `networks`: three ids are the one that is locked to, another (in M17 one of data), and
  one that is encrypted; `Capacity` lets the buffer of a client overflow if it is not read.
  Times are one or two ticks.
* `lookup`: with four files after the first, a request can be overtaken by a
  newer file, an empty one and a missing one, in this order.
* `life`: three runs are a start, a restart, and a restart after a restart that
  failed; two signals can meet in every stage. One client stands for all: they are
  created and deleted together.

The runs of `lookup`, `modem`, `dmr`, `controls`, `networks` and `life` do not
check for deadlock: there the files, the frames, the runs and the signals are
bounded, or a component may be left alone for good.

## 4. Fairness

* `HostMode`: weak fairness of the loop as a whole, because the main thread
  never waits for another, and strong fairness of a clock stage in which time
  has passed: the loop sleeps five milliseconds when an iteration was shorter
  (`MMDVM-Host.cpp` 1580), so that the seconds go by, and it does not find the
  modem silent every time. Nothing is assumed about frames, carrier detection,
  lockout or the modem's answers: the liveness properties state what they need
  of them as premises (`Quiet`: no more frames and beacons; `AirClear` for good).
* `HostRemote`: none, only safety is stated of it.
* `ModemLink`: weak fairness of the loop, of the thread that reconfigures, and of
  a modem that is there and has a frame to take. It need not be there: `ComesBack`
  has that as its premise. The loop has no step while it is `Blocked`, waiting in
  `CUARTController::read` for the rest of a frame, and both properties say so.
* `ModemQueues`: weak fairness of the loop and of the modem's side; strong
  fairness of asking for the status and of feeding, whose timers expire again
  and again, though not in every turn.
* `DMRSlot`, `Controls`, `Networks`: weak fairness of the clock with time passing,
  in `Controls` of one that is called without a frame of the network before it,
  as the loop clocks every control and client on every turn. The premise that the
  other side does not send for ever is part of the properties.
* `IdLookup`: weak fairness of the host and of the reload thread; strong fairness
  of the host's test of its reload flag (the loop comes to it once a turn) and
  of the two waits for the lock, since whoever holds it gives it back for at
  least as long as a thread sleeps. No file need appear and no command come.
* `Lifecycle`: weak fairness of the main thread. Signals and messages need not
  come.

## 5. Proofs

For every value of the constants, under the named assumptions of the modules:

* `Queue_proofs`, first of `RingBuffer`: `TypeCorrect`, and `RingBufferImplementsFifo`, the
  refinement. The lemmas are about walking round the array: `Advance` and
  `Ahead` undo each other, storing extends `Contents` by what was stored,
  reading shortens it from the front. Then of `FrameQueue`: `FramingHolds`, types
  and framing together, since a read needs `Framed` to find a whole frame and
  keeps it; and `LostAtBoundary`, that nothing queued is lost but where a frame
  leaves the buffer no byte free. Assumed: a positive size, `Zero \in T`, positive
  lengths.
* `Host_proofs`, first of `HostMode` alone:
  - `TypeCorrect`, by groups of variables, one step per action.
  - `IdentificationNeverLost`: `IdentificationDue` is inductive on top of types.
  - `CarrierAttended`: `CarrierTimed` is not inductive. In the iteration in
    which `m_dmrTXTimer` runs out, the stop is sent only if the last status saw
    the transmitter on, yet the timer stops anyway. `CarrierInv` adds why that
    is no harm in an iteration that was not held up: either the status has seen it,
    or the timer counts from so short a time ago that it cannot have run out
    (`Attended`). The theorem is for iterations of any length; it needs a transmit
    hang of three ticks, one second, its hypothesis. After an iteration that was
    held up, and where two threads are at the downlink at once, nothing is claimed:
    `slow` and `crossed` are in the property, and both cases really leave the
    downlink up without a timer.
  - `ChannelIsExclusive`, `ChannelNeverHandedOver`, `IdentificationAccepted`:
    from `ChannelInv`, which says what a `setMode` that is half done has and
    has not changed.
  - `LockoutComesFirst`: from `LockoutInv`, on top of `ChannelInv`.
  and then with `HostRemote` beside it: `RemoteTypeCorrect`, and
  `CarrierAttendedRemotely`, the downlink theorem with commands at any moment.
  The lemmas about `setMode` and the steps of a downlink operation are stated for any
  thread; what a command does besides calling `setMode` does not touch the downlink, so
  `CarrierInv` survives it. `ChannelInv` does not: it says that the loop is the only caller;
  section 6 has what is lost with it.
* `Modem_proofs`: `ModemInvariant`, from which the others follow.
  - `FramesCutWhole` and `FramesFound`: `FramingInv` relates where `getResponse`
    stands to the place of the next byte on the wire. It is `InStep`, where the state
    of the parser is the place of that byte in its frame and `m_buffer` holds what
    came before it, or `OutOfStep`: the port was closed in the midst of a frame
    and `getResponse` takes the answer for the rest of it, but never for the
    answer, as no byte of it that can get where a short frame has its type is the type of the
    answer. `Accounted` has that every frame the parser is through with was handed over
    or cost a failed read. Assumed (`FramingAssumption`): byte values, an answer to
    `GET_VERSION` in a short frame, payloads that fit a frame. All of it is under
    `Findable`, which is in the two properties: where the reader may have lost its place,
    that is after a failed read and, in the answer, after a reset, no byte but the first
    of a frame has the value of `FRAME_START`. The protocol does not escape that value,
    and without this the two are false: a payload can look like a frame, and a failed read
    cost more than one. `spoilt` comes with a link that returns parts, since over another
    `Transmit` never finds a payload half read.
  - `ModemConfigured`: with a configuration under way `ModesAgree` says nothing,
    so `LinkInv` has what it rests on: the last configuration under way is the
    one wanted, and with none under way the modem has it, unless `lost` says why not. It
    is for commands at any step of `open` and `clock`, so it has who wrote last as well
    (`Overtaken`: the command's write came after `open` put its own together).
  - `QueuesInOrder`: `RxInv` has a received frame in its queue alone, from
    `clock` to the next read, so that an empty queue need only hold the longest
    record (`Length[p] > Payload + 5`, the assumption that stands for the check
    nobody makes); `TxInv` has a length and a frame for each number not fed yet.
    The arithmetic is in `SpaceSuffices`: two frames as `hasXXXSpace` reckons are
    more bytes than the longest record that is written, for every protocol but
    the two of `MayOverflow`.
  - `ModemNotOverrun`: `RoomInv` counts what is under way. The host's count is above
    what the modem has left by at most what was ever fed in advance of a status
    (`ahead`), a status under way by at most as much as was fed since it was asked for
    (`fed`), and the frames behind a question in the line are no more than these.
    Nothing bounds `ahead`: the theorem says how far the modem is overrun, and that one
    unit in advance does no harm.
* `DMRSlot_proofs`: `TransmitterKnown`, inductive as it stands; `NetworkShown`;
  `StreamsBegin`, where `StreamInv` adds what the slot is in while the network
  hears a stream; `SuperframesKept`, where `SuperframeInv` has radios that
  are in the midst of voice in step with the network's side: the frame they heard
  last is the last one the slot counts, its own made-up frames included. Radios whose
  superframe is already broken, by a frame made up before the first one ("early") or by a
  number that is not its place ("number"), are not followed until the next header.
* `Controls_proofs`: `ControlsInvariant`, one invariant for each control: what it
  knows of the transmission it is in (`Coherent`), whether the network was told
  its beginning, and that the radios follow the one who has the channel, or hear P25's
  repeats beside the network, or NXDN's stray message while nobody has it.
  `PassedOnIsKnown`, `NetworkToldWhole` and `RadiosHearWhole` follow from it, and
  `ControlsImplementExchange`, the refinement, step by step. Assumed: times
  and counts that are natural numbers, headers of at least two pieces, batches of
  at least one slot.
* `Networks_proofs`: `NetworksInvariant`, from which `HeardOneAtATime`,
  `ToldOneAtATime` and `BufferDrained` follow. For the clients of `NetworkClients` that
  lock `LockInv` has what ties three pieces of state together: the control is in the
  transmission the client is locked to, unless the client let go of it with its
  end, which is then still in `m_buffer`; what is in `m_buffer` is of that
  transmission, or known to be stale; and it is one packet at most, since each
  turn takes what the turn before has put there. `ToldInv` has why the ids told
  differ: the client keeps the id of the last transmission, or forgot it with it.
  For the Kenwood client `Heard` says that, as long as no trailer was lost, what
  the control is in and the pieces collected are what the gateway sends. Assumed:
  ids from 1 to some number above 1 (with one id alone two transmissions in a row
  are told under one), a buffer that has room for a packet, at least one piece,
  times that are natural numbers.
* `IdLookup_proofs`: `FindsSeeWholeFiles` and `FindsNeverForget`. `LoadersInv`
  says that the loaders never overlap (the loop loads only when there is no
  thread), `WholeInv` that a table shorter than its file is under the lock,
  `OrderInv` that what was seen, the table, the file being loaded and the file
  on disk follow in this order, so that a table is never replaced by an older one.
* `Lifecycle_proofs`: `LifeIsSafe`. `LifeInv` has the argument why no command
  reaches a modem that does not exist yet: `remoteControl` tests for a remote
  control, which is created after the modem, forgotten with the host, and no
  command is carried over to the next host.

Model-checked only: the eleven liveness properties (`ReturnsToIdle`, `Identifies`,
`SilenceNoticed`, `ComesBack`, `AllFed`, `RequestServed`, `StopReturns`,
`TermExits`, `ReloadServed`, `SlotReleased`, `NetworkReleased`) and `NeverStuck`, which
says the same of the clients' locks: they rest on fairness and ENABLED. Every safety
property that a run checks is proved.

## 6. Findings

`modem_retry`: a modem that went silent is closed and opened again inside
`clock`. When that open fails after the port was opened, because the version
or an answer did not come or a command was refused, the port is deleted and its
pointer cleared, and the retry five seconds later dereferences it
(`Modem.cpp` 617, 521).

Met on the way, while reading and modelling, by component. Where a property leaves
one of them out, its comment says so.

Mode controller:

* A busy channel postpones identification indefinitely: a pending one waits for
  idle, and every over restarts the mode hang, so overs that follow each other
  within the hang time hold it off (comment at `MMDVM-Host.cpp` 1494, condition at
  1508). `Identifies` has a quiet channel as its premise.
* The error mode is not entered after a silent modem was reopened, because
  `m_error` is set and cleared inside one call of `CModem::clock`
  (`Modem.cpp` 611); the identification "coming back from the error state"
  (`MMDVM-Host.cpp` 3296) is not sent then.
* `setMode` commands the modem before it assigns `m_mode`. When a mode command runs
  it on the MQTT thread, the loop can find `m_mode` idle, key a pending identification
  into a modem that has left idle, and count it as done (comment at 1500).
  `IdentificationAccepted` holds without remote commands only.
* `disable` and then `mode` for the same protocol switch everything off and leave
  the host idle; `cw` goes idle without clearing the fixed mode.
* A beacon before the first traffic enters DMR mode with a hang timer that has no timeout
  yet (1528, 1544). Traffic then stops the beacon's timer, starting the mode's does
  nothing, and the host stays in DMR mode for ever (`NoHangTime`).
* An iteration that is held up, in the first place by the reopening of the modem, is
  charged to timers started after it (1391-1394). A downlink started then has its
  timer expired before a status has shown the transmitter on: the stop is skipped (3087),
  the timer stopped (1566), and the downlink stays up (`slow`).
* The expiry of the downlink's timer stops it after `writeDMRStart(false)` (1559-1566),
  as `setMode` does (3290-3293): a command that starts the downlink in between, on the
  other thread, is left without a timer (`crossed`).

Lifecycle and lookups:

* A SIGTERM that finds a reload pending restarts the host that has just logged its
  exit (`MMDVM-Host.cpp` 124, 134). A signal between the two resets in `main` is
  lost. A request to reload the ids during a reload is lost.
* A run that fails early closes no socket and deletes nothing. In the shutdown the
  clients are freed before the remote control and before the MQTT thread ends, and
  the pointers are not cleared. Without a broker `m_mqtt` is null, and the "display-out"
  message dereferences it.

Modem:

* A command that is not answered in time counts as acknowledged (`Modem.cpp` 2633,
  2846, 2923); a late refusal is taken for the answer to the next command or only
  logged (1160). A modem that restarts within two seconds loses its configuration
  unnoticed. An enable command writes the configuration from the MQTT thread while
  `clock` reads the same port, or while `open` is about to write an older one; a write
  that fails is logged only, and one while the port is closed trips an assertion
  (`UARTController.cpp` 486).
* `CUARTController::read` waits for the rest of a frame without a timeout (438): a modem
  that falls silent inside a payload stops the main thread, and is never noticed.
* Over UDP a read returns parts of a frame (`UDPController.cpp` 76-83), and what is
  transmitted before the rest comes is put into the same `m_buffer` (1248).
* The byte a frame starts with may occur in a payload: after a failed read the parser may
  go on inside one.
* A D-Star header can overflow and empty the transmit queue although `hasDStarSpace`
  said there was room; FM asks for one free byte only, so that a frame may not fit,
  or be queued without its length. What was fed between the question for a status and
  its answer is not in that count: one unit is always kept in hand, but a D-Star header
  takes four, and nothing keeps the loop from feeding two frames.
* `writeDMRStart` is skipped when the last status, which may be old, says that it is
  not needed (3085).

DMR slot:

* `m_lastrfN` keeps its value from the transmission before, so that late entry may send
  its header twice (`DMRSlot.cpp` 978, comment 926). A radio that begins while the
  network has the slot reaches the network without a header later, and in duplex its
  header empties the queue and aborts the modem (965-971). A privacy header of the
  network in DATA queues no start (1284-1290). A stray data frame ends the network's
  voice without a terminator (1999-2003). Silence that was made up goes out even after
  the timeout. Voice, data and voice again leave the packet timer running, so that frames from where the
  old voice was go out behind the new header (1220-1229, 2150-2163). A gateway's frame
  number outside the superframe is taken as it is (`DMRNetwork.cpp` 177). A radio's
  voice that is lost or timed out sends the network no terminator. Switching off leaves
  the activity in the short LC.

Protocol controls:

* YSF: with a timeout of 0 every network frame begins a transmission and the end is
  ignored (`YSFControl.cpp` 921-923), so that only the watchdog ends it. Callsigns of a
  transmission whose end went unnoticed mix with those of the next. After the
  timeout the terminator is withheld from the network as well.
* P25: `writeQueueRF` (859) does not look at the network's state, unlike the others, so
  that radios hear both (in duplex); a terminator before any transmission divides by a
  count of zero (1319); a
  TSDU or PDU in a voice transmission abandons it with its timer running, which may
  silence a later one; an undecodable TSDU leaves DATA until the signal is lost; the
  terminator made up for the network neither flushes nor clears the LDU records; late
  entry builds its header from the ids of an LDU1 that may be old.
* NXDN: the network's data has no watchdog (1004); a second VCALL in a refused
  transmission is accepted (221); a network message of another kind is queued even
  when idle (838); pieces of two messages can mix; a repeated VCALL restarts the
  timeout; a TX_REL in DATA abandons it.
* D-Star: a refused or damaged header in a transmission abandons it with the
  timer running, which is then "only started if not running" (273-275, 559-561) and
  inherited by the next; an end with a frame held back loses that frame; two
  headers with one frame between leak the frame (380-385); a rejection in
  a transmission never resets the client, an invalid one does at its end (166, 334); switching off leaves the reply timers; an id of 0 from the gateway means none.
* M17: with a timeout of 0 nothing of a radio goes to the network (395, 436);
  `m_source` is shared, so that the end of the network's transmission clears it during
  a radio's (337-338, 810-826); the network's data has no watchdog.
* POCSAG: a batch that does not fit the queue is lost whole. Page commands push into
  `m_data` on the MQTT thread while the loop pops from it (modelled as atomic).
* FM: audio left over from one transmission is sent with the next.

Network clients:

* D-Star and M17: a radio's end resets the client while the first frame of the
  network's transmission still waits in `m_buffer`; the control enters it, the client is
  locked to nothing, and frames of another transmission are taken for it (comment at
  `DStarNetwork.cpp` 259).
* M17: two transmissions of radios go out under one id when the network has the
  channel at the end of the first; a reset for the network changes the id in the
  midst of one.
* A D-Star transmission rejected in its midst, or a YSF radio rejected, resets nothing: the
  client stays locked to a dropped transmission whose end was lost.
* YSF tells transmissions apart by the gateway's callsign, so not two of one gateway; a
  repeated header after the end begins a phantom that the watchdog ends.
* POCSAG is not read while pages go out, so that a burst overflows `m_buffer`; if
  only the length fits, what follows is misread. FM: a lost end leaves the next
  transmission without a start, and audio that overflows is cleared.
* M17: the network's data is entered, its end not looked for (618), no watchdog counts
  (840), so that client and control stay with it until they are switched off.
* DMR, P25 and Icom pass on two transmissions of the gateway at once as one.
* DMR: a CSBK or data header in a voice transmission changes the stream id
  (`DMRNetwork.cpp` 233). A trunking packet with trunking off feeds an empty frame into slot
  1 (`DMRControl.cpp` 111-134).
* Kenwood: data raises the session id with every header, body and trailer; the
  trailer's hang time is cancelled at once by the reset; the end of the network's
  transmission stops the pings of a radio's; switching off leaves them running; a lost
  trailer mixes the pieces of two messages.
* A socket that cannot be opened again after an error leaves its client deaf.

## 7. Plan

1. Proofs: every safety property a run checks is a theorem. Next, safety of `HostRemote`
   beyond the downlink, with an invariant that allows for a second caller of `setMode`.
2. Composition: two slots, `CDMRControl` and the mode controller, so that hang times
   and frame queues are seen together.
3. The serial display data in `CModem`: its buffer is filled on the MQTT thread and
   emptied by `clock`, and the accumulation of the Nextion's commands.
4. The data of Kenwood radios that comes back.

## 8. Not modelled

* Forward error correction, interleaving and bit codecs: arithmetic without
  state, which exhaustive tests reach better.
* Configuration, logging, JSON, RSSI: read once, or output only.
* Serial, UDP and I2C I/O below "all, part or nothing of what was asked, or an
  error".
* The MQTT library: external; modelled as a thread that calls back while the
  connection is open.
* What the controls decode of voice and data beyond what decides their states: bit
  errors, signal strength, talker alias, GPS.
* FM audio resampling: little state. AX.25: conditional, its sources are not in
  the tree.
* The serial display and the transparent data of `CModem`: pass-through of bytes that
  no state of the link depends on.
* DMR trunking: a configuration in which the host starts in DMR mode and neither
  the hang time nor a beacon ends it, so that most of what `HostMode` is about
  does not happen; with it wakeup CSBKs and roaming beacons of `CDMRControl` beyond
  what `HostMode` has. The transparent socket passes bytes through and touches no
  state of the mode controller.
