---------------------------- MODULE Modem_proofs ----------------------------
(***************************************************************************)
(* Proofs about the link to the modem and the queues on either side of it: *)
(* the modem is configured for the modes the host means it to have; what   *)
(* getResponse hands over are the frames the modem sent, and a failed read *)
(* costs one of them; frames keep their order and their bounds in the      *)
(* queues; the modem is not fed more than it has room for.  For any modes, *)
(* protocols in use, payloads, sizes of queues and rooms, numbers of       *)
(* frames and of questions, and whatever the environment does.             *)
(***************************************************************************)
EXTENDS Modem, FiniteSetTheorems, WellFoundedInduction, TLAPS

-----------------------------------------------------------------------------
(* The configuration.                                                      *)

Names == {"VERSION", "STATUS", "FREQ", "CONFIG", "FM1", "FM2", "FM3", "FM4"}

Commands == [name : Names, modes : SUBSET (UNION Modes)]

IsConfig(c) == c.name = "CONFIG"

NoConfig(q) == \A i \in DOMAIN q : ~IsConfig(q[i])

\* The last configuration in q is the given one.
LastConfig(q, modes) ==
  \A i \in DOMAIN q :
    IsConfig(q[i]) /\ (\A j \in DOMAIN q : j > i => ~IsConfig(q[j])) => q[i].modes = modes

\* open() has written the configuration.
Configured == ours = << >> /\ step \in {"CONFIG", "FM1", "FM2", "FM3", "FM4", "USE"}

\* A command is about to write the configuration, failed to, or wrote it before open()
\* wrote one that is older.
Overtaken == reconf = Link!Setting \/ "CROSSED" \in lost \/ "UNWRITTEN" \in lost

\* Of what is under way, the last configuration is the one that is wanted; with none
\* under way the modem has it, unless it may have lost it.
Told == /\ LastConfig(toModem, Link!ConfigOf(wanted))
        /\ lost = {} /\ NoConfig(toModem) => modem.modes = Link!ConfigOf(wanted)

\* That is so once open() has written it; before that, what it has put together is
\* what is wanted.  A modem that is away has nothing under way to it.
LinkInv ==
  /\ fm \in 0 .. 4
  /\ lost \in SUBSET {"AWAY", "REFUSED", "UNWRITTEN", "CROSSED"}
  /\ wanted \in Modes
  /\ modem \in [alive : BOOLEAN, modes : SUBSET (UNION Modes)]
  /\ toModem \in Seq(Commands)
  /\ ~modem.alive => "AWAY" \in lost /\ toModem = << >>
  /\ ours # << >> => step = "CONFIG" /\ \E m \in SUBSET (UNION Modes) : ours = <<m>>
  /\ ours # << >> /\ ~Overtaken => ours[1] = Link!ConfigOf(wanted)
  /\ Configured /\ ~Overtaken => Told

LEMMA LinkInit == ASSUME Link!Init PROVE LinkInv
BY ModemAssumption DEF Link!Init, LinkInv, Configured, ModemAssumption

\* A command more, or less.
LEMMA AppendConfig ==
  ASSUME NEW q \in Seq(Commands), NEW c \in Commands, NEW m
  PROVE  /\ Append(q, c) \in Seq(Commands)
         /\ IsConfig(c) => ~NoConfig(Append(q, c))
         /\ IsConfig(c) /\ c.modes = m => LastConfig(Append(q, c), m)
         /\ ~IsConfig(c) /\ LastConfig(q, m) => LastConfig(Append(q, c), m)
         /\ ~IsConfig(c) /\ NoConfig(Append(q, c)) => NoConfig(q)
<1> DEFINE p == Append(q, c)
           N == Len(q)
<1>1. /\ p \in Seq(Commands) /\ N \in Nat /\ DOMAIN q = 1 .. N /\ DOMAIN p = 1 .. N + 1
      /\ p[N + 1] = c /\ \A i \in 1 .. N : p[i] = q[i]
  OBVIOUS
<1> HIDE DEF p, N
<1>2. /\ IsConfig(c) => ~NoConfig(p)
      /\ ~IsConfig(c) /\ NoConfig(p) => NoConfig(q)
  <2>1. N + 1 \in 1 .. N + 1 /\ 1 .. N \subseteq 1 .. N + 1
    BY <1>1
  <2> QED
    BY <1>1, <2>1 DEF NoConfig
<1>3. ASSUME IsConfig(c), c.modes = m PROVE LastConfig(p, m)
  <2>1. ASSUME NEW i \in DOMAIN p, \A j \in DOMAIN p : j > i => ~IsConfig(p[j])
        PROVE  i = N + 1
    <3>1. N + 1 \in DOMAIN p /\ i \in 1 .. N + 1
      BY <1>1
    <3>2. ~(N + 1 > i)
      BY <1>1, <1>3, <2>1, <3>1
    <3> QED
      BY <1>1, <3>1, <3>2
  <2> QED
    BY <1>1, <1>3, <2>1 DEF LastConfig
<1>4. ASSUME ~IsConfig(c), LastConfig(q, m) PROVE LastConfig(p, m)
  <2>1. ASSUME NEW i \in DOMAIN p, IsConfig(p[i]), \A j \in DOMAIN p : j > i => ~IsConfig(p[j])
        PROVE  p[i].modes = m
    <3>1. i \in DOMAIN q /\ p[i] = q[i]
      BY <1>1, <1>4, <2>1
    <3>2. \A j \in DOMAIN q : j > i => ~IsConfig(q[j])
      BY <1>1, <2>1
    <3> QED
      BY <1>4, <2>1, <3>1, <3>2 DEF LastConfig
  <2> QED
    BY <2>1 DEF LastConfig
<1> QED
  BY <1>1, <1>2, <1>3, <1>4 DEF p

LEMMA TailConfig ==
  ASSUME NEW q \in Seq(Commands), q # << >>, NEW m, LastConfig(q, m)
  PROVE  /\ Tail(q) \in Seq(Commands) /\ Head(q) \in Commands
         /\ LastConfig(Tail(q), m)
         /\ NoConfig(Tail(q)) /\ IsConfig(Head(q)) => Head(q).modes = m
         /\ NoConfig(Tail(q)) /\ ~IsConfig(Head(q)) => NoConfig(q)
<1> DEFINE p == Tail(q)
           N == Len(q)
<1>1. /\ p \in Seq(Commands) /\ N \in Nat /\ N > 0 /\ DOMAIN q = 1 .. N /\ DOMAIN p = 1 .. N - 1
      /\ Head(q) = q[1] /\ Head(q) \in Commands /\ \A i \in 1 .. N - 1 : p[i] = q[i + 1]
  OBVIOUS
<1> HIDE DEF p, N
<1>2. \A j \in 2 .. N : j - 1 \in 1 .. N - 1 /\ q[j] = p[j - 1]
  BY <1>1
<1>3. ASSUME NEW i \in DOMAIN p, IsConfig(p[i]), \A j \in DOMAIN p : j > i => ~IsConfig(p[j])
      PROVE  p[i].modes = m
  <2>1. i + 1 \in 1 .. N /\ p[i] = q[i + 1]
    BY <1>1
  <2>2. ASSUME NEW j \in 1 .. N, j > i + 1 PROVE ~IsConfig(q[j])
    <3>1. j \in 2 .. N /\ j - 1 > i
      BY <1>1, <2>2
    <3> QED
      BY <1>1, <1>2, <1>3, <3>1
  <2> QED
    BY <1>1, <1>3, <2>1, <2>2 DEF LastConfig
<1>4. ASSUME NoConfig(p) PROVE \A j \in 2 .. N : ~IsConfig(q[j])
  BY <1>1, <1>2, <1>4 DEF NoConfig
<1>5. NoConfig(p) /\ IsConfig(q[1]) => q[1].modes = m
  <2>1. 1 \in 1 .. N /\ \A j \in 1 .. N : j > 1 => j \in 2 .. N
    BY <1>1
  <2> QED
    BY <1>1, <1>4, <2>1 DEF LastConfig
<1>6. NoConfig(p) /\ ~IsConfig(q[1]) => NoConfig(q)
  <2>1. \A j \in 1 .. N : j = 1 \/ j \in 2 .. N
    BY <1>1
  <2> QED
    BY <1>1, <1>4, <2>1 DEF NoConfig
<1> QED
  BY <1>1, <1>3, <1>5, <1>6 DEF p, LastConfig

\* What open() writes after a command.
LEMMA StepsInOrder ==
  ASSUME fm \in 0 .. 4, Link!Commanding
  PROVE  /\ Link!After(step) \in Names \cup {"USE"}
         /\ Link!After(step) \notin {"VERSION", "FREQ"}
         /\ Link!After(step) = "CONFIG" <=> step = "FREQ"
         /\ Link!After(step) \notin {"USE", "CONFIG"} => Link!After(step) \in {"FM1", "FM2", "FM3", "FM4"}
<1>1. /\ DOMAIN Link!FMSteps = 1 .. 4 /\ Link!FMSteps[1] = "FM1" /\ Link!FMSteps[2] = "FM2"
      /\ Link!FMSteps[3] = "FM3" /\ Link!FMSteps[4] = "FM4"
  BY DEF Link!FMSteps
<1>2. CASE step \in {"FREQ", "CONFIG"}
  BY <1>1, <1>2 DEF Link!After, Names
<1>3. CASE step \in {"FM1", "FM2", "FM3", "FM4"}
  <2> DEFINE i == CHOOSE j \in DOMAIN Link!FMSteps : Link!FMSteps[j] = step
  <2>1. \E j \in DOMAIN Link!FMSteps : Link!FMSteps[j] = step
    BY <1>1, <1>3
  <2>2. i \in 1 .. 4
    BY <1>1, <2>1
  <2>3. Link!After(step) = IF i >= fm THEN "USE" ELSE Link!FMSteps[i + 1]
    BY <1>3 DEF Link!After
  <2> HIDE DEF i
  <2>4. i < fm => i + 1 \in 1 .. 4
    BY <2>2
  <2>5. \A j \in 1 .. 4 : Link!FMSteps[j] \in {"FM1", "FM2", "FM3", "FM4"}
    BY <1>1
  <2>6. Link!After(step) \in {"USE", "FM1", "FM2", "FM3", "FM4"}
    BY <2>2, <2>3, <2>4, <2>5
  <2> QED
    BY <1>3, <2>6 DEF Names
<1> QED
  BY <1>2, <1>3 DEF Link!Commanding

\* The configuration is one the host may write.
LEMMA ConfigType ==
  ASSUME NEW modes \in Modes
  PROVE  Link!ConfigOf(modes) \in SUBSET (UNION Modes)
BY DEF Link!ConfigOf, Link!Config1, Link!Config2

\* What a command that is written does to what is under way.
LEMMA SendKeeps ==
  ASSUME LinkInv, NEW c \in Commands, Link!Send(c), NEW m
  PROVE  /\ toModem' \in Seq(Commands)
         /\ ~modem.alive => toModem' = << >>
         /\ IsConfig(c) /\ c.modes = m => LastConfig(toModem', m)
         /\ ~IsConfig(c) /\ LastConfig(toModem, m) => LastConfig(toModem', m)
         /\ IsConfig(c) /\ modem.alive => ~NoConfig(toModem')
         /\ ~IsConfig(c) /\ NoConfig(toModem') => NoConfig(toModem)
<1>1. CASE modem.alive
  <2>1. toModem' = Append(toModem, c) /\ toModem \in Seq(Commands)
    BY <1>1 DEF LinkInv, Link!Send
  <2> QED
    BY <1>1, <2>1, AppendConfig
<1>2. CASE ~modem.alive
  <2>1. toModem' = << >> /\ toModem = << >>
    BY <1>2 DEF LinkInv, Link!Send
  <2>2. toModem' \in Seq(Commands) /\ DOMAIN toModem' = {}
    BY <2>1
  <2> QED
    BY <1>2, <2>1, <2>2 DEF LastConfig
<1> QED
  BY <1>1, <1>2

\* What the host wants is told as before if no more is said of the configuration, and
\* what has been said stays.
LEMMA SameConfig ==
  ASSUME UNCHANGED <<wanted, protocol>>
  PROVE  Link!ConfigOf(wanted)' = Link!ConfigOf(wanted)
BY DEF Link!ConfigOf, Link!Config1, Link!Config2

LEMMA ToldKept ==
  ASSUME UNCHANGED <<wanted, protocol, modem, toModem, lost>>, Told
  PROVE  Told'
<1>1. Link!ConfigOf(wanted)' = Link!ConfigOf(wanted)
  BY SameConfig
<1>2. NoConfig(toModem)' = NoConfig(toModem)
  BY DEF NoConfig
<1>3. LastConfig(toModem, Link!ConfigOf(wanted))' = LastConfig(toModem, Link!ConfigOf(wanted))
  BY <1>1 DEF LastConfig
<1> QED
  BY <1>1, <1>2, <1>3 DEF Told

\* A step after which the rest is as it was.
LEMMA RestKeeps ==
  ASSUME LinkInv, Configured' => Configured, Overtaken => Overtaken',
         ours' = ours, ours # << >> => step' = step,
         UNCHANGED <<fm, wanted, protocol, modem, lost, toModem>>
  PROVE  LinkInv'
<1>1. Link!ConfigOf(wanted)' = Link!ConfigOf(wanted)
  BY SameConfig
<1>2. Configured' /\ ~Overtaken' => Told'
  BY ToldKept DEF LinkInv
<1> QED
  BY <1>1, <1>2 DEF LinkInv

\* A step that writes a command which is not the configuration, and leaves the rest.
LEMMA WriteKeeps ==
  ASSUME LinkInv, NEW name \in Names \ {"CONFIG"}, Link!Write(name), ours = << >>,
         Configured' => Configured, UNCHANGED <<ours, fm, wanted, protocol, reconf, modem, lost>>
  PROVE  LinkInv'
<1> DEFINE c == Link!Command(name, {})
           m == Link!ConfigOf(wanted)
<1>1. c \in Commands /\ ~IsConfig(c) /\ Link!Send(c)
  BY DEF Link!Write, Link!Command, Commands, IsConfig
<1>2. m' = m
  BY SameConfig
<1> HIDE DEF m, c
<1>3. /\ toModem' \in Seq(Commands)
      /\ ~modem.alive => toModem' = << >>
      /\ LastConfig(toModem, m) => LastConfig(toModem', m)
      /\ NoConfig(toModem') => NoConfig(toModem)
  BY <1>1, SendKeeps
<1>4. Overtaken' = Overtaken
  BY DEF Overtaken
<1>5. Configured' /\ ~Overtaken' => Told'
  <2>1. Configured' /\ ~Overtaken' => LastConfig(toModem, m) /\ (lost = {} /\ NoConfig(toModem) => modem.modes = m)
    BY <1>4 DEF LinkInv, Told, m
  <2>2. LastConfig(toModem, Link!ConfigOf(wanted))' = LastConfig(toModem', m)
    BY <1>2 DEF LastConfig, m
  <2>3. NoConfig(toModem)' = NoConfig(toModem')
    BY DEF NoConfig
  <2>4. Link!ConfigOf(wanted)' = m
    BY <1>2 DEF m
  <2> QED
    BY <1>3, <2>1, <2>2, <2>3, <2>4 DEF Told
<1> QED
  BY <1>3, <1>5 DEF LinkInv

\* The configuration that is wanted is written.
LEMMA ConfigTold ==
  ASSUME LinkInv, UNCHANGED <<wanted, protocol, modem>>, NEW c \in Commands,
         IsConfig(c), Link!Send(c), c.modes = Link!ConfigOf(wanted), lost \subseteq lost'
  PROVE  Told'
<1> DEFINE m == Link!ConfigOf(wanted)
<1>1. m' = m
  BY SameConfig
<1>2. c.modes = m
  OBVIOUS
<1> HIDE DEF m
<1>3. /\ LastConfig(toModem', m)
      /\ modem.alive => ~NoConfig(toModem')
  BY <1>2, SendKeeps
<1>4. ~modem.alive => lost' # {}
  BY DEF LinkInv
<1> QED
  BY <1>1, <1>3, <1>4 DEF Told, m

\* The next command of open() is written, or open() returns.
LEMMA ProceedKeeps ==
  ASSUME LinkInv, Link!Commanding, ours = << >>, Link!Proceed,
         UNCHANGED <<wanted, fm, protocol, reconf, modem, lost>>
  PROVE  LinkInv'
<1> DEFINE next == Link!After(step)
<1>1. /\ next \in Names \cup {"USE"} /\ next \notin {"VERSION", "FREQ"}
      /\ next = "CONFIG" <=> step = "FREQ"
      /\ next \notin {"USE", "CONFIG"} => next \in {"FM1", "FM2", "FM3", "FM4"}
  BY StepsInOrder DEF LinkInv
<1>2. next # "CONFIG" => Configured
  BY <1>1 DEF Configured, Link!Commanding
<1>3. Overtaken' = Overtaken
  BY DEF Overtaken
<1>4. CASE next = "USE" /\ step' = "USE" /\ UNCHANGED <<toModem, ours>>
  BY <1>2, <1>3, <1>4, RestKeeps
<1>5. CASE next = "CONFIG" /\ step' = "CONFIG" /\ ours' = <<Link!ConfigOf(wanted)>> /\ UNCHANGED toModem
  <2>1. Link!ConfigOf(wanted)' = Link!ConfigOf(wanted)
    BY SameConfig
  <2>2. Link!ConfigOf(wanted) \in SUBSET (UNION Modes)
    BY ConfigType DEF LinkInv
  <2>3. ours' # << >> /\ ours'[1] = Link!ConfigOf(wanted)
    BY <1>5
  <2>4. ~Configured'
    BY <2>3 DEF Configured
  <2>5. step' = "CONFIG" /\ \E m \in SUBSET (UNION Modes) : ours' = <<m>>
    BY <1>5, <2>2
  <2> QED
    BY <1>5, <2>1, <2>3, <2>4, <2>5 DEF LinkInv
<1>6. CASE next \notin {"USE", "CONFIG"} /\ step' = next /\ Link!Write(next) /\ UNCHANGED ours
  <2>1. next \in Names \ {"CONFIG"}
    BY <1>1, <1>6
  <2> QED
    BY <1>2, <1>6, <2>1, WriteKeeps
<1>7. CASE Link!NotWritten /\ UNCHANGED ours
  <2>1. ~Configured' /\ UNCHANGED toModem
    BY <1>7 DEF Link!NotWritten, Link!OpenFails, Configured
  <2> QED
    BY <1>3, <1>7, <2>1, RestKeeps
<1> QED
  BY <1>4, <1>5, <1>6, <1>7 DEF Link!Proceed

LEMMA WriteConfigKeeps == ASSUME LinkInv, Link!WriteConfig PROVE LinkInv'
<1>1. /\ ours # << >> /\ ours' = << >>
      /\ UNCHANGED <<wanted, fm, protocol, reconf, modem, lost>>
  BY DEF Link!WriteConfig, Link!host, Link!given
<1>2. PICK m \in SUBSET (UNION Modes) : ours = <<m>>
  BY <1>1 DEF LinkInv
<1>3. Overtaken' = Overtaken
  BY <1>1 DEF Overtaken
<1>4. CASE Link!Send(Link!Command("CONFIG", ours[1]))
  <2> DEFINE c == Link!Command("CONFIG", m)
  <2>1. c \in Commands /\ IsConfig(c) /\ c.modes = m /\ Link!Send(c)
    BY <1>2, <1>4 DEF Link!Command, Commands, IsConfig, Names
  <2> HIDE DEF c
  <2>2. toModem' \in Seq(Commands) /\ (~modem.alive => toModem' = << >>)
    BY <2>1, SendKeeps
  <2>3. ~Overtaken' => Told'
    <3>1. ~Overtaken => m = Link!ConfigOf(wanted)
      BY <1>1, <1>2 DEF LinkInv
    <3> QED
      BY <1>1, <1>3, <2>1, <3>1, ConfigTold
  <2> QED
    BY <1>1, <2>2, <2>3 DEF LinkInv
<1>5. CASE Link!NotWritten
  <2>1. UNCHANGED toModem /\ ~Configured'
    BY <1>5 DEF Link!NotWritten, Link!OpenFails, Configured
  <2> QED
    BY <1>1, <2>1 DEF LinkInv
<1> QED
  BY <1>4, <1>5 DEF Link!WriteConfig

LEMMA ReconfigureWritesKeeps == ASSUME LinkInv, Link!ReconfigureWrites PROVE LinkInv'
<1>1. /\ reconf = Link!Setting
      /\ UNCHANGED <<wanted, ours, fm, protocol, modem>>
  BY DEF Link!ReconfigureWrites, Link!given
<1>2. Overtaken
  BY <1>1 DEF Overtaken
<1>3. CASE step \in {"CLOSED", "GONE"} /\ UNCHANGED <<reconf, toModem, lost>> /\ step' = "ABORTED"
  <2>1. Overtaken' /\ ~Configured' /\ ours = << >>
    BY <1>2, <1>3 DEF Overtaken, Configured, LinkInv
  <2> QED
    BY <1>1, <1>3, <2>1, RestKeeps
<1>4. CASE /\ Link!Send(Link!Command("CONFIG", Link!ConfigOf(wanted)))
           /\ lost' = IF ours # << >> THEN lost \cup {"CROSSED"} ELSE lost
           /\ UNCHANGED step
  <2> DEFINE c == Link!Command("CONFIG", Link!ConfigOf(wanted))
  <2>1. c \in Commands /\ IsConfig(c) /\ c.modes = Link!ConfigOf(wanted) /\ Link!Send(c)
    BY <1>4, ConfigType DEF Link!Command, Commands, IsConfig, Names, LinkInv
  <2> HIDE DEF c
  <2>2. toModem' \in Seq(Commands) /\ (~modem.alive => toModem' = << >>)
    BY <2>1, SendKeeps
  <2>3. Told'
    BY <1>1, <1>4, <2>1, ConfigTold
  <2>4. ours # << >> => Overtaken'
    BY <1>4 DEF Overtaken
  <2>5. lost' \in SUBSET {"AWAY", "REFUSED", "UNWRITTEN", "CROSSED"} /\ lost \subseteq lost'
    BY <1>4 DEF LinkInv
  <2> QED
    BY <1>1, <1>4, <2>2, <2>3, <2>4, <2>5 DEF LinkInv
<1>5. CASE /\ lost' = IF step \notin {"VERSION", "FREQ"} THEN lost \cup {"UNWRITTEN"} ELSE lost
           /\ UNCHANGED <<step, toModem>>
  <2>1. Configured' \/ ours # << >> => Overtaken'
    <3>1. Configured' \/ ours # << >> => step \notin {"VERSION", "FREQ"}
      BY <1>1, <1>5 DEF Configured, LinkInv
    <3> QED
      BY <1>5, <3>1 DEF Overtaken
  <2>2. lost' \in SUBSET {"AWAY", "REFUSED", "UNWRITTEN", "CROSSED"} /\ lost \subseteq lost'
    BY <1>5 DEF LinkInv
  <2> QED
    BY <1>1, <1>5, <2>1, <2>2 DEF LinkInv
<1> QED
  BY <1>3, <1>4, <1>5 DEF Link!ReconfigureWrites

LEMMA ReconfigureKeeps == ASSUME LinkInv, Link!Reconfigure PROVE LinkInv'
<1>1. /\ wanted' \in Modes /\ reconf' = Link!Setting
      /\ UNCHANGED <<step, ours, fm, protocol, modem, toModem, lost>>
  BY DEF Link!Reconfigure, Link!link, Link!given
<1>2. Overtaken'
  BY <1>1 DEF Overtaken, Link!Setting
<1> QED
  BY <1>1, <1>2 DEF LinkInv

LEMMA ReconfigureReadsKeeps == ASSUME LinkInv, Link!ReconfigureReads PROVE LinkInv'
<1>1. /\ reconf \in 1 .. MaxResponses /\ MaxResponses \in Nat
      /\ UNCHANGED <<step, ours, wanted, fm, protocol, modem, toModem, lost>>
  BY ModemAssumption DEF Link!ReconfigureReads, Link!link, Link!given, ModemAssumption
<1>2. reconf # Link!Setting
  BY <1>1 DEF Link!Setting
<1>3. Overtaken => Overtaken'
  BY <1>1, <1>2 DEF Overtaken
<1> QED
  BY <1>1, <1>3, RestKeeps DEF Configured

LEMMA LinkStep ==
  ASSUME LinkInv, Link!Next PROVE LinkInv'
<1>1. CASE Link!AskVersion
  <2>1. /\ UNCHANGED <<ours, fm, wanted, protocol, reconf, modem, lost>> /\ step = "VERSION"
        /\ step' \in {"VERSION", "EXITED", "GONE"}
        /\ Link!Write("VERSION") \/ UNCHANGED toModem
    BY <1>1 DEF Link!AskVersion, Link!OpenFails, Link!host, Link!given
  <2>2. ours = << >> /\ ~Configured' /\ (Overtaken => Overtaken') /\ "VERSION" \in Names \ {"CONFIG"}
    BY <2>1 DEF LinkInv, Configured, Overtaken, Names
  <2> QED
    BY <2>1, <2>2, WriteKeeps, RestKeeps
<1>2. CASE Link!ReadVersion
  <2>1. UNCHANGED <<ours, fm, wanted, protocol, reconf, modem, lost>> /\ step = "VERSION"
    BY <1>2 DEF Link!ReadVersion, Link!link, Link!host, Link!given
  <2>2. ours = << >> /\ (Overtaken => Overtaken')
    BY <2>1 DEF LinkInv, Overtaken
  <2>3. /\ step' \in {"VERSION", "FREQ", "EXITED", "GONE"}
        /\ Link!Write("FREQ") \/ UNCHANGED toModem
    BY <1>2, <2>1 DEF Link!ReadVersion, Link!OpenFails, Link!link
  <2>4. ~Configured' /\ "FREQ" \in Names \ {"CONFIG"}
    BY <2>3 DEF Configured, Names
  <2> QED
    BY <2>1, <2>2, <2>3, <2>4, WriteKeeps, RestKeeps
<1>3. CASE Link!NoVersion
  <2>1. UNCHANGED <<ours, fm, wanted, protocol, reconf, modem, lost, toModem>> /\ step = "VERSION"
    BY <1>3 DEF Link!NoVersion, Link!host, Link!given
  <2>2. ~Configured' /\ ours = << >> /\ (Overtaken => Overtaken')
    BY <1>3, <2>1 DEF Link!NoVersion, Link!OpenFails, Configured, LinkInv, Overtaken
  <2> QED
    BY <2>1, <2>2, RestKeeps
<1>12. CASE Link!WriteConfig
  BY <1>12, WriteConfigKeeps
<1>4. CASE Link!Answered
  <2>1. /\ UNCHANGED <<fm, wanted, protocol, reconf, modem, lost>> /\ Link!Commanding
        /\ ours = << >>
    BY <1>4 DEF Link!Answered, Link!host, Link!given
  <2>2. CASE Head(toHost) = "ACK"
    <3>1. Link!Proceed
      BY <1>4, <2>2 DEF Link!Answered
    <3> QED
      BY <2>1, <3>1, ProceedKeeps
  <2>3. CASE Head(toHost) # "ACK"
    <3>1. UNCHANGED <<ours, toModem>> /\ (Link!OpenFails \/ UNCHANGED step)
      BY <1>4, <2>3 DEF Link!Answered
    <3>2. (Configured' => Configured) /\ (Overtaken => Overtaken')
      BY <2>1, <3>1 DEF Link!OpenFails, Configured, Overtaken
    <3> QED
      BY <2>1, <3>1, <3>2, RestKeeps
  <2> QED
    BY <2>2, <2>3
<1>5. CASE Link!Unanswered
  <2>1. /\ Link!Commanding /\ Link!Proceed /\ ours = << >>
        /\ UNCHANGED <<fm, wanted, protocol, reconf, modem, lost>>
    BY <1>5 DEF Link!Unanswered, Link!host, Link!given
  <2> QED
    BY <2>1, ProceedKeeps
<1>6. CASE \E ticks : Link!Clocked(ticks)
  <2>1. UNCHANGED <<step, ours, fm, wanted, protocol, reconf, modem, lost>> /\ step = "USE"
    BY <1>6 DEF Link!Clocked, Link!host, Link!given
  <2>2. UNCHANGED toModem \/ Link!Write("STATUS")
    BY <1>6 DEF Link!Clocked
  <2>3. /\ "STATUS" \in Names \ {"CONFIG"} /\ (Configured' => Configured)
        /\ (Overtaken => Overtaken') /\ ours = << >>
    BY <2>1 DEF Names, Configured, Overtaken, LinkInv
  <2> QED
    BY <2>1, <2>2, <2>3, RestKeeps, WriteKeeps
<1>7. CASE Link!ReadPart \/ Link!Receive \/ Link!Retry \/ Link!RetryGone \/ Link!ModemTalks
  <2>1. UNCHANGED <<ours, fm, wanted, protocol, reconf, modem, lost, toModem>>
    BY <1>7 DEF Link!ReadPart, Link!Receive, Link!Retry, Link!RetryGone, Link!ModemTalks,
                Link!link, Link!host, Link!given
  <2>2. UNCHANGED step \/ (step' \in {"VERSION", "CRASHED"} /\ step \in {"CLOSED", "GONE"})
    BY <1>7 DEF Link!ReadPart, Link!Receive, Link!Retry, Link!RetryGone, Link!ModemTalks, Link!link
  <2>3. /\ (Configured' => Configured) /\ (Overtaken => Overtaken')
        /\ (ours # << >> => step' = step)
    BY <2>1, <2>2 DEF Configured, Overtaken, LinkInv
  <2> QED
    BY <2>1, <2>3, RestKeeps
<1>8. CASE Link!Reset
  <2>1. /\ UNCHANGED <<ours, fm, wanted, protocol, reconf, modem>> /\ toModem' = << >>
        /\ step = "USE" /\ step' = "CLOSED" /\ lost' = lost \ {"CROSSED", "UNWRITTEN"}
    BY <1>8 DEF Link!Reset, Link!host, Link!given
  <2>2. ~Configured' /\ ours = << >>
    BY <2>1 DEF Configured, LinkInv
  <2> QED
    BY <2>1, <2>2 DEF LinkInv
<1>9. CASE Link!Reconfigure \/ Link!ReconfigureWrites \/ Link!ReconfigureReads
  BY <1>9, ReconfigureKeeps, ReconfigureWritesKeeps, ReconfigureReadsKeeps
<1>10. CASE Link!ModemTakes
  <2> DEFINE c == Head(toModem)
             m == Link!ConfigOf(wanted)
  <2>1. /\ UNCHANGED <<step, ours, fm, wanted, protocol, reconf>> /\ modem.alive
        /\ toModem # << >> /\ toModem' = Tail(toModem)
    BY <1>10 DEF Link!ModemTakes, Link!link, Link!host, Link!given
  <2>2. m' = m /\ (Configured' = Configured)
    BY <2>1, SameConfig DEF Configured
  <2>3. \/ UNCHANGED <<modem, lost>> /\ ~IsConfig(c)
        \/ /\ IsConfig(c) /\ modem' = [modem EXCEPT !.modes = c.modes]
           /\ lost' = lost \ {"AWAY", "REFUSED"}
        \/ IsConfig(c) /\ UNCHANGED modem /\ lost' = lost \cup {"REFUSED"}
    <3>1. CASE c.name \in {"VERSION", "STATUS"} /\ UNCHANGED <<modem, lost>>
      BY <3>1 DEF IsConfig
    <3>2. CASE lost' = (IF c.name = "CONFIG" THEN lost \cup {"REFUSED"} ELSE lost) /\ UNCHANGED modem
      BY <3>2 DEF IsConfig, LinkInv
    <3>3. CASE /\ modem' = IF c.name = "CONFIG" THEN [modem EXCEPT !.modes = c.modes] ELSE modem
               /\ lost' = IF c.name = "CONFIG" THEN lost \ {"AWAY", "REFUSED"} ELSE lost
      BY <3>3 DEF IsConfig, LinkInv
    <3> QED
      BY <1>10, <3>1, <3>2, <3>3 DEF Link!ModemTakes
  <2>4. toModem' \in Seq(Commands) /\ c \in Commands
    BY <2>1 DEF LinkInv
  <2>10. lost' \in SUBSET {"AWAY", "REFUSED", "UNWRITTEN", "CROSSED"} /\ Overtaken' = Overtaken
    BY <2>1, <2>3 DEF LinkInv, Overtaken
  <2> HIDE DEF c, m
  <2>5. ASSUME Configured, ~Overtaken
        PROVE  /\ LastConfig(toModem', m)
               /\ lost' = {} /\ NoConfig(toModem') => modem'.modes = m
    <3>1. LastConfig(toModem, m) /\ (lost = {} /\ NoConfig(toModem) => modem.modes = m)
      BY <2>5 DEF LinkInv, Told, m
    <3>2. /\ LastConfig(toModem', m)
          /\ NoConfig(toModem') /\ IsConfig(c) => c.modes = m
          /\ NoConfig(toModem') /\ ~IsConfig(c) => NoConfig(toModem)
      BY <2>1, <3>1, TailConfig DEF LinkInv, c
    <3>3. modem \in [alive : BOOLEAN, modes : SUBSET (UNION Modes)]
      BY DEF LinkInv
    <3> QED
      BY <2>3, <3>1, <3>2, <3>3
  <2>6. modem' \in [alive : BOOLEAN, modes : SUBSET (UNION Modes)] /\ modem'.alive
    BY <2>1, <2>3, <2>4 DEF LinkInv, Commands
  <2>7. Configured' /\ ~Overtaken' => Told'
    BY <2>2, <2>5, <2>10 DEF Told, m
  <2>8. /\ ours' # << >> => step' = "CONFIG" /\ \E x \in SUBSET (UNION Modes) : ours' = <<x>>
        /\ ours' # << >> /\ ~Overtaken' => ours'[1] = Link!ConfigOf(wanted)'
    BY <2>1, <2>2, <2>10 DEF LinkInv, m
  <2> QED
    BY <2>1, <2>4, <2>6, <2>7, <2>8, <2>10 DEF LinkInv
<1>11. CASE Link!ModemFails \/ Link!ModemReturns
  <2>1. /\ UNCHANGED <<step, ours, fm, wanted, protocol, reconf>> /\ toModem' = << >>
        /\ lost' = lost \cup {"AWAY"}
    BY <1>11 DEF Link!ModemFails, Link!ModemReturns, Link!link, Link!host, Link!given, LinkInv
  <2>2. modem' \in [alive : BOOLEAN, modes : SUBSET (UNION Modes)]
    <3>1. modem \in [alive : BOOLEAN, modes : SUBSET (UNION Modes)]
      BY DEF LinkInv
    <3>2. CASE modem' = [modem EXCEPT !.alive = FALSE]
      BY <3>1, <3>2
    <3>3. CASE \E modes \in {modem.modes, {}} : modem' = [alive |-> TRUE, modes |-> modes]
      BY <3>1, <3>3
    <3> QED
      BY <1>11, <3>2, <3>3 DEF Link!ModemFails, Link!ModemReturns
  <2>3. toModem' \in Seq(Commands) /\ DOMAIN toModem' = {}
    BY <2>1
  <2>4. Told' /\ Overtaken' = Overtaken
    BY <2>1, <2>3 DEF Told, LastConfig, Overtaken
  <2>5. Link!ConfigOf(wanted)' = Link!ConfigOf(wanted)
    BY <2>1, SameConfig
  <2> QED
    BY <2>1, <2>2, <2>3, <2>4, <2>5 DEF LinkInv
<1> QED
  BY <1>1, <1>2, <1>3, <1>4, <1>5, <1>6, <1>7, <1>8, <1>9, <1>10, <1>11, <1>12
     DEF Link!Next, Link!Loop, Link!Tick, Link!Stall

-----------------------------------------------------------------------------
(* The queues.                                                             *)

Kinds == {"NONE", "HEADER", "DATA", "EOT", "SHORT", "LOST", "RSSI"}

Runs == [what : {"LENGTH", "FRAME", "TAG", "PAYLOAD"}, bytes : Nat, n : Nat, kind : Kinds]

Orders == {f \in [what : {"FRAME", "ABORT", "GET_STATUS"}, of : fit.protocols \cup {"NONE"}, units : Nat] :
             /\ f.what # "GET_STATUS" => f.of \in fit.protocols
             /\ f.what = "FRAME" => f.units \in {1, 4}}

Statuses == [what : {"STATUS"}, spaces : [fit.protocols -> Nat]]

\* The kinds of frames of all protocols.
Sorts == {"HEADER", "DATA", "LOST", "EOT", "TERMINATOR", "HDR", "LDU", "LINK_SETUP", "STREAM",
          "STATUS", "RSSI"}

Receptions == {f \in [what : {"RECEIVED"}, of : fit.protocols, kind : Sorts, n : Nat] :
                 /\ f.of # "POCSAG"
                 /\ f.kind \in DOMAIN Queues!Received(f.of)}

QueuesType ==
  /\ fit \in Fits
  /\ turn \in {"READ", "WRITE", "CLOCK", "FEED"}
  /\ rx \in [fit.protocols -> Seq(Runs)] /\ tx \in [fit.protocols -> Seq(Runs)]
  /\ space \in [fit.protocols -> Int] /\ room \in [fit.protocols -> Nat]
  /\ toModem \in Seq(Orders) /\ toHost \in Seq(Statuses \cup Receptions)
  /\ fed \in [fit.protocols -> Nat] /\ ahead \in [fit.protocols -> Nat]
  /\ received \in [fit.protocols -> Nat] /\ handed \in [fit.protocols -> Nat]
  /\ got \in [fit.protocols -> Nat] /\ taken \in [fit.protocols -> Nat]

\* A received frame is in its queue from clock to the next read, alone.
IsReceipt(q) == /\ Len(q) \in {2, 3}
                /\ q[1].what = "LENGTH"
                /\ \A i \in 2 .. Len(q) : q[i].what # "LENGTH"

Waits(p) == rx[p] # << >>

RxInv(p) ==
  /\ Waits(p) => /\ turn \notin {"WRITE", "CLOCK"}
                 /\ IsReceipt(rx[p]) /\ rx[p][1].n = got[p] + 1
  /\ Queues!InOrder(toHost, Queues!Coming(toHost, p),
                    IF Waits(p) THEN got[p] + 1 ELSE got[p], received[p])
  /\ (IF Waits(p) THEN got[p] + 1 ELSE got[p]) <= received[p]

\* A transmit queue holds a length and a frame for each number after taken up to handed.
IsPairs(q, last, end) ==
  /\ last <= end
  /\ Len(q) = 2 * (end - last)
  /\ \A k \in 1 .. end - last :
       /\ q[2 * k - 1].what = "LENGTH" /\ q[2 * k - 1].n = last + k
       /\ q[2 * k].what = "FRAME"

TxInv(p) == p \notin excused => IsPairs(tx[p], taken[p], handed[p])

\* The frames of p in q, those of them after position g, and the room they take; some
\* of them are LONG.
Counts(f, p, c) == f.what = "FRAME" /\ f.of = p /\ (c = "LONG" => f.units = 4)

FramesOf(q, p, c) == {i \in DOMAIN q : Counts(q[i], p, c)}

FramesAfter(q, p, c, g) == {i \in FramesOf(q, p, c) : i > g}

UnitsOf(q, p) == Cardinality(FramesOf(q, p, "ANY")) + 3 * Cardinality(FramesOf(q, p, "LONG"))

UnitsAfter(q, p, g) ==
  Cardinality(FramesAfter(q, p, "ANY", g)) + 3 * Cardinality(FramesAfter(q, p, "LONG", g))

Under(p) == UnitsOf(toModem, p)

\* The host may count as much too many as was fed in advance of the last status; one
\* unit less of it is under way.  A status under way counts too many what was fed since
\* it was asked for.
RoomInv(p) ==
  /\ room[p] <= Room[p] /\ fed[p] <= ahead[p]
  /\ Under(p) <= room[p] + ahead[p] - 1
  /\ space[p] <= room[p] - Under(p) + ahead[p]
  /\ \A i \in DOMAIN toHost :
       toHost[i].what = "STATUS" => toHost[i].spaces[p] <= room[p] - Under(p) + fed[p]
  /\ \A g \in DOMAIN toModem :
       toModem[g].what = "GET_STATUS" => UnitsAfter(toModem, p, g) <= fed[p]

RxAll == \A p \in fit.protocols : RxInv(p)

TxAll == \A p \in fit.protocols : TxInv(p)

RoomAll == \A p \in fit.protocols : RoomInv(p)

QueuesInv == QueuesType /\ RxAll /\ TxAll

RoomKept == RoomAll => RoomAll'

-----------------------------------------------------------------------------
(* How many frames are under way.                                          *)

LEMMA Counted ==
  ASSUME NEW S, NEW q \in Seq(S), NEW p, NEW c, NEW g
  PROVE  /\ IsFiniteSet(FramesOf(q, p, c)) /\ Cardinality(FramesOf(q, p, c)) \in Nat
         /\ IsFiniteSet(FramesAfter(q, p, c, g)) /\ Cardinality(FramesAfter(q, p, c, g)) \in Nat
<1>1. Len(q) \in Nat /\ DOMAIN q = 1 .. Len(q)
  OBVIOUS
<1>2. IsFiniteSet(1 .. Len(q))
  BY <1>1, FS_Interval
<1>3. FramesOf(q, p, c) \in SUBSET (1 .. Len(q)) /\ FramesAfter(q, p, c, g) \in SUBSET (1 .. Len(q))
  BY <1>1 DEF FramesOf, FramesAfter
<1> QED
  BY <1>2, <1>3, FS_Subset, FS_CardinalityType

LEMMA Shifted ==
  ASSUME NEW A \in SUBSET Int, IsFiniteSet(A), NEW B, B = {i + 1 : i \in A}
  PROVE  Cardinality(B) = Cardinality(A)
<1> DEFINE f == [i \in A |-> i + 1]
<1>1. f \in Bijection(A, B)
  BY DEF Bijection, Injection, Surjection, IsInjective
<1>2. ExistsBijection(A, B)
  BY <1>1 DEF ExistsBijection
<1> QED
  BY <1>2, FS_Bijection

LEMMA CountAppend ==
  ASSUME NEW S, NEW q \in Seq(S), NEW e \in S, NEW p, NEW c,
         NEW more, more = IF Counts(e, p, c) THEN 1 ELSE 0
  PROVE  /\ Cardinality(FramesOf(Append(q, e), p, c)) = Cardinality(FramesOf(q, p, c)) + more
         /\ \A g \in DOMAIN q : Cardinality(FramesAfter(Append(q, e), p, c, g))
                                  = Cardinality(FramesAfter(q, p, c, g)) + more
         /\ Cardinality(FramesAfter(Append(q, e), p, c, Len(q) + 1)) = 0
<1> DEFINE r == Append(q, e)
           N == Len(q)
<1>1. /\ N \in Nat /\ DOMAIN q = 1 .. N /\ DOMAIN r = 1 .. N + 1
      /\ r[N + 1] = e /\ \A i \in 1 .. N : r[i] = q[i]
  OBVIOUS
<1>2. 1 .. N + 1 = (1 .. N) \cup {N + 1} /\ N + 1 \notin 1 .. N
  BY <1>1
<1> HIDE DEF r, N
<1> DEFINE Both ==
             /\ Cardinality(FramesOf(r, p, c)) = Cardinality(FramesOf(q, p, c)) + more
             /\ \A g \in 1 .. N :
                  Cardinality(FramesAfter(r, p, c, g)) = Cardinality(FramesAfter(q, p, c, g)) + more
<1>3. ASSUME Counts(e, p, c) PROVE Both
  <2>1. FramesOf(r, p, c) = FramesOf(q, p, c) \cup {N + 1} /\ N + 1 \notin FramesOf(q, p, c)
    BY <1>1, <1>2, <1>3 DEF FramesOf, Counts
  <2>2. ASSUME NEW g \in 1 .. N
        PROVE  /\ FramesAfter(r, p, c, g) = FramesAfter(q, p, c, g) \cup {N + 1}
               /\ N + 1 \notin FramesAfter(q, p, c, g)
    <3>1. N + 1 > g
      BY <1>1
    <3> QED
      BY <2>1, <3>1 DEF FramesAfter
  <2>3. Cardinality(FramesOf(r, p, c)) = Cardinality(FramesOf(q, p, c)) + 1
    BY <2>1, Counted, FS_AddElement
  <2>4. ASSUME NEW g \in 1 .. N
        PROVE  Cardinality(FramesAfter(r, p, c, g)) = Cardinality(FramesAfter(q, p, c, g)) + 1
    BY <2>2, Counted, FS_AddElement
  <2>5. more = 1
    BY <1>3
  <2> QED
    BY <1>1, <2>3, <2>4, <2>5
<1>4. ASSUME ~Counts(e, p, c) PROVE Both
  <2>1. FramesOf(r, p, c) = FramesOf(q, p, c)
    BY <1>1, <1>2, <1>4 DEF FramesOf, Counts
  <2>2. \A g : FramesAfter(r, p, c, g) = FramesAfter(q, p, c, g)
    BY <2>1 DEF FramesAfter
  <2>3. more = 0
    BY <1>4
  <2>4. Cardinality(FramesOf(q, p, c)) \in Nat /\ \A g : Cardinality(FramesAfter(q, p, c, g)) \in Nat
    BY Counted
  <2> QED
    BY <1>1, <2>1, <2>2, <2>3, <2>4
<1>5. Cardinality(FramesAfter(r, p, c, N + 1)) = 0
  <2>1. FramesAfter(r, p, c, N + 1) = {}
    BY <1>1 DEF FramesAfter, FramesOf, Counts
  <2> QED
    BY <2>1, FS_EmptySet
<1> QED
  BY <1>1, <1>3, <1>4, <1>5 DEF r, N

LEMMA CountTail ==
  ASSUME NEW S, NEW q \in Seq(S), q # << >>, NEW p, NEW c
  PROVE  /\ Cardinality(FramesOf(Tail(q), p, c)) = Cardinality(FramesAfter(q, p, c, 1))
         /\ Cardinality(FramesOf(Tail(q), p, c))
              = Cardinality(FramesOf(q, p, c))
                - (IF Counts(Head(q), p, c) THEN 1 ELSE 0)
         /\ \A g \in DOMAIN Tail(q) : Cardinality(FramesAfter(Tail(q), p, c, g))
                                        = Cardinality(FramesAfter(q, p, c, g + 1))
<1> DEFINE r == Tail(q)
           N == Len(q)
<1>1. /\ r \in Seq(S) /\ N \in Nat /\ N > 0 /\ DOMAIN q = 1 .. N /\ DOMAIN r = 1 .. N - 1
      /\ Head(q) = q[1] /\ \A i \in 1 .. N - 1 : r[i] = q[i + 1]
  OBVIOUS
<1> HIDE DEF r, N
<1>2. FramesOf(r, p, c) \in SUBSET Int
  BY <1>1 DEF FramesOf, Counts
<1>3. ASSUME NEW i \in 1 .. N, i > 1 PROVE i - 1 \in 1 .. N - 1 /\ r[i - 1] = q[i]
  <2>1. i - 1 \in 1 .. N - 1 /\ (i - 1) + 1 = i
    BY <1>1, <1>3
  <2> QED
    BY <1>1, <2>1
<1>4. FramesAfter(q, p, c, 1) = {i + 1 : i \in FramesOf(r, p, c)}
  <2>1. ASSUME NEW i \in FramesAfter(q, p, c, 1) PROVE i \in {j + 1 : j \in FramesOf(r, p, c)}
    <3>1. i \in 1 .. N /\ i > 1 /\ Counts(q[i], p, c)
      BY <1>1 DEF FramesAfter, FramesOf, Counts
    <3>2. i - 1 \in FramesOf(r, p, c) /\ i = (i - 1) + 1
      BY <1>1, <1>3, <3>1 DEF FramesOf, Counts
    <3> QED
      BY <3>2
  <2>2. ASSUME NEW j \in FramesOf(r, p, c) PROVE j + 1 \in FramesAfter(q, p, c, 1)
    BY <1>1 DEF FramesAfter, FramesOf, Counts
  <2> QED
    BY <2>1, <2>2
<1>5. Cardinality(FramesOf(r, p, c)) = Cardinality(FramesAfter(q, p, c, 1))
  BY <1>1, <1>2, <1>4, Counted, Shifted
<1>6. FramesAfter(q, p, c, 1) = FramesOf(q, p, c) \ {1}
  BY <1>1 DEF FramesAfter, FramesOf, Counts
<1>7. Cardinality(FramesOf(q, p, c) \ {1})
        = Cardinality(FramesOf(q, p, c))
          - (IF Counts(Head(q), p, c) THEN 1 ELSE 0)
  <2>1. 1 \in FramesOf(q, p, c) <=> Counts(Head(q), p, c)
    BY <1>1 DEF FramesOf, Counts
  <2>2. Cardinality(FramesOf(q, p, c)) \in Nat /\ IsFiniteSet(FramesOf(q, p, c))
    BY Counted
  <2>3. Cardinality(FramesOf(q, p, c) \ {1})
          = IF 1 \in FramesOf(q, p, c) THEN Cardinality(FramesOf(q, p, c)) - 1
            ELSE Cardinality(FramesOf(q, p, c))
    BY <2>2, FS_RemoveElement
  <2>4. CASE 1 \in FramesOf(q, p, c)
    BY <2>1, <2>3, <2>4
  <2>5. CASE 1 \notin FramesOf(q, p, c)
    BY <2>1, <2>2, <2>3, <2>5
  <2> QED
    BY <2>4, <2>5
<1>8. ASSUME NEW g \in 1 .. N - 1
      PROVE  Cardinality(FramesAfter(r, p, c, g)) = Cardinality(FramesAfter(q, p, c, g + 1))
  <2>1. FramesAfter(q, p, c, g + 1) = {i + 1 : i \in FramesAfter(r, p, c, g)}
    <3>1. ASSUME NEW i \in FramesAfter(q, p, c, g + 1)
          PROVE  i \in {j + 1 : j \in FramesAfter(r, p, c, g)}
      <4>1. i \in 1 .. N /\ i > 1 /\ i > g + 1 /\ i \in FramesAfter(q, p, c, 1)
        BY <1>1 DEF FramesAfter, FramesOf, Counts
      <4>2. PICK j \in FramesOf(r, p, c) : i = j + 1
        BY <1>4, <4>1
      <4>3. j > g
        BY <1>1, <1>2, <4>1, <4>2
      <4> QED
        BY <4>2, <4>3 DEF FramesAfter
    <3>2. ASSUME NEW j \in FramesAfter(r, p, c, g) PROVE j + 1 \in FramesAfter(q, p, c, g + 1)
      <4>1. j \in FramesOf(r, p, c) /\ j > g /\ j \in Int
        BY <1>2 DEF FramesAfter
      <4>2. j + 1 \in FramesOf(q, p, c) /\ j + 1 > g + 1
        BY <1>1, <4>1 DEF FramesOf, Counts
      <4> QED
        BY <4>2 DEF FramesAfter
    <3> QED
      BY <3>1, <3>2
  <2>2. FramesAfter(r, p, c, g) \in SUBSET Int /\ IsFiniteSet(FramesAfter(r, p, c, g))
    BY <1>1, <1>2, Counted DEF FramesAfter
  <2> QED
    BY <2>1, <2>2, Shifted
<1> QED
  BY <1>1, <1>5, <1>6, <1>7, <1>8 DEF r

\* The room a frame of p takes.
Takes(e, p) == IF e.what = "FRAME" /\ e.of = p THEN e.units ELSE 0

LEMMA Weighed ==
  ASSUME NEW S, NEW q \in Seq(S), NEW p
  PROVE  UnitsOf(q, p) \in Nat /\ \A g : UnitsAfter(q, p, g) \in Nat
<1>1. \A c : /\ Cardinality(FramesOf(q, p, c)) \in Nat
             /\ \A g : Cardinality(FramesAfter(q, p, c, g)) \in Nat
  BY Counted
<1> QED
  BY <1>1 DEF UnitsOf, UnitsAfter

LEMMA Parts ==
  ASSUME NEW e, e.what = "FRAME" => e.units \in {1, 4}, NEW p
  PROVE  /\ Takes(e, p) = (IF Counts(e, p, "ANY") THEN 1 ELSE 0)
                          + 3 * (IF Counts(e, p, "LONG") THEN 1 ELSE 0)
         /\ Takes(e, p) \in {0, 1, 4}
BY DEF Takes, Counts

LEMMA WeightAppend ==
  ASSUME NEW S, NEW q \in Seq(S), NEW e \in S, e.what = "FRAME" => e.units \in {1, 4}, NEW p
  PROVE  /\ UnitsOf(Append(q, e), p) = UnitsOf(q, p) + Takes(e, p)
         /\ \A g \in DOMAIN q : UnitsAfter(Append(q, e), p, g) = UnitsAfter(q, p, g) + Takes(e, p)
         /\ UnitsAfter(Append(q, e), p, Len(q) + 1) = 0
<1> DEFINE r == Append(q, e)
           m(c) == IF Counts(e, p, c) THEN 1 ELSE 0
<1>1. ASSUME NEW c
      PROVE  /\ Cardinality(FramesOf(r, p, c)) = Cardinality(FramesOf(q, p, c)) + m(c)
             /\ \A g \in DOMAIN q : Cardinality(FramesAfter(r, p, c, g))
                                      = Cardinality(FramesAfter(q, p, c, g)) + m(c)
             /\ Cardinality(FramesAfter(r, p, c, Len(q) + 1)) = 0
  BY CountAppend
<1>2. \A c : /\ Cardinality(FramesOf(q, p, c)) \in Nat
             /\ \A g : Cardinality(FramesAfter(q, p, c, g)) \in Nat
  BY Counted
<1>3. Takes(e, p) = m("ANY") + 3 * m("LONG") /\ \A c : m(c) \in {0, 1}
  BY Parts
<1> HIDE DEF r, m
<1> QED
  <2>1. UnitsOf(r, p) = UnitsOf(q, p) + Takes(e, p)
    BY <1>1, <1>2, <1>3 DEF UnitsOf
  <2>2. \A g \in DOMAIN q : UnitsAfter(r, p, g) = UnitsAfter(q, p, g) + Takes(e, p)
    BY <1>1, <1>2, <1>3 DEF UnitsAfter
  <2>3. UnitsAfter(r, p, Len(q) + 1) = 0
    BY <1>1 DEF UnitsAfter
  <2> QED
    BY <2>1, <2>2, <2>3 DEF r

LEMMA WeightTail ==
  ASSUME NEW S, NEW q \in Seq(S), q # << >>, NEW p,
         Head(q).what = "FRAME" => Head(q).units \in {1, 4}
  PROVE  /\ UnitsOf(Tail(q), p) = UnitsAfter(q, p, 1)
         /\ UnitsOf(Tail(q), p) = UnitsOf(q, p) - Takes(Head(q), p)
         /\ \A g \in DOMAIN Tail(q) : UnitsAfter(Tail(q), p, g) = UnitsAfter(q, p, g + 1)
<1> DEFINE r == Tail(q)
           e == Head(q)
           m(c) == IF Counts(e, p, c) THEN 1 ELSE 0
<1>1. ASSUME NEW c
      PROVE  /\ Cardinality(FramesOf(r, p, c)) = Cardinality(FramesAfter(q, p, c, 1))
             /\ Cardinality(FramesOf(r, p, c)) = Cardinality(FramesOf(q, p, c)) - m(c)
             /\ \A g \in DOMAIN r : Cardinality(FramesAfter(r, p, c, g))
                                      = Cardinality(FramesAfter(q, p, c, g + 1))
  BY CountTail
<1>2. \A c : Cardinality(FramesOf(q, p, c)) \in Nat
  BY Counted
<1>3. Takes(e, p) = m("ANY") + 3 * m("LONG") /\ \A c : m(c) \in {0, 1}
  BY Parts
<1> HIDE DEF r, m, e
<1> QED
  <2>1. UnitsOf(r, p) = UnitsAfter(q, p, 1)
    BY <1>1 DEF UnitsOf, UnitsAfter
  <2>2. UnitsOf(r, p) = UnitsOf(q, p) - Takes(e, p)
    BY <1>1, <1>2, <1>3 DEF UnitsOf
  <2>3. \A g \in DOMAIN r : UnitsAfter(r, p, g) = UnitsAfter(q, p, g + 1)
    BY <1>1 DEF UnitsAfter
  <2> QED
    BY <2>1, <2>2, <2>3 DEF r, e

-----------------------------------------------------------------------------
(* What a queue holds.                                                     *)

\* Of the natural numbers of which something is true, one is the least.
LEMMA LeastNumber ==
  ASSUME NEW T \in SUBSET Nat, T # {}
  PROVE  \E n \in T : \A m \in T : n <= m
<1> DEFINE R == {s \in Nat \X Nat : s[1] < s[2]}
<1>1. IsWellFoundedOn(R, Nat)
  BY NatLessThanWellFounded DEF OpToRel
<1> HIDE DEF R
<1>2. PICK n \in T : \A m \in T : ~(<<m, n>> \in R)
  BY <1>1, WFMin, Zenon
<1>3. \A m \in T : m \in Nat /\ n \in Nat /\ ~(m < n)
  BY <1>2 DEF R
<1> QED
  BY <1>2, <1>3

\* g[i] is the size of the first i runs of q.
Sums(q, n, g) == g = [i \in 0 .. n |-> IF i = 0 THEN 0 ELSE g[i - 1] + q[i].bytes]

LEMMA SumsExist ==
  ASSUME NEW q PROVE \A n \in Nat : \E g : Sums(q, n, g)
<1> SUFFICES ASSUME NEW k \in Nat, ~\E g : Sums(q, k, g) PROVE FALSE
  OBVIOUS
<1> DEFINE T == {m \in Nat : ~\E g : Sums(q, m, g)}
<1>1. T \in SUBSET Nat /\ T # {}
  OBVIOUS
<1>2. PICK n \in T : \A m \in T : n <= m
  <2> HIDE DEF T
  <2> QED
    BY <1>1, LeastNumber
<1>3. n \in Nat /\ ~\E g : Sums(q, n, g)
  OBVIOUS
<1>4. CASE n = 0
  <2> DEFINE g == [i \in 0 .. 0 |-> 0]
  <2>1. Sums(q, 0, g)
    BY \A i \in 0 .. 0 : i = 0 DEF Sums
  <2> QED
    BY <1>3, <1>4, <2>1
<1>5. CASE n # 0
  <2>1. n - 1 \in Nat /\ n - 1 < n
    BY <1>3, <1>5
  <2>2. n - 1 \notin T
    <3> HIDE DEF T
    <3> QED
      BY <1>2, <1>3, <2>1
  <2>3. PICK g : Sums(q, n - 1, g)
    BY <2>1, <2>2
  <2> DEFINE h == [i \in 0 .. n |-> IF i < n THEN g[i] ELSE g[n - 1] + q[n].bytes]
  <2>4. \A i \in 0 .. n - 1 : g[i] = IF i = 0 THEN 0 ELSE g[i - 1] + q[i].bytes
    BY <2>3 DEF Sums
  <2>5. ASSUME NEW i \in 0 .. n
        PROVE  h[i] = IF i = 0 THEN 0 ELSE h[i - 1] + q[i].bytes
    <3>1. CASE i < n
      BY <1>3, <2>1, <2>4, <3>1
    <3>2. CASE ~(i < n)
      <4>1. i = n /\ i - 1 \in 0 .. n /\ i - 1 < n /\ i # 0
        BY <1>3, <1>5, <2>1, <3>2
      <4>2. h[i] = g[n - 1] + q[n].bytes /\ h[i - 1] = g[n - 1]
        BY <4>1
      <4> HIDE DEF h
      <4> QED
        BY <4>1, <4>2
    <3> QED
      BY <3>1, <3>2
  <2>6. h = [i \in 0 .. n |-> h[i]]
    OBVIOUS
  <2> HIDE DEF h
  <2>7. Sums(q, n, h)
    BY <2>5, <2>6 DEF Sums
  <2> QED
    BY <1>3, <2>7
<1> QED
  BY <1>4, <1>5

LEMMA UsedSums ==
  ASSUME NEW q \in Seq(Runs)
  PROVE  \E g : Sums(q, Len(q), g) /\ Queues!Used(q) = g[Len(q)]
<1> DEFINE c == CHOOSE g : Sums(q, Len(q), g)
<1>1. Sums(q, Len(q), c)
  BY SumsExist
<1>2. Queues!Used(q) = c[Len(q)]
  BY DEF Queues!Used, Sums
<1> QED
  BY <1>1, <1>2

\* The sizes add up the same way for a queue and for what begins with it.
LEMMA SumsAgree ==
  ASSUME NEW n \in Nat, NEW q, NEW r, \A i \in 1 .. n : q[i] = r[i] /\ q[i] \in Runs,
         NEW g, Sums(q, n, g), NEW m \in Nat, n <= m, NEW h, Sums(r, m, h)
  PROVE  \A i \in 0 .. n : g[i] = h[i] /\ g[i] \in Nat
<1> DEFINE Good(i) == g[i] = h[i] /\ g[i] \in Nat
<1> SUFFICES ASSUME NEW k \in 0 .. n, ~Good(k) PROVE FALSE
  OBVIOUS
<1>1. \A i \in 0 .. n : /\ g[i] = IF i = 0 THEN 0 ELSE g[i - 1] + q[i].bytes
                        /\ h[i] = IF i = 0 THEN 0 ELSE h[i - 1] + r[i].bytes
  BY DEF Sums
<1> DEFINE T == {i \in 0 .. n : ~Good(i)}
<1>2. T \in SUBSET Nat /\ T # {}
  OBVIOUS
<1>3. PICK i \in T : \A j \in T : i <= j
  <2> HIDE DEF T
  <2> QED
    BY <1>2, LeastNumber
<1>4. i \in 0 .. n /\ ~Good(i)
  OBVIOUS
<1>5. i # 0
  BY <1>1, <1>4
<1>6. i - 1 \in 0 .. n /\ i - 1 < i /\ i \in 1 .. n
  BY <1>4, <1>5
<1>7. i - 1 \notin T
  <2> HIDE DEF T
  <2> QED
    BY <1>3, <1>4, <1>6
<1>8. Good(i - 1)
  BY <1>6, <1>7
<1>9. q[i].bytes \in Nat /\ q[i].bytes = r[i].bytes
  BY <1>6 DEF Runs
<1>10. Good(i)
  BY <1>1, <1>4, <1>5, <1>8, <1>9
<1> QED
  BY <1>4, <1>10

LEMMA UsedAppend ==
  ASSUME NEW q \in Seq(Runs), NEW run \in Runs
  PROVE  /\ Queues!Used(q) \in Nat
         /\ Queues!Used(Append(q, run)) = Queues!Used(q) + run.bytes
<1> DEFINE r == Append(q, run)
           n == Len(q)
<1>1. /\ n \in Nat /\ Len(r) = n + 1 /\ r \in Seq(Runs) /\ r[n + 1] = run
      /\ \A i \in 1 .. n : q[i] = r[i] /\ q[i] \in Runs
  OBVIOUS
<1> HIDE DEF r, n
<1>2. PICK g : Sums(q, n, g) /\ Queues!Used(q) = g[n]
  BY UsedSums DEF n
<1>3. PICK h : Sums(r, n + 1, h) /\ Queues!Used(r) = h[n + 1]
  BY <1>1, UsedSums
<1>4. \A i \in 0 .. n : g[i] = h[i] /\ g[i] \in Nat
  BY <1>1, <1>2, <1>3, SumsAgree
<1>5. h[n + 1] = h[n] + run.bytes
  <2>1. n + 1 \in 0 .. n + 1 /\ n + 1 # 0 /\ (n + 1) - 1 = n
    BY <1>1
  <2> QED
    BY <1>1, <1>3, <2>1 DEF Sums
<1> QED
  BY <1>1, <1>2, <1>3, <1>4, <1>5 DEF r

LEMMA UsedEmpty == Queues!Used(<< >>) = 0
<1>1. << >> \in Seq(Runs) /\ Len(<< >>) = 0
  OBVIOUS
<1>2. PICK g : Sums(<< >>, 0, g) /\ Queues!Used(<< >>) = g[0]
  BY <1>1, UsedSums
<1> QED
  BY <1>2 DEF Sums

\* A run that fits is added, one that does not empties the queue.
LEMMA Adding ==
  ASSUME NEW p, Length[p] \in Nat, NEW q \in Seq(Runs), NEW run \in Runs
  PROVE  /\ Queues!Add(p, q, run) \in Seq(Runs)
         /\ Queues!Add(p, q, run) \in {<< >>, Append(q, run)}
         /\ run.bytes + Queues!Used(q) < Length[p] => Queues!Add(p, q, run) = Append(q, run)
<1>1. Queues!Used(q) \in Nat /\ run.bytes \in Nat
  BY UsedAppend DEF Runs
<1>2. << >> \in Seq(Runs) /\ Append(q, run) \in Seq(Runs)
  OBVIOUS
<1>3. run.bytes + Queues!Used(q) < Length[p] => ~(run.bytes >= Queues!Free(p, q))
  BY <1>1 DEF Queues!Free
<1> QED
  BY <1>2, <1>3 DEF Queues!Add

-----------------------------------------------------------------------------
(* What the modem received and the host has not read yet.                  *)

LEMMA ComingAppend ==
  ASSUME NEW S, NEW q \in Seq(S), NEW f \in S, NEW p, NEW last \in Nat, NEW end \in Nat,
         Queues!InOrder(q, Queues!Coming(q, p), last, end)
  PROVE  LET r == Append(q, f)
         IN /\ ~(f.what = "RECEIVED" /\ f.of = p)
                 => Queues!InOrder(r, Queues!Coming(r, p), last, end)
            /\ f.what = "RECEIVED" /\ f.of = p /\ f.n = end + 1 /\ last <= end
                 => Queues!InOrder(r, Queues!Coming(r, p), last, end + 1)
<1> DEFINE r == Append(q, f)
           N == Len(q)
           C == Queues!Coming(q, p)
           D == Queues!Coming(r, p)
<1>1. /\ N \in Nat /\ DOMAIN q = 1 .. N /\ DOMAIN r = 1 .. N + 1
      /\ r[N + 1] = f /\ \A i \in 1 .. N : r[i] = q[i]
  OBVIOUS
<1>2. 1 .. N + 1 = (1 .. N) \cup {N + 1} /\ N + 1 \notin 1 .. N
  BY <1>1
<1> HIDE DEF r, N
<1>3. C \subseteq 1 .. N
  BY <1>1 DEF Queues!Coming
<1>4. D = C \cup {i \in {N + 1} : f.what = "RECEIVED" /\ f.of = p}
  BY <1>1, <1>2 DEF Queues!Coming
<1> HIDE DEF C, D
<1>5. /\ \A i \in C : q[i].n \in last + 1 .. end /\ r[i] = q[i]
      /\ \A i, j \in C : i < j => q[i].n < q[j].n
      /\ \A n \in last + 1 .. end : \E i \in C : q[i].n = n
  BY <1>1, <1>3 DEF Queues!InOrder, C
<1>6. ASSUME ~(f.what = "RECEIVED" /\ f.of = p) PROVE Queues!InOrder(r, D, last, end)
  <2>1. D = C
    BY <1>4, <1>6
  <2> QED
    BY <1>5, <2>1 DEF Queues!InOrder
<1>7. ASSUME f.what = "RECEIVED", f.of = p, f.n = end + 1, last <= end
      PROVE  Queues!InOrder(r, D, last, end + 1)
  <2>1. D = C \cup {N + 1} /\ r[N + 1].n = end + 1
    BY <1>1, <1>4, <1>7
  <2>2. \A i \in D : r[i].n \in last + 1 .. end + 1
    BY <1>5, <1>7, <2>1
  <2>3. ASSUME NEW i \in D, NEW j \in D, i < j PROVE r[i].n < r[j].n
    <3>1. CASE j \in C
      <4>1. i # N + 1
        BY <1>1, <1>3, <2>3, <3>1
      <4> QED
        BY <1>5, <2>1, <2>3, <3>1, <4>1
    <3>2. CASE j = N + 1
      <4>1. i \in C
        BY <1>1, <2>1, <2>3, <3>2
      <4>2. q[i].n \in last + 1 .. end
        BY <1>5, <4>1
      <4> QED
        BY <1>5, <2>1, <3>2, <4>1, <4>2
    <3> QED
      BY <2>1, <3>1, <3>2
  <2>4. ASSUME NEW n \in last + 1 .. end + 1 PROVE \E i \in D : r[i].n = n
    <3>1. CASE n = end + 1
      BY <2>1, <3>1
    <3>2. CASE n # end + 1
      <4>1. n \in last + 1 .. end
        BY <3>2
      <4> QED
        BY <1>5, <2>1, <4>1
    <3> QED
      BY <3>1, <3>2
  <2> QED
    BY <2>2, <2>3, <2>4 DEF Queues!InOrder
<1> QED
  BY <1>6, <1>7 DEF r, D

LEMMA ComingTail ==
  ASSUME NEW S, NEW q \in Seq(S), q # << >>, NEW p, NEW last \in Nat, NEW end \in Nat,
         Queues!InOrder(q, Queues!Coming(q, p), last, end)
  PROVE  LET f == Head(q)
             r == Tail(q)
         IN /\ ~(f.what = "RECEIVED" /\ f.of = p)
                 => Queues!InOrder(r, Queues!Coming(r, p), last, end)
            /\ f.what = "RECEIVED" /\ f.of = p
                 => /\ f.n = last + 1 /\ last + 1 <= end
                    /\ Queues!InOrder(r, Queues!Coming(r, p), last + 1, end)
<1> DEFINE f == Head(q)
           r == Tail(q)
           N == Len(q)
           C == Queues!Coming(q, p)
           D == Queues!Coming(r, p)
<1>1. /\ N \in Nat /\ N > 0 /\ DOMAIN q = 1 .. N /\ DOMAIN r = 1 .. N - 1
      /\ f = q[1] /\ \A i \in 1 .. N - 1 : r[i] = q[i + 1]
  OBVIOUS
<1> HIDE DEF r, N, f
<1>2. ASSUME NEW i \in 1 .. N, i # 1 PROVE i - 1 \in 1 .. N - 1 /\ r[i - 1] = q[i]
  <2>1. i - 1 \in 1 .. N - 1 /\ (i - 1) + 1 = i
    BY <1>1, <1>2
  <2> QED
    BY <1>1, <2>1
<1>3. C \subseteq 1 .. N /\ D \subseteq 1 .. N - 1
  BY <1>1 DEF Queues!Coming
<1>4. 1 \in C <=> f.what = "RECEIVED" /\ f.of = p
  BY <1>1 DEF Queues!Coming
<1>5. \A i \in C : i # 1 => i - 1 \in D
  BY <1>1, <1>2 DEF Queues!Coming
<1>6. \A i \in D : i + 1 \in C
  BY <1>1 DEF Queues!Coming
<1> HIDE DEF C, D
<1>7. /\ \A i \in C : q[i].n \in last + 1 .. end
      /\ \A i, j \in C : i < j => q[i].n < q[j].n
      /\ \A n \in last + 1 .. end : \E i \in C : q[i].n = n
  BY DEF Queues!InOrder, C
<1>8. \A i \in D : i \in Int /\ r[i].n = q[i + 1].n /\ r[i].n \in last + 1 .. end
  BY <1>1, <1>3, <1>6, <1>7
<1>9. ASSUME NEW i \in D, NEW j \in D, i < j PROVE r[i].n < r[j].n
  <2>1. i + 1 \in C /\ j + 1 \in C /\ i + 1 < j + 1
    BY <1>6, <1>8, <1>9
  <2> QED
    BY <1>7, <1>8, <2>1
<1>10. ASSUME NEW n \in last + 1 .. end, ~(1 \in C /\ q[1].n = n) PROVE \E i \in D : r[i].n = n
  <2>1. PICK i \in C : q[i].n = n
    BY <1>7
  <2>2. i # 1 /\ i \in 1 .. N
    BY <1>3, <1>10, <2>1
  <2>3. i - 1 \in D /\ r[i - 1].n = n
    BY <1>2, <1>5, <2>1, <2>2
  <2> QED
    BY <2>3
<1>11. ASSUME 1 \notin C PROVE Queues!InOrder(r, D, last, end)
  BY <1>8, <1>9, <1>10, <1>11 DEF Queues!InOrder
<1>12. ASSUME 1 \in C
       PROVE  f.n = last + 1 /\ last + 1 <= end /\ Queues!InOrder(r, D, last + 1, end)
  <2>1. q[1].n \in last + 1 .. end
    BY <1>7, <1>12
  <2>2. ASSUME NEW i \in C, i # 1 PROVE q[1].n < q[i].n
    <3>1. 1 < i
      BY <1>1, <1>3, <2>2
    <3> QED
      BY <1>7, <1>12, <3>1
  <2>3. q[1].n = last + 1
    <3>1. last + 1 \in last + 1 .. end
      BY <2>1
    <3>2. PICK i \in C : q[i].n = last + 1
      BY <1>7, <3>1
    <3> QED
      BY <2>1, <2>2, <3>2
  <2>4. \A i \in D : r[i].n \in last + 2 .. end
    <3> SUFFICES ASSUME NEW i \in D PROVE r[i].n \in last + 2 .. end
      OBVIOUS
    <3>1. i + 1 \in C /\ i + 1 # 1
      BY <1>1, <1>3, <1>6
    <3>2. q[1].n < q[i + 1].n
      BY <2>2, <3>1
    <3> QED
      BY <1>8, <2>3, <3>2
  <2>5. \A n \in last + 2 .. end : \E i \in D : r[i].n = n
    BY <1>10, <2>3
  <2>6. (last + 1) + 1 = last + 2
    OBVIOUS
  <2> QED
    BY <1>1, <1>9, <2>1, <2>3, <2>4, <2>5, <2>6 DEF Queues!InOrder
<1> QED
  BY <1>4, <1>11, <1>12 DEF r, f, D

-----------------------------------------------------------------------------
(* The protocols.                                                          *)

LEMMA Fitted ==
  ASSUME QueuesType
  PROVE  /\ fit.protocols \subseteq Queues!AllProtocols
         /\ \A p \in fit.protocols : /\ Length[p] \in Nat /\ Length[p] > Payload + 5
                                     /\ Room[p] \in Nat
         /\ Payload \in Nat
<1>1. fit \in Fits /\ fit \in Queues!Fit
  BY ModemAssumption DEF QueuesType, ModemAssumption
<1>2. fit.protocols \subseteq UNION {f.protocols : f \in Fits}
  BY <1>1
<1> QED
  BY <1>1, <1>2, ModemAssumption DEF Queues!Fit, ModemAssumption

LEMMA Tags ==
  ASSUME NEW p \in Queues!AllProtocols, p # "POCSAG", NEW kind \in DOMAIN Queues!Received(p)
  PROVE  Queues!Received(p)[kind] \in Kinds /\ kind \in Sorts
<1> USE DEF Queues!Received, Kinds, Sorts
<1>1. CASE p = "DStar"
  BY <1>1 DEF Queues!DStarRx
<1>2. CASE p \in {"DMR1", "DMR2"}
  BY <1>2 DEF Queues!DMRRx
<1>3. CASE p = "YSF"
  BY <1>3 DEF Queues!YSFRx
<1>4. CASE p = "P25"
  BY <1>4 DEF Queues!P25Rx
<1>5. CASE p = "NXDN"
  BY <1>5 DEF Queues!NXDNRx
<1>6. CASE p = "M17"
  BY <1>6 DEF Queues!M17Rx
<1>7. CASE p = "FM"
  BY <1>7 DEF Queues!FMRx
<1> QED
  BY <1>1, <1>2, <1>3, <1>4, <1>5, <1>6, <1>7 DEF Queues!AllProtocols

\* A record that hasXXXSpace has room for, and the bytes of any record.
LEMMA Sizes ==
  ASSUME NEW p \in Queues!AllProtocols, NEW kind \in DOMAIN Queues!Written(p)
  PROVE  /\ kind \in Kinds /\ Queues!Sent(p, kind) \in Nat
         /\ p # "FM" => /\ Queues!FrameLength(p) + 4 \in {16, 37, 52, 72, 124, 220}
                        /\ ~Queues!MayOverflow(p, kind)
                             => Queues!Sent(p, kind) + 1 < 2 * (Queues!FrameLength(p) + 4)
<1> USE DEF Queues!Written, Queues!Sent, Queues!FrameLength, Queues!MayOverflow, Kinds
<1>1. CASE p = "DStar"
  BY <1>1 DEF Queues!DStarTx
<1>2. CASE p \in {"DMR1", "DMR2"}
  BY <1>2 DEF Queues!DMRTx
<1>3. CASE p = "YSF"
  BY <1>3 DEF Queues!YSFTx
<1>4. CASE p = "P25"
  BY <1>4 DEF Queues!P25Tx
<1>5. CASE p = "NXDN"
  BY <1>5 DEF Queues!NXDNTx
<1>6. CASE p = "M17"
  BY <1>6 DEF Queues!M17Tx
<1>7. CASE p = "POCSAG"
  BY <1>7 DEF Queues!POCSAGTx
<1>8. CASE p = "FM"
  BY <1>8 DEF Queues!FMTx
<1> QED
  BY <1>1, <1>2, <1>3, <1>4, <1>5, <1>6, <1>7, <1>8 DEF Queues!AllProtocols

LEMMA TwoFit ==
  ASSUME NEW free \in Int, NEW size \in {16, 37, 52, 72, 124, 220}, free \div size > 1
  PROVE  free >= 2 * size
<1>1. CASE size = 16
  BY <1>1
<1>2. CASE size = 37
  BY <1>2
<1>3. CASE size = 52
  BY <1>3
<1>4. CASE size = 72
  BY <1>4
<1>5. CASE size = 124
  BY <1>5
<1>6. CASE size = 220
  BY <1>6
<1> QED
  BY <1>1, <1>2, <1>3, <1>4, <1>5, <1>6

\* Where hasXXXSpace says so, there is room for the length and for the frame.
LEMMA SpaceSuffices ==
  ASSUME NEW p \in Queues!AllProtocols, Length[p] \in Nat, tx[p] \in Seq(Runs),
         Queues!HasSpace(p), NEW kind \in DOMAIN Queues!Written(p),
         ~Queues!MayOverflow(p, kind)
  PROVE  Queues!Sent(p, kind) + 1 + Queues!Used(tx[p]) < Length[p]
<1> DEFINE used == Queues!Used(tx[p])
           size == Queues!FrameLength(p) + 4
<1>1. used \in Nat
  <2>1. [what |-> "TAG", bytes |-> 0, n |-> 0, kind |-> "NONE"] \in Runs
    BY DEF Runs, Kinds
  <2> QED
    BY <2>1, UsedAppend
<1>2. /\ p # "FM" /\ size \in {16, 37, 52, 72, 124, 220}
      /\ Queues!Sent(p, kind) \in Nat /\ Queues!Sent(p, kind) + 1 < 2 * size
  BY Sizes DEF Queues!MayOverflow
<1>3. (Length[p] - used) \div size > 1
  BY <1>2 DEF Queues!HasSpace, Queues!Free
<1> HIDE DEF used, size
<1>4. Length[p] - used \in Int
  BY <1>1
<1>5. Length[p] - used >= 2 * size
  BY <1>2, <1>3, <1>4, TwoFit
<1> QED
  BY <1>1, <1>2, <1>5 DEF used

\* The record of a received frame, in a queue that was empty.
LEMMA Receipts ==
  ASSUME QueuesType, NEW f \in Receptions, rx[f.of] = << >>,
         NEW q, q = Queues!Receipt(f)
  PROVE  q \in Seq(Runs) /\ IsReceipt(q) /\ q[1].n = f.n
<1> DEFINE p   == f.of
           tag == Queues!Received(p)[f.kind]
           a   == Queues!LengthRun(p, f.n)
           b   == [what |-> "TAG", bytes |-> 1, n |-> f.n, kind |-> tag]
           c   == [what |-> "PAYLOAD", bytes |-> Payload, n |-> f.n, kind |-> "NONE"]
           qa  == Append(<< >>, a)
           qb  == Append(qa, b)
           qc  == Append(qb, c)
<1>1. /\ p \in fit.protocols /\ p \in Queues!AllProtocols /\ p # "POCSAG" /\ f.n \in Nat
      /\ f.kind \in DOMAIN Queues!Received(p)
  BY Fitted DEF Receptions
<1>2. tag \in Kinds
  BY <1>1, Tags
<1>3. Length[p] \in Nat /\ Length[p] > Payload + 5 /\ Payload \in Nat
  BY <1>1, Fitted
<1> HIDE DEF tag
<1>4. /\ a \in Runs /\ a.bytes <= 4 /\ a.what = "LENGTH" /\ a.n = f.n
      /\ b \in Runs /\ b.bytes = 1 /\ b.what = "TAG"
      /\ c \in Runs /\ c.bytes = Payload /\ c.what = "PAYLOAD"
  BY <1>1, <1>2, <1>3 DEF Queues!LengthRun, Runs, Kinds
<1>5. q = IF tag = "LOST" THEN Queues!Add(p, Queues!Add(p, << >>, a), b)
          ELSE Queues!Add(p, Queues!Add(p, Queues!Add(p, << >>, a), b), c)
  BY DEF Queues!Receipt, tag
<1> HIDE DEF p, a, b, c
<1>6. << >> \in Seq(Runs) /\ qa \in Seq(Runs) /\ qb \in Seq(Runs) /\ qc \in Seq(Runs)
  BY <1>4
<1>7. /\ Len(qb) = 2 /\ qb[1] = a /\ qb[2] = b
      /\ Len(qc) = 3 /\ qc[1] = a /\ qc[2] = b /\ qc[3] = c
  BY <1>4
<1> HIDE DEF qa, qb, qc
<1>8. a.bytes \in Nat /\ a.bytes + 0 < Length[p]
  BY <1>3, <1>4 DEF Runs
<1>9. Queues!Add(p, << >>, a) = qa /\ Queues!Used(qa) = a.bytes
  <2>1. a.bytes + Queues!Used(<< >>) < Length[p]
    BY <1>8, UsedEmpty
  <2>2. Queues!Used(qa) = Queues!Used(<< >>) + a.bytes
    BY <1>4, <1>6, UsedAppend DEF qa
  <2>3. Queues!Add(p, << >>, a) = qa
    BY <1>3, <1>4, <1>6, <2>1, Adding DEF qa
  <2> QED
    BY <1>8, <2>2, <2>3, UsedEmpty
<1>10. Queues!Add(p, qa, b) = qb /\ Queues!Used(qb) = a.bytes + 1
  <2>1. b.bytes + Queues!Used(qa) < Length[p]
    BY <1>3, <1>4, <1>8, <1>9
  <2>2. Queues!Used(qb) = Queues!Used(qa) + b.bytes
    BY <1>4, <1>6, UsedAppend DEF qb
  <2> QED
    BY <1>3, <1>4, <1>6, <1>9, <2>1, <2>2, Adding DEF qb
<1>11. Queues!Add(p, qb, c) = qc
  <2>1. c.bytes + Queues!Used(qb) < Length[p]
    BY <1>3, <1>4, <1>8, <1>10
  <2> QED
    BY <1>3, <1>4, <1>6, <2>1, Adding DEF qc
<1>12. q = qb \/ q = qc
  BY <1>5, <1>9, <1>10, <1>11
<1>13. IsReceipt(qb) /\ IsReceipt(qc)
  BY <1>4, <1>7 DEF IsReceipt
<1> QED
  BY <1>4, <1>6, <1>7, <1>12, <1>13

-----------------------------------------------------------------------------
(* The transmit queues.                                                    *)

LEMMA PairsAppend ==
  ASSUME NEW q \in Seq(Runs), NEW last \in Nat, NEW end \in Nat, IsPairs(q, last, end),
         NEW a \in Runs, a.what = "LENGTH", a.n = end + 1, NEW b \in Runs, b.what = "FRAME"
  PROVE  IsPairs(Append(Append(q, a), b), last, end + 1)
<1> DEFINE r == Append(Append(q, a), b)
           n == end - last
<1>1. /\ n \in Nat /\ end + 1 - last = n + 1 /\ Len(q) = 2 * n /\ last <= end + 1
      /\ last + (n + 1) = end + 1
  BY DEF IsPairs
<1> HIDE DEF n
<1>2. /\ Len(r) = 2 * n + 2 /\ r[2 * n + 1] = a /\ r[2 * n + 2] = b
      /\ \A i \in 1 .. 2 * n : r[i] = q[i]
  BY <1>1
<1> HIDE DEF r
<1>3. \A k \in 1 .. n : /\ q[2 * k - 1].what = "LENGTH" /\ q[2 * k - 1].n = last + k
                        /\ q[2 * k].what = "FRAME"
  BY DEF IsPairs, n
<1>4. ASSUME NEW k \in 1 .. n + 1
      PROVE  /\ r[2 * k - 1].what = "LENGTH" /\ r[2 * k - 1].n = last + k
             /\ r[2 * k].what = "FRAME"
  <2>1. CASE k = n + 1
    <3>1. 2 * k - 1 = 2 * n + 1 /\ 2 * k = 2 * n + 2
      BY <1>1, <2>1
    <3> QED
      BY <1>1, <1>2, <2>1, <3>1
  <2>2. CASE k # n + 1
    <3>1. k \in 1 .. n /\ 2 * k - 1 \in 1 .. 2 * n /\ 2 * k \in 1 .. 2 * n
      BY <1>1, <2>2
    <3> QED
      BY <1>2, <1>3, <3>1
  <2> QED
    BY <2>1, <2>2
<1>5. Len(r) = 2 * (n + 1)
  BY <1>1, <1>2
<1>6. IsPairs(r, last, end + 1)
  BY <1>1, <1>4, <1>5 DEF IsPairs
<1> QED
  BY <1>6 DEF r

\* Where the lengths are.
LEMMA PairsStarts ==
  ASSUME NEW q \in Seq(Runs), NEW last \in Nat, NEW end \in Nat, IsPairs(q, last, end)
  PROVE  /\ Queues!Starts(q) = {2 * k - 1 : k \in 1 .. end - last}
         /\ Len(q) = 2 * (end - last) /\ end - last \in Nat
         /\ \A k \in 1 .. end - last : q[2 * k - 1].n = last + k
<1> DEFINE n == end - last
<1>1. /\ n \in Nat /\ Len(q) = 2 * n /\ DOMAIN q = 1 .. 2 * n
      /\ \A k \in 1 .. n : /\ q[2 * k - 1].what = "LENGTH" /\ q[2 * k - 1].n = last + k
                           /\ q[2 * k].what = "FRAME"
  BY DEF IsPairs
<1> HIDE DEF n
<1>2. ASSUME NEW i \in Queues!Starts(q) PROVE i \in {2 * k - 1 : k \in 1 .. n}
  <2>1. i \in 1 .. 2 * n /\ q[i].what = "LENGTH"
    BY <1>1 DEF Queues!Starts
  <2>2. PICK k \in 1 .. n : i = 2 * k \/ i = 2 * k - 1
    <3>1. CASE i % 2 = 0
      <4>1. i = 2 * (i \div 2) /\ i \div 2 \in 1 .. n
        BY <1>1, <2>1, <3>1
      <4> QED
        BY <4>1
    <3>2. CASE i % 2 = 1
      <4>1. i = 2 * ((i + 1) \div 2) - 1 /\ (i + 1) \div 2 \in 1 .. n
        BY <1>1, <2>1, <3>2
      <4> QED
        BY <4>1
    <3>3. i % 2 \in {0, 1}
      BY <2>1
    <3> QED
      BY <3>1, <3>2, <3>3
  <2>3. i # 2 * k
    BY <1>1, <2>1, <2>2
  <2> QED
    BY <2>2, <2>3
<1>3. ASSUME NEW k \in 1 .. n PROVE 2 * k - 1 \in Queues!Starts(q)
  <2>1. 2 * k - 1 \in 1 .. 2 * n
    BY <1>1
  <2> QED
    BY <1>1, <2>1 DEF Queues!Starts
<1> QED
  BY <1>1, <1>2, <1>3 DEF n

\* A queue of whole records in order is what FramesKept asks for.
LEMMA PairsKept ==
  ASSUME NEW q \in Seq(Runs), NEW last \in Nat, NEW end \in Nat, IsPairs(q, last, end)
  PROVE  Queues!Whole(q) /\ Queues!InOrder(q, Queues!Starts(q), last, end)
<1> DEFINE n == end - last
           S == Queues!Starts(q)
<1>1. /\ S = {2 * k - 1 : k \in 1 .. n} /\ Len(q) = 2 * n /\ n \in Nat
      /\ \A k \in 1 .. n : q[2 * k - 1].n = last + k
  BY PairsStarts
<1>2. last + n = end
  BY <1>1
<1> HIDE DEF n, S
<1>3. q # << >> => 1 \in S
  <2>1. ASSUME q # << >> PROVE 1 \in 1 .. n /\ 2 * 1 - 1 = 1
    BY <1>1, <2>1
  <2> QED
    BY <1>1, <2>1
<1>4. ASSUME NEW i \in S PROVE i < Len(q) /\ i + 1 \notin S
  <2>1. PICK k \in 1 .. n : i = 2 * k - 1
    BY <1>1
  <2>2. \A j \in 1 .. n : i + 1 # 2 * j - 1
    BY <1>1, <2>1
  <2> QED
    BY <1>1, <2>1, <2>2
<1>5. \A i \in S : q[i].n \in last + 1 .. end
  BY <1>1, <1>2
<1>6. ASSUME NEW i \in S, NEW j \in S, i < j PROVE q[i].n < q[j].n
  <2>1. PICK k \in 1 .. n : i = 2 * k - 1
    BY <1>1
  <2>2. PICK l \in 1 .. n : j = 2 * l - 1
    BY <1>1
  <2>3. k < l
    BY <1>1, <1>6, <2>1, <2>2
  <2> QED
    BY <1>1, <2>1, <2>2, <2>3
<1>7. ASSUME NEW m \in last + 1 .. end PROVE \E i \in S : q[i].n = m
  <2>1. m - last \in 1 .. n /\ last + (m - last) = m
    BY <1>1, <1>2
  <2>2. 2 * (m - last) - 1 \in S
    BY <1>1, <2>1
  <2> QED
    BY <1>1, <2>1, <2>2
<1> QED
  BY <1>3, <1>4, <1>5, <1>6, <1>7 DEF Queues!Whole, Queues!InOrder, S

\* What follows the first record.
LEMMA RestType ==
  ASSUME NEW q \in Seq(Runs)
  PROVE  Queues!Rest(q) \in Seq(Runs)
<1> DEFINE later == Queues!Starts(q) \ {1}
           i == CHOOSE j \in later : \A k \in later : j <= k
<1>1. CASE later = {}
  BY <1>1 DEF Queues!Rest
<1>2. CASE later # {}
  <2>1. later \in SUBSET Nat /\ later \subseteq 1 .. Len(q)
    BY DEF Queues!Starts
  <2>2. \E j \in later : \A k \in later : j <= k
    <3> HIDE DEF later
    <3> QED
      BY <1>2, <2>1, LeastNumber
  <2>3. i \in later
    <3> HIDE DEF later
    <3> QED
      BY <2>2
  <2>4. Queues!Rest(q) = SubSeq(q, i, Len(q))
    BY <1>2 DEF Queues!Rest
  <2> HIDE DEF i, later
  <2>5. i \in 1 .. Len(q)
    BY <2>1, <2>3
  <2> QED
    BY <2>4, <2>5
<1> QED
  BY <1>1, <1>2

LEMMA PairsRest ==
  ASSUME NEW q \in Seq(Runs), NEW last \in Nat, NEW end \in Nat, IsPairs(q, last, end),
         q # << >>
  PROVE  Head(q).n = last + 1 /\ IsPairs(Queues!Rest(q), last + 1, end)
<1> DEFINE n == end - last
           later == Queues!Starts(q) \ {1}
<1>1. /\ Queues!Starts(q) = {2 * k - 1 : k \in 1 .. n} /\ Len(q) = 2 * n /\ n \in Nat
  BY PairsStarts
<1>2. n > 0 /\ last + 1 <= end /\ end - (last + 1) = n - 1 /\ 1 \in 1 .. n
  BY <1>1
<1>3. \A k \in 1 .. n : /\ q[2 * k - 1].what = "LENGTH" /\ q[2 * k - 1].n = last + k
                        /\ q[2 * k].what = "FRAME"
  BY DEF IsPairs
<1> HIDE DEF n
<1>4. Head(q).n = last + 1
  <2>1. q[2 * 1 - 1].n = last + 1 /\ 2 * 1 - 1 = 1
    BY <1>2, <1>3
  <2> QED
    BY <2>1
<1>5. later = {2 * k - 1 : k \in 2 .. n}
  BY <1>1, <1>2
<1>6. Queues!Rest(q) = IF later = {} THEN << >>
                       ELSE SubSeq(q, CHOOSE i \in later : \A j \in later : i <= j, Len(q))
  BY DEF Queues!Rest
<1> HIDE DEF later
<1>7. CASE n = 1
  <2>1. later = {}
    BY <1>5, <1>7
  <2>2. Queues!Rest(q) = << >>
    BY <1>6, <2>1
  <2> QED
    BY <1>2, <1>4, <1>7, <2>2 DEF IsPairs
<1>8. CASE n # 1
  <2>1. 3 \in later /\ \A j \in later : 3 <= j
    <3>1. 2 \in 2 .. n /\ 2 * 2 - 1 = 3
      BY <1>1, <1>2, <1>8
    <3>2. 3 \in later
      BY <1>5, <3>1
    <3> QED
      BY <1>5, <3>2
  <2>2. (CHOOSE i \in later : \A j \in later : i <= j) = 3
    <3> DEFINE i == CHOOSE i \in later : \A j \in later : i <= j
    <3>1. i \in later /\ \A j \in later : i <= j
      BY <2>1
    <3> HIDE DEF i
    <3>2. i <= 3 /\ 3 <= i /\ i \in Int
      BY <1>5, <2>1, <3>1
    <3>3. i = 3
      BY <3>2
    <3> QED
      BY <3>3 DEF i
  <2> DEFINE r == SubSeq(q, 3, Len(q))
  <2>3. Queues!Rest(q) = r
    BY <1>6, <2>1, <2>2
  <2>4. n - 1 \in Nat /\ n - 1 > 0
    BY <1>1, <1>2, <1>8
  <2>5. Len(r) = 2 * (n - 1) /\ \A i \in 1 .. 2 * (n - 1) : r[i] = q[i + 2]
    BY <1>1, <2>4
  <2> HIDE DEF r
  <2>6. ASSUME NEW k \in 1 .. n - 1
        PROVE  /\ r[2 * k - 1].what = "LENGTH" /\ r[2 * k - 1].n = (last + 1) + k
               /\ r[2 * k].what = "FRAME"
    <3>1. /\ k + 1 \in 1 .. n
          /\ 2 * k - 1 \in 1 .. 2 * (n - 1) /\ 2 * k \in 1 .. 2 * (n - 1)
          /\ (2 * k - 1) + 2 = 2 * (k + 1) - 1 /\ 2 * k + 2 = 2 * (k + 1)
          /\ last + (k + 1) = (last + 1) + k
      <4>1. \A a, b, c \in Nat : b \in 1 .. a - 1 =>
              /\ b + 1 \in 1 .. a
              /\ 2 * b - 1 \in 1 .. 2 * (a - 1) /\ 2 * b \in 1 .. 2 * (a - 1)
              /\ (2 * b - 1) + 2 = 2 * (b + 1) - 1 /\ 2 * b + 2 = 2 * (b + 1)
              /\ c + (b + 1) = (c + 1) + b
        OBVIOUS
      <4>2. n \in Nat /\ k \in Nat /\ last \in Nat
        BY <1>1, <2>4
      <4> QED
        BY <4>1, <4>2, Zenon
    <3>2. r[2 * k - 1] = q[2 * (k + 1) - 1] /\ r[2 * k] = q[2 * (k + 1)]
      BY <2>5, <3>1
    <3> QED
      BY <1>3, <3>1, <3>2
  <2>7. IsPairs(r, last + 1, end)
    BY <1>2, <2>5, <2>6 DEF IsPairs
  <2> QED
    BY <1>4, <2>3, <2>7
<1> QED
  BY <1>7, <1>8

\* A received frame that is read leaves its queue empty.
LEMMA ReceiptRest ==
  ASSUME NEW q \in Seq(Runs), IsReceipt(q)
  PROVE  Queues!Rest(q) = << >> /\ q # << >> /\ Head(q) = q[1] /\ Queues!Whole(q)
<1>1. Len(q) \in {2, 3} /\ q[1].what = "LENGTH" /\ \A i \in 2 .. Len(q) : q[i].what # "LENGTH"
  BY DEF IsReceipt
<1>2. \A i \in 1 .. Len(q) : i = 1 \/ i \in 2 .. Len(q)
  BY <1>1
<1>3. Queues!Starts(q) = {1}
  <2>1. DOMAIN q = 1 .. Len(q) /\ 1 \in 1 .. Len(q)
    BY <1>1
  <2> QED
    BY <1>1, <1>2, <2>1 DEF Queues!Starts
<1>4. q # << >> /\ Head(q) = q[1]
  BY <1>1
<1>5. Queues!Rest(q) = << >>
  BY <1>3 DEF Queues!Rest
<1>6. Queues!Whole(q)
  BY <1>1, <1>3 DEF Queues!Whole
<1> QED
  BY <1>4, <1>5, <1>6

-----------------------------------------------------------------------------
(* The steps of the queues.                                                *)

LEMMA QueuesInit == ASSUME Queues!Init PROVE QueuesInv /\ RoomAll
<1> USE DEF Queues!Init, Queues!fitted
<1>1. fit \in Fits
  OBVIOUS
<1>2. \A p \in fit.protocols : Room[p] \in Nat
  BY <1>1, ModemAssumption DEF ModemAssumption
<1>3. << >> \in Seq(Runs) /\ toModem \in Seq(Orders) /\ toHost \in Seq(Statuses \cup Receptions)
  OBVIOUS
<1>4. QueuesType
  BY <1>1, <1>2, <1>3 DEF QueuesType
<1>5. RxAll
  BY DEF RxAll, RxInv, Waits, Queues!InOrder, Queues!Coming
<1>6. TxAll
  BY DEF TxAll, TxInv, IsPairs
<1>7. ASSUME NEW p \in fit.protocols PROVE RoomInv(p)
  <2>1. \A c : FramesOf(toModem, p, c) = {}
    BY DEF FramesOf
  <2>2. Cardinality(FramesOf(toModem, p, "ANY")) = 0 /\ Cardinality(FramesOf(toModem, p, "LONG")) = 0
    BY <2>1, FS_EmptySet
  <2>3. Under(p) = 0
    BY <2>2 DEF Under, UnitsOf
  <2> QED
    BY <1>2, <2>3 DEF RoomInv
<1> QED
  BY <1>4, <1>5, <1>6, <1>7 DEF QueuesInv, RoomAll

\* What a step leaves alone.
LEMMA RxSame ==
  ASSUME RxAll, UNCHANGED <<fit, rx, toHost, got, received>>,
         turn' \in {"WRITE", "CLOCK"} => turn \in {"WRITE", "CLOCK"}
  PROVE  RxAll'
<1> SUFFICES ASSUME NEW p \in fit.protocols PROVE RxInv(p)'
  BY DEF RxAll
<1>1. RxInv(p)
  BY DEF RxAll
<1>2. Waits(p)' = Waits(p)
  BY DEF Waits
<1>3. (IsReceipt(rx[p]))' = IsReceipt(rx[p])
  BY DEF IsReceipt
<1> QED
  BY <1>1, <1>2, <1>3 DEF RxInv, Queues!InOrder, Queues!Coming

LEMMA TxSame ==
  ASSUME TxAll, UNCHANGED <<fit, tx, taken, handed, excused>> PROVE TxAll'
BY DEF TxAll, TxInv, IsPairs

LEMMA UnderSame ==
  ASSUME UNCHANGED toModem
  PROVE  \A p : /\ Under(p)' = Under(p)
                /\ \A g : UnitsAfter(toModem, p, g)' = UnitsAfter(toModem, p, g)
BY DEF Under, UnitsOf, UnitsAfter, FramesOf, FramesAfter, Counts

LEMMA RoomSame ==
  ASSUME RoomAll, UNCHANGED <<fit, room, space, toModem, toHost, fed, ahead>> PROVE RoomAll'
BY UnderSame DEF RoomAll, RoomInv

LEMMA SameSets ==
  ASSUME UNCHANGED fit PROVE Orders' = Orders /\ Statuses' = Statuses /\ Receptions' = Receptions
BY DEF Orders, Statuses, Receptions

LEMMA ReadKeeps == ASSUME QueuesInv, Queues!Read PROVE QueuesInv' /\ RoomKept
<1> USE DEF Queues!Read, Queues!fitted
<1>1. UNCHANGED <<fit, tx, space, room, toModem, toHost, fed, ahead, received, handed, taken,
                  excused>>
  OBVIOUS
<1>2. QueuesType /\ RxAll /\ TxAll
  BY DEF QueuesInv
<1>3. TxAll' /\ RoomKept
  BY <1>1, <1>2, TxSame, RoomSame DEF RoomKept
<1>4. ASSUME NEW p \in fit.protocols
      PROVE  /\ got'[p] \in Nat /\ rx'[p] = << >>
             /\ got'[p] = IF Waits(p) THEN got[p] + 1 ELSE got[p]
  <2>1. rx[p] \in Seq(Runs) /\ got[p] \in Nat
    BY <1>2 DEF QueuesType
  <2>2. CASE Waits(p)
    <3>1. IsReceipt(rx[p]) /\ rx[p][1].n = got[p] + 1
      BY <1>2, <2>2 DEF RxAll, RxInv
    <3>2. rx'[p] = Queues!Rest(rx[p]) /\ got'[p] = Head(rx[p]).n
      BY <2>2 DEF Waits
    <3> QED
      BY <2>1, <2>2, <3>1, <3>2, ReceiptRest
  <2>3. CASE ~Waits(p)
    BY <2>1, <2>3 DEF Waits
  <2> QED
    BY <2>2, <2>3
<1>5. QueuesType'
  <2>1. rx' \in [fit.protocols -> Seq(Runs)] /\ got' \in [fit.protocols -> Nat]
    <3>1. << >> \in Seq(Runs)
      OBVIOUS
    <3>2. \A p \in fit.protocols : rx'[p] \in Seq(Runs) /\ got'[p] \in Nat
      BY <1>4, <3>1
    <3>3. rx' = [p \in fit.protocols |-> rx'[p]] /\ got' = [p \in fit.protocols |-> got'[p]]
      OBVIOUS
    <3> HIDE DEF Queues!Read
    <3> QED
      BY ONLY <3>2, <3>3, Zenon
  <2>2. turn' = "WRITE"
    OBVIOUS
  <2> HIDE DEF Queues!Read
  <2> QED
    BY <1>1, <1>2, <2>1, <2>2, SameSets DEF QueuesType
<1>6. RxAll'
  <2> SUFFICES ASSUME NEW p \in fit.protocols PROVE RxInv(p)'
    BY <1>1 DEF RxAll
  <2>1. RxInv(p)
    BY <1>2 DEF RxAll
  <2>2. ~Waits(p)'
    BY <1>4 DEF Waits
  <2>3. got'[p] = IF Waits(p) THEN got[p] + 1 ELSE got[p]
    BY <1>4
  <2> HIDE DEF Queues!Read
  <2> QED
    BY <1>1, <2>1, <2>2, <2>3 DEF RxInv, Queues!InOrder, Queues!Coming
<1> QED
  BY <1>3, <1>5, <1>6 DEF QueuesInv

LEMMA WaitKeeps == ASSUME QueuesInv, Queues!Wait PROVE QueuesInv' /\ RoomKept
<1>1. /\ turn' = "READ"
      /\ UNCHANGED <<fit, rx, tx, space, room, toModem, toHost, fed, ahead, received, handed,
                     got, taken, excused>>
  BY DEF Queues!Wait
<1>2. QueuesType'
  BY <1>1, SameSets DEF QueuesInv, QueuesType
<1> QED
  BY <1>1, <1>2, RxSame, TxSame, RoomSame DEF QueuesInv, RoomKept

\* A frame is queued after its length, or neither is; an FM frame may be without.
LEMMA Queued ==
  ASSUME QueuesInv, NEW p \in fit.protocols, NEW kind \in DOMAIN Queues!Written(p),
         Queues!HasSpace(p), NEW q, q = Queues!Queue(p, kind, handed[p] + 1)
  PROVE  /\ q \in Seq(Runs)
         /\ p \notin excused =>
              \/ IsPairs(q, taken[p], handed[p] + 1)
              \/ q = << >> /\ Queues!MayOverflow(p, kind)
              \/ p = "FM" /\ ~Queues!Whole(q)
         /\ ~Queues!MayOverflow(p, kind) => q # << >>
<1> DEFINE n == handed[p] + 1
           a == Queues!LengthRun(p, n)
           b == [what |-> "FRAME", bytes |-> Queues!Sent(p, kind), n |-> n, kind |-> kind]
           x == tx[p]
           qa == Queues!Add(p, x, a)
<1>1. /\ p \in Queues!AllProtocols /\ Length[p] \in Nat /\ x \in Seq(Runs)
      /\ handed[p] \in Nat /\ taken[p] \in Nat /\ n \in Nat
  <2>1. p \in Queues!AllProtocols /\ Length[p] \in Nat
    BY Fitted DEF QueuesInv, QueuesType
  <2>2. x \in Seq(Runs) /\ handed[p] \in Nat /\ taken[p] \in Nat
    BY DEF QueuesInv, QueuesType
  <2> QED
    BY <2>1, <2>2
<1>2. kind \in Kinds /\ Queues!Sent(p, kind) \in Nat
  BY <1>1, Sizes
<1>3. /\ a \in Runs /\ a.what = "LENGTH" /\ a.n = n /\ (p # "FM" => a.bytes = 1)
      /\ b \in Runs /\ b.what = "FRAME" /\ b.bytes = Queues!Sent(p, kind)
  BY <1>1, <1>2 DEF Queues!LengthRun, Runs, Kinds
<1>4. q = Queues!Add(p, qa, b)
  BY DEF Queues!Queue
<1>5. Queues!Used(x) \in Nat /\ Queues!Used(Append(x, a)) = Queues!Used(x) + a.bytes
  BY <1>1, <1>3, UsedAppend
<1>6. p \notin excused => IsPairs(x, taken[p], handed[p])
  BY DEF QueuesInv, TxAll, TxInv
<1> HIDE DEF a, b, x
<1>7. qa \in Seq(Runs) /\ qa \in {<< >>, Append(x, a)}
  BY <1>1, <1>3, Adding
<1> HIDE DEF qa
<1>8. q \in Seq(Runs) /\ q \in {<< >>, Append(qa, b)}
  <2>1. b \in Runs /\ qa \in Seq(Runs) /\ Length[p] \in Nat
    BY <1>1, <1>3, <1>7
  <2>2. /\ Queues!Add(p, qa, b) \in Seq(Runs)
        /\ Queues!Add(p, qa, b) \in {<< >>, Append(qa, b)}
    BY ONLY <2>1, Adding
  <2> QED
    BY ONLY <1>4, <2>2
<1>9. p \notin excused => IsPairs(Append(Append(x, a), b), taken[p], handed[p] + 1)
  BY <1>1, <1>3, <1>6, PairsAppend
<1>10. CASE ~Queues!MayOverflow(p, kind)
  <2>1. b.bytes + 1 + Queues!Used(x) < Length[p] /\ a.bytes = 1
    BY <1>1, <1>3, <1>10, SpaceSuffices DEF x, Queues!MayOverflow
  <2>2. b.bytes \in Nat
    BY <1>2, <1>3
  <2>3. qa = Append(x, a)
    <3>1. a.bytes + Queues!Used(x) < Length[p]
      BY <1>1, <1>5, <2>1, <2>2
    <3> QED
      BY <1>1, <1>3, <3>1, Adding DEF qa
  <2>4. q = Append(qa, b)
    <3>1. b.bytes + Queues!Used(qa) < Length[p]
      BY <1>1, <1>5, <2>1, <2>2, <2>3
    <3> QED
      BY <1>1, <1>3, <1>4, <1>7, <3>1, Adding
  <2>5. q # << >>
    BY <1>7, <2>4
  <2> QED
    BY <1>8, <1>9, <2>3, <2>4, <2>5
<1>11. CASE Queues!MayOverflow(p, kind) /\ q # << >> /\ p \notin excused
  <2>1. q = Append(qa, b)
    BY <1>8, <1>11
  <2>2. CASE qa = Append(x, a)
    BY <1>8, <1>9, <1>11, <2>1, <2>2
  <2>3. CASE qa = << >>
    <3>1. q = <<b>>
      BY <2>1, <2>3
    <3>2. ~Queues!Whole(q)
      BY <1>3, <3>1 DEF Queues!Whole, Queues!Starts
    <3>3. p = "FM"
      <4>1. CASE p # "FM"
        <5>1. p = "DStar"
          BY <1>11, <4>1 DEF Queues!MayOverflow
        <5>2. "DATA" \in DOMAIN Queues!Written(p) /\ ~Queues!MayOverflow(p, "DATA")
          BY <5>1 DEF Queues!Written, Queues!DStarTx, Queues!MayOverflow
        <5>3. Queues!Sent(p, "DATA") + 1 + Queues!Used(x) < Length[p]
          BY <1>1, <5>2, SpaceSuffices DEF x
        <5>4. Queues!Sent(p, "DATA") \in Nat
          BY <1>1, <5>2, Sizes
        <5>5. a.bytes + Queues!Used(x) < Length[p]
          BY <1>1, <1>3, <1>5, <4>1, <5>3, <5>4
        <5>6. qa = Append(x, a)
          BY <1>1, <1>3, <5>5, Adding DEF qa
        <5> QED
          BY <1>7, <2>3, <5>6, <1>1
      <4> QED
        BY <4>1
    <3> QED
      BY <1>8, <3>2, <3>3, <1>11
  <2> QED
    BY <1>7, <2>2, <2>3
<1> QED
  BY <1>8, <1>10, <1>11

LEMMA QueueKeeps ==
  ASSUME QueuesInv, Queues!Write PROVE QueuesInv' /\ RoomKept
<1>1. /\ turn = "WRITE" /\ turn' = "CLOCK"
      /\ UNCHANGED <<fit, rx, space, room, toModem, toHost, fed, ahead, received, got>>
  BY DEF Queues!Write
<1>2. QueuesType /\ RxAll /\ TxAll
  BY DEF QueuesInv
<1>3. RxAll' /\ RoomKept
  BY <1>1, <1>2, RxSame, RoomSame DEF RoomKept
<1>4. CASE UNCHANGED <<tx, handed, taken, excused>>
  <2>1. QueuesType' /\ TxAll'
    BY <1>1, <1>2, <1>4, SameSets, TxSame DEF QueuesType
  <2> QED
    BY <1>3, <2>1 DEF QueuesInv
<1>5. ASSUME NEW p \in fit.protocols, NEW kind \in DOMAIN Queues!Written(p),
             Queues!HasSpace(p),
             handed' = [handed EXCEPT ![p] = @ + 1],
             tx' = [tx EXCEPT ![p] = Queues!Queue(p, kind, handed[p] + 1)],
             taken' = IF Queues!MayOverflow(p, kind) /\ tx'[p] = << >>
                        THEN [taken EXCEPT ![p] = handed[p] + 1] ELSE taken,
             excused' = IF p = "FM" /\ ~Queues!Whole(tx'[p]) THEN excused \cup {p} ELSE excused
      PROVE  QueuesInv'
  <2> DEFINE q == Queues!Queue(p, kind, handed[p] + 1)
  <2>1. /\ q \in Seq(Runs)
        /\ p \notin excused => \/ IsPairs(q, taken[p], handed[p] + 1)
                               \/ q = << >> /\ Queues!MayOverflow(p, kind)
                               \/ p = "FM" /\ ~Queues!Whole(q)
        /\ ~Queues!MayOverflow(p, kind) => q # << >>
    BY <1>5, Queued
  <2>2. /\ tx \in [fit.protocols -> Seq(Runs)] /\ handed \in [fit.protocols -> Nat]
        /\ taken \in [fit.protocols -> Nat]
    BY <1>2 DEF QueuesType
  <2>3. tx'[p] = q /\ tx' = [tx EXCEPT ![p] = q]
    BY <1>5, <2>2
  <2> HIDE DEF q
  <2>4. /\ tx' \in [fit.protocols -> Seq(Runs)] /\ handed' \in [fit.protocols -> Nat]
        /\ taken' \in [fit.protocols -> Nat]
    BY <1>5, <2>1, <2>2, <2>3
  <2>5. QueuesType'
    BY <1>1, <1>2, <2>4, SameSets DEF QueuesType
  <2>6. ASSUME NEW r \in fit.protocols, r \notin excused' PROVE IsPairs(tx'[r], taken'[r], handed'[r])
    <3>1. r \notin excused
      BY <1>5, <2>6
    <3>2. IsPairs(tx[r], taken[r], handed[r])
      BY <1>2, <3>1 DEF TxAll, TxInv
    <3>3. CASE r # p
      <4>1. tx'[r] = tx[r] /\ taken'[r] = taken[r] /\ handed'[r] = handed[r]
        BY <1>5, <2>2, <2>3, <3>3
      <4> QED
        BY <3>2, <4>1
    <3>4. CASE r = p
      <4>1. handed'[r] = handed[p] + 1 /\ tx'[r] = q
        BY <1>5, <2>2, <2>3, <3>4
      <4>2. ~(p = "FM" /\ ~Queues!Whole(q))
        BY <1>5, <2>3, <2>6, <3>4
      <4>3. CASE Queues!MayOverflow(p, kind) /\ q = << >>
        <5>1. taken'[r] = handed[p] + 1
          BY <1>5, <2>2, <2>3, <3>4, <4>3
        <5>2. handed[p] + 1 \in Nat
          BY <2>2
        <5>3. IsPairs(<< >>, handed[p] + 1, handed[p] + 1)
          BY <5>2 DEF IsPairs
        <5> QED
          BY <4>1, <4>3, <5>1, <5>3
      <4>4. CASE ~(Queues!MayOverflow(p, kind) /\ q = << >>)
        <5>1. taken' = taken
          BY <1>5, <2>3, <4>4
        <5>2. IsPairs(q, taken[p], handed[p] + 1)
          BY <2>1, <3>1, <3>4, <4>2, <4>4
        <5> QED
          BY <3>4, <4>1, <5>1, <5>2
      <4> QED
        BY <4>3, <4>4
    <3> QED
      BY <3>3, <3>4
  <2>7. TxAll'
    BY <1>1, <2>6 DEF TxAll, TxInv, IsPairs
  <2> QED
    BY <1>3, <2>5, <2>7 DEF QueuesInv
<1>6. QueuesInv'
  BY <1>4, <1>5 DEF Queues!Write, Queues!fitted
<1> QED
  BY <1>3, <1>6

\* An order that is not a frame.
LEMMA Ordered ==
  ASSUME QueuesType, NEW p, NEW e \in Orders, e.what # "FRAME", toModem' = Append(toModem, e)
  PROVE  /\ toModem' \in Seq(Orders)
         /\ Under(p)' = Under(p)
         /\ \A g \in DOMAIN toModem :
              /\ toModem'[g] = toModem[g]
              /\ UnitsAfter(toModem', p, g) = UnitsAfter(toModem, p, g)
         /\ DOMAIN toModem' = DOMAIN toModem \cup {Len(toModem) + 1}
         /\ toModem'[Len(toModem) + 1] = e
         /\ UnitsAfter(toModem', p, Len(toModem) + 1) = 0
<1>1. toModem \in Seq(Orders)
  BY DEF QueuesType
<1>2. /\ UnitsOf(toModem', p) = UnitsOf(toModem, p) + 0
      /\ \A g \in DOMAIN toModem : UnitsAfter(toModem', p, g) = UnitsAfter(toModem, p, g) + 0
      /\ UnitsAfter(toModem', p, Len(toModem) + 1) = 0
  <2>1. Takes(e, p) = 0
    BY DEF Takes
  <2> QED
    BY <1>1, <2>1, WeightAppend
<1>3. /\ UnitsOf(toModem, p) \in Nat
      /\ \A g : UnitsAfter(toModem, p, g) \in Nat
  BY <1>1, Weighed
<1>4. Under(p)' = Under(p)
  <2>1. Under(p)' = UnitsOf(toModem', p)
    BY DEF Under, UnitsOf, FramesOf, Counts
  <2> QED
    BY <1>2, <1>3, <2>1 DEF Under
<1>5. \A g \in DOMAIN toModem :
        UnitsAfter(toModem', p, g) = UnitsAfter(toModem, p, g)
  BY <1>2, <1>3
<1>6. /\ toModem' \in Seq(Orders)
      /\ \A g \in DOMAIN toModem : toModem'[g] = toModem[g]
      /\ DOMAIN toModem' = DOMAIN toModem \cup {Len(toModem) + 1}
      /\ toModem'[Len(toModem) + 1] = e
  BY <1>1
<1> QED
  BY <1>2, <1>4, <1>5, <1>6

LEMMA AbortKeeps == ASSUME QueuesInv, Queues!Abort PROVE QueuesInv' /\ RoomKept
<1>1. PICK p \in fit.protocols \cap {"DMR1", "DMR2"} : Queues!writeDMRAbort(p)
  BY DEF Queues!Abort, Queues!fitted
<1> DEFINE e == [what |-> "ABORT", of |-> p, units |-> 0]
<1>2. /\ UNCHANGED <<fit, turn, rx, space, room, toHost, fed, ahead, received, handed, got,
                     excused>>
      /\ tx' = [tx EXCEPT ![p] = << >>] /\ taken' = [taken EXCEPT ![p] = handed[p]]
      /\ toModem' = Append(toModem, e)
  BY <1>1 DEF Queues!writeDMRAbort
<1>3. QueuesType /\ RxAll /\ TxAll
  BY DEF QueuesInv
<1>4. e \in Orders /\ e.what = "ABORT"
  BY <1>1 DEF Orders
<1> HIDE DEF e
<1>5. QueuesType'
  <2>1. toModem' \in Seq(Orders)
    BY <1>2, <1>3, <1>4 DEF QueuesType
  <2>2. << >> \in Seq(Runs)
    OBVIOUS
  <2>3. tx' \in [fit.protocols -> Seq(Runs)] /\ taken' \in [fit.protocols -> Nat]
    BY <1>2, <1>3, <2>2 DEF QueuesType
  <2> QED
    BY <1>2, <1>3, <2>1, <2>3, SameSets DEF QueuesType
<1>6. RxAll'
  BY <1>2, <1>3, RxSame
<1>7. TxAll'
  <2> SUFFICES ASSUME NEW r \in fit.protocols, r \notin excused PROVE IsPairs(tx[r], taken[r], handed[r])'
    BY <1>2 DEF TxAll, TxInv
  <2>1. IsPairs(tx[r], taken[r], handed[r])
    BY <1>3 DEF TxAll, TxInv
  <2>2. handed[r] \in Nat
    BY <1>3 DEF QueuesType
  <2>3. CASE r = p
    <3>1. tx'[r] = << >> /\ taken'[r] = handed[r] /\ handed'[r] = handed[r]
      BY <1>2, <1>3, <2>3 DEF QueuesType
    <3> QED
      BY <2>2, <3>1 DEF IsPairs
  <2>4. CASE r # p
    <3>1. tx'[r] = tx[r] /\ taken'[r] = taken[r] /\ handed'[r] = handed[r]
      BY <1>2, <1>3, <2>4 DEF QueuesType
    <3> QED
      BY <2>1, <3>1 DEF IsPairs
  <2> QED
    BY <2>3, <2>4
<1>8. RoomKept
  <2> SUFFICES ASSUME RoomAll, NEW r \in fit.protocols PROVE RoomInv(r)'
    BY <1>2 DEF RoomAll, RoomKept
  <2>1. RoomInv(r)
    BY DEF RoomAll
  <2>2. /\ Under(r)' = Under(r)
        /\ \A g \in DOMAIN toModem' : toModem'[g].what = "GET_STATUS" =>
             /\ g \in DOMAIN toModem /\ toModem[g].what = "GET_STATUS"
             /\ UnitsAfter(toModem', r, g) = UnitsAfter(toModem, r, g)
    BY <1>2, <1>3, <1>4, Ordered
  <2>3. \A g \in DOMAIN toModem' :
          toModem'[g].what = "GET_STATUS" => UnitsAfter(toModem', r, g) <= fed[r]
    BY <2>1, <2>2 DEF RoomInv
  <2> QED
    BY <1>2, <2>1, <2>2, <2>3 DEF RoomInv
<1> QED
  BY <1>5, <1>6, <1>7, <1>8 DEF QueuesInv

LEMMA PollType ==
  ASSUME QueuesType, Queues!Poll PROVE toModem' \in Seq(Orders) /\ fed' \in [fit.protocols -> Nat]
<1>1. toModem \in Seq(Orders) /\ fed \in [fit.protocols -> Nat]
  BY DEF QueuesType
<1>2. [what |-> "GET_STATUS", of |-> "NONE", units |-> 0] \in Orders
  BY DEF Orders
<1>3. [p \in fit.protocols |-> 0] \in [fit.protocols -> Nat]
  OBVIOUS
<1>4. CASE UNCHANGED <<toModem, fed>>
  BY <1>1, <1>4
<1>5. CASE ~UNCHANGED <<toModem, fed>>
  <2>1. /\ toModem' = Append(toModem, [what |-> "GET_STATUS", of |-> "NONE", units |-> 0])
        /\ fed' = [p \in fit.protocols |-> 0]
    BY <1>5 DEF Queues!Poll, Queues!fitted
  <2>2. toModem' \in Seq(Orders)
    BY <1>1, <1>2, <2>1
  <2> QED
    BY ONLY <1>3, <2>1, <2>2
<1> QED
  BY <1>4, <1>5

\* The status is asked for while none is under way.
LEMMA Polled ==
  ASSUME QueuesInv, RoomAll, Queues!Poll, UNCHANGED fit
  PROVE  /\ toModem' \in Seq(Orders)
         /\ UNCHANGED fed \/ \A i \in DOMAIN toHost : toHost[i].what # "STATUS"
         /\ \A p \in fit.protocols :
              /\ Under(p)' = Under(p) /\ fed'[p] \in Nat /\ fed'[p] <= fed[p]
              /\ \A g \in DOMAIN toModem' :
                   toModem'[g].what = "GET_STATUS" => UnitsAfter(toModem', p, g) <= fed'[p]
<1>1. QueuesType /\ RoomAll /\ fed \in [fit.protocols -> Nat] /\ toModem \in Seq(Orders)
  BY DEF QueuesInv, QueuesType
<1>2. CASE UNCHANGED <<toModem, fed>>
  BY <1>1, <1>2, UnderSame DEF RoomAll, RoomInv
<1>3. CASE ~UNCHANGED <<toModem, fed>>
  <2> DEFINE e == [what |-> "GET_STATUS", of |-> "NONE", units |-> 0]
  <2>1. ~Queues!Asked /\ toModem' = Append(toModem, e) /\ fed' = [p \in fit.protocols |-> 0]
    BY <1>3 DEF Queues!Poll, Queues!fitted
  <2>2. e \in Orders /\ e.what = "GET_STATUS"
    BY DEF Orders
  <2> HIDE DEF e
  <2>3. /\ \A i \in DOMAIN toHost : toHost[i].what # "STATUS"
        /\ \A i \in DOMAIN toModem : toModem[i].what # "GET_STATUS"
    BY <2>1 DEF Queues!Asked
  <2>4. ASSUME NEW p
        PROVE  /\ toModem' \in Seq(Orders) /\ Under(p)' = Under(p)
               /\ \A g \in DOMAIN toModem' :
                    toModem'[g].what = "GET_STATUS" => UnitsAfter(toModem', p, g) = 0
    BY <1>1, <2>1, <2>2, <2>3, Ordered
  <2>5. \A p \in fit.protocols : fed'[p] = 0 /\ fed[p] \in Nat
    BY <1>1, <2>1
  <2>6. toModem' \in Seq(Orders)
    BY <2>4
  <2>7. \A p \in fit.protocols : fed'[p] \in Nat /\ fed'[p] <= fed[p]
    BY <2>5
  <2>8. \A p \in fit.protocols : \A g \in DOMAIN toModem' :
          toModem'[g].what = "GET_STATUS" => UnitsAfter(toModem', p, g) <= fed'[p]
    <3> SUFFICES ASSUME NEW p \in fit.protocols, NEW g \in DOMAIN toModem',
                        toModem'[g].what = "GET_STATUS"
                 PROVE  UnitsAfter(toModem', p, g) <= fed'[p]
      OBVIOUS
    <3>1. UnitsAfter(toModem', p, g) = 0
      BY <2>4
    <3> QED
      BY <2>5, <3>1
  <2> QED
    BY <2>3, <2>4, <2>6, <2>7, <2>8
<1> QED
  BY <1>2, <1>3

LEMMA Answers ==
  ASSUME NEW f \in Statuses \cup Receptions
  PROVE  /\ f.what \in {"STATUS", "RECEIVED"}
         /\ f.what = "STATUS" => f.spaces \in [fit.protocols -> Nat]
         /\ f.what = "RECEIVED" => f \in Receptions /\ f.of \in fit.protocols /\ f.n \in Nat
BY DEF Statuses, Receptions

LEMMA ClockKeeps == ASSUME QueuesInv, Queues!Clock PROVE QueuesInv' /\ RoomKept
<1>1. /\ turn = "CLOCK" /\ turn' = "FEED" /\ Queues!Poll /\ Queues!Receive
      /\ UNCHANGED <<fit, tx, room, ahead, received, handed, got, taken, excused>>
  BY DEF Queues!Clock
<1>2. QueuesType /\ RxAll /\ TxAll
  BY DEF QueuesInv
<1>3. TxAll'
  BY <1>1, <1>2, TxSame
<1>4. toModem' \in Seq(Orders) /\ fed' \in [fit.protocols -> Nat]
  BY <1>1, <1>2, PollType
<1>5. \A p \in fit.protocols : ~Waits(p) /\ rx[p] = << >>
  BY <1>1, <1>2 DEF RxAll, RxInv, Waits
\* What is read of the answers, and what it does.
<1> DEFINE H == Statuses \cup Receptions
<1>6. /\ toHost \in Seq(H) /\ rx \in [fit.protocols -> Seq(Runs)]
      /\ space \in [fit.protocols -> Int] /\ room \in [fit.protocols -> Nat]
      /\ got \in [fit.protocols -> Nat] /\ received \in [fit.protocols -> Nat]
  BY <1>2 DEF QueuesType
<1>7. \A p \in fit.protocols : /\ Queues!InOrder(toHost, Queues!Coming(toHost, p), got[p], received[p])
                               /\ got[p] <= received[p]
  BY <1>2, <1>5 DEF RxAll, RxInv
<1>8. RoomAll => \A p \in fit.protocols : RoomInv(p)
  BY DEF RoomAll
<1> DEFINE Spaced == /\ space' \in [fit.protocols -> Int]
                     /\ RoomAll => \A p \in fit.protocols :
                                     space'[p] <= room[p] - Under(p) + ahead[p]
           Ordered1 == \A p \in fit.protocols :
                         /\ rx'[p] # << >> => IsReceipt(rx'[p]) /\ rx'[p][1].n = got[p] + 1
                         /\ Queues!InOrder(toHost', Queues!Coming(toHost', p),
                                           IF rx'[p] # << >> THEN got[p] + 1 ELSE got[p],
                                           received[p])
                         /\ (IF rx'[p] # << >> THEN got[p] + 1 ELSE got[p]) <= received[p]
           Fewer == \A i \in DOMAIN toHost' : \E j \in DOMAIN toHost : toHost'[i] = toHost[j]
<1>9. /\ rx' \in [fit.protocols -> Seq(Runs)] /\ toHost' \in Seq(H)
      /\ Spaced /\ Ordered1 /\ Fewer
  <2>1. CASE toHost = << >>
    <3>1. UNCHANGED <<toHost, rx, space>>
      BY <1>1, <2>1 DEF Queues!Receive
    <3> QED
      BY <1>5, <1>6, <1>7, <1>8, <3>1 DEF RoomInv
  <2>2. CASE toHost # << >>
    <3> DEFINE f == Head(toHost)
               t == Tail(toHost)
    <3>1. /\ toHost' = t
          /\ IF f.what = "STATUS" THEN space' = Queues!ReadStatus(f) /\ UNCHANGED rx
             ELSE rx' = [rx EXCEPT ![f.of] = Queues!Receipt(f)] /\ UNCHANGED space
      BY <1>1, <2>2 DEF Queues!Receive
    <3>2. /\ f \in H /\ t \in Seq(H) /\ 1 \in DOMAIN toHost /\ f = toHost[1]
          /\ \A i \in DOMAIN t : i + 1 \in DOMAIN toHost /\ t[i] = toHost[i + 1]
      BY <1>6, <2>2
    <3>3. ASSUME NEW p \in fit.protocols
          PROVE  /\ ~(f.what = "RECEIVED" /\ f.of = p)
                      => Queues!InOrder(t, Queues!Coming(t, p), got[p], received[p])
                 /\ f.what = "RECEIVED" /\ f.of = p
                      => /\ f.n = got[p] + 1 /\ got[p] + 1 <= received[p]
                         /\ Queues!InOrder(t, Queues!Coming(t, p), got[p] + 1, received[p])
      <4>1. got[p] \in Nat /\ received[p] \in Nat
        BY <1>6
      <4> HIDE DEF H
      <4> QED
        BY <1>6, <1>7, <2>2, <4>1, ComingTail
    <3>4. /\ f.what \in {"STATUS", "RECEIVED"}
          /\ f.what = "STATUS" => f.spaces \in [fit.protocols -> Nat]
          /\ f.what = "RECEIVED" => f \in Receptions /\ f.of \in fit.protocols /\ f.n \in Nat
      BY <3>2, Answers
    <3> HIDE DEF f, t
    <3>5. Fewer
      BY <3>1, <3>2
    <3>6. CASE f.what = "STATUS"
      <4>1. space' = [p \in fit.protocols |-> f.spaces[p]] /\ rx' = rx
        BY <3>1, <3>6 DEF Queues!ReadStatus, Queues!fitted
      <4>2. Spaced
        <5>1. space' \in [fit.protocols -> Int]
          BY <3>4, <3>6, <4>1
        <5>2. ASSUME RoomAll, NEW p \in fit.protocols
              PROVE  space'[p] <= room[p] - Under(p) + ahead[p]
          <6>1. RoomInv(p)
            BY <1>8, <5>2
          <6>2. f.spaces[p] <= room[p] - Under(p) + fed[p] /\ f.spaces[p] \in Nat
            BY <3>2, <3>4, <3>6, <6>1 DEF RoomInv
          <6>3. fed[p] <= ahead[p]
            BY <6>1 DEF RoomInv
          <6>4. room[p] \in Nat /\ fed[p] \in Nat /\ ahead[p] \in Nat
            BY <1>2 DEF QueuesType
          <6>5. Under(p) \in Nat
            <7>1. toModem \in Seq(Orders)
              BY <1>2 DEF QueuesType
            <7> QED
              BY ONLY <7>1, Weighed DEF Under
          <6>6. space'[p] = f.spaces[p]
            BY <4>1
          <6> QED
            BY ONLY <6>2, <6>3, <6>4, <6>5, <6>6
        <5> QED
          BY <5>1, <5>2
      <4>3. Ordered1
        BY <1>5, <1>7, <3>1, <3>3, <3>6, <4>1
      <4> QED
        BY <1>6, <3>1, <3>2, <3>5, <4>1, <4>2, <4>3
    <3>7. CASE f.what = "RECEIVED"
      <4> DEFINE q == Queues!Receipt(f)
      <4>1. q \in Seq(Runs) /\ IsReceipt(q) /\ q[1].n = f.n
        BY <1>2, <1>5, <3>4, <3>7, Receipts
      <4>2. rx' = [rx EXCEPT ![f.of] = q] /\ space' = space
        BY <3>1, <3>7
      <4> HIDE DEF q
      <4>3. q # << >>
        BY <4>1, ReceiptRest
      <4>4. rx' \in [fit.protocols -> Seq(Runs)]
        BY <1>6, <4>1, <4>2
      <4>5. Spaced
        BY <1>6, <1>8, <4>2 DEF RoomInv
      <4>6. Ordered1
        <5> SUFFICES ASSUME NEW p \in fit.protocols
                     PROVE  /\ rx'[p] # << >> => IsReceipt(rx'[p]) /\ rx'[p][1].n = got[p] + 1
                            /\ Queues!InOrder(t, Queues!Coming(t, p),
                                              IF rx'[p] # << >> THEN got[p] + 1 ELSE got[p],
                                              received[p])
                            /\ (IF rx'[p] # << >> THEN got[p] + 1 ELSE got[p]) <= received[p]
          BY <3>1
        <5>1. CASE f.of = p
          <6>1. rx'[p] = q
            BY <1>6, <4>2, <5>1
          <6> QED
            BY <3>3, <3>7, <4>1, <4>3, <5>1, <6>1
        <5>2. CASE f.of # p
          <6>1. rx'[p] = << >>
            BY <1>5, <1>6, <4>2, <5>2
          <6> QED
            BY <1>7, <3>3, <5>2, <6>1
        <5> QED
          BY <5>1, <5>2
      <4> QED
        BY <3>1, <3>2, <3>5, <4>4, <4>5, <4>6
    <3> QED
      BY <3>4, <3>6, <3>7
  <2> QED
    BY <2>1, <2>2
<1>10. QueuesType'
  BY <1>1, <1>2, <1>4, <1>9, SameSets DEF QueuesType
<1>11. RxAll'
  <2> SUFFICES ASSUME NEW p \in fit.protocols PROVE RxInv(p)'
    BY <1>1 DEF RxAll
  <2>1. /\ rx'[p] # << >> => IsReceipt(rx'[p]) /\ rx'[p][1].n = got[p] + 1
        /\ Queues!InOrder(toHost', Queues!Coming(toHost', p),
                          IF rx'[p] # << >> THEN got[p] + 1 ELSE got[p], received[p])
        /\ (IF rx'[p] # << >> THEN got[p] + 1 ELSE got[p]) <= received[p]
    BY <1>9
  <2> QED
    BY <1>1, <2>1 DEF RxInv, Waits, IsReceipt, Queues!InOrder, Queues!Coming
<1>12. RoomKept
  <2> SUFFICES ASSUME RoomAll, NEW p \in fit.protocols PROVE RoomInv(p)'
    BY <1>1 DEF RoomAll, RoomKept
  <2>0. /\ UNCHANGED fed \/ \A i \in DOMAIN toHost : toHost[i].what # "STATUS"
        /\ Under(p)' = Under(p) /\ fed'[p] \in Nat /\ fed'[p] <= fed[p]
        /\ \A g \in DOMAIN toModem' :
             toModem'[g].what = "GET_STATUS" => UnitsAfter(toModem', p, g) <= fed'[p]
    BY <1>1, Polled
  <2>1. RoomInv(p) /\ fed[p] \in Nat /\ ahead[p] \in Nat
    BY <1>2, <1>8 DEF QueuesType
  <2>2. ASSUME NEW i \in DOMAIN toHost', toHost'[i].what = "STATUS"
        PROVE  toHost'[i].spaces[p] <= room[p] - Under(p) + fed'[p]
    <3>1. PICK j \in DOMAIN toHost : toHost'[i] = toHost[j]
      BY <1>9
    <3>2. fed' = fed
      BY <2>0, <2>2, <3>1
    <3> QED
      BY <2>1, <2>2, <3>1, <3>2 DEF RoomInv
  <2>3. space'[p] <= room[p] - Under(p) + ahead[p]
    BY <1>9
  <2>4. fed'[p] <= ahead[p]
    BY <2>0, <2>1 DEF RoomInv
  <2> QED
    BY <1>1, <2>0, <2>1, <2>2, <2>3, <2>4 DEF RoomInv
<1> QED
  BY <1>3, <1>10, <1>11, <1>12 DEF QueuesInv

\* q is what is under way and then a frame of each of the protocols D.
Grown(q, D) ==
  /\ q \in Seq(Orders)
  /\ DOMAIN toModem \subseteq DOMAIN q
  /\ \A i \in DOMAIN toModem : q[i] = toModem[i]
  /\ \A i \in DOMAIN q : i \notin DOMAIN toModem => q[i].what = "FRAME"
  /\ \A p : /\ UnitsOf(q, p) = Under(p) + Queues!Taking(p, D)
            /\ \A g \in DOMAIN toModem :
                 UnitsAfter(q, p, g) = UnitsAfter(toModem, p, g) + Queues!Taking(p, D)

LEMMA GrowsByOne ==
  ASSUME QueuesType, NEW ps \in SUBSET fit.protocols, NEW s, NEW D, s \notin D,
         NEW q, Grown(q, D \cap ps)
  PROVE  Grown(q \o Queues!FrameOf(s, ps), (D \cup {s}) \cap ps)
<1>1. q \in Seq(Orders) /\ toModem \in Seq(Orders)
  BY DEF Grown, QueuesType
<1>2. CASE s \notin ps
  <2>1. (D \cup {s}) \cap ps = D \cap ps
    BY <1>2
  <2>2. q \o Queues!FrameOf(s, ps) = q
    BY <1>1, <1>2 DEF Queues!FrameOf
  <2> QED
    BY <2>1, <2>2
<1>3. CASE s \in ps
  <2> DEFINE e == [what |-> "FRAME", of |-> s, units |-> Queues!Units(s, tx[s][2].kind)]
             r == Append(q, e)
             E == (D \cup {s}) \cap ps
  <2>1. /\ e \in Orders /\ e.what = "FRAME" /\ e.of = s
        /\ e.units = Queues!Units(s, tx[s][2].kind) /\ e.units \in {1, 4}
    BY <1>3 DEF Orders, Queues!Units
  <2>2. q \o Queues!FrameOf(s, ps) = r
    BY <1>1, <1>3, <2>1 DEF Queues!FrameOf
  <2> HIDE DEF e
  <2>3. /\ r \in Seq(Orders) /\ DOMAIN r = DOMAIN q \cup {Len(q) + 1}
        /\ r[Len(q) + 1] = e /\ \A i \in DOMAIN q : r[i] = q[i]
    BY <1>1, <2>1
  <2>4. ASSUME NEW p
        PROVE  /\ UnitsOf(r, p) = UnitsOf(q, p) + Takes(e, p)
               /\ \A g \in DOMAIN q : UnitsAfter(r, p, g) = UnitsAfter(q, p, g) + Takes(e, p)
    BY <1>1, <2>1, WeightAppend
  <2> HIDE DEF r, E
  <2>5. \A p : p \in E <=> p \in D \cap ps \/ p = s
    BY <1>3 DEF E
  <2>6. s \notin D \cap ps
    OBVIOUS
  <2>7. ASSUME NEW p
        PROVE  /\ UnitsOf(r, p) = Under(p) + Queues!Taking(p, E)
               /\ \A g \in DOMAIN toModem :
                    UnitsAfter(r, p, g) = UnitsAfter(toModem, p, g) + Queues!Taking(p, E)
    <3>1. /\ UnitsOf(toModem, p) \in Nat
          /\ \A g : UnitsAfter(toModem, p, g) \in Nat
      BY ONLY <1>1, Weighed
    <3>2. /\ UnitsOf(q, p) = Under(p) + Queues!Taking(p, D \cap ps)
          /\ \A g \in DOMAIN toModem :
               /\ g \in DOMAIN q
               /\ UnitsAfter(q, p, g) = UnitsAfter(toModem, p, g) + Queues!Taking(p, D \cap ps)
      BY DEF Grown
    <3>3. /\ Queues!Taking(p, D \cap ps) \in Nat /\ Takes(e, p) \in Nat
          /\ Queues!Taking(p, E) = Queues!Taking(p, D \cap ps) + Takes(e, p)
      <4>1. CASE p = s
        BY <2>1, <2>5, <2>6, <4>1 DEF Queues!Taking, Takes
      <4>2. CASE p # s
        BY <2>1, <2>5, <4>2 DEF Queues!Taking, Takes, Queues!Units
      <4> QED
        BY <4>1, <4>2
    <3> DEFINE a == Queues!Taking(p, D \cap ps)
               b == Takes(e, p)
    <3>4. /\ UnitsOf(r, p) = UnitsOf(q, p) + b
          /\ \A g \in DOMAIN q : UnitsAfter(r, p, g) = UnitsAfter(q, p, g) + b
      BY <2>4
    <3>5. Under(p) \in Nat
      BY <3>1 DEF Under
    <3> HIDE DEF a, b
    <3>6. UnitsOf(r, p) = Under(p) + Queues!Taking(p, E)
      BY <3>2, <3>3, <3>4, <3>5 DEF a, b
    <3> QED
      BY <3>1, <3>2, <3>3, <3>4, <3>6 DEF a, b
  <2>8. Grown(r, E)
    BY <2>1, <2>3, <2>7 DEF Grown
  <2> QED
    BY <2>2, <2>8 DEF E
<1> QED
  BY <1>2, <1>3

LEMMA GrowsByAll ==
  ASSUME QueuesType, NEW ps \in SUBSET fit.protocols PROVE Grown(Queues!Fed(ps), ps)
<1> DEFINE F(p) == Queues!FrameOf(p, ps)
           G(q, D) == Grown(q, D \cap ps)
           q1 == toModem \o F("DStar")
           q2 == q1 \o F("DMR1")
           q3 == q2 \o F("DMR2")
           q4 == q3 \o F("YSF")
           q5 == q4 \o F("P25")
           q6 == q5 \o F("NXDN")
           q7 == q6 \o F("M17")
           q8 == q7 \o F("POCSAG")
           q9 == q8 \o F("FM")
<1>0. G(toModem, {})
  <2>1. toModem \in Seq(Orders)
    BY DEF QueuesType
  <2>2. \A p : /\ UnitsOf(toModem, p) \in Nat
               /\ \A g : UnitsAfter(toModem, p, g) \in Nat
    BY ONLY <2>1, Weighed
  <2>3. \A p : Queues!Taking(p, {}) = 0
    BY DEF Queues!Taking
  <2> QED
    BY <2>1, <2>2, <2>3 DEF Grown, Under
<1>10. Queues!Fed(ps) = q9
  BY DEF Queues!Fed
<1>11. ASSUME NEW s, NEW D, s \notin D, NEW q, G(q, D) PROVE G(q \o F(s), D \cup {s})
  BY <1>11, GrowsByOne
<1> HIDE DEF F, G
<1>1. G(q1, {"DStar"})
  BY <1>0, <1>11
<1> HIDE DEF q1
<1>2. G(q2, {"DStar", "DMR1"})
  BY <1>1, <1>11, {"DStar"} \cup {"DMR1"} = {"DStar", "DMR1"}
<1> HIDE DEF q2
<1>3. G(q3, {"DStar", "DMR1", "DMR2"})
  BY <1>2, <1>11, {"DStar", "DMR1"} \cup {"DMR2"} = {"DStar", "DMR1", "DMR2"}
<1> HIDE DEF q3
<1>4. G(q4, {"DStar", "DMR1", "DMR2", "YSF"})
  BY <1>3, <1>11, {"DStar", "DMR1", "DMR2"} \cup {"YSF"} = {"DStar", "DMR1", "DMR2", "YSF"}
<1> HIDE DEF q4
<1>5. G(q5, {"DStar", "DMR1", "DMR2", "YSF", "P25"})
  BY <1>4, <1>11, {"DStar", "DMR1", "DMR2", "YSF"} \cup {"P25"}
                    = {"DStar", "DMR1", "DMR2", "YSF", "P25"}
<1> HIDE DEF q5
<1>6. G(q6, {"DStar", "DMR1", "DMR2", "YSF", "P25", "NXDN"})
  BY <1>5, <1>11, {"DStar", "DMR1", "DMR2", "YSF", "P25"} \cup {"NXDN"}
                    = {"DStar", "DMR1", "DMR2", "YSF", "P25", "NXDN"}
<1> HIDE DEF q6
<1>7. G(q7, {"DStar", "DMR1", "DMR2", "YSF", "P25", "NXDN", "M17"})
  BY <1>6, <1>11, {"DStar", "DMR1", "DMR2", "YSF", "P25", "NXDN"} \cup {"M17"}
                    = {"DStar", "DMR1", "DMR2", "YSF", "P25", "NXDN", "M17"}
<1> HIDE DEF q7
<1>8. G(q8, {"DStar", "DMR1", "DMR2", "YSF", "P25", "NXDN", "M17", "POCSAG"})
  BY <1>7, <1>11, {"DStar", "DMR1", "DMR2", "YSF", "P25", "NXDN", "M17"} \cup {"POCSAG"}
                    = {"DStar", "DMR1", "DMR2", "YSF", "P25", "NXDN", "M17", "POCSAG"}
<1> HIDE DEF q8
<1>9. G(q9, Queues!AllProtocols)
  BY <1>8, <1>11, {"DStar", "DMR1", "DMR2", "YSF", "P25", "NXDN", "M17", "POCSAG"} \cup {"FM"}
                    = Queues!AllProtocols
     DEF Queues!AllProtocols
<1>12. Queues!AllProtocols \cap ps = ps
  BY Fitted
<1> QED
  BY <1>9, <1>10, <1>12 DEF G

LEMMA FeedKeeps == ASSUME QueuesInv, Queues!Feed PROVE QueuesInv' /\ RoomKept
<1> DEFINE ps == {p \in fit.protocols : Queues!MayFeed(p)}
<1>1. /\ turn = "FEED" /\ turn' = "READ"
      /\ toModem' = Queues!Fed(ps)
      /\ space' = [p \in fit.protocols |-> space[p] - Queues!Taking(p, ps)]
      /\ taken' = [p \in fit.protocols |-> IF p \in ps THEN Head(tx[p]).n ELSE taken[p]]
      /\ tx' = [p \in fit.protocols |-> IF p \in ps THEN Queues!Rest(tx[p]) ELSE tx[p]]
      /\ fed' = [p \in fit.protocols |->
                   IF Queues!Asked THEN fed[p] + Queues!Taking(p, ps) ELSE 0]
      /\ ahead' = [p \in fit.protocols |-> IF fed'[p] > ahead[p] THEN fed'[p] ELSE ahead[p]]
      /\ UNCHANGED <<fit, rx, room, toHost, received, handed, got, excused>>
  BY DEF Queues!Feed, Queues!fitted
<1>2. /\ ps \in SUBSET fit.protocols /\ \A p \in ps : tx[p] # << >>
      /\ \A p \in ps : space[p] > 1 /\ (Queues!Units(p, tx[p][2].kind) = 4 => space[p] > 4)
  BY DEF Queues!MayFeed, Queues!Units
<1> HIDE DEF ps
<1>3. QueuesType /\ RxAll /\ TxAll
  BY DEF QueuesInv
<1>4. Grown(toModem', ps)
  BY <1>1, <1>2, <1>3, GrowsByAll
<1>5. /\ tx \in [fit.protocols -> Seq(Runs)] /\ taken \in [fit.protocols -> Nat]
      /\ handed \in [fit.protocols -> Nat] /\ space \in [fit.protocols -> Int]
      /\ room \in [fit.protocols -> Nat] /\ fed \in [fit.protocols -> Nat]
      /\ ahead \in [fit.protocols -> Nat] /\ toModem \in Seq(Orders)
  BY <1>3 DEF QueuesType
<1>6. ASSUME NEW p \in fit.protocols
      PROVE  /\ Queues!Taking(p, ps) \in {0, 1, 4}
             /\ fed'[p] \in Nat /\ ahead'[p] \in Nat
             /\ fed'[p] = IF Queues!Asked THEN fed[p] + Queues!Taking(p, ps) ELSE 0
             /\ fed'[p] <= ahead'[p] /\ ahead[p] <= ahead'[p]
             /\ space'[p] = space[p] - Queues!Taking(p, ps)
  <2>1. Queues!Taking(p, ps) \in {0, 1, 4}
    BY DEF Queues!Taking, Queues!Units
  <2>2. fed[p] \in Nat /\ ahead[p] \in Nat
    BY <1>5
  <2>3. /\ fed'[p] = IF Queues!Asked THEN fed[p] + Queues!Taking(p, ps) ELSE 0
        /\ ahead'[p] = IF fed'[p] > ahead[p] THEN fed'[p] ELSE ahead[p]
        /\ space'[p] = space[p] - Queues!Taking(p, ps)
    BY <1>1
  <2> QED
    BY ONLY <2>1, <2>2, <2>3
<1>7. QueuesType'
  <2>1. toModem' \in Seq(Orders)
    BY <1>4 DEF Grown
  <2>3. /\ space' \in [fit.protocols -> Int]
        /\ fed' \in [fit.protocols -> Nat] /\ ahead' \in [fit.protocols -> Nat]
    <3>1. \A p \in fit.protocols : space'[p] \in Int /\ fed'[p] \in Nat /\ ahead'[p] \in Nat
      <4> SUFFICES ASSUME NEW p \in fit.protocols
                   PROVE  space'[p] \in Int /\ fed'[p] \in Nat /\ ahead'[p] \in Nat
        OBVIOUS
      <4>1. space[p] \in Int
        BY <1>5
      <4>2. Queues!Taking(p, ps) \in {0, 1, 4} /\ space'[p] = space[p] - Queues!Taking(p, ps)
        BY <1>6
      <4>3. fed'[p] \in Nat /\ ahead'[p] \in Nat
        BY <1>6
      <4> QED
        BY ONLY <4>1, <4>2, <4>3
    <3>2. /\ space' = [p \in fit.protocols |-> space'[p]]
          /\ fed' = [p \in fit.protocols |-> fed'[p]]
          /\ ahead' = [p \in fit.protocols |-> ahead'[p]]
      BY <1>1
    <3> QED
      BY ONLY <3>1, <3>2, Zenon
  <2>4. ASSUME NEW p \in fit.protocols PROVE tx'[p] \in Seq(Runs) /\ taken'[p] \in Nat
    <3>1. CASE p \in ps
      <4>1. Head(tx[p]) \in Runs /\ tx[p] \in Seq(Runs)
        BY <1>2, <1>5, <3>1
      <4> QED
        BY <1>1, <3>1, <4>1, RestType DEF Runs
    <3>2. CASE p \notin ps
      BY <1>1, <1>5, <3>2
    <3> QED
      BY <3>1, <3>2
  <2>5. tx' \in [fit.protocols -> Seq(Runs)] /\ taken' \in [fit.protocols -> Nat]
    <3>1. tx' = [p \in fit.protocols |-> tx'[p]] /\ taken' = [p \in fit.protocols |-> taken'[p]]
      BY <1>1
    <3> QED
      BY ONLY <2>4, <3>1, Zenon
  <2> QED
    BY <1>1, <1>3, <1>6, <2>1, <2>3, <2>5, SameSets DEF QueuesType
<1>8. RxAll'
  BY <1>1, <1>3, RxSame
<1>9. TxAll'
  <2> SUFFICES ASSUME NEW p \in fit.protocols, p \notin excused
               PROVE  IsPairs(tx'[p], taken'[p], handed[p])
    BY <1>1 DEF TxAll, TxInv, IsPairs
  <2>1. IsPairs(tx[p], taken[p], handed[p])
    BY <1>3 DEF TxAll, TxInv
  <2>2. CASE p \in ps
    <3>1. tx'[p] = Queues!Rest(tx[p]) /\ taken'[p] = Head(tx[p]).n
      BY <1>1, <2>2
    <3>2. Head(tx[p]).n = taken[p] + 1 /\ IsPairs(Queues!Rest(tx[p]), taken[p] + 1, handed[p])
      BY <1>2, <1>5, <2>1, <2>2, PairsRest
    <3> QED
      BY <3>1, <3>2
  <2>3. CASE p \notin ps
    <3>1. tx'[p] = tx[p] /\ taken'[p] = taken[p]
      BY <1>1, <2>3
    <3> QED
      BY <2>1, <3>1
  <2> QED
    BY <2>2, <2>3
<1>10. RoomKept
  <2> SUFFICES ASSUME RoomAll, NEW p \in fit.protocols PROVE RoomInv(p)'
    BY <1>1 DEF RoomAll, RoomKept
  <2> DEFINE more == Queues!Taking(p, ps)
  <2>1. RoomInv(p)
    BY DEF RoomAll
  <2>2. /\ UnitsOf(toModem', p) = Under(p) + more
        /\ \A g \in DOMAIN toModem : UnitsAfter(toModem', p, g) = UnitsAfter(toModem, p, g) + more
    BY <1>4 DEF Grown
  <2>3. Under(p)' = Under(p) + more
    BY <2>2 DEF Under, UnitsOf, FramesOf, Counts
  <2>4. /\ Under(p) \in Nat /\ \A g : UnitsAfter(toModem, p, g) \in Nat
        /\ room[p] \in Nat /\ space[p] \in Int /\ fed[p] \in Nat /\ ahead[p] \in Nat
    <3>1. Under(p) \in Nat /\ \A g : UnitsAfter(toModem, p, g) \in Nat
      BY ONLY <1>5, Weighed DEF Under
    <3> QED
      BY <1>5, <3>1
  <2>5. /\ more \in {0, 1, 4} /\ fed'[p] \in Nat /\ ahead'[p] \in Nat
        /\ fed'[p] = IF Queues!Asked THEN fed[p] + more ELSE 0
        /\ fed'[p] <= ahead'[p] /\ ahead[p] <= ahead'[p]
        /\ space'[p] = space[p] - more
    BY <1>6
  <2>9. more # 0 => space[p] > more
    BY <1>2 DEF Queues!Taking, Queues!Units
  <2> HIDE DEF more
  <2>6. /\ room'[p] <= Room[p]
        /\ Under(p)' <= room'[p] + ahead'[p] - 1
        /\ space'[p] <= room'[p] - Under(p)' + ahead'[p]
    <3>1. /\ room[p] <= Room[p] /\ Under(p) <= room[p] + ahead[p] - 1
          /\ space[p] <= room[p] - Under(p) + ahead[p]
      BY <2>1 DEF RoomInv
    <3>2. room' = room
      BY <1>1
    <3> QED
      BY ONLY <2>3, <2>4, <2>5, <2>9, <3>1, <3>2
  <2>7. ASSUME NEW i \in DOMAIN toHost, toHost[i].what = "STATUS"
        PROVE  toHost[i].spaces[p] <= room[p] - Under(p)' + fed'[p]
    <3>1. Queues!Asked
      BY <2>7 DEF Queues!Asked
    <3>2. toHost[i].spaces[p] <= room[p] - Under(p) + fed[p]
      BY <2>1, <2>7 DEF RoomInv
    <3>3. toHost[i].spaces[p] \in Nat
      <4>1. toHost[i] \in Statuses \cup Receptions
        BY <1>3 DEF QueuesType
      <4> QED
        BY <2>7, <4>1, Answers
    <3> QED
      BY ONLY <2>3, <2>4, <2>5, <3>1, <3>2, <3>3
  <2>8. ASSUME NEW g \in DOMAIN toModem', toModem'[g].what = "GET_STATUS"
        PROVE  UnitsAfter(toModem', p, g) <= fed'[p]
    <3>1. g \in DOMAIN toModem /\ toModem[g].what = "GET_STATUS"
      BY <1>4, <2>8 DEF Grown
    <3>2. Queues!Asked
      BY <3>1 DEF Queues!Asked
    <3>3. UnitsAfter(toModem, p, g) <= fed[p]
      BY <2>1, <3>1 DEF RoomInv
    <3>4. UnitsAfter(toModem', p, g) = UnitsAfter(toModem, p, g) + more
      BY <2>2, <3>1
    <3>5. UnitsAfter(toModem, p, g) \in Nat
      BY <2>4
    <3> QED
      BY ONLY <2>4, <2>5, <3>2, <3>3, <3>4, <3>5
  <2> QED
    BY <1>1, <2>5, <2>6, <2>7, <2>8 DEF RoomInv
<1> QED
  BY <1>7, <1>8, <1>9, <1>10 DEF QueuesInv

LEMMA ModemDrainsKeeps == ASSUME QueuesInv, Queues!ModemDrains PROVE QueuesInv' /\ RoomKept
<1>1. PICK p \in fit.protocols :
        /\ room[p] < Room[p]
        /\ room' = [room EXCEPT ![p] = @ + 1]
        /\ UNCHANGED <<fit, turn, rx, tx, space, toModem, toHost, fed, ahead, received, handed, got,
                       taken, excused>>
  BY DEF Queues!ModemDrains, Queues!fitted
<1>2. QueuesType /\ RxAll /\ TxAll
  BY DEF QueuesInv
<1>3. room \in [fit.protocols -> Nat] /\ toModem \in Seq(Orders) /\ fit \in Fits
  BY <1>2 DEF QueuesType
<1>4. room' \in [fit.protocols -> Nat]
  BY <1>1, <1>3
<1>5. QueuesType'
  BY <1>1, <1>2, <1>4, SameSets DEF QueuesType
<1>6. RxAll' /\ TxAll'
  BY <1>1, <1>2, RxSame, TxSame
<1>7. RoomKept
  <2> SUFFICES ASSUME RoomAll, NEW r \in fit.protocols PROVE RoomInv(r)'
    BY <1>1 DEF RoomAll, RoomKept
  <2>1. RoomInv(r)
    BY DEF RoomAll
  <2>2. room[r] \in Nat /\ room'[r] \in Nat /\ room[r] <= room'[r]
    BY <1>1, <1>3, <1>4
  <2>3. room'[r] <= Room[r]
    <3>1. CASE r = p
      <4>1. room'[r] = room[r] + 1 /\ room[r] < Room[r]
        BY <1>1, <1>3, <3>1
      <4>2. Room[r] \in Nat
        BY <1>3, ModemAssumption DEF ModemAssumption
      <4> QED
        BY <2>2, <4>1, <4>2
    <3>2. CASE r # p
      BY <1>1, <1>3, <2>1, <3>2 DEF RoomInv
    <3> QED
      BY <3>1, <3>2
  <2>4. /\ Under(r) \in Nat /\ Under(r)' = Under(r)
        /\ space[r] \in Int /\ fed[r] \in Nat /\ ahead[r] \in Nat
    <3>1. Under(r) \in Nat
      BY ONLY <1>3, Weighed DEF Under
    <3>2. space[r] \in Int /\ fed[r] \in Nat /\ ahead[r] \in Nat
      BY <1>2 DEF QueuesType
    <3> QED
      BY <1>1, <3>1, <3>2, UnderSame
  <2>5. ASSUME NEW i \in DOMAIN toHost, toHost[i].what = "STATUS"
        PROVE  toHost[i].spaces[r] <= room'[r] - Under(r) + fed[r]
    <3>1. toHost[i].spaces[r] \in Nat
      <4>1. toHost[i] \in Statuses \cup Receptions
        BY <1>2 DEF QueuesType
      <4> QED
        BY <2>5, <4>1, Answers
    <3>2. toHost[i].spaces[r] <= room[r] - Under(r) + fed[r]
      BY <2>1, <2>5 DEF RoomInv
    <3> QED
      BY ONLY <2>2, <2>4, <3>1, <3>2
  <2>6. Under(r) <= room'[r] + ahead[r] - 1 /\ space[r] <= room'[r] - Under(r) + ahead[r]
    <3>1. Under(r) <= room[r] + ahead[r] - 1 /\ space[r] <= room[r] - Under(r) + ahead[r]
      BY <2>1 DEF RoomInv
    <3> QED
      BY ONLY <2>2, <2>4, <3>1
  <2>7. fed[r] <= ahead[r] /\ \A g \in DOMAIN toModem :
          toModem[g].what = "GET_STATUS" => UnitsAfter(toModem, r, g) <= fed[r]
    BY <2>1 DEF RoomInv
  <2> QED
    BY <1>1, <2>3, <2>4, <2>5, <2>6, <2>7, UnderSame DEF RoomInv
<1> QED
  BY <1>5, <1>6, <1>7 DEF QueuesInv

LEMMA ModemReceivesKeeps == ASSUME QueuesInv, Queues!ModemReceives PROVE QueuesInv' /\ RoomKept
<1>1. PICK p \in fit.protocols \ {"POCSAG"} : \E kind \in DOMAIN Queues!Received(p) :
        /\ received[p] < fit.received
        /\ received' = [received EXCEPT ![p] = @ + 1]
        /\ toHost' = Append(toHost, [what |-> "RECEIVED", of |-> p, kind |-> kind,
                                     n |-> received[p] + 1])
        /\ UNCHANGED <<fit, turn, rx, tx, space, room, toModem, fed, ahead, handed, got, taken,
                       excused>>
  BY DEF Queues!ModemReceives, Queues!fitted
<1>2. PICK kind \in DOMAIN Queues!Received(p) :
        toHost' = Append(toHost, [what |-> "RECEIVED", of |-> p, kind |-> kind,
                                  n |-> received[p] + 1])
  BY <1>1
<1>3. QueuesType /\ RxAll /\ TxAll
  BY DEF QueuesInv
<1> DEFINE f == [what |-> "RECEIVED", of |-> p, kind |-> kind, n |-> received[p] + 1]
<1>4. /\ toHost \in Seq(Statuses \cup Receptions)
      /\ received \in [fit.protocols -> Nat] /\ got \in [fit.protocols -> Nat]
  BY <1>3 DEF QueuesType
<1>5. f \in Receptions /\ f.what = "RECEIVED" /\ f.of = p /\ f.n = received[p] + 1
  <2>1. kind \in Sorts
    <3>1. p \in Queues!AllProtocols
      BY <1>3, Fitted
    <3> QED
      BY <1>1, <1>2, <3>1, Tags
  <2> QED
    BY <1>1, <1>2, <1>4, <2>1 DEF Receptions
<1>6. toHost' = Append(toHost, f)
  BY <1>2
<1> HIDE DEF f
<1>7. received' = [received EXCEPT ![p] = received[p] + 1] /\ received' \in [fit.protocols -> Nat]
  BY <1>1, <1>4
<1>8. QueuesType'
  <2>1. toHost' \in Seq(Statuses \cup Receptions)
    BY <1>4, <1>5, <1>6
  <2> QED
    BY <1>1, <1>3, <1>7, <2>1, SameSets DEF QueuesType
<1>9. TxAll'
  BY <1>1, <1>3, TxSame
<1>10. RxAll'
  <2> SUFFICES ASSUME NEW r \in fit.protocols PROVE RxInv(r)'
    BY <1>1 DEF RxAll
  <2> DEFINE last == IF Waits(r) THEN got[r] + 1 ELSE got[r]
  <2>1. RxInv(r)
    BY <1>3 DEF RxAll
  <2>2. last \in Nat /\ received[r] \in Nat
    BY <1>4
  <2>3. Queues!InOrder(toHost, Queues!Coming(toHost, r), last, received[r]) /\ last <= received[r]
    BY <2>1 DEF RxInv
  <2>4. last' = last /\ Waits(r)' = Waits(r)
    BY <1>1 DEF Waits
  <2> HIDE DEF last
  <2>5. f \in Statuses \cup Receptions
    BY <1>5
  <2>6. /\ ~(f.what = "RECEIVED" /\ f.of = r)
             => Queues!InOrder(toHost', Queues!Coming(toHost', r), last, received[r])
        /\ f.what = "RECEIVED" /\ f.of = r /\ f.n = received[r] + 1 /\ last <= received[r]
             => Queues!InOrder(toHost', Queues!Coming(toHost', r), last, received[r] + 1)
    <3> HIDE DEF f
    <3> QED
      BY ONLY <1>4, <1>6, <2>2, <2>3, <2>5, ComingAppend
  <2>7. /\ Queues!InOrder(toHost', Queues!Coming(toHost', r), last, received'[r])
        /\ last <= received'[r]
    <3>1. CASE r = p
      <4>1. received'[r] = received[r] + 1
        BY <1>4, <1>7, <3>1
      <4> QED
        BY <1>5, <2>2, <2>3, <2>6, <3>1, <4>1
    <3>2. CASE r # p
      <4>1. received'[r] = received[r]
        BY <1>4, <1>7, <3>2
      <4> QED
        BY <1>5, <2>3, <2>6, <3>2, <4>1
    <3> QED
      BY <3>1, <3>2
  <2>8. Waits(r) => /\ turn \notin {"WRITE", "CLOCK"}
                    /\ IsReceipt(rx[r]) /\ rx[r][1].n = got[r] + 1
    BY <2>1 DEF RxInv
  <2> QED
    BY <1>1, <2>4, <2>7, <2>8 DEF RxInv, IsReceipt, Queues!InOrder, Queues!Coming, last
<1>11. RoomKept
  <2> SUFFICES ASSUME RoomAll, NEW r \in fit.protocols PROVE RoomInv(r)'
    BY <1>1 DEF RoomAll, RoomKept
  <2>1. RoomInv(r)
    BY DEF RoomAll
  <2>2. ASSUME NEW i \in DOMAIN toHost', toHost'[i].what = "STATUS"
        PROVE  i \in DOMAIN toHost /\ toHost'[i] = toHost[i]
    BY <1>4, <1>5, <1>6, <2>2
  <2>3. \A i \in DOMAIN toHost' :
          toHost'[i].what = "STATUS" => toHost'[i].spaces[r] <= room[r] - Under(r) + fed[r]
    BY <2>1, <2>2 DEF RoomInv
  <2> QED
    BY <1>1, <2>1, <2>3, UnderSame DEF RoomInv
<1> QED
  BY <1>8, <1>9, <1>10, <1>11 DEF QueuesInv

\* What the modem does with what it takes.
LEMMA Taken ==
  ASSUME QueuesType, Queues!ModemTakes,
         NEW f, f = Head(toModem)
  PROVE  /\ toModem' = Tail(toModem) /\ toModem # << >> /\ f \in Orders
         /\ UNCHANGED <<fit, turn, rx, tx, space, fed, ahead, received, handed, got, taken, excused>>
         /\ room' \in [fit.protocols -> Nat] /\ toHost' \in Seq(Statuses \cup Receptions)
         /\ f.what = "FRAME" => /\ f.of \in fit.protocols /\ f.units \in {1, 4}
                                /\ UNCHANGED toHost
         /\ \/ /\ f.what = "FRAME" /\ f.units <= room[f.of]
               /\ room' = [room EXCEPT ![f.of] = @ - f.units]
            \/ /\ f.what = "FRAME" /\ f.units > room[f.of] /\ UNCHANGED room
            \/ /\ f.what = "ABORT" /\ UNCHANGED toHost /\ f.of \in fit.protocols
               /\ room' = [room EXCEPT ![f.of] = Room[f.of]]
            \/ /\ f.what = "GET_STATUS" /\ UNCHANGED room
               /\ toHost' = Append(toHost, [what |-> "STATUS", spaces |-> room])
<1>1. /\ toModem # << >> /\ toModem' = Tail(toModem)
      /\ UNCHANGED <<fit, turn, rx, tx, space, fed, ahead, received, handed, got, taken, excused>>
  BY DEF Queues!ModemTakes
<1>2. /\ toModem \in Seq(Orders) /\ toHost \in Seq(Statuses \cup Receptions)
      /\ room \in [fit.protocols -> Nat] /\ fit \in Fits
  BY DEF QueuesType
<1>3. f \in Orders
  BY <1>1, <1>2
<1>4. /\ f.what \in {"FRAME", "ABORT", "GET_STATUS"} /\ f.units \in Nat
      /\ f.what # "GET_STATUS" => f.of \in fit.protocols
      /\ f.what = "FRAME" => f.units \in {1, 4}
  BY <1>3 DEF Orders
<1>5. CASE f.what = "FRAME" /\ f.units <= room[f.of]
  <2>0. ~(f.units > room[f.of])
    BY <1>2, <1>4, <1>5
  <2>1. room' = [room EXCEPT ![f.of] = @ - f.units] /\ UNCHANGED toHost
    BY <1>5, <2>0 DEF Queues!ModemTakes
  <2>2. room[f.of] - f.units \in Nat
    BY <1>2, <1>4, <1>5
  <2>3. room' \in [fit.protocols -> Nat]
    BY <1>2, <1>4, <1>5, <2>1, <2>2
  <2> QED
    BY <1>1, <1>2, <1>3, <1>4, <1>5, <2>1, <2>3
<1>6. CASE f.what = "FRAME" /\ f.units > room[f.of]
  <2>1. ~(f.units <= room[f.of])
    BY <1>2, <1>4, <1>6
  <2>2. UNCHANGED <<toHost, room>>
    BY <1>4, <1>6, <2>1 DEF Queues!ModemTakes
  <2> QED
    BY <1>1, <1>2, <1>3, <1>4, <1>6, <2>2
<1>7. CASE f.what = "ABORT"
  <2>1. room' = [room EXCEPT ![f.of] = Room[f.of]] /\ UNCHANGED toHost
    BY <1>4, <1>7 DEF Queues!ModemTakes
  <2>2. Room[f.of] \in Nat
    BY <1>4, <1>7, Fitted
  <2>3. room' \in [fit.protocols -> Nat]
    BY <1>2, <2>1, <2>2
  <2> QED
    BY <1>1, <1>2, <1>3, <1>4, <1>7, <2>1, <2>3
<1>8. CASE f.what = "GET_STATUS"
  <2>1. /\ toHost' = Append(toHost, [what |-> "STATUS", spaces |-> room])
        /\ UNCHANGED room
    BY <1>4, <1>8 DEF Queues!ModemTakes
  <2>2. [what |-> "STATUS", spaces |-> room] \in Statuses
    BY <1>2 DEF Statuses
  <2>3. toHost' \in Seq(Statuses \cup Receptions)
    BY <1>2, <2>1, <2>2
  <2> QED
    BY <1>1, <1>2, <1>3, <1>4, <1>8, <2>1, <2>3
<1> QED
  <2>1. f.units <= room[f.of] \/ f.units > room[f.of]  \/ f.what # "FRAME"
    BY <1>2, <1>4
  <2> QED
    BY <1>4, <1>5, <1>6, <1>7, <1>8, <2>1

LEMMA ModemTakesKeeps == ASSUME QueuesInv, Queues!ModemTakes PROVE QueuesInv' /\ RoomKept
<1> DEFINE f == Head(toModem)
<1>1. QueuesType /\ RxAll /\ TxAll
  BY DEF QueuesInv
<1>2. /\ toModem' = Tail(toModem) /\ toModem # << >> /\ f \in Orders
      /\ UNCHANGED <<fit, turn, rx, tx, space, fed, ahead, received, handed, got, taken, excused>>
      /\ room' \in [fit.protocols -> Nat] /\ toHost' \in Seq(Statuses \cup Receptions)
      /\ f.what = "FRAME" => /\ f.of \in fit.protocols /\ f.units \in {1, 4}
                             /\ UNCHANGED toHost
  BY <1>1, Taken
<1>3. \/ /\ f.what = "FRAME" /\ f.units <= room[f.of]
         /\ room' = [room EXCEPT ![f.of] = @ - f.units]
      \/ /\ f.what = "FRAME" /\ f.units > room[f.of] /\ UNCHANGED room
      \/ /\ f.what = "ABORT" /\ UNCHANGED toHost /\ f.of \in fit.protocols
         /\ room' = [room EXCEPT ![f.of] = Room[f.of]]
      \/ /\ f.what = "GET_STATUS" /\ UNCHANGED room
         /\ toHost' = Append(toHost, [what |-> "STATUS", spaces |-> room])
  BY <1>1, Taken
<1>4. /\ toModem \in Seq(Orders) /\ toHost \in Seq(Statuses \cup Receptions)
      /\ room \in [fit.protocols -> Nat] /\ got \in [fit.protocols -> Nat]
      /\ received \in [fit.protocols -> Nat]
  BY <1>1 DEF QueuesType
<1> DEFINE status == [what |-> "STATUS", spaces |-> room]
<1>5. f.what # "GET_STATUS" => UNCHANGED toHost
  BY <1>2, <1>3
<1>6. f.what = "GET_STATUS" => toHost' = Append(toHost, status)
  BY <1>3
<1>7. status.what = "STATUS" /\ status.spaces = room /\ status \in Statuses
  BY <1>4 DEF Statuses
<1> HIDE DEF f, status
<1>8. QueuesType'
  <2>1. toModem' \in Seq(Orders)
    BY <1>2, <1>4
  <2> QED
    BY <1>1, <1>2, <2>1, SameSets DEF QueuesType
<1>9. TxAll'
  BY <1>1, <1>2, TxSame
<1>10. RxAll'
  <2> SUFFICES ASSUME NEW r \in fit.protocols PROVE RxInv(r)'
    BY <1>2 DEF RxAll
  <2> DEFINE last == IF Waits(r) THEN got[r] + 1 ELSE got[r]
  <2>1. RxInv(r)
    BY <1>1 DEF RxAll
  <2>2. last \in Nat /\ received[r] \in Nat
    BY <1>4
  <2>3. Queues!InOrder(toHost, Queues!Coming(toHost, r), last, received[r]) /\ last <= received[r]
    BY <2>1 DEF RxInv
  <2>4. last' = last /\ Waits(r)' = Waits(r)
    BY <1>2 DEF Waits
  <2>5. Waits(r) => /\ turn \notin {"WRITE", "CLOCK"}
                    /\ IsReceipt(rx[r]) /\ rx[r][1].n = got[r] + 1
    BY <2>1 DEF RxInv
  <2> HIDE DEF last
  <2>6. Queues!InOrder(toHost', Queues!Coming(toHost', r), last, received[r])
    <3>1. CASE f.what = "GET_STATUS"
      <4>1. toHost' = Append(toHost, status) /\ status \in Statuses \cup Receptions
        BY <1>6, <1>7, <3>1
      <4>2. ~(status.what = "RECEIVED" /\ status.of = r)
        BY <1>7
      <4> QED
        BY ONLY <1>4, <2>2, <2>3, <4>1, <4>2, ComingAppend
    <3>2. CASE f.what # "GET_STATUS"
      BY <1>5, <2>3, <3>2
    <3> QED
      BY <3>1, <3>2
  <2> QED
    BY <1>2, <2>3, <2>4, <2>5, <2>6 DEF RxInv, IsReceipt, Queues!InOrder, Queues!Coming, last
<1>11. RoomKept
  <2> SUFFICES ASSUME RoomAll, NEW p \in fit.protocols PROVE RoomInv(p)'
    BY <1>2 DEF RoomAll, RoomKept
  <2> DEFINE less == Takes(f, p)
  <2>1. /\ UnitsOf(toModem', p) = UnitsAfter(toModem, p, 1)
        /\ Under(p)' = UnitsOf(toModem', p) /\ Under(p)' = Under(p) - less
        /\ Under(p)' \in Nat /\ Under(p) \in Nat
        /\ \A g \in DOMAIN toModem' : /\ g + 1 \in DOMAIN toModem
                                      /\ toModem'[g] = toModem[g + 1]
                                      /\ UnitsAfter(toModem', p, g) = UnitsAfter(toModem, p, g + 1)
    <3> DEFINE t == Tail(toModem)
    <3>1. /\ UnitsOf(t, p) = UnitsAfter(toModem, p, 1)
          /\ UnitsOf(t, p) = UnitsOf(toModem, p) - less
          /\ \A g \in DOMAIN t : UnitsAfter(t, p, g) = UnitsAfter(toModem, p, g + 1)
      BY ONLY <1>2, <1>4, WeightTail DEF f
    <3>2. \A g \in DOMAIN t : g + 1 \in DOMAIN toModem /\ t[g] = toModem[g + 1]
      BY <1>2, <1>4
    <3>3. t \in Seq(Orders) /\ toModem' = t
      BY <1>2, <1>4
    <3> HIDE DEF t, less
    <3>4. UnitsOf(t, p) \in Nat /\ UnitsOf(toModem, p) \in Nat
      BY ONLY <1>4, <3>3, Weighed
    <3>5. Under(p)' = UnitsOf(toModem', p)
      BY DEF Under, UnitsOf, FramesOf, Counts
    <3> QED
      BY <3>1, <3>2, <3>3, <3>4, <3>5 DEF Under
  <2>2. /\ RoomInv(p) /\ room[p] \in Nat /\ room'[p] \in Nat /\ space[p] \in Int
        /\ Room[p] \in Nat /\ fed[p] \in Nat /\ ahead[p] \in Nat
    <3>1. space[p] \in Int /\ fed[p] \in Nat /\ ahead[p] \in Nat
      BY <1>1 DEF QueuesType
    <3>2. Room[p] \in Nat
      BY <1>1, Fitted
    <3> QED
      BY <1>2, <1>4, <3>1, <3>2 DEF RoomAll
\* The room that is left over does not shrink.
  <2>3. room'[p] <= Room[p] /\ room[p] - Under(p) <= room'[p] - Under(p)'
    <3>1. room[p] <= Room[p] /\ less \in Nat
      BY <1>2, <2>2 DEF RoomInv, Takes
    <3>2. room'[p] = room[p] - less \/ (room[p] <= room'[p] /\ room'[p] <= Room[p])
      <4>1. CASE f.what = "FRAME" /\ f.units <= room[f.of]
        <5>1. room' = [room EXCEPT ![f.of] = @ - f.units]
          BY <1>2, <1>3, <1>4, <4>1
        <5> QED
          BY <1>2, <1>4, <2>2, <3>1, <4>1, <5>1 DEF Takes
      <4>2. CASE ~(f.what = "FRAME" /\ f.units <= room[f.of])
        <5>1. room' = room \/ (f.of \in fit.protocols /\ room' = [room EXCEPT ![f.of] = Room[f.of]])
          BY <1>3, <4>2
        <5>2. room'[p] = room[p] \/ room'[p] = Room[p]
          BY <1>4, <5>1
        <5> QED
          BY <2>2, <3>1, <5>2
      <4> QED
        BY <4>1, <4>2
    <3> HIDE DEF less
    <3> QED
      BY <2>1, <2>2, <3>1, <3>2
  <2> HIDE DEF less
  <2>4. /\ Under(p)' <= room'[p] + ahead[p] - 1 /\ fed[p] <= ahead[p]
        /\ space[p] <= room'[p] - Under(p)' + ahead[p]
    <3>1. /\ Under(p) <= room[p] + ahead[p] - 1 /\ fed[p] <= ahead[p]
          /\ space[p] <= room[p] - Under(p) + ahead[p]
      BY <2>2 DEF RoomInv
    <3> QED
      BY ONLY <2>1, <2>2, <2>3, <3>1
  <2>5. ASSUME NEW i \in DOMAIN toHost', toHost'[i].what = "STATUS"
        PROVE  toHost'[i].spaces[p] <= room'[p] - Under(p)' + fed[p]
    <3>1. CASE i \in DOMAIN toHost /\ toHost'[i] = toHost[i]
      <4>1. toHost[i].spaces[p] <= room[p] - Under(p) + fed[p]
        BY <2>2, <2>5, <3>1 DEF RoomInv
      <4>2. toHost[i].spaces[p] \in Nat
        BY <1>4, <2>5, <3>1, Answers
      <4>3. toHost'[i] = toHost[i]
        BY <3>1
      <4> QED
        BY ONLY <2>1, <2>2, <2>3, <4>1, <4>2, <4>3
    <3>2. CASE ~(i \in DOMAIN toHost /\ toHost'[i] = toHost[i])
      <4>1. f.what = "GET_STATUS" /\ toHost'[i] = status
        <5>1. f.what = "GET_STATUS"
          BY <1>5, <2>5, <3>2
        <5>2. \A j \in DOMAIN Append(toHost, status) :
                \/ j \in DOMAIN toHost /\ Append(toHost, status)[j] = toHost[j]
                \/ Append(toHost, status)[j] = status
          BY ONLY <1>4
        <5> QED
          BY <1>6, <2>5, <3>2, <5>1, <5>2
      <4>2. room' = room /\ toHost'[i].spaces = room
        BY <1>3, <1>7, <4>1
      <4>3. 1 \in DOMAIN toModem /\ toModem[1].what = "GET_STATUS"
        BY <1>2, <1>4, <4>1 DEF f
      <4>4. Under(p)' <= fed[p]
        BY <2>1, <2>2, <4>3 DEF RoomInv
      <4> QED
        BY <2>1, <2>2, <4>2, <4>4
    <3> QED
      BY <3>1, <3>2
  <2>6. ASSUME NEW g \in DOMAIN toModem', toModem'[g].what = "GET_STATUS"
        PROVE  UnitsAfter(toModem', p, g) <= fed[p]
    BY <2>1, <2>2, <2>6 DEF RoomInv
  <2> QED
    BY <1>2, <2>3, <2>4, <2>5, <2>6 DEF RoomInv
<1> QED
  BY <1>8, <1>9, <1>10, <1>11 DEF QueuesInv

LEMMA QueuesStep == ASSUME QueuesInv, Queues!Next PROVE QueuesInv' /\ RoomKept
BY ReadKeeps, QueueKeeps, AbortKeeps, ClockKeeps, WaitKeeps, FeedKeeps, ModemTakesKeeps,
   ModemDrainsKeeps, ModemReceivesKeeps
   DEF Queues!Next

LEMMA QueuesRest ==
  ASSUME QueuesInv, UNCHANGED <<queueVars, transit>> PROVE QueuesInv' /\ RoomKept
<1>1. UNCHANGED <<fit, turn, rx, tx, space, room, toModem, toHost, fed, ahead, received, handed,
                  got, taken, excused>>
  BY DEF queueVars, transit
<1>2. QueuesType'
  BY <1>1, SameSets DEF QueuesInv, QueuesType
<1> QED
  BY <1>1, <1>2, RxSame, TxSame, RoomSame DEF QueuesInv, RoomKept

\* What waits to be read and what is on its way are one sequence without a gap.
LEMMA WayInOrder ==
  ASSUME QueuesInv, NEW p \in fit.protocols
  PROVE  LET way == rx[p] \o toHost
         IN /\ Queues!Whole(rx[p])
            /\ Queues!InOrder(way, Queues!Starts(way) \cup Queues!Coming(way, p), got[p], received[p])
<1> DEFINE way == rx[p] \o toHost
           L == Len(rx[p])
           N == Len(toHost)
           C == Queues!Coming(toHost, p)
           S == Queues!Starts(way) \cup Queues!Coming(way, p)
           mid == IF Waits(p) THEN got[p] + 1 ELSE got[p]
<1>1. QueuesType /\ RxInv(p)
  BY DEF QueuesInv, RxAll
<1>2. /\ rx[p] \in Seq(Runs) /\ toHost \in Seq(Statuses \cup Receptions)
      /\ got[p] \in Nat /\ received[p] \in Nat
  BY <1>1 DEF QueuesType
<1>3. /\ \A i \in 1 .. N : toHost[i].what \in {"STATUS", "RECEIVED"}
      /\ \A i \in 1 .. L : rx[p][i].what \in {"LENGTH", "FRAME", "TAG", "PAYLOAD"}
  <2>1. \A i \in 1 .. N : toHost[i] \in Statuses \cup Receptions
    BY <1>2
  <2>2. \A i \in 1 .. L : rx[p][i] \in Runs
    BY <1>2
  <2> QED
    BY <2>1, <2>2, Answers DEF Runs
<1>4. /\ L \in Nat /\ N \in Nat /\ DOMAIN toHost = 1 .. N /\ DOMAIN way = 1 .. L + N
      /\ \A i \in 1 .. L : way[i] = rx[p][i]
      /\ \A i \in 1 .. N : way[L + i] = toHost[i]
  BY <1>2
<1>5. /\ \A i \in C : toHost[i].n \in mid + 1 .. received[p]
      /\ \A i, j \in C : i < j => toHost[i].n < toHost[j].n
      /\ \A n \in mid + 1 .. received[p] : \E i \in C : toHost[i].n = n
      /\ mid <= received[p]
  BY <1>1 DEF RxInv, Queues!InOrder
<1>6. /\ Waits(p) => IsReceipt(rx[p]) /\ rx[p][1].n = mid /\ mid = got[p] + 1
      /\ ~Waits(p) => rx[p] = << >> /\ mid = got[p]
  BY <1>1 DEF RxInv, Waits
<1>7. Queues!Whole(rx[p])
  <2>1. CASE Waits(p)
    BY <1>2, <1>6, <2>1, ReceiptRest
  <2>2. CASE ~Waits(p)
    BY <1>6, <2>2 DEF Queues!Whole, Queues!Starts
  <2> QED
    BY <2>1, <2>2
<1>8. mid \in Nat
  BY <1>2
<1>9. C \subseteq 1 .. N /\ \A i \in 1 .. N : i \in C <=> toHost[i].what = "RECEIVED" /\ toHost[i].of = p
  BY <1>4 DEF Queues!Coming
<1> HIDE DEF way, L, N, C, mid
<1>10. ASSUME NEW i \in 1 .. L + N PROVE i \in 1 .. L \/ (i - L \in 1 .. N /\ i = L + (i - L))
  BY <1>4
\* The frame that waits, if one does, and then those on their way.
<1>11. S = {i \in {1} : Waits(p)} \cup {L + i : i \in C}
  <2>1. ASSUME NEW i \in S PROVE i \in {j \in {1} : Waits(p)} \cup {L + j : j \in C}
    <3>1. /\ i \in 1 .. L + N
          /\ way[i].what = "LENGTH" \/ (way[i].what = "RECEIVED" /\ way[i].of = p)
      BY <1>4 DEF Queues!Starts, Queues!Coming
    <3>2. CASE i \in 1 .. L
      <4>1. rx[p][i].what = "LENGTH"
        BY <1>3, <1>4, <3>1, <3>2
      <4>2. Waits(p)
        BY <1>4, <1>6, <3>2 DEF L
      <4>3. i = 1
        <5>1. \A k \in 2 .. L : rx[p][k].what # "LENGTH"
          BY <1>6, <4>2 DEF IsReceipt, L
        <5> QED
          BY <1>4, <3>2, <4>1, <5>1
      <4> QED
        BY <4>2, <4>3
    <3>3. CASE i - L \in 1 .. N /\ i = L + (i - L)
      <4>1. way[i] = toHost[i - L]
        BY <1>4, <3>3
      <4>2. i - L \in C
        BY <1>3, <1>9, <3>1, <3>3, <4>1
      <4> QED
        BY <3>3, <4>2
    <3> QED
      BY <1>10, <3>1, <3>2, <3>3
  <2>2. ASSUME Waits(p) PROVE 1 \in S
    <3>1. L \in {2, 3} /\ rx[p][1].what = "LENGTH"
      BY <1>6, <2>2 DEF IsReceipt, L
    <3>2. 1 \in 1 .. L + N /\ way[1].what = "LENGTH"
      BY <1>4, <3>1
    <3> QED
      BY <1>4, <3>2 DEF Queues!Starts
  <2>3. ASSUME NEW j \in C PROVE L + j \in S
    <3>1. j \in 1 .. N /\ L + j \in 1 .. L + N /\ way[L + j] = toHost[j]
      BY <1>4, <1>9
    <3> QED
      BY <1>4, <1>9, <3>1 DEF Queues!Coming
  <2> HIDE DEF S
  <2> QED
    BY <2>1, <2>2, <2>3
<1> HIDE DEF S
<1>12. \A i \in C : i \in 1 .. N /\ way[L + i] = toHost[i] /\ i \in Nat /\ i > 0
  BY <1>4, <1>9
<1>13. Waits(p) => L \in {2, 3} /\ way[1].n = mid /\ mid = got[p] + 1
  <2>1. Waits(p) => L \in {2, 3}
    BY <1>6 DEF IsReceipt, L
  <2> QED
    BY <1>4, <1>6, <2>1
<1>14. \A i \in S : way[i].n \in got[p] + 1 .. received[p]
  <2> SUFFICES ASSUME NEW i \in S PROVE way[i].n \in got[p] + 1 .. received[p]
    OBVIOUS
  <2>1. CASE i = 1 /\ Waits(p)
    BY <1>2, <1>5, <1>8, <1>13, <2>1
  <2>2. CASE i \in {L + j : j \in C}
    <3>1. PICK j \in C : i = L + j
      BY <2>2
    <3>2. way[i].n \in mid + 1 .. received[p]
      BY <1>5, <1>12, <3>1
    <3>3. got[p] <= mid
      BY <1>2, <1>6, <1>8
    <3> QED
      BY <1>2, <1>8, <3>2, <3>3
  <2> QED
    BY <1>11, <2>1, <2>2
<1>15. ASSUME NEW i \in S, NEW j \in S, i < j PROVE way[i].n < way[j].n
  <2>1. CASE i \in {L + k : k \in C} /\ j \in {L + k : k \in C}
    <3>1. PICK k \in C : i = L + k
      BY <2>1
    <3>2. PICK l \in C : j = L + l
      BY <2>1
    <3>3. k < l
      BY <1>4, <1>12, <1>15, <3>1, <3>2
    <3> QED
      BY <1>5, <1>12, <3>1, <3>2, <3>3
  <2>2. CASE i = 1 /\ Waits(p) /\ j \in {L + k : k \in C}
    <3>1. PICK l \in C : j = L + l
      BY <2>2
    <3>2. way[j].n \in mid + 1 .. received[p]
      BY <1>5, <1>12, <3>1
    <3> QED
      BY <1>2, <1>8, <1>13, <2>2, <3>2
  <2>3. CASE j = 1 /\ Waits(p)
    <3>1. ASSUME NEW k \in C PROVE L + k > 1
      BY <1>4, <1>12, <1>13, <2>3
    <3> QED
      BY <1>4, <1>11, <1>12, <1>15, <2>3, <3>1
  <2> QED
    BY <1>11, <2>1, <2>2, <2>3
<1>16. ASSUME NEW n \in got[p] + 1 .. received[p] PROVE \E i \in S : way[i].n = n
  <2>1. CASE n = mid
    <3>1. Waits(p)
      BY <1>2, <1>6, <2>1
    <3>2. 1 \in S
      BY <1>11, <3>1
    <3> QED
      BY <1>13, <2>1, <3>1, <3>2
  <2>2. CASE n # mid
    <3>1. n \in mid + 1 .. received[p]
      BY <1>2, <1>6, <1>8, <2>2
    <3>2. PICK j \in C : toHost[j].n = n
      BY <1>5, <3>1
    <3>3. L + j \in S
      BY <1>11
    <3> QED
      BY <1>12, <3>2, <3>3
  <2> QED
    BY <2>1, <2>2
<1>17. Queues!InOrder(way, S, got[p], received[p])
  BY <1>14, <1>15, <1>16 DEF Queues!InOrder
<1> QED
  BY <1>7, <1>17 DEF way, S

-----------------------------------------------------------------------------
(* The bytes of the modem's frames.                                        *)

Bytes == [val : 0 .. Framing!MaxByte, frame : Nat, pos : Nat, size : Nat]

\* A byte of one of the first n frames sent over the link l; the last of them is the
\* answer to the question for the version, if open() waits for one (o).  Its value
\* is what getResponse may go by at its place: the start of the frame, its size in
\* one form or the other, a type that tells the answer from other frames; and where
\* getResponse can find its place again nothing else looks like a start.
Unmistaken(l, o) == IF o THEN Framing!Clear(Reply) ELSE \A p \in l.payloads : Framing!Clear(p)

Sound(b, l, n, o) ==
  /\ b \in Bytes
  /\ b.frame \in 1 .. n
  /\ b.size \in 3 .. Framing!BufferLength
  /\ b.size # ShortMax + 1
  /\ b.pos \in 1 .. b.size
  /\ b.pos = 1 => b.val = FrameStart
  /\ b.pos = 2 => b.val = IF b.size > ShortMax THEN 0 ELSE b.size
  /\ b.pos = 3 /\ b.size > ShortMax => b.val = b.size - ShortMax
  /\ Unmistaken(l, o) => (b.val = FrameStart => b.pos = 1)
  /\ o => b.frame = n /\ b.size <= ShortMax /\ (b.pos = 3 => b.val = Version)
  /\ ~o => (b.pos = Framing!PayloadStart(b.size) => b.val # Version)

\* The byte after b: the next of its frame, or the first of the next frame.
Follows(b, c) == IF b.pos < b.size
                 THEN c.frame = b.frame /\ c.size = b.size /\ c.pos = b.pos + 1
                 ELSE c.frame = b.frame + 1 /\ c.pos = 1

\* What is on the wire: the rest of a frame and whole frames, up to the last one sent.
Stream(w, l, n, o) ==
  /\ w \in Seq(Bytes)
  /\ \A i \in 1 .. Len(w) : Sound(w[i], l, n, o)
  /\ \A i \in 1 .. Len(w) : i < Len(w) => Follows(w[i], w[i + 1])
  /\ w # << >> => w[Len(w)].frame = n /\ w[Len(w)].pos = w[Len(w)].size

FramingType ==
  /\ link \in Links
  /\ sent \in Nat /\ opening \in BOOLEAN
  /\ spoilt \in BOOLEAN /\ (spoilt => link.splits)
  /\ Stream(wire, link, sent, opening)
  /\ dispatched \in Seq(Nat)
  /\ m_state \in {"START", "LENGTH1", "LENGTH2", "TYPE", "DATA"}
  /\ m_length \in 0 .. Framing!BufferLength
  /\ m_offset \in 0 .. Framing!BufferLength
  /\ m_type \in Bytes
  /\ m_buffer \in [0 .. Framing!BufferLength -> Bytes]
  /\ errors \in Nat /\ reopens \in Nat

\* The next byte has this place in its frame.
Expecting(p) == wire # << >> /\ wire[1].pos = p

\* The payload read so far, in m_buffer, is that of the frame whose type was read
\* unless a frame was transmitted over it, and the next byte is the one behind it.
Collecting ==
  LET first == Framing!PayloadStart(m_length)
  IN /\ m_type.frame \in 1 .. sent /\ m_type.pos = first /\ m_type.size = m_length
     /\ first <= m_offset /\ m_offset <= m_length
     /\ link.splits \/ m_offset \in {first, m_length}
     /\ spoilt \/ \A i \in first .. m_offset - 1 :
                    m_buffer[i].frame = m_type.frame /\ m_buffer[i].pos = i + 1
     /\ m_offset < m_length =>
          Expecting(m_offset + 1) /\ wire[1].frame = m_type.frame /\ wire[1].size = m_length
     /\ m_offset = m_length =>
          IF wire = << >> THEN m_type.frame = sent
                          ELSE wire[1].pos = 1 /\ wire[1].frame = m_type.frame + 1
     /\ opening <=> m_buffer[2].val = Version
     /\ opening => m_type.frame = sent
     /\ \A i \in DOMAIN dispatched : dispatched[i] < m_type.frame

\* getResponse is where the next byte is in its frame; between frames it is, unless
\* a read has failed or what came before the port was closed is gone.
InStep ==
  /\ m_state = "START" /\ wire # << >> => wire[1].pos = 1 \/ errors > 0 \/ (opening /\ reopens > 0)
  /\ m_state = "LENGTH1" => Expecting(2)
  /\ m_state = "LENGTH2" => Expecting(3) /\ wire[1].size > ShortMax
  /\ m_state = "TYPE" => /\ Expecting(m_offset + 1) /\ m_length = wire[1].size
                         /\ m_offset + 1 = Framing!PayloadStart(m_length)
                         /\ m_offset = 3 => m_buffer[2].val # Version
  /\ m_state = "DATA" => Collecting

\* After the port was closed in the midst of a frame getResponse goes on with it,
\* and takes the answer for the rest of it; it does not take it for the answer.
OutOfStep ==
  /\ opening /\ reopens > 0 /\ m_state # "START"
  /\ m_state \in {"LENGTH1", "LENGTH2"} /\ wire # << >> => wire[1].pos = 1
  /\ m_state = "TYPE" => \/ m_offset = 2 /\ (wire # << >> => wire[1].pos \in {1, 2})
                         \/ m_offset = 3 /\ m_buffer[2].val # Version
  /\ m_state = "DATA" => m_offset >= 3 /\ m_buffer[2].val # Version

\* What was acted upon comes before what is on the wire.
Before ==
  \A i \in DOMAIN dispatched :
    /\ dispatched[i] \in 1 .. sent
    /\ i > 1 => dispatched[i - 1] < dispatched[i]
    /\ wire # << >> => dispatched[i] < wire[1].frame

\* The last frame that getResponse is through with.
Finished == IF m_state = "DATA" THEN m_type.frame - 1
            ELSE IF wire = << >> THEN sent
            ELSE IF m_state = "START" /\ wire[1].pos > 1 THEN wire[1].frame
            ELSE wire[1].frame - 1

Accounted == reopens = 0 => Len(dispatched) + errors >= Finished

FramingInv == FramingType /\ (InStep \/ OutOfStep) /\ Before /\ Accounted

\* All of it as long as a reader that has lost its place can find it again.
FramingHeld == /\ errors \in Nat /\ reopens \in Nat
               /\ Framing!Findable => FramingInv

LEMMA FramingValues ==
  /\ ShortMax \in Nat /\ ShortMax > 3
  /\ FrameStart \in Nat /\ FrameStart > 1
  /\ Version \in {0, 1}
  /\ Framing!MaxByte \in Nat /\ FrameStart <= Framing!MaxByte /\ ShortMax <= Framing!MaxByte
  /\ Framing!BufferLength \in Nat /\ Framing!BufferLength = ShortMax + Framing!MaxByte
BY FramingAssumption DEF FramingAssumption, Framing!MaxByte, Framing!BufferLength

LEMMA ForeignByte == Framing!Foreign \in Bytes /\ Framing!Foreign.val = FrameStart
BY FramingValues DEF Framing!Foreign, Bytes

\* More frames, or none waited for any more, and what is on the wire stays sound.
LEMMA SoundLater ==
  ASSUME NEW b, NEW l, NEW n \in Nat, Sound(b, l, n, FALSE)
  PROVE  Sound(b, l, n + 1, FALSE)
BY DEF Sound, Unmistaken

\* v is w without its first k bytes.
IsRest(v, w, k) == /\ v \in Seq(Bytes)
                   /\ Len(v) = Len(w) - k
                   /\ \A i \in 1 .. Len(v) : v[i] = w[i + k]

\* The end of a stream is a stream.
LEMMA StreamEnd ==
  ASSUME NEW w, NEW l, NEW n \in Nat, NEW o \in BOOLEAN, Stream(w, l, n, o),
         NEW v, NEW k \in 0 .. Len(w), IsRest(v, w, k)
  PROVE  Stream(v, l, n, o)
<1>1. /\ w \in Seq(Bytes) /\ Len(w) \in Nat /\ Len(v) \in Nat /\ k \in Nat
      /\ v \in Seq(Bytes) /\ Len(v) = Len(w) - k
  BY DEF Stream, IsRest
<1>2. \A i \in 1 .. Len(v) : i + k \in 1 .. Len(w) /\ v[i] = w[i + k]
  BY <1>1 DEF IsRest
<1>3. ASSUME NEW i \in 1 .. Len(v), i < Len(v)
      PROVE  Follows(v[i], v[i + 1])
  <2>1. i + 1 \in 1 .. Len(v) /\ (i + 1) + k = (i + k) + 1 /\ i + k < Len(w)
    BY <1>1, <1>3
  <2>2. v[i] = w[i + k] /\ v[i + 1] = w[(i + k) + 1] /\ i + k \in 1 .. Len(w)
    BY <1>2, <2>1
  <2> QED
    BY <2>1, <2>2 DEF Stream
<1>4. v # << >> => Len(v) \in 1 .. Len(v) /\ v[Len(v)] = w[Len(w)] /\ w # << >>
  BY <1>1, <1>2
<1> QED
  BY <1>1, <1>2, <1>3, <1>4 DEF Stream

\* The first byte, and what comes behind it.
LEMMA StreamTail ==
  ASSUME NEW w, NEW l, NEW n \in Nat, NEW o \in BOOLEAN, Stream(w, l, n, o), w # << >>
  PROVE  /\ Sound(w[1], l, n, o) /\ w[1] \in Bytes
         /\ Stream(Tail(w), l, n, o)
         /\ Tail(w) # << >> => Follows(w[1], Tail(w)[1])
         /\ Tail(w) = << >> => w[1].frame = n /\ w[1].pos = w[1].size
<1> DEFINE v == Tail(w)
<1>1. w \in Seq(Bytes) /\ Len(w) \in Nat \ {0} /\ Len(w) >= 1 /\ 1 \in 0 .. Len(w)
  BY DEF Stream
<1>2. /\ v \in Seq(Bytes) /\ Len(v) = Len(w) - 1
      /\ \A i \in 1 .. Len(v) : v[i] = w[i + 1]
  BY <1>1
<1> HIDE DEF v
<1>9. IsRest(v, w, 1)
  BY <1>2 DEF IsRest
<1>3. Stream(v, l, n, o)
  BY <1>1, <1>9, StreamEnd
<1>4. v # << >> => 1 < Len(w) /\ v[1] = w[1 + 1] /\ 1 \in 1 .. Len(w)
  BY <1>1, <1>2
<1>5. v = << >> => Len(w) = 1
  BY <1>1, <1>2
<1>6. Sound(w[1], l, n, o) /\ w[1] \in Bytes
  BY <1>1 DEF Stream
<1>7. v # << >> => Follows(w[1], v[1])
  BY <1>4 DEF Stream
<1>8. v = << >> => w[1].frame = n /\ w[1].pos = w[1].size
  BY <1>5 DEF Stream
<1> QED
  BY <1>3, <1>6, <1>7, <1>8 DEF v

\* The bytes up to the end of the first one's frame are of that frame, one by one.
LEMMA FrameRuns ==
  ASSUME NEW w, NEW l, NEW n \in Nat, NEW o \in BOOLEAN, Stream(w, l, n, o), w # << >>,
         NEW k \in Nat, k < Len(w), w[1].pos + k <= w[1].size
  PROVE  w[k + 1].frame = w[1].frame /\ w[k + 1].size = w[1].size /\ w[k + 1].pos = w[1].pos + k
<1> DEFINE Wrong == {j \in Nat : /\ j < Len(w) /\ w[1].pos + j <= w[1].size
                                /\ ~(/\ w[j + 1].frame = w[1].frame /\ w[j + 1].size = w[1].size
                                     /\ w[j + 1].pos = w[1].pos + j)}
<1>1. w \in Seq(Bytes) /\ Len(w) \in Nat /\ Len(w) >= 1 /\ w[1] \in Bytes
  BY DEF Stream
<1>2. w[1].pos \in Nat /\ w[1].size \in Nat
  BY <1>1 DEF Bytes
<1>3. SUFFICES ASSUME Wrong # {} PROVE FALSE
  BY <1>3
<1>4. PICK j \in Wrong : \A m \in Wrong : j <= m
  <2>1. Wrong \in SUBSET Nat
    OBVIOUS
  <2> HIDE DEF Wrong
  <2> QED
    BY <1>3, <2>1, LeastNumber
<1>5. j \in Nat /\ j < Len(w) /\ w[1].pos + j <= w[1].size
  OBVIOUS
<1>6. j # 0
  BY <1>2, <1>4
<1>7. PICK i \in Nat : j = i + 1
  BY <1>5, <1>6
<1>8. ~(i \in Wrong) /\ i < Len(w) /\ w[1].pos + i < w[1].size
  BY <1>2, <1>4, <1>5, <1>7, <1>1
<1>9. w[i + 1].frame = w[1].frame /\ w[i + 1].size = w[1].size /\ w[i + 1].pos = w[1].pos + i
  BY <1>2, <1>7, <1>8
<1>10. i + 1 \in 1 .. Len(w) /\ i + 1 < Len(w) /\ Follows(w[i + 1], w[(i + 1) + 1])
  BY <1>1, <1>5, <1>7 DEF Stream
<1>11. /\ w[j + 1].frame = w[1].frame /\ w[j + 1].size = w[1].size
       /\ w[j + 1].pos = w[1].pos + i + 1
  BY <1>2, <1>7, <1>8, <1>9, <1>10 DEF Follows
<1>12. w[j + 1].pos = w[1].pos + j
  <2>1. \A a, b, c, d \in Nat : b = c + 1 /\ d = a + c + 1 => d = a + b
    OBVIOUS
  <2>2. w[1].pos + i + 1 \in Nat
    BY <1>2, <1>7
  <2> QED
    BY ONLY <1>2, <1>5, <1>7, <1>11, <2>1, <2>2
<1> QED
  BY <1>11, <1>12

\* v is what comes behind k bytes of the frame of b, from b on.
Behind(v, b, k, n) ==
  /\ b.pos + k <= b.size =>
       v # << >> /\ v[1].frame = b.frame /\ v[1].size = b.size /\ v[1].pos = b.pos + k
  /\ b.pos + k = b.size + 1 =>
       IF v = << >> THEN b.frame = n ELSE v[1].pos = 1 /\ v[1].frame = b.frame + 1

\* What comes behind some bytes of the first frame.
LEMMA StreamRest ==
  ASSUME NEW w, NEW l, NEW n \in Nat, NEW o \in BOOLEAN, Stream(w, l, n, o), w # << >>,
         NEW k \in 1 .. Len(w), w[1].pos + k <= w[1].size + 1,
         NEW v, IsRest(v, w, k)
  PROVE  Behind(v, w[1], k, n)
<1>1. w \in Seq(Bytes) /\ Len(w) \in Nat /\ Len(w) >= 1 /\ w[1] \in Bytes
  BY DEF Stream
<1>2. w[1].pos \in Nat /\ w[1].size \in Nat
  BY <1>1 DEF Bytes
<1>3. v \in Seq(Bytes) /\ Len(v) = Len(w) - k
  BY DEF IsRest
<1>5. PICK i \in Nat : k = i + 1
  BY <1>1
<1>6. i < Len(w) /\ w[1].pos + i <= w[1].size
  BY <1>1, <1>2, <1>5
<1>7. w[k].frame = w[1].frame /\ w[k].size = w[1].size /\ w[k].pos = w[1].pos + i
  BY <1>5, <1>6, FrameRuns
<1>8. CASE k = Len(w)
  <2>1. v = << >>
    BY <1>1, <1>3, <1>8
  <2>2. w[1].frame = n /\ w[1].pos + i = w[1].size
    BY <1>7, <1>8 DEF Stream
  <2> QED
    BY <1>2, <1>5, <2>1, <2>2 DEF Behind
<1>9. CASE k < Len(w)
  <2>1. v # << >> /\ v[1] = w[k + 1]
    <3>1. 1 \in 1 .. Len(v) /\ Len(v) # 0 /\ 1 + k = k + 1
      BY <1>1, <1>3, <1>9
    <3> QED
      BY <1>3, <3>1 DEF IsRest
  <2>2. Follows(w[k], v[1])
    BY <1>9, <2>1 DEF Stream
  <2>3. /\ w[1].pos + k <= w[1].size => v[1].frame = w[1].frame /\ v[1].size = w[1].size /\ v[1].pos = w[1].pos + k
        /\ w[1].pos + k = w[1].size + 1 => v[1].pos = 1 /\ v[1].frame = w[1].frame + 1
    BY <1>2, <1>5, <1>7, <2>2 DEF Follows
  <2> QED
    BY <2>1, <2>3 DEF Behind
<1> QED
  BY <1>1, <1>8, <1>9

\* A whole frame more.
LEMMA StreamAppend ==
  ASSUME NEW w, NEW e, NEW l, NEW n \in Nat, NEW o \in BOOLEAN,
         Stream(w, l, n, o), Stream(e, l, n + 1, o), o => w = << >>,
         e # << >>, e[1].pos = 1, e[1].frame = n + 1
  PROVE  /\ Stream(w \o e, l, n + 1, o)
         /\ w \o e # << >>
         /\ (w \o e)[1] = IF w = << >> THEN e[1] ELSE w[1]
<1> DEFINE v == w \o e
<1>1. w \in Seq(Bytes) /\ e \in Seq(Bytes) /\ Len(w) \in Nat /\ Len(e) \in Nat /\ Len(e) >= 1
  BY DEF Stream
<1>2. /\ v \in Seq(Bytes) /\ Len(v) = Len(w) + Len(e)
      /\ \A i \in 1 .. Len(v) : v[i] = IF i <= Len(w) THEN w[i] ELSE e[i - Len(w)]
  BY <1>1
<1> HIDE DEF v
<1>3. ASSUME NEW i \in 1 .. Len(v)
      PROVE  Sound(v[i], l, n + 1, o) /\ (i < Len(v) => Follows(v[i], v[i + 1]))
  <2>1. CASE i < Len(w)
    <3>1. i \in 1 .. Len(w) /\ v[i] = w[i] /\ v[i + 1] = w[i + 1] /\ w # << >>
      BY <1>1, <1>2, <2>1
    <3>2. Sound(w[i], l, n, FALSE) /\ o = FALSE
      BY <3>1 DEF Stream
    <3> QED
      BY <2>1, <3>1, <3>2, SoundLater DEF Stream
  <2>2. CASE i = Len(w)
    <3>1. i \in 1 .. Len(w) /\ v[i] = w[i] /\ v[i + 1] = e[1] /\ w # << >>
      BY <1>1, <1>2, <2>2
    <3>2. Sound(w[i], l, n, FALSE) /\ o = FALSE /\ w[i].frame = n /\ w[i].pos = w[i].size
      BY <2>2, <3>1 DEF Stream
    <3>3. w[i].size \in Nat
      BY <3>2 DEF Sound, Bytes
    <3>4. Sound(v[i], l, n + 1, o)
      BY <3>1, <3>2, SoundLater
    <3> QED
      BY <3>1, <3>2, <3>3, <3>4 DEF Follows
  <2>3. CASE i > Len(w)
    <3>1. PICK j \in 1 .. Len(e) : i = Len(w) + j
      BY <1>1, <1>2, <2>3
    <3>2. v[i] = e[j] /\ (i < Len(v) => j < Len(e) /\ v[i + 1] = e[j + 1])
      BY <1>1, <1>2, <3>1
    <3> QED
      BY <3>2 DEF Stream
  <2> QED
    BY <1>1, <2>1, <2>2, <2>3
<1>4. v # << >> /\ v[Len(v)] = e[Len(e)]
  BY <1>1, <1>2
<1>5. v[1] = IF w = << >> THEN e[1] ELSE w[1]
  BY <1>1, <1>2
<1> QED
  BY <1>2, <1>3, <1>4, <1>5 DEF Stream, v

\* A frame as the modem sends it.
LEMMA EncodeStream ==
  ASSUME NEW l, NEW n \in Nat, NEW o \in BOOLEAN, NEW type \in 0 .. Framing!MaxByte, NEW payload,
         Framing!Sendable(payload), type # FrameStart,
         Unmistaken(l, o) => Framing!Clear(payload),
         o => Len(payload) + 3 <= ShortMax /\ type = Version,
         ~o => type # Version
  PROVE  LET e == Framing!Encode(n + 1, type, payload)
         IN Stream(e, l, n + 1, o) /\ e # << >> /\ e[1].pos = 1 /\ e[1].frame = n + 1
<1> DEFINE e == Framing!Encode(n + 1, type, payload)
           h == Framing!Header(Len(payload), type)
           vals == h \o payload
           s == Len(vals)
           N == Len(payload)
<1>1. payload \in Seq(0 .. Framing!MaxByte) /\ N \in Nat /\ N + 4 <= Framing!BufferLength
  BY DEF Framing!Sendable
<1>2. /\ h \in Seq(0 .. Framing!MaxByte) /\ h[1] = FrameStart
      /\ N + 3 > ShortMax => Len(h) = 4 /\ h[2] = 0 /\ h[3] = N + 4 - ShortMax /\ h[4] = type
      /\ ~(N + 3 > ShortMax) => Len(h) = 3 /\ h[2] = N + 3 /\ h[3] = type
  <2>1. CASE N + 3 > ShortMax
    <3>1. h = << FrameStart, 0, N + 4 - ShortMax, type >> /\ N + 4 - ShortMax \in 0 .. Framing!MaxByte
      BY <1>1, <2>1, FramingValues DEF Framing!Header
    <3> QED
      BY <2>1, <3>1, FramingValues
  <2>2. CASE ~(N + 3 > ShortMax)
    <3>1. h = << FrameStart, N + 3, type >> /\ N + 3 \in 0 .. Framing!MaxByte
      BY <1>1, <2>2, FramingValues DEF Framing!Header
    <3> QED
      BY <2>2, <3>1, FramingValues
  <2> QED
    BY <2>1, <2>2
<1>3. e = [i \in 1 .. s |-> [val |-> vals[i], frame |-> n + 1, pos |-> i, size |-> s]]
  BY DEF Framing!Encode
<1> HIDE DEF h, e
<1>4. /\ vals \in Seq(0 .. Framing!MaxByte) /\ s \in Nat /\ s = Len(h) + N /\ Len(h) \in {3, 4}
      /\ \A i \in 1 .. s : vals[i] = IF i <= Len(h) THEN h[i] ELSE payload[i - Len(h)]
  BY <1>1, <1>2
<1> DEFINE H == Len(h)
<1>14. N \in Nat /\ s \in Nat /\ s = H + N /\ H \in {3, 4} /\ N + 4 <= Framing!BufferLength
  BY <1>1, <1>4
<1>15. /\ N + 3 > ShortMax => H = 4
       /\ ~(N + 3 > ShortMax) => H = 3
  BY <1>2
<1>16. /\ \A i \in 1 .. s : vals[i] = IF i <= H THEN h[i] ELSE payload[i - H]
       /\ s = Len(vals)
  BY <1>4
<1> HIDE DEF vals, s
<1>13. \A i \in 1 .. s : vals[i] \in 0 .. Framing!MaxByte
  <2>1. \A S, q : q \in Seq(S) => \A i \in 1 .. Len(q) : q[i] \in S
    OBVIOUS
  <2> QED
    BY <1>4, <1>16, <2>1
<1> HIDE DEF N, H
<1>5. /\ s \in 3 .. Framing!BufferLength /\ s # ShortMax + 1
      /\ s > ShortMax <=> N + 3 > ShortMax
      /\ Framing!PayloadStart(s) = H
      /\ IF s > ShortMax THEN s = N + 4 /\ H = 4 ELSE s = N + 3 /\ H = 3
  <2>1. CASE N + 3 > ShortMax
    <3>1. H = 4 /\ s = N + 4
      BY <1>14, <1>15, <2>1
    <3> QED
      BY <1>14, <2>1, <3>1, FramingValues DEF Framing!PayloadStart
  <2>2. CASE ~(N + 3 > ShortMax)
    <3>1. H = 3 /\ s = N + 3
      BY <1>14, <1>15, <2>2
    <3> QED
      BY <1>14, <2>2, <3>1, FramingValues DEF Framing!PayloadStart
  <2> QED
    BY <2>1, <2>2
<1>6. /\ vals[1] = FrameStart /\ vals[2] = IF s > ShortMax THEN 0 ELSE s
      /\ s > ShortMax => vals[3] = s - ShortMax
      /\ vals[H] = type
  <2>1. {1, 2, 3, H} \subseteq 1 .. s /\ \A i \in {1, 2, 3, H} : i <= H
    BY <1>14
  <2>2. vals[1] = h[1] /\ vals[2] = h[2] /\ vals[3] = h[3] /\ vals[H] = h[H]
    BY <1>16, <2>1
  <2> QED
    BY <1>2, <1>5, <1>14, <2>2, FramingValues
<1>7. ASSUME Framing!Clear(payload), NEW i \in 1 .. s, vals[i] = FrameStart
      PROVE  i = 1
  <2>1. N + 3 # FrameStart /\ N + 4 # ShortMax + FrameStart /\ \A j \in 1 .. N : payload[j] # FrameStart
    BY <1>1, <1>7 DEF Framing!Clear, N
  <2>2. CASE i > H
    <3>1. i - H \in 1 .. N /\ vals[i] = payload[i - H]
      BY <1>14, <1>16, <2>2
    <3> QED
      BY <1>7, <2>1, <3>1
  <2>3. CASE i <= H /\ i # 1
    <3>1. i \in {2, 3, 4} /\ vals[i] = h[i]
      BY <1>14, <1>16, <2>3
    <3>2. CASE N + 3 > ShortMax
      <4>1. h[2] = 0 /\ h[3] = N + 4 - ShortMax /\ h[4] = type
        BY <1>2, <3>2
      <4>2. h[2] # FrameStart /\ h[3] # FrameStart /\ h[4] # FrameStart
        BY <1>14, <2>1, <4>1, FramingValues
      <4> QED
        BY <1>7, <3>1, <4>2
    <3>3. CASE ~(N + 3 > ShortMax)
      <4>1. h[2] # FrameStart /\ h[3] # FrameStart /\ H = 3
        BY <1>2, <1>15, <2>1, <3>3
      <4> QED
        BY <1>7, <2>3, <3>1, <4>1
    <3> QED
      BY <3>2, <3>3
  <2> QED
    BY <1>14, <2>2, <2>3
<1>8. ASSUME NEW i \in 1 .. s
      PROVE  Sound(e[i], l, n + 1, o)
  <2>1. e[i] = [val |-> vals[i], frame |-> n + 1, pos |-> i, size |-> s]
    BY <1>3
  <2>5. vals[i] \in 0 .. Framing!MaxByte
    BY <1>13
  <2>2. e[i] \in Bytes /\ e[i].val = vals[i] /\ e[i].frame = n + 1 /\ e[i].pos = i /\ e[i].size = s
    BY <2>1, <2>5, <1>4 DEF Bytes
  <2>3. ASSUME o PROVE s <= ShortMax /\ (i = 3 => vals[i] = Version)
    <3>1. ~(N + 3 > ShortMax)
      BY <1>1, <2>3, FramingValues DEF N
    <3> QED
      BY <1>5, <1>6, <1>14, <1>15, <2>3, <3>1, FramingValues
  <2>4. ASSUME ~o, i = H PROVE vals[i] # Version
    BY <1>6, <2>4
  <2> QED
    BY <1>5, <1>6, <1>7, <2>2, <2>3, <2>4 DEF Sound
<1>9. ASSUME NEW i \in 1 .. s, i < s
      PROVE  Follows(e[i], e[i + 1])
  <2>1. i + 1 \in 1 .. s
    BY <1>4, <1>9
  <2> QED
    BY <1>3, <1>9, <2>1 DEF Follows
<1>10. /\ e \in Seq(Bytes) /\ Len(e) = s
  <2>1. \A i \in 1 .. s : e[i] \in Bytes
    BY <1>8 DEF Sound
  <2> QED
    BY <1>3, <1>4, <2>1
<1>11. e[s].frame = n + 1 /\ e[s].pos = e[s].size /\ e[1].pos = 1 /\ e[1].frame = n + 1 /\ e # << >>
  BY <1>3, <1>4, <1>5, <1>10
<1> QED
  BY <1>8, <1>9, <1>10, <1>11 DEF Stream, e

-----------------------------------------------------------------------------
(* getResponse, stage by stage.                                            *)

\* A byte is taken off the wire.
LEMMA TakeOne ==
  ASSUME FramingInv, Framing!Take1, UNCHANGED <<link, sent, opening, dispatched>>
  PROVE  /\ wire # << >> /\ wire[1] \in Bytes /\ Sound(wire[1], link, sent, opening)
         /\ Stream(wire', link, sent, opening)
         /\ wire' # << >> => Follows(wire[1], wire'[1])
         /\ wire' = << >> => wire[1].frame = sent /\ wire[1].pos = wire[1].size
         /\ Before'
<1>1. /\ wire # << >> /\ wire' = Tail(wire)
      /\ Stream(wire, link, sent, opening) /\ sent \in Nat /\ opening \in BOOLEAN
  BY DEF Framing!Take1, FramingInv, FramingType
<1>2. /\ wire[1] \in Bytes /\ Sound(wire[1], link, sent, opening)
      /\ Stream(wire', link, sent, opening)
      /\ wire' # << >> => Follows(wire[1], wire'[1])
      /\ wire' = << >> => wire[1].frame = sent /\ wire[1].pos = wire[1].size
  BY <1>1, StreamTail
<1>3. ASSUME NEW i \in DOMAIN dispatched, wire' # << >>
      PROVE  dispatched[i] < wire'[1].frame
  <2>1. dispatched[i] \in 1 .. sent /\ dispatched[i] < wire[1].frame
    BY <1>1 DEF FramingInv, Before
  <2>2. wire[1].frame \in Nat /\ wire'[1].frame \in {wire[1].frame, wire[1].frame + 1}
    BY <1>2, <1>3 DEF Bytes, Follows
  <2>3. dispatched[i] \in Nat
    BY <1>1, <2>1
  <2> QED
    BY ONLY <2>1, <2>2, <2>3
<1>4. Before'
  BY <1>3 DEF FramingInv, Before
<1> QED
  BY <1>1, <1>2, <1>4

\* With as much acted upon or failed as before, no frame more may be done with.
LEMMA AccountKept ==
  ASSUME FramingInv, UNCHANGED <<dispatched, errors, reopens>>,
         Finished \in Int, Finished' \in Int, Finished' <= Finished
  PROVE  Accounted'
<1>1. Len(dispatched) \in Nat /\ errors \in Nat
  BY DEF FramingInv, FramingType
<1> QED
  BY <1>1 DEF FramingInv, Accounted

LEMMA ReadStartKeeps == ASSUME FramingInv, Framing!Findable, Framing!ReadStart PROVE FramingInv'
<1>1. /\ m_state = "START" /\ Framing!Take1
      /\ UNCHANGED <<link, sent, opening, spoilt, dispatched, errors, reopens, m_offset, m_type>>
      /\ m_buffer' = [m_buffer EXCEPT ![0] = wire[1]]
  BY DEF Framing!ReadStart, Framing!Counters
<1>2. /\ wire # << >> /\ wire[1] \in Bytes /\ Sound(wire[1], link, sent, opening)
      /\ Stream(wire', link, sent, opening)
      /\ wire' # << >> => Follows(wire[1], wire'[1])
      /\ wire' = << >> => wire[1].frame = sent /\ wire[1].pos = wire[1].size
      /\ Before'
  BY <1>1, TakeOne
<1>3. wire[1].frame \in Nat /\ wire[1].size \in Nat /\ wire[1].size >= 3 /\ wire[1].pos \in 1 .. wire[1].size
  BY <1>2 DEF Sound, Bytes
<1>4. m_buffer' \in [0 .. Framing!BufferLength -> Bytes]
  BY <1>1, <1>2 DEF FramingInv, FramingType
<1>5. wire[1].pos = 1 \/ errors > 0 \/ (opening /\ reopens > 0)
  BY <1>1, <1>2 DEF FramingInv, InStep, OutOfStep
<1>8. wire[1].val = FrameStart => wire[1].pos = 1
  <2>1. errors > 0 \/ (opening /\ reopens > 0) => Unmistaken(link, opening)
    BY DEF Framing!Findable, Unmistaken
  <2> QED
    BY <1>2, <1>5, <2>1 DEF Sound
<1>6. CASE wire[1].val # FrameStart
  <2>1. m_state' = "START" /\ m_length' = m_length
    BY <1>6 DEF Framing!ReadStart
  <2>2. wire[1].pos > 1
    BY <1>2, <1>3, <1>6 DEF Sound
  <2>3. FramingType'
    BY <1>1, <1>2, <1>4, <2>1 DEF FramingInv, FramingType
  <2>4. InStep'
    BY <1>1, <1>3, <1>5, <2>1, <2>2 DEF InStep
  <2>5. Finished = wire[1].frame
    BY <1>1, <1>2, <2>2 DEF Finished
  <2>6. Finished' \in {wire[1].frame, wire[1].frame - 1}
    <3>1. CASE wire' = << >>
      BY <1>1, <1>2, <2>1, <3>1 DEF Finished
    <3>2. CASE wire' # << >>
      BY <1>2, <1>3, <2>1, <3>2 DEF Finished, Follows
    <3> QED
      BY <3>1, <3>2
  <2> QED
    BY <1>1, <1>2, <1>3, <2>3, <2>4, <2>5, <2>6, AccountKept DEF FramingInv
<1>7. CASE wire[1].val = FrameStart
  <2>1. m_state' = "LENGTH1" /\ m_length' = 1
    BY <1>7 DEF Framing!ReadStart
  <2>2. wire[1].pos = 1
    BY <1>7, <1>8
  <2>3. wire' # << >> /\ wire'[1].pos = 2 /\ wire'[1].frame = wire[1].frame
    BY <1>2, <1>3, <2>2 DEF Follows
  <2>4. FramingType'
    BY <1>1, <1>2, <1>4, <2>1, FramingValues DEF FramingInv, FramingType
  <2>5. InStep'
    BY <2>1, <2>3 DEF InStep, Expecting
  <2>6. Finished = wire[1].frame - 1 /\ Finished' = wire[1].frame - 1
    BY <1>1, <1>2, <2>1, <2>2, <2>3 DEF Finished
  <2> QED
    BY <1>1, <1>2, <1>3, <2>4, <2>5, <2>6, AccountKept DEF FramingInv
<1> QED
  BY <1>6, <1>7

LEMMA ReadLength1Keeps == ASSUME FramingInv, Framing!ReadLength1 PROVE FramingInv'
<1>1. /\ m_state = "LENGTH1" /\ Framing!Take1
      /\ UNCHANGED <<link, sent, opening, spoilt, dispatched, errors, reopens, m_type>>
      /\ m_buffer' = [m_buffer EXCEPT ![1] = wire[1]]
      /\ m_length' = wire[1].val /\ m_offset' = 2
      /\ m_state' = IF wire[1].val = 0 THEN "LENGTH2" ELSE "TYPE"
  BY DEF Framing!ReadLength1, Framing!Counters
<1>2. /\ wire # << >> /\ wire[1] \in Bytes /\ Sound(wire[1], link, sent, opening)
      /\ Stream(wire', link, sent, opening)
      /\ wire' # << >> => Follows(wire[1], wire'[1])
      /\ wire' = << >> => wire[1].frame = sent /\ wire[1].pos = wire[1].size
      /\ Before'
  BY <1>1, TakeOne
<1>3. /\ wire[1].frame \in Nat /\ wire[1].size \in Nat /\ wire[1].size >= 3
      /\ wire[1].pos \in 1 .. wire[1].size /\ wire[1].val \in 0 .. Framing!MaxByte
  BY <1>2 DEF Sound, Bytes
<1>4. FramingType'
  <2>1. m_buffer' \in [0 .. Framing!BufferLength -> Bytes]
    BY <1>1, <1>2 DEF FramingInv, FramingType
  <2>2. m_length' \in 0 .. Framing!BufferLength /\ m_offset' \in 0 .. Framing!BufferLength
    BY <1>1, <1>3, FramingValues
  <2> QED
    BY <1>1, <1>2, <2>1, <2>2 DEF FramingInv, FramingType
<1>5. CASE InStep
  <2>1. wire[1].pos = 2
    BY <1>1, <1>5 DEF InStep, Expecting
  <2>2. wire' # << >> /\ wire'[1].pos = 3 /\ wire'[1].frame = wire[1].frame /\ wire'[1].size = wire[1].size
    BY <1>2, <1>3, <2>1 DEF Follows
  <2>3. wire[1].val = IF wire[1].size > ShortMax THEN 0 ELSE wire[1].size
    BY <1>2, <2>1 DEF Sound
  <2>4. InStep'
    <3>1. CASE wire[1].size > ShortMax
      BY <1>1, <2>2, <2>3, <3>1 DEF InStep, Expecting
    <3>2. CASE ~(wire[1].size > ShortMax)
      BY <1>1, <1>3, <2>2, <2>3, <3>2, FramingValues DEF InStep, Expecting, Framing!PayloadStart
    <3> QED
      BY <3>1, <3>2
  <2>5. Finished = wire[1].frame - 1 /\ Finished' = wire[1].frame - 1
    BY <1>1, <1>2, <2>2 DEF Finished
  <2> QED
    BY <1>1, <1>2, <1>3, <1>4, <2>4, <2>5, AccountKept DEF FramingInv
<1>6. CASE OutOfStep
  <2>1. opening /\ reopens > 0 /\ wire[1].pos = 1
    BY <1>1, <1>2, <1>6 DEF OutOfStep
  <2>2. wire[1].val = FrameStart
    BY <1>2, <2>1 DEF Sound
  <2>3. wire' # << >> => wire'[1].pos = 2
    BY <1>2, <1>3, <2>1 DEF Follows
  <2>4. m_state' = "TYPE"
    BY <1>1, <2>2, FramingValues
  <2>5. OutOfStep'
    BY <1>1, <2>1, <2>3, <2>4 DEF OutOfStep
  <2>6. Accounted'
    BY <1>1, <2>1, <1>4 DEF Accounted, FramingType
  <2> QED
    BY <1>2, <1>4, <2>5, <2>6 DEF FramingInv
<1> QED
  BY <1>5, <1>6 DEF FramingInv

LEMMA ReadLength2Keeps == ASSUME FramingInv, Framing!ReadLength2 PROVE FramingInv'
<1>1. /\ m_state = "LENGTH2" /\ Framing!Take1
      /\ UNCHANGED <<link, sent, opening, spoilt, dispatched, errors, reopens, m_type>>
      /\ m_buffer' = [m_buffer EXCEPT ![2] = wire[1]]
      /\ m_length' = wire[1].val + ShortMax /\ m_offset' = 3 /\ m_state' = "TYPE"
  BY DEF Framing!ReadLength2, Framing!Counters
<1>2. /\ wire # << >> /\ wire[1] \in Bytes /\ Sound(wire[1], link, sent, opening)
      /\ Stream(wire', link, sent, opening)
      /\ wire' # << >> => Follows(wire[1], wire'[1])
      /\ wire' = << >> => wire[1].frame = sent /\ wire[1].pos = wire[1].size
      /\ Before'
  BY <1>1, TakeOne
<1>3. /\ wire[1].frame \in Nat /\ wire[1].size \in Nat /\ wire[1].size # ShortMax + 1
      /\ wire[1].pos \in 1 .. wire[1].size /\ wire[1].val \in 0 .. Framing!MaxByte
  BY <1>2 DEF Sound, Bytes
<1>4. FramingType' /\ m_buffer'[2] = wire[1]
  <2>1. m_buffer' \in [0 .. Framing!BufferLength -> Bytes] /\ m_buffer'[2] = wire[1]
    BY <1>1, <1>2, FramingValues DEF FramingInv, FramingType
  <2>2. m_length' \in 0 .. Framing!BufferLength /\ m_offset' \in 0 .. Framing!BufferLength
    BY <1>1, <1>3, FramingValues
  <2> QED
    BY <1>1, <1>2, <2>1, <2>2 DEF FramingInv, FramingType
<1>5. CASE InStep
  <2>1. wire[1].pos = 3 /\ wire[1].size > ShortMax
    BY <1>1, <1>5 DEF InStep, Expecting
  <2>2. wire' # << >> /\ wire'[1].pos = 4 /\ wire'[1].frame = wire[1].frame /\ wire'[1].size = wire[1].size
    BY <1>2, <1>3, <2>1, FramingValues DEF Follows
  <2>3. wire[1].val = wire[1].size - ShortMax
    BY <1>2, <2>1 DEF Sound
  <2>4. m_length' = wire[1].size /\ wire[1].val >= 2
    BY <1>1, <1>3, <2>1, <2>3, FramingValues
  <2>5. InStep'
    <3>1. m_buffer'[2].val # Version
      BY <1>4, <2>4, FramingValues
    <3>2. Framing!PayloadStart(m_length') = 4
      BY <2>1, <2>4 DEF Framing!PayloadStart
    <3> QED
      BY <1>1, <2>2, <2>4, <3>1, <3>2 DEF InStep, Expecting
  <2>6. Finished = wire[1].frame - 1 /\ Finished' = wire[1].frame - 1
    BY <1>1, <1>2, <2>2 DEF Finished
  <2> QED
    BY <1>1, <1>2, <1>3, <1>4, <2>5, <2>6, AccountKept DEF FramingInv
<1>6. CASE OutOfStep
  <2>1. opening /\ reopens > 0 /\ wire[1].pos = 1
    BY <1>1, <1>2, <1>6 DEF OutOfStep
  <2>2. wire[1].val = FrameStart
    BY <1>2, <2>1 DEF Sound
  <2>3. OutOfStep'
    BY <1>1, <1>4, <2>1, <2>2, FramingValues DEF OutOfStep
  <2>4. Accounted'
    BY <1>1, <2>1, <1>4 DEF Accounted, FramingType
  <2> QED
    BY <1>2, <1>4, <2>3, <2>4 DEF FramingInv
<1> QED
  BY <1>5, <1>6 DEF FramingInv

LEMMA ReadTypeKeeps == ASSUME FramingInv, Framing!ReadType PROVE FramingInv'
<1>1. /\ m_state = "TYPE" /\ Framing!Take1
      /\ spoilt' = FALSE
      /\ UNCHANGED <<link, sent, opening, dispatched, errors, reopens, m_length>>
      /\ m_type' = wire[1]
      /\ m_buffer' = [m_buffer EXCEPT ![m_offset] = wire[1]]
      /\ m_offset' = m_offset + 1 /\ m_state' = "DATA"
  BY DEF Framing!ReadType, Framing!Counters
<1>2. /\ wire # << >> /\ wire[1] \in Bytes /\ Sound(wire[1], link, sent, opening)
      /\ Stream(wire', link, sent, opening)
      /\ wire' # << >> => Follows(wire[1], wire'[1])
      /\ wire' = << >> => wire[1].frame = sent /\ wire[1].pos = wire[1].size
      /\ Before'
  BY <1>1, TakeOne
<1>3. /\ wire[1].frame \in 1 .. sent /\ sent \in Nat /\ wire[1].size \in Nat
      /\ wire[1].pos \in 1 .. wire[1].size
  BY <1>2 DEF Sound, Bytes, FramingInv, FramingType
<1>4. m_offset \in {2, 3}
  <2>1. CASE InStep
    BY <1>1, <2>1, FramingValues DEF InStep, Framing!PayloadStart, FramingInv, FramingType
  <2>2. CASE OutOfStep
    BY <1>1, <2>2 DEF OutOfStep
  <2> QED
    BY <2>1, <2>2 DEF FramingInv
<1>5. /\ FramingType'
      /\ m_buffer'[2] = IF m_offset = 2 THEN wire[1] ELSE m_buffer[2]
  <2>1. /\ m_buffer \in [0 .. Framing!BufferLength -> Bytes]
        /\ {2, 3, 4} \subseteq 0 .. Framing!BufferLength
    BY FramingValues DEF FramingInv, FramingType
  <2>2. m_buffer' \in [0 .. Framing!BufferLength -> Bytes] /\ m_offset' \in 0 .. Framing!BufferLength
    BY <1>1, <1>2, <1>4, <2>1
  <2>3. m_buffer'[2] = IF m_offset = 2 THEN wire[1] ELSE m_buffer[2]
    BY <1>1, <1>4, <2>1
  <2> QED
    BY <1>1, <1>2, <2>2, <2>3 DEF FramingInv, FramingType
<1>6. CASE InStep
  <2>1. /\ wire[1].pos = m_offset + 1 /\ m_length = wire[1].size
        /\ m_offset + 1 = Framing!PayloadStart(m_length)
        /\ m_offset = 3 => m_buffer[2].val # Version
    BY <1>1, <1>6 DEF InStep, Expecting
  <2>2. m_offset' = Framing!PayloadStart(m_length') /\ m_offset' = wire[1].pos /\ m_length' = wire[1].size
    BY <1>1, <2>1
  <2>3. opening' <=> m_buffer'[2].val = Version
    <3>1. CASE opening
      <4>1. m_offset = 2 /\ wire[1].pos = 3
        BY <1>2, <1>3, <1>4, <2>1, <3>1, FramingValues DEF Sound, Framing!PayloadStart
      <4> QED
        BY <1>1, <1>2, <1>5, <3>1, <4>1 DEF Sound
    <3>2. CASE ~opening
      <4>1. wire[1].val # Version
        BY <1>2, <2>1, <3>2 DEF Sound
      <4> QED
        BY <1>1, <1>4, <1>5, <2>1, <3>2, <4>1
    <3> QED
      BY <3>1, <3>2
  <2>4. opening' => wire[1].frame = sent
    BY <1>1, <1>2 DEF Sound
  <2>5. m_offset' < m_length' => wire' # << >> /\ wire'[1].pos = m_offset' + 1 /\ wire'[1].frame = wire[1].frame /\ wire'[1].size = m_length'
    BY <1>2, <1>3, <2>2 DEF Follows
  <2>6. m_offset' = m_length' =>
           IF wire' = << >> THEN wire[1].frame = sent
                            ELSE wire'[1].pos = 1 /\ wire'[1].frame = wire[1].frame + 1
    BY <1>2, <1>3, <2>2 DEF Follows
  <2>7. \A i \in DOMAIN dispatched : dispatched[i] < wire[1].frame
    BY <1>2 DEF FramingInv, Before
  <2>8. Collecting'
    <3>1. \A i \in Framing!PayloadStart(m_length') .. m_offset' - 1 :
            m_buffer'[i].frame = m_type'.frame /\ m_buffer'[i].pos = i + 1
      BY <1>1, <1>4, <2>2
    <3>2. Framing!PayloadStart(m_length') <= m_offset' /\ m_offset' <= m_length'
      BY <1>1, <1>3, <1>4, <2>2
    <3> QED
      BY <1>1, <1>3, <2>2, <2>3, <2>4, <2>5, <2>6, <2>7, <3>1, <3>2 DEF Collecting, Expecting
  <2>9. InStep'
    BY <1>1, <2>8 DEF InStep
  <2>10. Finished = wire[1].frame - 1 /\ Finished' = wire[1].frame - 1
    BY <1>1, <1>2 DEF Finished
  <2> QED
    BY <1>1, <1>2, <1>3, <1>5, <2>9, <2>10, AccountKept DEF FramingInv
<1>7. CASE OutOfStep
  <2>1. opening /\ reopens > 0
    BY <1>7 DEF OutOfStep
  <2>2. m_buffer'[2].val # Version
    <3>1. CASE m_offset = 2
      <4>1. wire[1].pos \in {1, 2}
        BY <1>1, <1>2, <1>7, <3>1 DEF OutOfStep
      <4>2. wire[1].val = FrameStart \/ (wire[1].val = wire[1].size /\ wire[1].size >= 3)
        BY <1>2, <1>3, <2>1, <4>1, FramingValues DEF Sound
      <4> QED
        BY <1>3, <1>5, <3>1, <4>2, FramingValues
    <3>2. CASE m_offset = 3
      BY <1>1, <1>5, <1>7, <3>2 DEF OutOfStep
    <3> QED
      BY <1>4, <3>1, <3>2
  <2>3. OutOfStep'
    BY <1>1, <1>4, <2>1, <2>2 DEF OutOfStep
  <2>4. Accounted'
    BY <1>1, <2>1, <1>5 DEF Accounted, FramingType
  <2> QED
    BY <1>2, <1>5, <2>3, <2>4 DEF FramingInv
<1> QED
  BY <1>6, <1>7 DEF FramingInv

\* The rest of a frame, or, where the link allows it, a part.
LEMMA ReadDataKeeps == ASSUME FramingInv, Framing!ReadData PROVE FramingInv'
<1>1. PICK k \in Framing!Returned(m_length - m_offset) :
        /\ m_buffer' = [i \in DOMAIN m_buffer |->
                          IF i \in m_offset .. m_offset + k - 1
                            THEN wire[i - m_offset + 1] ELSE m_buffer[i]]
        /\ m_offset' = m_offset + k
        /\ wire' = SubSeq(wire, k + 1, Len(wire))
  BY DEF Framing!ReadData
<1>2. /\ m_state = "DATA" /\ m_offset < m_length
      /\ UNCHANGED <<link, sent, opening, spoilt, dispatched, errors, reopens, m_state, m_length, m_type>>
  BY DEF Framing!ReadData, Framing!Counters
<1>3. /\ m_offset \in Nat /\ m_length \in Nat /\ m_length <= Framing!BufferLength
      /\ Stream(wire, link, sent, opening) /\ wire \in Seq(Bytes) /\ Len(wire) \in Nat
      /\ sent \in Nat /\ opening \in BOOLEAN
  BY FramingValues DEF FramingInv, FramingType, Stream
<1>4. /\ k \in 1 .. Len(wire) /\ k <= m_length - m_offset /\ wire # << >>
      /\ link.splits \/ k = m_length - m_offset
  BY <1>1, <1>2, <1>3 DEF Framing!Returned
<1>8. IsRest(wire', wire, k)
  <2> DEFINE v == SubSeq(wire, k + 1, Len(wire))
  <2>1. v \in Seq(Bytes) /\ Len(v) = Len(wire) - k /\ \A i \in 1 .. Len(v) : v[i] = wire[i + k]
    BY <1>3, <1>4
  <2>2. wire' = v
    BY <1>1
  <2> HIDE DEF v
  <2> QED
    BY <2>1, <2>2 DEF IsRest
<1>5. FramingType'
  <2>1. m_buffer \in [0 .. Framing!BufferLength -> Bytes]
    BY DEF FramingInv, FramingType
  <2>2. ASSUME NEW i \in m_offset .. m_offset + k - 1
        PROVE  wire[i - m_offset + 1] \in Bytes
    <3>1. i - m_offset + 1 \in 1 .. Len(wire)
      BY <1>3, <1>4
    <3>2. \A j \in 1 .. Len(wire) : wire[j] \in Bytes
      BY <1>3
    <3> QED
      BY <3>1, <3>2
  <2>3. m_buffer' \in [0 .. Framing!BufferLength -> Bytes]
    BY <1>1, <2>1, <2>2
  <2>4. m_offset' \in 0 .. Framing!BufferLength
    BY <1>1, <1>3, <1>4, FramingValues
  <2>5. Stream(wire', link, sent, opening)
    <3>1. k \in 0 .. Len(wire)
      BY <1>3, <1>4
    <3> QED
      BY <1>3, <1>8, <3>1, StreamEnd
  <2> QED
    BY <1>2, <2>3, <2>4, <2>5 DEF FramingInv, FramingType
<1>6. CASE InStep
  <2> DEFINE first == Framing!PayloadStart(m_length)
             f == m_type.frame
  <2>1. /\ f \in 1 .. sent /\ m_type.pos = first /\ m_type.size = m_length
        /\ first <= m_offset /\ first \in {3, 4}
        /\ spoilt \/ \A i \in first .. m_offset - 1 : m_buffer[i].frame = f /\ m_buffer[i].pos = i + 1
        /\ wire[1].pos = m_offset + 1 /\ wire[1].frame = f /\ wire[1].size = m_length
        /\ opening <=> m_buffer[2].val = Version
        /\ opening => f = sent
        /\ \A i \in DOMAIN dispatched : dispatched[i] < f
    BY <1>2, <1>6 DEF InStep, Collecting, Expecting, Framing!PayloadStart
  <2> HIDE DEF first, f
  <2>10. wire[1].pos = m_offset + 1 /\ wire[1].frame = f /\ wire[1].size = m_length /\ first \in {3, 4} /\ first <= m_offset
    BY <2>1
  <2>2. /\ m_offset' < m_length =>
             wire' # << >> /\ wire'[1].frame = f /\ wire'[1].size = m_length /\ wire'[1].pos = m_offset' + 1
        /\ m_offset' = m_length =>
             IF wire' = << >> THEN f = sent ELSE wire'[1].pos = 1 /\ wire'[1].frame = f + 1
    <3>1. wire[1].pos + k <= wire[1].size + 1
      BY <1>3, <1>4, <2>10
    <3>2. /\ wire[1].pos + k <= wire[1].size =>
               wire' # << >> /\ wire'[1].frame = wire[1].frame /\ wire'[1].size = wire[1].size
               /\ wire'[1].pos = wire[1].pos + k
          /\ wire[1].pos + k = wire[1].size + 1 =>
               IF wire' = << >> THEN wire[1].frame = sent ELSE wire'[1].pos = 1 /\ wire'[1].frame = wire[1].frame + 1
      <4>1. Behind(wire', wire[1], k, sent)
        BY <1>3, <1>4, <1>8, <3>1, StreamRest
      <4> QED
        BY <4>1 DEF Behind
    <3>3. /\ m_offset' < m_length => wire[1].pos + k <= wire[1].size /\ wire[1].pos + k = m_offset' + 1
          /\ m_offset' = m_length => wire[1].pos + k = wire[1].size + 1
      <4>1. \A a, b, c, d, e \in Nat : c = a + b =>
              /\ c < d /\ e = a + 1 => e + b <= d /\ e + b = c + 1
              /\ c = d /\ e = a + 1 => e + b = d + 1
        OBVIOUS
      <4>2. m_offset' \in Nat /\ wire[1].pos \in Nat /\ k \in Nat
        BY <1>1, <1>3, <1>4, <2>10
      <4>3. m_offset' = m_offset + k
        BY <1>1
      <4>4. m_offset \in Nat /\ m_length \in Nat
        BY <1>3
      <4> QED
        BY ONLY <2>10, <4>1, <4>2, <4>3, <4>4
    <3> QED
      BY <2>10, <3>2, <3>3
  <2>3. ASSUME ~spoilt, NEW i \in first .. m_offset' - 1
        PROVE  m_buffer'[i].frame = f /\ m_buffer'[i].pos = i + 1
    <3>0. i \in DOMAIN m_buffer /\ i \in Nat
      <4>1. DOMAIN m_buffer = 0 .. Framing!BufferLength
        BY DEF FramingInv, FramingType
      <4>2. i \in Int /\ i >= 3 /\ i < m_length
        BY <1>1, <1>3, <1>4, <2>10
      <4> QED
        BY <1>3, <4>1, <4>2, FramingValues
    <3>1. CASE i < m_offset
      <4>1. m_buffer'[i] = m_buffer[i] /\ i \in first .. m_offset - 1
        BY <1>1, <1>3, <2>1, <3>0, <3>1
      <4> QED
        BY <2>1, <2>3, <4>1
    <3>2. CASE i >= m_offset
      <4>1. PICK j \in Nat : j = i - m_offset
        BY <1>3, <2>1, <3>0, <3>2
      <4>2. j < k /\ j < Len(wire) /\ wire[1].pos + j <= wire[1].size /\ i \in m_offset .. m_offset + k - 1
        BY <1>1, <1>3, <1>4, <2>1, <3>0, <3>2, <4>1
      <4>3. m_buffer'[i] = wire[j + 1]
        BY <1>1, <3>0, <4>1, <4>2
      <4>4. wire[j + 1].frame = wire[1].frame /\ wire[j + 1].pos = wire[1].pos + j
        BY <1>3, <1>4, <4>2, FrameRuns
      <4> QED
        BY <1>3, <2>1, <3>0, <4>1, <4>3, <4>4
    <3> QED
      BY <1>3, <3>0, <3>1, <3>2
  <2>4. m_buffer'[2] = m_buffer[2]
    BY <1>1, <1>3, <2>1, FramingValues DEF FramingInv, FramingType
  <2>5. first <= m_offset' /\ m_offset' <= m_length /\ (link.splits \/ m_offset' = m_length)
    BY ONLY <1>1, <1>3, <1>4, <2>10
  <2>6. Collecting'
    BY <1>2, <2>1, <2>2, <2>3, <2>4, <2>5 DEF Collecting, Expecting, first, f
  <2>7. InStep'
    BY <1>2, <2>6 DEF InStep
  <2>8. Before'
    <3>4. m_offset' \in Nat
      BY <1>1, <1>3, <1>4
    <3>1. wire' # << >> => wire'[1].frame \in {f, f + 1}
      BY ONLY <1>3, <2>2, <2>5, <3>4
    <3>2. ASSUME NEW i \in DOMAIN dispatched, wire' # << >> PROVE dispatched[i] < wire'[1].frame
      <4>1. dispatched[i] \in 1 .. sent /\ dispatched[i] < f
        BY <2>1 DEF FramingInv, Before
      <4>2. dispatched[i] \in Nat /\ f \in Nat
        BY <1>3, <2>1, <4>1
      <4> QED
        BY ONLY <3>1, <3>2, <4>1, <4>2
    <3> QED
      BY <1>2, <3>2 DEF FramingInv, Before
  <2>9. Finished = f - 1 /\ Finished' = f - 1
    BY <1>2 DEF Finished, f
  <2> QED
    BY <1>2, <1>3, <1>5, <2>1, <2>7, <2>8, <2>9, AccountKept DEF FramingInv
<1>7. CASE OutOfStep
  <2>1. opening /\ reopens > 0 /\ m_offset >= 3 /\ m_buffer[2].val # Version
    BY <1>2, <1>7 DEF OutOfStep
  <2>2. m_buffer'[2] = m_buffer[2] /\ m_offset' >= 3
    BY <1>1, <1>3, <1>4, <2>1, FramingValues DEF FramingInv, FramingType
  <2>3. OutOfStep'
    BY <1>2, <2>1, <2>2 DEF OutOfStep
  <2>4. Accounted'
    BY <1>2, <1>5, <2>1 DEF Accounted, FramingType
  <2>5. Before'
    <3>1. wire[1].frame = sent
      <4>1. Sound(wire[1], link, sent, opening)
        BY <1>3, <1>4, StreamTail
      <4> QED
        BY <2>1, <4>1 DEF Sound
    <3>2. wire' # << >> => wire'[1].frame = sent
      <4>1. Stream(wire', link, sent, opening)
        BY <1>2, <1>5 DEF FramingType
      <4>2. wire' # << >> => Sound(wire'[1], link, sent, opening)
        BY <1>3, <4>1, StreamTail
      <4> QED
        BY <2>1, <4>2 DEF Sound
    <3> QED
      BY <1>2, <1>4, <3>1, <3>2 DEF FramingInv, Before
  <2> QED
    BY <1>5, <2>3, <2>4, <2>5 DEF FramingInv
<1> QED
  BY <1>6, <1>7 DEF FramingInv

LEMMA CompleteKeeps == ASSUME FramingInv, Framing!Complete PROVE FramingInv'
<1>1. /\ m_state = "DATA" /\ m_offset >= m_length /\ m_state' = "START"
      /\ UNCHANGED <<link, sent, wire, spoilt, errors, reopens, m_length, m_type, m_buffer>>
      /\ dispatched' = IF Framing!Accepted THEN Append(dispatched, Framing!Origin) ELSE dispatched
      /\ m_offset' = IF opening /\ Framing!Accepted THEN 0 ELSE Framing!PayloadStart(m_length)
      /\ opening' = (opening /\ ~Framing!Accepted)
  BY DEF Framing!Complete, Framing!Whole, Framing!Counters
<1>2. /\ m_offset \in Nat /\ m_length \in Nat /\ opening \in BOOLEAN /\ opening' \in BOOLEAN
      /\ sent \in Nat /\ dispatched \in Seq(Nat) /\ errors \in Nat
      /\ Stream(wire, link, sent, opening)
  BY <1>1, FramingValues DEF FramingInv, FramingType
<1>3. m_offset' \in 0 .. Framing!BufferLength
  BY <1>1, FramingValues DEF Framing!PayloadStart
<1>4. CASE InStep
  <2> DEFINE first == Framing!PayloadStart(m_length)
             f == m_type.frame
  <2>1. Collecting
    BY <1>1, <1>4 DEF InStep
  <2>2. /\ f \in 1 .. sent /\ m_type.pos = first /\ m_type.size = m_length
        /\ m_offset = m_length
        /\ opening <=> m_buffer[2].val = Version
        /\ opening => f = sent
        /\ \A i \in DOMAIN dispatched : dispatched[i] < f
        /\ IF wire = << >> THEN f = sent ELSE wire[1].pos = 1 /\ wire[1].frame = f + 1
    BY <1>1, <1>2, <2>1 DEF Collecting
  <2>3. Framing!Accepted
    BY <2>2 DEF Framing!Accepted
  <2>4. Framing!Origin = f
    BY <2>1, <2>2 DEF Framing!Origin, Collecting
  <2> HIDE DEF f, first
  <2>5. f \in Nat /\ Len(dispatched) \in Nat
    BY <1>2, <2>2
  <2>6. dispatched' = Append(dispatched, f) /\ opening' = FALSE
    BY <1>1, <2>3, <2>4
  <2>7. Stream(wire, link, sent, FALSE)
    <3>1. CASE opening
      <4>1. ASSUME wire # << >> PROVE FALSE
        <5>0. Sound(wire[1], link, sent, opening)
          BY <1>2, <4>1, StreamTail
        <5>1. wire[1].frame \in 1 .. sent
          BY <5>0 DEF Sound
        <5> QED
          BY <1>2, <2>2, <3>1, <4>1, <5>1
      <4>2. wire = << >>
        BY <4>1
      <4> QED
        BY <4>2 DEF Stream
    <3>2. CASE ~opening
      BY <1>2, <3>2
    <3> QED
      BY <3>1, <3>2
  <2>8. FramingType'
    <3>1. dispatched' \in Seq(Nat)
      BY <1>2, <2>5, <2>6
    <3>2. Stream(wire', link', sent', opening')
      BY <1>1, <2>6, <2>7
    <3> QED
      BY <1>1, <1>3, <2>6, <3>1, <3>2 DEF FramingInv, FramingType
  <2>9. InStep'
    BY <1>1, <2>2 DEF InStep
  <2>10. Before'
    <3> DEFINE N == Len(dispatched)
    <3>1. /\ DOMAIN dispatched = 1 .. N /\ DOMAIN dispatched' = 1 .. N + 1 /\ N \in Nat
          /\ dispatched'[N + 1] = f /\ \A i \in 1 .. N : dispatched'[i] = dispatched[i]
      BY <1>2, <2>5, <2>6
    <3> HIDE DEF N
    <3>2. ASSUME NEW i \in 1 .. N + 1
          PROVE  /\ dispatched'[i] \in 1 .. sent
                 /\ i > 1 => dispatched'[i - 1] < dispatched'[i]
                 /\ wire # << >> => dispatched'[i] < wire[1].frame
      <4>1. CASE i \in 1 .. N
        <5>1. /\ dispatched'[i] = dispatched[i] /\ dispatched[i] \in 1 .. sent
              /\ i > 1 => dispatched'[i - 1] = dispatched[i - 1] /\ dispatched[i - 1] < dispatched[i]
              /\ wire # << >> => dispatched[i] < wire[1].frame
          BY <3>1, <4>1 DEF FramingInv, Before
        <5> QED
          BY <5>1
      <4>2. CASE i = N + 1
        <5>1. i > 1 => i - 1 \in 1 .. N /\ dispatched'[i - 1] < f
          BY <2>2, <3>1, <4>2
        <5>2. f < f + 1
          BY <2>5
        <5> QED
          BY <2>2, <3>1, <4>2, <5>1, <5>2
      <4> QED
        BY <3>1, <4>1, <4>2
    <3> QED
      BY <1>1, <3>1, <3>2 DEF Before
  <2>11. Accounted'
    <3>1. Finished = f - 1
      BY <1>1 DEF Finished, f
    <3>2. Finished' = f
      BY <1>1, <2>2, <2>5 DEF Finished
    <3>3. Len(dispatched') = Len(dispatched) + 1
      BY <1>2, <2>6
    <3> QED
      BY <1>1, <1>2, <2>5, <3>1, <3>2, <3>3 DEF FramingInv, Accounted
  <2> QED
    BY <2>8, <2>9, <2>10, <2>11 DEF FramingInv
<1>5. CASE OutOfStep
  <2>1. opening /\ reopens > 0 /\ ~Framing!Accepted
    BY <1>1, <1>5 DEF OutOfStep, Framing!Accepted
  <2>2. dispatched' = dispatched /\ opening' = opening
    BY <1>1, <1>2, <2>1
  <2>3. FramingType'
    BY <1>1, <1>2, <1>3, <2>2 DEF FramingInv, FramingType
  <2>4. InStep'
    BY <1>1, <2>1, <2>2 DEF InStep
  <2>5. Before'
    BY <1>1, <2>2 DEF FramingInv, Before
  <2>6. Accounted'
    BY <1>1, <2>1, <2>3 DEF Accounted, FramingType
  <2> QED
    BY <2>3, <2>4, <2>5, <2>6 DEF FramingInv
<1> QED
  BY <1>4, <1>5 DEF FramingInv

LEMMA ReadFailsKeeps == ASSUME FramingInv, Framing!ReadFails PROVE FramingInv'
<1>1. /\ errors < link.errors /\ ~Framing!Whole /\ wire # << >>
      /\ errors' = errors + 1 /\ m_state' = "START"
      /\ UNCHANGED <<link, sent, opening, spoilt, dispatched, reopens, m_length, m_offset, m_type,
                     m_buffer>>
  BY DEF Framing!ReadFails
<1>2. /\ Stream(wire, link, sent, opening) /\ wire \in Seq(Bytes) /\ sent \in Nat
      /\ opening \in BOOLEAN /\ errors \in Nat /\ link.errors \in Nat /\ Len(dispatched) \in Nat
  <2>1. /\ Stream(wire, link, sent, opening) /\ wire \in Seq(Bytes) /\ sent \in Nat
        /\ opening \in BOOLEAN /\ errors \in Nat /\ link \in Links /\ Len(dispatched) \in Nat
    BY DEF FramingInv, FramingType, Stream
  <2>2. link.errors \in Nat
    BY <2>1, ModemAssumption DEF ModemAssumption, Framing!Link
  <2> QED
    BY <2>1, <2>2
<1>3. wire' = wire \/ wire' = Tail(wire)
  <2>1. PICK k \in 0 .. 1 : wire' = SubSeq(wire, k + 1, Len(wire))
    BY DEF Framing!ReadFails
  <2>2. SubSeq(wire, 0 + 1, Len(wire)) = wire
    BY <1>2
  <2>3. SubSeq(wire, 1 + 1, Len(wire)) = Tail(wire)
    BY <1>1, <1>2
  <2> QED
    BY <2>1, <2>2, <2>3
<1>4. /\ wire[1] \in Bytes /\ Sound(wire[1], link, sent, opening)
      /\ Stream(wire', link, sent, opening)
      /\ wire' # << >> => wire'[1] = wire[1] \/ Follows(wire[1], wire'[1])
      /\ wire' = << >> => wire[1].frame = sent
  <2>1. /\ wire[1] \in Bytes /\ Sound(wire[1], link, sent, opening)
        /\ Stream(Tail(wire), link, sent, opening)
        /\ Tail(wire) # << >> => Follows(wire[1], Tail(wire)[1])
        /\ Tail(wire) = << >> => wire[1].frame = sent
    BY <1>1, <1>2, StreamTail
  <2>2. CASE wire' = wire
    BY <1>1, <1>2, <2>1, <2>2
  <2>3. CASE wire' = Tail(wire)
    BY ONLY <2>1, <2>3
  <2> QED
    BY <1>3, <2>2, <2>3
<1>5. wire[1].frame \in Nat
  BY <1>4 DEF Bytes
<1>6. wire' # << >> => /\ wire'[1].frame \in {wire[1].frame, wire[1].frame + 1}
                       /\ wire'[1].frame = wire[1].frame + 1 => wire'[1].pos = 1
  BY <1>4, <1>5 DEF Follows
<1>7. FramingType'
  BY <1>1, <1>2, <1>4 DEF FramingInv, FramingType
<1>8. InStep'
  BY <1>1, <1>2 DEF InStep
<1>9. Before'
  <2>1. ASSUME NEW i \in DOMAIN dispatched, wire' # << >> PROVE dispatched[i] < wire'[1].frame
    <3>1. dispatched[i] \in 1 .. sent /\ dispatched[i] < wire[1].frame
      BY <1>1 DEF FramingInv, Before
    <3>2. dispatched[i] \in Nat
      BY <1>2, <3>1
    <3> QED
      BY ONLY <1>5, <1>6, <2>1, <3>1, <3>2
  <2> QED
    BY <1>1, <2>1 DEF FramingInv, Before
<1>10. Accounted'
  <2>1. SUFFICES ASSUME reopens = 0 PROVE Len(dispatched) + errors + 1 >= Finished'
    BY <1>1, <1>2 DEF Accounted
  <2>2. InStep /\ Len(dispatched) + errors >= Finished
    BY <2>1 DEF FramingInv, OutOfStep, Accounted
  <2>3. Finished \in {wire[1].frame, wire[1].frame - 1}
    <3>1. CASE m_state = "DATA"
      <4>1. m_offset < m_length
        BY <1>1, <2>2, <3>1 DEF FramingInv, FramingType, Framing!Whole
      <4> QED
        BY <2>2, <3>1, <4>1 DEF InStep, Collecting, Finished
    <3>2. CASE m_state # "DATA"
      BY <1>1, <3>2 DEF Finished
    <3> QED
      BY <3>1, <3>2
  <2>4. Finished' \in {wire[1].frame, wire[1].frame - 1}
    <3>1. CASE wire' = << >>
      BY <1>1, <1>4, <3>1 DEF Finished
    <3>2. CASE wire' # << >>
      BY <1>1, <1>5, <1>6, <3>2 DEF Finished
    <3> QED
      BY <3>1, <3>2
  <2> QED
    BY <1>2, <1>5, <2>2, <2>3, <2>4
<1> QED
  BY <1>7, <1>8, <1>9, <1>10 DEF FramingInv

-----------------------------------------------------------------------------
(* The modem sends, the host transmits, and the port is closed.            *)

LEMMA SendGrows ==
  ASSUME FramingInv, NEW type \in 0 .. Framing!MaxByte, NEW payload,
         Framing!Send(type, payload), Framing!Sendable(payload), type # FrameStart,
         Unmistaken(link, opening) => Framing!Clear(payload),
         opening => wire = << >> /\ Len(payload) + 3 <= ShortMax /\ type = Version,
         ~opening => type # Version
  PROVE  /\ FramingType' /\ Before' /\ Accounted'
         /\ wire' # << >>
         /\ wire = << >> => wire'[1].pos = 1 /\ wire'[1].frame = sent + 1
         /\ wire # << >> => wire'[1] = wire[1]
<1> DEFINE e == Framing!Encode(sent + 1, type, payload)
<1>1. /\ sent' = sent + 1 /\ wire' = wire \o e
      /\ UNCHANGED <<link, opening, spoilt, dispatched, errors, reopens, m_state, m_length, m_offset,
                     m_type, m_buffer>>
  BY DEF Framing!Send, Framing!reader
<1>2. Stream(wire, link, sent, opening) /\ sent \in Nat /\ opening \in BOOLEAN
  BY DEF FramingInv, FramingType
<1>3. Stream(e, link, sent + 1, opening) /\ e # << >> /\ e[1].pos = 1 /\ e[1].frame = sent + 1
  BY <1>2, EncodeStream
<1> HIDE DEF e
<1>4. /\ Stream(wire', link, sent + 1, opening) /\ wire' # << >>
      /\ wire'[1] = IF wire = << >> THEN e[1] ELSE wire[1]
  BY <1>1, <1>2, <1>3, StreamAppend
<1>5. FramingType'
  BY <1>1, <1>2, <1>4 DEF FramingInv, FramingType
<1>6. Before'
  <2>1. ASSUME NEW i \in DOMAIN dispatched
        PROVE  dispatched[i] \in 1 .. sent + 1 /\ dispatched[i] < wire'[1].frame
    <3>1. dispatched[i] \in 1 .. sent /\ (wire # << >> => dispatched[i] < wire[1].frame)
      BY DEF FramingInv, Before
    <3> QED
      BY <1>2, <1>3, <1>4, <3>1
  <2> QED
    BY <1>1, <2>1 DEF FramingInv, Before
<1>7. Accounted'
  <2>1. Finished' = Finished
    BY <1>1, <1>2, <1>3, <1>4 DEF Finished
  <2> QED
    BY <1>1, <2>1 DEF FramingInv, Accounted
<1> QED
  BY <1>3, <1>4, <1>5, <1>6, <1>7

LEMMA ModemSendsKeeps == ASSUME FramingInv, Framing!ModemSends PROVE FramingInv'
<1>1. PICK type \in OtherTypes, payload \in link.payloads : ~opening /\ Framing!Send(type, payload)
  BY DEF Framing!ModemSends
<1>2. /\ type \in 0 .. Framing!MaxByte /\ type # FrameStart /\ type # Version
      /\ Framing!Sendable(payload)
      /\ Unmistaken(link, opening) => Framing!Clear(payload)
  <2>1. link \in Links
    BY DEF FramingInv, FramingType
  <2>2. OtherTypes \subseteq (0 .. Framing!MaxByte) \ {Version, FrameStart}
    BY FramingAssumption DEF FramingAssumption
  <2>3. \A l \in Links : \A p \in l.payloads : Framing!Sendable(p)
    BY FramingAssumption DEF FramingAssumption
  <2> QED
    BY <1>1, <2>1, <2>2, <2>3 DEF Unmistaken
<1>3. /\ FramingType' /\ Before' /\ Accounted'
      /\ wire' # << >>
      /\ wire = << >> => wire'[1].pos = 1 /\ wire'[1].frame = sent + 1
      /\ wire # << >> => wire'[1] = wire[1]
  BY <1>1, <1>2, SendGrows
<1>4. /\ sent' = sent + 1 /\ sent \in Nat
      /\ UNCHANGED <<link, opening, spoilt, dispatched, m_state, m_length, m_offset, m_type, m_buffer,
                     errors, reopens>>
  BY <1>1 DEF Framing!Send, Framing!reader, FramingInv, FramingType
<1>5. InStep
  BY <1>1 DEF FramingInv, OutOfStep
<1>6. Collecting => Collecting'
  BY <1>1, <1>3, <1>4 DEF Collecting, Expecting
<1>7. InStep'
  BY <1>1, <1>3, <1>4, <1>5, <1>6 DEF InStep, Expecting
<1> QED
  BY <1>3, <1>7 DEF FramingInv

LEMMA ModemAnswersKeeps == ASSUME FramingInv, Framing!ModemAnswers PROVE FramingInv'
<1>1. opening /\ ~Framing!Whole /\ wire = << >> /\ Framing!Send(Version, Reply)
  BY DEF Framing!ModemAnswers
<1>2. /\ FramingType' /\ Before' /\ Accounted'
      /\ wire' # << >> /\ wire'[1].pos = 1
  <2>1. /\ Version \in 0 .. Framing!MaxByte /\ Version # FrameStart
        /\ Framing!Sendable(Reply) /\ Len(Reply) + 3 <= ShortMax
    BY FramingValues, FramingAssumption DEF FramingAssumption
  <2>2. Unmistaken(link, opening) => Framing!Clear(Reply)
    BY <1>1 DEF Unmistaken
  <2> QED
    BY <1>1, <2>1, <2>2, SendGrows
<1>3. UNCHANGED <<link, opening, reopens, errors, m_state, m_length, m_offset, m_buffer>>
  BY <1>1 DEF Framing!Send, Framing!reader
<1>4. CASE InStep
  <2>1. m_state = "START"
    <3>1. ASSUME m_state = "DATA" PROVE FALSE
      <4>1. Collecting /\ m_offset < m_length
        BY <1>1, <1>4, <3>1 DEF InStep, Framing!Whole, FramingInv, FramingType
      <4> QED
        BY <1>1, <4>1 DEF Collecting, Expecting
    <3> QED
      BY <1>1, <1>4, <3>1 DEF InStep, Expecting, FramingInv, FramingType
  <2>2. InStep'
    BY <1>1, <1>2, <1>3, <2>1 DEF InStep
  <2> QED
    BY <1>2, <2>2 DEF FramingInv
<1>5. CASE OutOfStep
  <2>1. OutOfStep'
    BY <1>2, <1>3, <1>5 DEF OutOfStep
  <2> QED
    BY <1>2, <2>1 DEF FramingInv
<1> QED
  BY <1>4, <1>5 DEF FramingInv

LEMMA TransmitKeeps == ASSUME FramingInv, Framing!Transmit PROVE FramingInv'
<1> DEFINE first == Framing!PayloadStart(m_length)
<1>1. PICK n \in link.tx :
        /\ m_buffer' = [i \in DOMAIN m_buffer |-> IF i < n THEN Framing!Foreign ELSE m_buffer[i]]
        /\ spoilt' = (spoilt \/ (m_state = "DATA" /\ first < m_offset /\ first < n))
  BY DEF Framing!Transmit
<1>2. /\ ~opening /\ ~Framing!Whole
      /\ UNCHANGED <<link, wire, sent, dispatched, opening, m_state, m_length, m_offset,
                     m_type, errors, reopens>>
  BY DEF Framing!Transmit
<1>3. n \in Nat /\ first \in {3, 4} /\ m_offset \in Nat
  BY ModemAssumption, FramingValues
     DEF ModemAssumption, Framing!Link, FramingInv, FramingType, Framing!PayloadStart
<1>4. /\ m_buffer' \in [0 .. Framing!BufferLength -> Bytes]
      /\ m_buffer'[2] \in {m_buffer[2], Framing!Foreign}
  <2>1. m_buffer \in [0 .. Framing!BufferLength -> Bytes] /\ 2 \in 0 .. Framing!BufferLength
    BY FramingValues DEF FramingInv, FramingType
  <2> QED
    BY <1>1, <2>1, ForeignByte
<1>5. m_buffer[2].val # Version => m_buffer'[2].val # Version
  BY <1>4, ForeignByte, FramingValues
<1>7. InStep
  BY <1>2 DEF FramingInv, OutOfStep
<1> HIDE DEF first
<1>11. m_state = "DATA" => Collecting /\ m_offset < m_length
  BY <1>2, <1>7 DEF InStep, Framing!Whole, FramingInv, FramingType
<1>12. spoilt' => link.splits
  BY <1>1, <1>3, <1>11 DEF Collecting, FramingInv, FramingType, first
<1>6. FramingType'
  BY <1>1, <1>2, <1>4, <1>12 DEF FramingInv, FramingType
<1>8. ASSUME m_state = "DATA" PROVE Collecting'
  <2>1. Collecting
    BY <1>8, <1>11
  <2>2. ASSUME ~spoilt', NEW i \in first .. m_offset - 1
        PROVE  m_buffer'[i].frame = m_type.frame /\ m_buffer'[i].pos = i + 1
    <3>1. i \in Nat /\ i < m_offset /\ first <= i
      BY <1>3, <2>2
    <3>6. first < m_offset
      BY <1>3, <3>1
    <3>4. ~spoilt /\ ~(first < n)
      BY <1>1, <1>8, <2>2, <3>6, Zenon
    <3>5. i >= n
      BY <1>3, <3>1, <3>4
    <3>2. i \in DOMAIN m_buffer
      <4>1. m_offset <= Framing!BufferLength /\ DOMAIN m_buffer = 0 .. Framing!BufferLength
        BY DEF FramingInv, FramingType
      <4> QED
        BY <1>3, <3>1, <4>1, FramingValues
    <3>3. m_buffer'[i] = m_buffer[i]
      BY <1>1, <1>3, <3>1, <3>2, <3>5
    <3> QED
      BY <2>1, <2>2, <3>3, <3>4 DEF Collecting, first
  <2> QED
    BY <1>2, <1>5, <1>11, <2>1, <2>2 DEF Collecting, Expecting, first
<1>9. InStep'
  BY <1>2, <1>5, <1>7, <1>8 DEF InStep, Expecting
<1>10. Before' /\ Accounted'
  BY <1>2 DEF FramingInv, Before, Accounted, Finished
<1> QED
  BY <1>6, <1>9, <1>10 DEF FramingInv

LEMMA ReopenKeeps == ASSUME FramingInv, Framing!Reopen PROVE FramingInv'
<1>1. /\ ~opening /\ opening' = TRUE /\ reopens' = reopens + 1 /\ wire' = << >>
      /\ UNCHANGED <<link, sent, dispatched, spoilt, m_state, m_length, m_offset, m_type, m_buffer,
                     errors>>
  BY DEF Framing!Reopen, Framing!reader
<1>2. FramingType'
  BY <1>1 DEF FramingInv, FramingType, Stream
<1>3. InStep
  BY <1>1 DEF FramingInv, OutOfStep
<1>4. reopens' > 0
  BY <1>1 DEF FramingInv, FramingType
<1>5. InStep' \/ OutOfStep'
  <2>1. CASE m_state = "START"
    BY <1>1, <2>1 DEF InStep
  <2>2. CASE m_state = "TYPE"
    <3>1. m_offset \in {2, 3} /\ (m_offset = 3 => m_buffer[2].val # Version)
      BY <1>3, <2>2 DEF InStep, Framing!PayloadStart, FramingInv, FramingType
    <3> QED
      BY <1>1, <1>4, <2>2, <3>1 DEF OutOfStep
  <2>3. CASE m_state = "DATA"
    <3>1. m_offset >= 3 /\ m_buffer[2].val # Version
      BY <1>1, <1>3, <2>3 DEF InStep, Collecting, Framing!PayloadStart, FramingInv, FramingType
    <3> QED
      BY <1>1, <1>4, <2>3, <3>1 DEF OutOfStep
  <2>4. CASE m_state \in {"LENGTH1", "LENGTH2"}
    BY <1>1, <1>4, <2>4 DEF OutOfStep
  <2> QED
    BY <2>1, <2>2, <2>3, <2>4 DEF FramingInv, FramingType
<1>6. Before'
  BY <1>1 DEF FramingInv, Before
<1>7. Accounted'
  BY <1>4 DEF Accounted
<1> QED
  BY <1>2, <1>5, <1>6, <1>7 DEF FramingInv

\* What can be told of the link is told of it from the start.
LEMMA FramingStep == ASSUME FramingHeld, Framing!Next PROVE FramingHeld'
<1>1. /\ link' = link /\ errors' \in {errors, errors + 1} /\ reopens' \in {reopens, reopens + 1}
      /\ errors' \in Nat /\ reopens' \in Nat
  BY DEF FramingHeld, Framing!Next, Framing!ModemSends, Framing!ModemAnswers, Framing!Send,
         Framing!ReadStart, Framing!ReadLength1, Framing!ReadLength2, Framing!ReadType,
         Framing!ReadData, Framing!Complete, Framing!ReadFails, Framing!Transmit,
         Framing!Reopen, Framing!Counters
<1>2. SUFFICES ASSUME Framing!Findable' PROVE FramingInv'
  BY <1>1 DEF FramingHeld
<1>3. Framing!Findable
  BY <1>1, <1>2 DEF Framing!Findable, FramingHeld
<1> QED
  BY <1>3, ModemSendsKeeps, ModemAnswersKeeps, ReadStartKeeps, ReadLength1Keeps, ReadLength2Keeps,
     ReadTypeKeeps, ReadDataKeeps, CompleteKeeps, ReadFailsKeeps, TransmitKeeps, ReopenKeeps
     DEF Framing!Next, FramingHeld

LEMMA FramingInit == ASSUME Framing!Init PROVE FramingHeld
<1>1. FramingType
  <2>1. m_buffer \in [0 .. Framing!BufferLength -> Bytes]
    BY ForeignByte DEF Framing!Init
  <2>2. Stream(wire, link, sent, opening)
    BY DEF Framing!Init, Stream
  <2> QED
    BY <2>1, <2>2, ForeignByte, FramingValues DEF Framing!Init, FramingType
<1>2. InStep /\ Before /\ Accounted
  BY DEF Framing!Init, InStep, Before, Accounted, Finished
<1> QED
  BY <1>1, <1>2 DEF FramingInv, FramingHeld, FramingType

-----------------------------------------------------------------------------
(* Of the three parts, the one that is looked at.                          *)

ModemInv == /\ part = "framing" => FramingHeld
            /\ part = "link" => LinkInv
            /\ part = "queues" => QueuesInv /\ RoomAll

\* Init and every step of the three parts keep the invariant.  Of the link: the last
\* configuration under way is the one wanted and, with none under way, the modem has it.
\* Of the queues: what is queued or on its way is numbered without a gap, record by
\* record, and what was fed and not taken yet fits into the room that is left.
THEOREM ModemInvariant == Spec => []ModemInv
<1>1. Init => ModemInv
  BY FramingInit, LinkInit, QueuesInit DEF Init, ModemInv
<1>2. ASSUME ModemInv, [Next]_vars PROVE ModemInv'
  <2>1. CASE FramingOnly /\ Framing!Next
    BY <1>2, <2>1, FramingStep DEF FramingOnly, ModemInv
  <2>2. CASE LinkOnly /\ Link!Next
    BY <1>2, <2>2, LinkStep DEF LinkOnly, ModemInv
  <2>3. CASE QueuesOnly /\ Queues!Next
    BY <1>2, <2>3, QueuesStep DEF QueuesOnly, ModemInv, RoomKept
  <2>4. CASE UNCHANGED vars
    <3>1. part' = part
      BY <2>4 DEF vars
    <3>2. ASSUME LinkInv PROVE LinkInv'
      <4>1. UNCHANGED <<fm, wanted, protocol, modem, lost, toModem, step, ours, reconf>>
        BY <2>4 DEF vars, linkVars, transit
      <4> QED
        BY <3>2, <4>1, RestKeeps DEF Configured, Overtaken
    <3>3. ASSUME QueuesInv PROVE QueuesInv' /\ RoomKept
      <4>1. UNCHANGED <<queueVars, transit>>
        BY <2>4 DEF vars
      <4> QED
        BY <3>3, <4>1, QueuesRest
    <3>4. ASSUME FramingHeld PROVE FramingHeld'
      <4>1. UNCHANGED framingVars
        BY <2>4 DEF vars
      <4> QED
        BY <3>4, <4>1 DEF framingVars, FramingHeld, Framing!Findable, FramingInv, FramingType, InStep, OutOfStep, Collecting,
                          Expecting, Before, Accounted, Finished
    <3> QED
      BY <1>2, <3>1, <3>2, <3>3, <3>4 DEF ModemInv, RoomKept
  <2> QED
    BY <1>2, <2>1, <2>2, <2>3, <2>4 DEF Next
<1> QED
  BY <1>1, <1>2, PTL DEF Spec

\* Whatever order commands and answers cross in, whatever the main thread is doing when
\* a command comes, and however often the link is reset: a modem in use with no
\* configuration to be written or under way is configured as setConfig1 or setConfig2
\* writes what the host wants.  The exceptions are what the code does nothing about: a
\* refusal it overlooks, a command's write that failed or was overtaken by an older one
\* of open(), and a modem that was away.
THEOREM ModemConfigured == Spec => []ModesAgree
<1>1. ASSUME ModemInv PROVE ModesAgree
  <2>1. SUFFICES ASSUME LinkInv, step = "USE", reconf # Link!Setting, ~Link!Asked("CONFIG"),
                        lost = {}
                 PROVE  modem.modes = Link!ConfigOf(wanted)
    BY <1>1 DEF ModemInv, ModesAgree, Link!ModesAgree
  <2>2. NoConfig(toModem)
    BY <2>1 DEF Link!Asked, NoConfig, IsConfig
  <2>3. Configured /\ ~Overtaken
    BY <2>1 DEF LinkInv, Configured, Overtaken
  <2> QED
    BY <2>1, <2>2, <2>3 DEF LinkInv, Told
<1> QED
  BY <1>1, ModemInvariant, PTL

\* For any payloads, sizes of a frame, splits of the reads and frames transmitted: a
\* frame that getResponse hands to clock or readVersion is one the modem sent, whole and
\* after those handed over before, although m_state outlives the closing of the port and
\* reads fail; except where a frame was transmitted while it was half read, which can
\* only be over a port whose reads return parts, and where a byte of a payload may have
\* been taken for the start of a frame after a failed read or a closing.
THEOREM FramesCutWhole == Spec => []FramesIntact
<1>1. ASSUME ModemInv PROVE FramesIntact
  <2> SUFFICES ASSUME part = "framing", Framing!Findable
               PROVE  /\ \A i \in DOMAIN dispatched :
                           /\ dispatched[i] # 0
                           /\ i > 1 => dispatched[i - 1] < dispatched[i]
                      /\ spoilt => link.splits
    BY DEF FramesIntact, Framing!FramesIntact
  <2>1. Before /\ sent \in Nat /\ (spoilt => link.splits)
    BY <1>1 DEF ModemInv, FramingHeld, FramingInv, FramingType
  <2> QED
    BY <2>1 DEF Before
<1> QED
  BY <1>1, ModemInvariant, PTL

\* However many reads fail, and at whichever byte, where no payload holds a byte that
\* looks like the start of a frame: getResponse, which only gives up the frame it is in,
\* hands over every other frame, for it finds the next start of one by itself.
THEOREM FramesFound == Spec => []ErrorCostsOneFrame
<1>1. ASSUME ModemInv PROVE ErrorCostsOneFrame
  <2> SUFFICES ASSUME part = "framing", Framing!Findable, Framing!Quiet, reopens = 0
               PROVE  Len(dispatched) + errors >= sent
    BY DEF ErrorCostsOneFrame, Framing!ErrorCostsOneFrame
  <2>1. Accounted /\ Finished = sent
    BY <1>1 DEF ModemInv, FramingHeld, FramingInv, Finished, Framing!Quiet
  <2> QED
    BY <2>1 DEF Accounted
<1> QED
  BY <1>1, ModemInvariant, PTL

\* For any protocols in use, sizes of queues and of frames: the receive queue of a
\* protocol and what is on the wire hold the frames after the last one read, each once
\* and in the order they came, although getResponse and clock never check that a frame
\* fits; and so do the transmit queues for what is to be fed, although hasXXXSpace
\* reckons with another length than writeXXXData adds.
THEOREM QueuesInOrder == Spec => []FramesKept
<1>1. ASSUME ModemInv PROVE FramesKept
  <2> SUFFICES ASSUME part = "queues" PROVE Queues!FramesKept
    BY DEF FramesKept
  <2>1. QueuesInv
    BY <1>1 DEF ModemInv
  <2>2. ASSUME NEW p \in fit.protocols, p \notin excused
        PROVE  Queues!Whole(tx[p]) /\ Queues!InOrder(tx[p], Queues!Starts(tx[p]), taken[p], handed[p])
    <3>1. /\ tx[p] \in Seq(Runs) /\ taken[p] \in Nat /\ handed[p] \in Nat
          /\ IsPairs(tx[p], taken[p], handed[p])
      BY <2>1, <2>2 DEF QueuesInv, QueuesType, TxAll, TxInv
    <3> QED
      BY <3>1, PairsKept
  <2> QED
    BY <2>1, <2>2, WayInOrder DEF Queues!FramesKept, Queues!fitted
<1> QED
  BY <1>1, ModemInvariant, PTL

\* For rooms of any size, however slow an answer to the status is and whatever is fed in
\* the meantime: what is under way to the modem exceeds its room by at most what was ever
\* fed in advance of a status, less the one unit MayFeed keeps in hand.  With one unit fed
\* in advance, the modem has room for everything; with a D-Star header or two frames it
\* need not have.
THEOREM ModemNotOverrun == Spec => []FrameFits
<1>1. ASSUME ModemInv PROVE FrameFits
  <2> SUFFICES ASSUME part = "queues", NEW p \in fit.protocols
               PROVE  Queues!UnderWay(p) <= room[p] + ahead[p] - 1
    BY DEF FrameFits, Queues!FrameFits, Queues!fitted
  <2>1. RoomInv(p)
    BY <1>1 DEF ModemInv, RoomAll
  <2>2. /\ FramesOf(toModem, p, "ANY") = Queues!FramesUnderWay(p)
        /\ FramesOf(toModem, p, "LONG") = {i \in Queues!FramesUnderWay(p) : toModem[i].units = 4}
    BY DEF FramesOf, Counts, Queues!FramesUnderWay
  <2>3. Under(p) = Queues!UnderWay(p)
    <3>1. Under(p) = Cardinality(FramesOf(toModem, p, "ANY"))
                     + 3 * Cardinality(FramesOf(toModem, p, "LONG"))
      BY DEF Under, UnitsOf
    <3> QED
      BY ONLY <2>2, <3>1 DEF Queues!UnderWay, Queues!Cardinality, Cardinality, Queues!IsFiniteSet, IsFiniteSet
  <2> QED
    BY <2>1, <2>3 DEF RoomInv
<1> QED
  BY <1>1, ModemInvariant, PTL

=============================================================================
