-------------------------- MODULE IdLookup_proofs --------------------------
(***************************************************************************)
(* What a find sees, for any number of files of any length, any of them    *)
(* missing, and with or without a reload thread.                           *)
(***************************************************************************)
EXTENDS IdLookup, TLAPS

LEMMA Constants ==
  /\ \A n \in ReloadTimes : n \in Nat
  /\ LastFile \in Nat /\ Files \subseteq Nat /\ 0 \in Files
  /\ \A n \in Files : Lines[n] \in Nat
  /\ Lines[0] = 0
BY LookupAssumption DEF LookupAssumption, Files

LEMMA TimerClosed ==
  ASSUME NEW t \in Timer, NEW n \in Nat
  PROVE  /\ SetTimeout(t, n) \in Timer
         /\ Start(t) \in Timer
         /\ Clock(t, n) \in Timer
<1>1. SetTimeout(t, n) \in Timer
  BY DEF Timer, SetTimeout, Unset
<1>2. Start(t) \in Timer
  BY DEF Timer, Start
<1>3. Clock(t, n) \in Timer
  BY DEF Timer, Clock, IsRunning
<1> QED
  BY <1>1, <1>2, <1>3

(* Type correctness, by the groups of variables an action can disturb. *)
FileType == reloadTime \in ReloadTimes /\ file \in Files /\ wanted \in Files
TableType == table \in Tables /\ seen \in Tables
LoadType == /\ m_mutex \in Loaders \cup {Free}
            /\ opened \in [Loaders -> Files]
            /\ load \in [Loaders -> {"no", "open", "lock", "clear", "parse"}]
            /\ \A l \in Loaders : m_mutex = l <=> load[l] \in {"clear", "parse"}
ThreadType == /\ host \in {"read", "loop", "find", "reload", "wait", "stopped"}
              /\ thread \in {"none", "check", "sleep", "load", "ended"}
TimerType == timer \in Timer
FlagType == hostReload \in BOOLEAN /\ m_reload \in BOOLEAN /\ m_stop \in BOOLEAN

LEMMA Groups ==
  TypeOK <=> FileType /\ TableType /\ LoadType /\ ThreadType /\ TimerType /\ FlagType
BY DEF TypeOK, FileType, TableType, LoadType, ThreadType, TimerType, FlagType

LEMMA TypeInit == ASSUME Init PROVE TypeOK
<1>1. FileType /\ TableType /\ ThreadType /\ FlagType
  BY Constants DEF Init, FileType, TableType, ThreadType, FlagType, Tables, Empty
<1>2. LoadType
  BY Constants DEF Init, LoadType, Loaders, Free
<1>3. TimerType
  BY DEF Init, TimerType, Timer, Unset
<1> QED
  BY <1>1, <1>2, <1>3, Groups

LEMMA TypeLoad ==
  ASSUME TypeOK, NEW l \in Loaders, loadStep(l)
  PROVE  TypeOK'
<1>0. FileType /\ TableType /\ LoadType /\ ThreadType /\ TimerType /\ FlagType
  BY Groups
<1>1. ThreadType' /\ TimerType' /\ FlagType'
  BY <1>0 DEF loadStep, loadOpen, loadLock, loadClear, loadParse, flags,
     ThreadType, TimerType, FlagType
<1>2. FileType'
  BY <1>0, Constants DEF loadStep, loadOpen, loadLock, loadClear, loadParse, FileType
<1>3. TableType'
  BY <1>0 DEF loadStep, loadOpen, loadLock, loadClear, loadParse, TableType, LoadType, Tables
<1>4. LoadType'
  <2>1. CASE loadOpen(l)
    BY <1>0, <2>1 DEF loadOpen, LoadType, FileType
  <2>2. CASE loadLock(l)
    BY <1>0, <2>2 DEF loadLock, LoadType, Loaders, Free
  <2>3. CASE loadClear(l)
    BY <1>0, <2>3 DEF loadClear, LoadType
  <2>4. CASE loadParse(l)
    BY <1>0, <2>4 DEF loadParse, LoadType, Loaders, Free
  <2> QED
    BY <2>1, <2>2, <2>3, <2>4 DEF loadStep
<1> QED
  BY <1>1, <1>2, <1>3, <1>4 DEF TypeOK, FileType, TableType, LoadType, ThreadType,
     TimerType, FlagType

\* What is not a step of load.
Others == \/ threadCheck \/ threadWake \/ threadLoaded
          \/ read \/ find \/ lookup \/ reload \/ reloaded \/ stop \/ join
          \/ newFile \/ RELOAD

LEMMA NextCases == Next <=> (\E l \in Loaders : loadStep(l)) \/ Others
BY DEF Next, Others, loadStep

LEMMA TypeOthers ==
  ASSUME TypeOK, LoadersInv, Others
  PROVE  TypeOK'
<1>0. FileType /\ TableType /\ LoadType /\ ThreadType /\ TimerType /\ FlagType
  BY Groups
<1>1. TimerType'
  <2>1. CASE threadWake
    BY <1>0, <2>1, TimerClosed DEF threadWake, TimerType
  <2>2. CASE threadLoaded
    BY <1>0, <2>2, TimerClosed DEF threadLoaded, TimerType
  <2>3. CASE read
    <3>1. reloadTime \in Nat
      BY <1>0, Constants DEF FileType
    <3>2. SetTimeout(timer, reloadTime) \in Timer
      BY <1>0, <3>1, TimerClosed DEF TimerType
    <3> QED
      BY <1>0, <2>3, <3>2, TimerClosed DEF read, TimerType
  <2> QED
    BY <1>0, <2>1, <2>2, <2>3 DEF Others, threadCheck, find, lookup, reload, reloaded, stop,
       join, newFile, RELOAD, TimerType
<1>2. FileType'
  BY <1>0, Constants DEF Others, threadCheck, threadWake, threadLoaded, read, find, lookup,
     reload, reloaded, stop, join, newFile, RELOAD, FileType, Files
<1>3. TableType'
  BY <1>0 DEF Others, threadCheck, threadWake, threadLoaded, read, find, lookup,
     reload, reloaded, stop, join, newFile, RELOAD, db, TableType
<1>4. ThreadType'
  BY <1>0 DEF Others, threadCheck, threadWake, threadLoaded, read, find, lookup,
     reload, reloaded, stop, join, newFile, RELOAD, ThreadType
<1>5. FlagType'
  <2>1. CASE threadLoaded \/ reload \/ reloaded \/ RELOAD
    BY <1>0, <2>1 DEF threadLoaded, reload, reloaded, RELOAD, FlagType
  <2>2. CASE stop
    <3>1. m_stop' \in BOOLEAN /\ UNCHANGED <<hostReload, m_reload>>
      BY <2>2 DEF stop
    <3> QED
      BY <1>0, <3>1 DEF FlagType
  <2> QED
    BY <1>0, <2>1, <2>2 DEF Others, threadCheck, threadWake, read, find, lookup, join,
       newFile, flags, FlagType
<1>6. LoadType'
  <2>1. CASE threadWake
    BY <1>0, <2>1 DEF threadWake, LoadType, LoadersInv, Loaders
  <2>2. CASE reload
    BY <1>0, <2>2 DEF reload, LoadType, LoadersInv, Loaders
  <2> QED
    BY <1>0, <2>1, <2>2 DEF Others, threadCheck, threadLoaded, read, find, lookup,
       reloaded, stop, join, newFile, RELOAD, db, LoadType
<1> QED
  BY <1>1, <1>2, <1>3, <1>4, <1>5, <1>6 DEF TypeOK, FileType, TableType, LoadType,
     ThreadType, TimerType, FlagType

-----------------------------------------------------------------------------
(* One loader at a time.                                                   *)

LEMMA LoadersStep ==
  ASSUME TypeOK, LoadersInv, [Next]_vars
  PROVE  LoadersInv'
<1>0. load \in [Loaders -> {"no", "open", "lock", "clear", "parse"}] /\ reloadTime \in Nat
  BY Constants DEF TypeOK
<1>1. ASSUME NEW l \in Loaders, loadStep(l) PROVE LoadersInv'
  <2>1. /\ UNCHANGED <<host, thread, reloadTime>> /\ load[l] # "no"
        /\ \A k \in Loaders : load[k] = "no" => load'[k] = "no"
    BY <1>0, <1>1 DEF loadStep, loadOpen, loadLock, loadClear, loadParse
  <2> QED
    BY <2>1 DEF LoadersInv, Loaders
<1>2. CASE Others
  <2>1. CASE threadWake \/ reload
    BY <1>0, <2>1 DEF threadWake, reload, LoadersInv, Loaders
  <2>2. CASE threadCheck \/ threadLoaded \/ read
    BY <1>0, <2>2 DEF threadCheck, threadLoaded, read, db, LoadersInv
  <2>3. CASE find \/ lookup \/ reloaded \/ stop \/ join \/ newFile \/ RELOAD
    BY <1>0, <2>3 DEF find, lookup, reloaded, stop, join, newFile, RELOAD, db, LoadersInv
  <2> QED
    BY <1>2, <2>1, <2>2, <2>3 DEF Others
<1>3. CASE UNCHANGED vars
  BY <1>3 DEF vars, db, LoadersInv
<1> QED
  BY <1>1, <1>2, <1>3, NextCases

LEMMA LoadersInit == ASSUME Init PROVE LoadersInv
BY DEF Init, LoadersInv, Loaders

LEMMA TypeStep ==
  ASSUME TypeOK, LoadersInv, [Next]_vars
  PROVE  TypeOK'
<1>1. CASE UNCHANGED vars
  BY <1>1 DEF vars, db, flags, TypeOK
<1> QED
  BY <1>1, TypeLoad, TypeOthers, NextCases

\* Two loaders that are busy are one.
LEMMA OneLoader ==
  ASSUME LoadersInv, NEW l \in Loaders, NEW k \in Loaders, load[l] # "no", load[k] # "no"
  PROVE  l = k
BY DEF LoadersInv, Loaders

-----------------------------------------------------------------------------
(* The table is whole whenever the lock is free.                           *)

LEMMA WholeInit == ASSUME Init PROVE WholeInv
BY Constants DEF Init, WholeInv, Empty, Loaders

LEMMA WholeStep ==
  ASSUME TypeOK, LoadersInv, WholeInv, [Next]_vars
  PROVE  WholeInv'
<1>0. /\ load \in [Loaders -> {"no", "open", "lock", "clear", "parse"}]
      /\ opened \in [Loaders -> Files] /\ table \in Tables
      /\ \A l \in Loaders : m_mutex = l <=> load[l] \in {"clear", "parse"}
      /\ m_mutex \in Loaders \cup {Free}
  BY DEF TypeOK
<1>1. ASSUME NEW l \in Loaders, loadStep(l) PROVE WholeInv'
  <2>1. CASE loadOpen(l)
    <3>1. UNCHANGED <<table, m_mutex, seen>>
      BY <2>1 DEF loadOpen
    <3>2. \A k \in Loaders : load'[k] = "parse" => load[k] = "parse" /\ opened'[k] = opened[k]
      BY <1>0, <2>1 DEF loadOpen
    <3> QED
      BY <3>1, <3>2 DEF WholeInv
  <2>2. CASE loadLock(l)
    <3>1. UNCHANGED <<table, opened, seen>> /\ m_mutex' # Free
      BY <2>2 DEF loadLock, Loaders, Free
    <3>2. \A k \in Loaders : load'[k] = "parse" => load[k] = "parse"
      BY <1>0, <2>2 DEF loadLock
    <3> QED
      BY <3>1, <3>2 DEF WholeInv
  <2>3. CASE loadClear(l)
    <3>1. table' = [file |-> opened[l], lines |-> 0] /\ UNCHANGED <<m_mutex, opened, seen>>
      BY <2>3 DEF loadClear
    <3>2. \A k \in Loaders : load'[k] = "parse" => k = l
      BY <1>0, <2>3, OneLoader DEF loadClear
    <3>3. m_mutex' # Free
      BY <1>0, <2>3 DEF loadClear, Loaders, Free
    <3>4. Lines[opened[l]] \in Nat
      BY <1>0, Constants
    <3> QED
      BY <3>1, <3>2, <3>3, <3>4 DEF WholeInv
  <2>4. CASE loadParse(l)
    <3>1. /\ load[l] = "parse" /\ UNCHANGED <<opened, seen>>
          /\ table.file = opened[l] /\ table.lines <= Lines[opened[l]]
          /\ table.lines \in Nat /\ Lines[opened[l]] \in Nat
      BY <1>0, <2>4, Constants DEF loadParse, WholeInv, Tables
    <3>2. \A k \in Loaders : load[k] = "parse" => k = l
      BY <3>1, OneLoader
    <3>3. CASE table.lines < Lines[opened[l]]
      <4>1. /\ table' = [table EXCEPT !.lines = @ + 1]
            /\ UNCHANGED <<m_mutex, load>>
        BY <2>4, <3>3 DEF loadParse
      <4>2. table'.file = opened[l] /\ table'.lines = table.lines + 1
        BY <1>0, <3>1, <4>1 DEF Tables
      <4>3. m_mutex # Free
        BY <1>0, <3>1 DEF Loaders, Free
      <4> QED
        BY <3>1, <3>2, <3>3, <4>1, <4>2, <4>3 DEF WholeInv
    <3>4. CASE ~(table.lines < Lines[opened[l]])
      <4>1. /\ table.lines = Lines[table.file] /\ UNCHANGED table
            /\ load' = [load EXCEPT ![l] = "no"]
        BY <2>4, <3>1, <3>4 DEF loadParse
      <4>2. \A k \in Loaders : load'[k] # "parse"
        BY <1>0, <3>2, <4>1
      <4> QED
        BY <3>1, <4>1, <4>2 DEF WholeInv
    <3> QED
      BY <3>3, <3>4
  <2> QED
    BY <1>1, <2>1, <2>2, <2>3, <2>4 DEF loadStep
<1>2. CASE lookup
  BY <1>2 DEF lookup, db, WholeInv
<1>3. CASE Others /\ ~lookup
  <2>1. UNCHANGED <<table, m_mutex, opened, seen>>
    BY <1>3 DEF Others, threadCheck, threadWake, threadLoaded, read, find, reload, reloaded,
       stop, join, newFile, RELOAD, db
  <2>2. \A k \in Loaders : load'[k] = "parse" => load[k] = "parse"
    BY <1>0, <1>3 DEF Others, threadCheck, threadWake, threadLoaded, read, find, reload,
       reloaded, stop, join, newFile, RELOAD, db
  <2> QED
    BY <2>1, <2>2 DEF WholeInv
<1>4. CASE UNCHANGED vars
  BY <1>4 DEF vars, db, WholeInv
<1> QED
  BY <1>1, <1>2, <1>3, <1>4, NextCases

LEMMA LookupHolds == Spec => [](TypeOK /\ LoadersInv /\ WholeInv)
<1>1. Init => TypeOK /\ LoadersInv /\ WholeInv
  BY TypeInit, LoadersInit, WholeInit
<1>2. TypeOK /\ LoadersInv /\ WholeInv /\ [Next]_vars => (TypeOK /\ LoadersInv /\ WholeInv)'
  BY TypeStep, LoadersStep, WholeStep
<1> QED
  BY <1>1, <1>2, PTL DEF Spec

\* A find sees all the entries of one file or none of it, whoever loads when: the
\* lock is given back with the last line and not before.
THEOREM FindsSeeWholeFiles == Spec => [](TypeOK /\ FindsWhole)
<1>1. WholeInv => FindsWhole
  BY DEF WholeInv, FindsWhole
<1> QED
  BY <1>1, LookupHolds, PTL

-----------------------------------------------------------------------------
(* The order of the files.                                                 *)

LEMMA OrderInit == ASSUME Init PROVE OrderInv
BY DEF Init, OrderInv, Empty, Loading, Loaders

LEMMA OrderStep ==
  ASSUME TypeOK, LoadersInv, OrderInv, [Next]_vars
  PROVE  OrderInv'
<1>0. /\ load \in [Loaders -> {"no", "open", "lock", "clear", "parse"}]
      /\ opened \in [Loaders -> Files] /\ file \in Nat
      /\ table \in Tables /\ table.file \in Nat /\ seen.file \in Nat
      /\ \A l \in Loaders : opened[l] \in Nat
  BY Constants DEF TypeOK, Tables
<1>1. ASSUME NEW l \in Loaders, loadStep(l) PROVE OrderInv'
  <2>1. CASE loadOpen(l)
    <3>1. UNCHANGED <<table, seen, file>>
      BY <2>1 DEF loadOpen
    <3>2. ASSUME NEW k \in Loaders, Loading(k)'
          PROVE  (Loading(k) /\ opened'[k] = opened[k]) \/ (opened'[k] = file /\ file \notin Missing)
      BY <1>0, <2>1, <3>2 DEF loadOpen, Loading
    <3>3. ASSUME NEW k \in Loaders, Loading(k)'
          PROVE  table'.file <= opened'[k] /\ opened'[k] <= file' /\ opened'[k] \notin Missing
      BY <1>0, <3>1, <3>2, <3>3 DEF OrderInv
    <3> QED
      BY <3>1, <3>3 DEF OrderInv
  <2>2. CASE loadLock(l)
    <3>1. UNCHANGED <<table, seen, file, opened>>
      BY <2>2 DEF loadLock
    <3>2. \A k \in Loaders : Loading(k)' => Loading(k)
      BY <1>0, <2>2 DEF loadLock, Loading
    <3> QED
      BY <3>1, <3>2 DEF OrderInv
  <2>3. CASE loadClear(l)
    <3>1. /\ table'.file = opened[l] /\ UNCHANGED <<seen, file, opened>>
          /\ Loading(l)
      BY <2>3 DEF loadClear, Loading
    <3>2. \A k \in Loaders : Loading(k)' => k = l
      BY <1>0, <2>3, OneLoader DEF loadClear, Loading
    <3> QED
      BY <1>0, <3>1, <3>2 DEF OrderInv
  <2>4. CASE loadParse(l)
    <3>1. table'.file = table.file /\ UNCHANGED <<seen, file, opened>>
      BY <1>0, <2>4 DEF loadParse, Tables
    <3>2. \A k \in Loaders : Loading(k)' => Loading(k)
      BY <1>0, <2>4 DEF loadParse, Loading
    <3> QED
      BY <3>1, <3>2 DEF OrderInv
  <2> QED
    BY <1>1, <2>1, <2>2, <2>3, <2>4 DEF loadStep
<1>2. CASE lookup
  <2>1. seen' = table /\ UNCHANGED <<table, opened, load, file>>
    BY <1>2 DEF lookup, db
  <2> QED
    BY <1>0, <2>1 DEF OrderInv, Loading
<1>3. CASE Others /\ ~lookup
  <2>1. UNCHANGED <<table, opened, seen>> /\ file <= file' /\ file' \in Nat
    BY <1>0, <1>3 DEF Others, threadCheck, threadWake, threadLoaded, read, find, reload,
       reloaded, stop, join, newFile, RELOAD, db
  <2>2. \A k \in Loaders : Loading(k)' => Loading(k)
    BY <1>0, <1>3 DEF Others, threadCheck, threadWake, threadLoaded, read, find, reload,
       reloaded, stop, join, newFile, RELOAD, db, Loading
  <2> QED
    BY <1>0, <2>1, <2>2 DEF OrderInv
<1>4. CASE UNCHANGED vars
  BY <1>4 DEF vars, db, OrderInv, Loading
<1> QED
  BY <1>1, <1>2, <1>3, <1>4, NextCases

\* What the finds see never goes back to an older file, nor to one that could not
\* be opened.
THEOREM FindsNeverForget == Spec => NeverForgets
<1>1. Init => OrderInv
  BY OrderInit
<1>2. TypeOK /\ LoadersInv /\ OrderInv /\ [Next]_vars => OrderInv'
  BY OrderStep
<1>3. TypeOK /\ WholeInv /\ OrderInv /\ [Next]_vars
        => [seen'.file >= seen.file /\ seen'.file \notin Missing]_seen
  <2> SUFFICES ASSUME TypeOK, WholeInv, OrderInv, [Next]_vars, seen' # seen
               PROVE  seen'.file >= seen.file /\ seen'.file \notin Missing
    OBVIOUS
  <2>1. lookup
    BY DEF Next, loadOpen, loadLock, loadClear, loadParse, threadCheck, threadWake,
       threadLoaded, read, find, reload, reloaded, stop, join, newFile, RELOAD, vars
  <2>2. seen' = table /\ m_mutex = Free /\ table # seen
    BY <2>1 DEF lookup
  <2>3. table \in Tables /\ seen \in Tables /\ table.file \in Nat /\ seen.file \in Nat
    BY Constants DEF TypeOK, Tables
  <2>4. CASE table.file = 0
    <3>1. seen.file = 0 /\ seen.lines = table.lines
      BY <2>2, <2>3, <2>4 DEF OrderInv, WholeInv
    <3>2. seen = [file |-> 0, lines |-> seen.lines] /\ table = [file |-> 0, lines |-> seen.lines]
      BY <2>3, <2>4, <3>1 DEF Tables
    <3> QED
      BY <2>2, <3>2
  <2>5. CASE table.file # 0
    BY <2>2, <2>3, <2>5 DEF OrderInv
  <2> QED
    BY <2>4, <2>5
<1> QED
  BY <1>1, <1>2, <1>3, LookupHolds, PTL DEF Spec, NeverForgets

=============================================================================
