------------------------------ MODULE IdLookup ------------------------------
(***************************************************************************)
(* An id lookup (CDMRLookup; CNXDNLookup is the same code) with its table  *)
(* (CUserDB): the host's loop looks ids up while a thread of the lookup's  *)
(* own reloads the file, on a timer and on request.  A request goes        *)
(* through two flags, m_reload of the host, set by a remote command, and   *)
(* m_reload of the lookup, which the loop sets for it.                     *)
(* Without a reload time there is no thread, and the loop does the load.   *)
(***************************************************************************)
EXTENDS Integers, Timers

CONSTANTS ReloadTimes,  \* that may be configured, in turns of the reload thread;
                        \* 0 for no thread
          LastFile,     \* bound: the files that appear, one after the other
          Lines,        \* how many lines each has
          Missing       \* those among them that cannot be opened

ASSUME LookupAssumption == /\ ReloadTimes \subseteq Nat
                           /\ LastFile \in Nat
                           /\ Lines \in [0 .. LastFile -> Nat]
                           /\ Lines[0] = 0
                           /\ Missing \subseteq DOMAIN Lines

Loaders == {"main", "thread"}
Free == "free"

VARIABLES reloadTime, \* as configured
          file,       \* the file on disk
          table,      \* m_table: the file its entries are from, and how many
          m_mutex,    \* who holds it
          opened,     \* the file each loader has open
          load,       \* where each loader is in CUserDB::load
          host,       \* what the host's loop does
          thread,     \* what the reload thread does
          timer, hostReload, m_reload, m_stop,
          seen,       \* the table as the last find saw it
          wanted      \* the newest file asked for while nothing was loaded,
                      \* 0 when a load since then could not open its file

db == <<table, m_mutex, opened, load>>
flags == <<hostReload, m_reload, m_stop>>
vars == <<reloadTime, file, db, host, thread, timer, flags, seen, wanted>>

Empty == [file |-> 0, lines |-> 0]

Init == /\ reloadTime \in ReloadTimes
        /\ file = 0
        /\ table = Empty
        /\ m_mutex = Free
        /\ opened = [l \in Loaders |-> 0]
        /\ load = [l \in Loaders |-> IF l = "main" THEN "open" ELSE "no"]
        /\ host = "read"
        /\ thread = "none"
        /\ timer = Unset
        /\ hostReload = FALSE /\ m_reload = FALSE /\ m_stop = FALSE
        /\ seen = Empty
        /\ wanted = 0

-----------------------------------------------------------------------------
(* CUserDB::load by loader l.                                              *)

\* Mutant: the entries are dropped before the file is known to open.
loadOpen_ClearFirst(l) ==
  /\ load[l] = "open"
  /\ IF file \in Missing
       THEN /\ load' = [load EXCEPT ![l] = "no"]
            /\ wanted' = 0
            /\ table' = IF m_mutex = Free THEN Empty ELSE table
            /\ UNCHANGED opened
       ELSE /\ opened' = [opened EXCEPT ![l] = file]
            /\ load' = [load EXCEPT ![l] = "lock"]
            /\ UNCHANGED <<table, wanted>>
  /\ UNCHANGED <<reloadTime, file, m_mutex, host, thread, timer, flags, seen>>

\* A file that cannot be opened leaves the table as it is.
loadOpen(l) ==
  /\ load[l] = "open"
  /\ IF file \in Missing
       THEN /\ load' = [load EXCEPT ![l] = "no"]
            /\ wanted' = 0
            /\ UNCHANGED opened
       ELSE /\ opened' = [opened EXCEPT ![l] = file]
            /\ load' = [load EXCEPT ![l] = "lock"]
            /\ UNCHANGED wanted
  /\ UNCHANGED <<reloadTime, file, table, m_mutex, host, thread, timer, flags, seen>>

loadLock(l) ==
  /\ load[l] = "lock"
  /\ m_mutex = Free
  /\ m_mutex' = l
  /\ load' = [load EXCEPT ![l] = "clear"]
  /\ UNCHANGED <<reloadTime, file, table, opened, host, thread, timer, flags, seen,
                 wanted>>

loadClear(l) ==
  /\ load[l] = "clear"
  /\ table' = [file |-> opened[l], lines |-> 0]
  /\ load' = [load EXCEPT ![l] = "parse"]
  /\ UNCHANGED <<reloadTime, file, m_mutex, opened, host, thread, timer, flags,
                 seen, wanted>>

\* Mutants: the lock given back after the first line; an early return from an
\* empty file that keeps the lock.
loadParse_Unlocked(l) ==
  /\ load[l] = "parse"
  /\ m_mutex' = Free
  /\ IF table.lines < Lines[opened[l]]
       THEN /\ table' = [table EXCEPT !.lines = @ + 1]
            /\ UNCHANGED load
       ELSE /\ load' = [load EXCEPT ![l] = "no"]
            /\ UNCHANGED table
  /\ UNCHANGED <<reloadTime, file, opened, host, thread, timer, flags, seen, wanted>>

loadParse_KeepsLock(l) ==
  /\ load[l] = "parse"
  /\ IF table.lines < Lines[opened[l]]
       THEN /\ table' = [table EXCEPT !.lines = @ + 1]
            /\ UNCHANGED <<m_mutex, load>>
       ELSE /\ m_mutex' = IF Lines[opened[l]] = 0 THEN m_mutex ELSE Free
            /\ load' = [load EXCEPT ![l] = "no"]
            /\ UNCHANGED table
  /\ UNCHANGED <<reloadTime, file, opened, host, thread, timer, flags, seen, wanted>>

\* A line at a time until the end of the file, which may come at once.
loadParse(l) ==
  /\ load[l] = "parse"
  /\ IF table.lines < Lines[opened[l]]
       THEN /\ table' = [table EXCEPT !.lines = @ + 1]
            /\ UNCHANGED <<m_mutex, load>>
       ELSE /\ m_mutex' = Free
            /\ load' = [load EXCEPT ![l] = "no"]
            /\ UNCHANGED table
  /\ UNCHANGED <<reloadTime, file, opened, host, thread, timer, flags, seen, wanted>>

loadStep(l) == loadOpen(l) \/ loadLock(l) \/ loadClear(l) \/ loadParse(l)

-----------------------------------------------------------------------------
(* The reload thread: entry.                                               *)

threadCheck ==
  /\ thread = "check"
  /\ thread' = IF m_stop THEN "ended" ELSE "sleep"
  /\ UNCHANGED <<reloadTime, file, db, host, timer, flags, seen, wanted>>

\* A second has passed.
threadWake ==
  /\ thread = "sleep"
  /\ timer' = Clock(timer, 1)
  /\ IF HasExpired(timer') \/ m_reload
       THEN /\ thread' = "load"
            /\ load' = [load EXCEPT !["thread"] = "open"]
       ELSE /\ thread' = "check"
            /\ UNCHANGED load
  /\ UNCHANGED <<reloadTime, file, table, m_mutex, opened, host, flags, seen, wanted>>

\* Whether or not the load worked; a request made meanwhile is cleared with the
\* one it served.
threadLoaded ==
  /\ thread = "load" /\ load["thread"] = "no"
  /\ timer' = Start(timer)
  /\ m_reload' = FALSE
  /\ thread' = "check"
  /\ UNCHANGED <<reloadTime, file, db, host, hostReload, m_stop, seen, wanted>>

-----------------------------------------------------------------------------
(* The host: read before the loop, then finds and reloads, stop after it.  *)

\* The first load is done; with a reload time the thread is started.
read ==
  /\ host = "read" /\ load["main"] = "no"
  /\ host' = "loop"
  /\ IF reloadTime > 0
       THEN /\ thread' = "check"
            /\ timer' = Start(SetTimeout(timer, reloadTime))
       ELSE UNCHANGED <<thread, timer>>
  /\ UNCHANGED <<reloadTime, file, db, flags, seen, wanted>>

\* find, findWithName and exists: CUserDB::lookup waits for the lock.
find == /\ host = "loop"
        /\ host' = "find"
        /\ UNCHANGED <<reloadTime, file, db, thread, timer, flags, seen, wanted>>

lookup == /\ host = "find"
          /\ m_mutex = Free
          /\ seen' = table
          /\ host' = "loop"
          /\ UNCHANGED <<reloadTime, file, db, thread, timer, flags, wanted>>

\* Mutant: the lookup's flag is set although there is no thread to look at it.
reload_FlagOnly ==
  /\ host = "loop"
  /\ hostReload
  /\ m_reload' = TRUE
  /\ host' = "reload"
  /\ UNCHANGED <<reloadTime, file, db, thread, timer, hostReload, m_stop, seen, wanted>>

\* The loop has found hostReload set: reload.
reload ==
  /\ host = "loop"
  /\ hostReload
  /\ IF reloadTime = 0
       THEN /\ load' = [load EXCEPT !["main"] = "open"]
            /\ UNCHANGED m_reload
       ELSE /\ m_reload' = TRUE
            /\ UNCHANGED load
  /\ host' = "reload"
  /\ UNCHANGED <<reloadTime, file, table, m_mutex, opened, thread, timer,
                 hostReload, m_stop,
                 seen, wanted>>

reloaded ==
  /\ host = "reload" /\ load["main"] = "no"
  /\ hostReload' = FALSE
  /\ host' = "loop"
  /\ UNCHANGED <<reloadTime, file, db, thread, timer, m_reload, m_stop, seen, wanted>>

\* The host's loop is over.  Without a thread the lookup deletes itself.
stop ==
  /\ host = "loop"
  /\ host' = IF reloadTime = 0 THEN "stopped" ELSE "wait"
  /\ m_stop' = (reloadTime > 0)
  /\ UNCHANGED <<reloadTime, file, db, thread, timer, hostReload, m_reload, seen,
                 wanted>>

\* pthread_join returns.
join == /\ host = "wait" /\ thread = "ended"
        /\ host' = "stopped"
        /\ UNCHANGED <<reloadTime, file, db, thread, timer, flags, seen, wanted>>

-----------------------------------------------------------------------------
(* The world: a newer file is put in place, and the RELOAD command.        *)

newFile == /\ file < LastFile
           /\ file' = file + 1
           /\ UNCHANGED <<reloadTime, db, host, thread, timer, flags, seen, wanted>>

\* A reload is under way, from the flag of the host to that of the lookup.
Reloading == host = "reload" \/ m_reload \/ thread = "load"

\* remoteControl, on another thread: RELOAD sets the host's flag.
RELOAD == /\ host \in {"loop", "find", "reload"}
          /\ hostReload' = TRUE
          /\ wanted' = IF Reloading THEN wanted ELSE file
          /\ UNCHANGED <<reloadTime, file, db, host, thread, timer, m_reload,
                         m_stop, seen>>

Thread == threadCheck \/ threadWake \/ threadLoaded \/ loadStep("thread")
Host == read \/ lookup \/ reload \/ reloaded \/ join \/ loadStep("main")

Next == \/ \E l \in Loaders : loadOpen(l) \/ loadLock(l) \/ loadClear(l) \/ loadParse(l)
        \/ threadCheck \/ threadWake \/ threadLoaded
        \/ read \/ find \/ lookup \/ reload \/ reloaded \/ stop \/ join
        \/ newFile \/ RELOAD

\* Both threads are scheduled.  The loop does not look ids up for ever without
\* coming to its test of hostReload, and a thread that waits for the lock gets it,
\* since the other gives it back for at least a second.
Spec == /\ Init /\ [][Next]_vars
        /\ WF_vars(Thread) /\ WF_vars(Host)
        /\ SF_vars(reload) /\ SF_vars(lookup) /\ SF_vars(loadLock("thread"))

-----------------------------------------------------------------------------
Files == 0 .. LastFile
Tables == [file : Files, lines : Nat]

TypeOK == /\ reloadTime \in ReloadTimes
          /\ file \in Files
          /\ table \in Tables
          /\ m_mutex \in Loaders \cup {Free}
          /\ opened \in [Loaders -> Files]
          /\ load \in [Loaders -> {"no", "open", "lock", "clear", "parse"}]
          /\ \A l \in Loaders : m_mutex = l <=> load[l] \in {"clear", "parse"}
          /\ host \in {"read", "loop", "find", "reload", "wait", "stopped"}
          /\ thread \in {"none", "check", "sleep", "load", "ended"}
          /\ timer \in Timer
          /\ {hostReload, m_reload, m_stop} \subseteq BOOLEAN
          /\ seen \in Tables
          /\ wanted \in Files

\* A find sees all the entries of one file, never a table that is being loaded,
\* whichever thread loads it.
FindsWhole == seen.lines = Lines[seen.file]

\* Ids that could be found can be found until a newer file is there: a reload of
\* a file that cannot be opened leaves the table alone, and what the finds see
\* never goes back to an older file.
NeverForgets == [][seen'.file >= seen.file /\ seen'.file \notin Missing]_seen

(* Inductive strengthenings of the two.                                    *)

Loading(l) == load[l] \in {"lock", "clear", "parse"}

\* One loader at a time: the main thread's only without a reload thread.
LoadersInv ==
  /\ load["main"] # "no" => host = "read" \/ (host = "reload" /\ reloadTime = 0)
  /\ load["thread"] # "no" => thread = "load"
  /\ thread # "none" => host # "read" /\ reloadTime > 0

\* The table is short of the file it is from only under the lock.
WholeInv ==
  /\ m_mutex = Free => table.lines = Lines[table.file]
  /\ \A l \in Loaders : load[l] = "parse" => /\ table.file = opened[l]
                                             /\ table.lines <= Lines[opened[l]]
  /\ seen.lines = Lines[seen.file]

\* seen is never newer than the table, nor that than a file being loaded, nor
\* that than the file on disk.
OrderInv ==
  /\ seen.file <= table.file /\ table.file <= file
  /\ table.file \in Missing => table.file = 0
  /\ \A l \in Loaders : Loading(l) => /\ table.file <= opened[l] /\ opened[l] <= file
                                      /\ opened[l] \notin Missing

\* stop() waits for a thread that may be asleep or loading, and always returns.
StopReturns == host = "wait" ~> host = "stopped"

Over == host \in {"wait", "stopped"}

\* A RELOAD command given while no reload is under way is served, from the file as
\* it was at the command or a newer one, unless the file is missing then or the
\* host stops first.  (One given during a reload may be lost: its flag is cleared
\* with the other's.)
RequestServed ==
  \A v \in Files : (wanted = v) ~> (table.file >= v \/ wanted = 0 \/ Over)

=============================================================================
