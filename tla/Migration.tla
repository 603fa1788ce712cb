------------------------------ MODULE Migration ------------------------------
(***************************************************************************)
(* The state database on its way from a legacy install to %LOCALAPPDATA%   *)
(* (src/src/platform/install.rs, src/src/main.rs): every process of the    *)
(* program kills and removes a legacy program and then copies (step 1) or  *)
(* moves (step 2) state.db and state.db-wal, file by file, if the new      *)
(* place lacks them, before it opens the database (src/src/db.rs).  A copy *)
(* is not atomic: the new file is there, and torn, until it is complete.   *)
(*                                                                         *)
(* A database and a write-ahead log are [line, n]: whose commits, and how  *)
(* many.  A log holds the commits its database lacks; SQLite applies a log *)
(* it finds beside a database, whatever the two are.  state.db-shm is      *)
(* rebuilt by who opens the database first and left out, as are logs\* and *)
(* config.toml, one file that nobody takes apart.                          *)
(***************************************************************************)
EXTENDS Naturals, FiniteSets

CONSTANTS
  Proc,
  MaxCommits,  \* bound: commits on one line
  MaxLaunches, \* bound: processes started
  MaxFaults    \* bound: copies, kills and removals that fail

VARIABLES
  db, wal,   \* in the pre-namespace directory, the roaming one, and the new one
  exe,       \* directories with a legacy executable
  running,   \* those whose program runs
  at,        \* each process of this program
  window,    \* those that are windows of the tray
  restarted, \* ghost: a legacy program was started after a cleanup's kill
  spoilt,    \* ghost: a copy was cut short, or began over a file made meanwhile
  missed,    \* ghost: the first process to open the database missed commits
  damaged,   \* ghost: an opened database has been given another's log
  faults, launches

files  == <<db, wal>>
ghosts == <<restarted, spoilt, missed, damaged>>
counts == <<faults, launches>>
vars == <<files, exe, running, at, window, ghosts, counts>>

Legacy == {"old", "mixed"}
Dir    == Legacy \cup {"new"}
None   == [line |-> "none", n |-> 0]
Torn   == [line |-> "torn", n |-> 0]
Image  == [line : Dir \cup {"torn"}, n : 0..MaxCommits] \cup {None}

\* What a process has still to do; open: it has the database open.
Doing == {"off", "kill", "remove", "copy_db", "make_db", "copying_db",
          "copy_wal", "make_wal", "copying_wal", "move_db", "move_wal", "ready", "open"}

TypeOK ==
  /\ db \in [Dir -> Image] /\ wal \in [Dir -> Image]
  /\ exe \in SUBSET Legacy /\ running \in SUBSET Legacy
  /\ at \in [Proc -> Doing] /\ window \in SUBSET Proc
  /\ restarted \in BOOLEAN /\ spoilt \in BOOLEAN /\ missed \in BOOLEAN /\ damaged \in BOOLEAN
  /\ faults \in 0..MaxFaults /\ launches \in 0..MaxLaunches

Nothing == [d \in Dir |-> None]

\* Legacy installs of either layout or both, their programs running or not; the
\* data of an older one is there also when its program is gone, for the later
\* release copied it and left it behind.
Init ==
  /\ \E held \in SUBSET Legacy :
       /\ exe \in SUBSET held
       /\ db = [d \in Dir |-> IF d \in held THEN [line |-> d, n |-> 0] ELSE None]
  /\ running \in SUBSET exe
  /\ wal = Nothing
  /\ at = [p \in Proc |-> "off"] /\ window = {}
  /\ restarted = FALSE /\ spoilt = FALSE /\ missed = FALSE /\ damaged = FALSE
  /\ faults = 0 /\ launches = 0

Fails   == faults < MaxFaults /\ faults' = faults + 1
NoFault == UNCHANGED faults

----------------------------------------------------------------------------
(* SQLite.                                                                 *)

Committed(d) == IF wal[d] \in {None, Torn} THEN db[d].n ELSE wal[d].n
\* A database with the log of another one beside it.
Alien == /\ db["new"].line \in Dir /\ wal["new"].line \in Legacy \cup {"torn"}
         /\ db["new"].line # wal["new"].line

Commit(d, line) == wal' = [wal EXCEPT ![d] = [line |-> line, n |-> Committed(d) + 1]]
Checkpoint(d) == db' = [db EXCEPT ![d].n = Committed(d)]
\* The last connection checkpoints and removes the log.
CloseLast(d) == Checkpoint(d) /\ wal' = [wal EXCEPT ![d] = None]

----------------------------------------------------------------------------
(* The legacy program.                                                     *)

LegacyStarts(d) ==
  /\ d \in exe \ running /\ launches < MaxLaunches /\ launches' = launches + 1
  /\ running' = running \cup {d}
  /\ db' = IF db[d] = None THEN [db EXCEPT ![d] = [line |-> d, n |-> 0]] ELSE db
  /\ restarted' = (restarted \/ \E p \in Proc : at[p] \notin {"off", "kill"})
  /\ UNCHANGED <<wal, exe, at, window, spoilt, missed, damaged, faults>>

LegacyCommits(d) ==
  /\ d \in running /\ Committed(d) < MaxCommits
  /\ Commit(d, db[d].line)
  /\ UNCHANGED <<db, exe, running, at, window, ghosts, counts>>

LegacyCheckpoints(d) ==
  /\ d \in running
  /\ Checkpoint(d)
  /\ UNCHANGED <<wal, exe, running, at, window, ghosts, counts>>

LegacyQuits(d) ==
  /\ d \in running
  /\ running' = running \ {d}
  /\ CloseLast(d)
  /\ UNCHANGED <<exe, at, window, ghosts, counts>>

----------------------------------------------------------------------------
(* A process of this program.                                              *)

Opened == {p \in Proc : at[p] = "open"}

Launch(p) ==
  /\ at[p] = "off" /\ launches < MaxLaunches /\ launches' = launches + 1
  /\ at' = [at EXCEPT ![p] = "kill"]
  /\ \/ UNCHANGED window
     \/ Opened \ window # {} /\ window' = window \cup {p}
  /\ UNCHANGED <<files, exe, running, ghosts, faults>>

Then(p, next) == at' = [at EXCEPT ![p] = next]

Copying == {"copying_db", "copying_wal"}

\* cleanup_legacy_install: kills every other process, also in the middle of a
\* copy; then, half a second later, removes what doesn't run.
Kill(p) ==
  /\ at[p] = "kill"
  /\ IF exe = {} THEN Then(p, "copy_db") /\ UNCHANGED <<running, window, spoilt, faults>>
     ELSE \/ /\ NoFault
             /\ running' = {} /\ window' = window \cap {p}
             /\ at' = [q \in Proc |-> IF q = p THEN "remove" ELSE "off"]
             /\ spoilt' = (spoilt \/ \E q \in Proc : at[q] \in Copying)
          \/ Fails /\ Then(p, "remove") /\ UNCHANGED <<running, window, spoilt>>
  /\ UNCHANGED <<files, exe, restarted, missed, damaged, launches>>

Remove(p) ==
  /\ at[p] = "remove"
  /\ \/ exe' = running /\ NoFault
     \/ Fails /\ UNCHANGED exe
  /\ Then(p, "copy_db")
  /\ UNCHANGED <<files, running, window, ghosts, launches>>

\* Only what is there, and only where the new place has none.
Wanted(file, d) == file[d] # None /\ file["new"] = None

copied(file, d) == [file EXCEPT !["new"] = file[d]]
\* What a program has open can't be renamed or removed.
moved(file, d)  ==
  IF d \in running THEN copied(file, d) ELSE [file EXCEPT !["new"] = file[d], ![d] = None]

\* Another process has the new place's file open.
InUse(p) == \E q \in Proc \ {p} : at[q] \in Copying \cup {"open"}

\* The copy of one file, now file and then file2: the check, the new file, which
\* the call makes anew if one has come up since, and its content.
Checks(p, file, make, next) ==
  Then(p, IF Wanted(file, "old") THEN make ELSE next) /\ NoFault /\ UNCHANGED spoilt
Makes(p, file, file2, copying, next) ==
  \/ /\ file2 = [file EXCEPT !["new"] = Torn] /\ NoFault
     /\ spoilt' = (spoilt \/ file["new"] # None) /\ Then(p, copying)
  \/ /\ IF file["new"] # None /\ InUse(p) THEN NoFault ELSE Fails
     /\ file2 = file /\ Then(p, next) /\ UNCHANGED spoilt
Completes(p, file, file2, next) ==
  /\ \/ file2 = copied(file, "old") /\ NoFault
     \/ file2 = file /\ Fails
     \/ file2 = [file EXCEPT !["new"] = None] /\ Opened = {} /\ Fails
  /\ Then(p, next) /\ UNCHANGED spoilt

\* Mutant: the copies forget the log.
copy_db_alone(p) ==
  /\ \/ at[p] = "copy_db" /\ Checks(p, db, "make_db", "move_db") /\ UNCHANGED db
     \/ at[p] = "make_db" /\ Makes(p, db, db', "copying_db", "move_db")
     \/ at[p] = "copying_db" /\ Completes(p, db, db', "move_db")
  /\ UNCHANGED <<wal, exe, running, window, restarted, missed, damaged, launches>>

\* Step 1: migrate_pre_namespace_layout.
migrate_pre_namespace_layout(p) ==
  /\ \/ /\ \/ at[p] = "copy_db" /\ Checks(p, db, "make_db", "copy_wal") /\ UNCHANGED db
           \/ at[p] = "make_db" /\ Makes(p, db, db', "copying_db", "copy_wal")
           \/ at[p] = "copying_db" /\ Completes(p, db, db', "copy_wal")
        /\ UNCHANGED wal
     \/ /\ \/ at[p] = "copy_wal" /\ Checks(p, wal, "make_wal", "move_db") /\ UNCHANGED wal
           \/ at[p] = "make_wal" /\ Makes(p, wal, wal', "copying_wal", "move_db")
           \/ at[p] = "copying_wal" /\ Completes(p, wal, wal', "move_db")
        /\ UNCHANGED db
  /\ UNCHANGED <<exe, running, window, restarted, missed, damaged, launches>>

\* Mutant: step 2 copies too.
migrate_by_copy(p) ==
  \/ /\ at[p] = "move_db"
     /\ db' = (IF Wanted(db, "mixed") THEN copied(db, "mixed") ELSE db)
     /\ Then(p, "move_wal")
     /\ UNCHANGED <<wal, exe, running, window, ghosts, counts>>
  \/ /\ at[p] = "move_wal"
     /\ wal' = (IF Wanted(wal, "mixed") THEN copied(wal, "mixed") ELSE wal)
     /\ Then(p, "ready")
     /\ UNCHANGED <<db, exe, running, window, ghosts, counts>>

\* Step 2: migrate_mixed_roaming_layout, a rename, or a copy and a removal that
\* may fail too.  The check and the rename are one step: what comes up between
\* them is what another process has moved, and then there is nothing to rename.
Moves(p, file, file2, next) ==
  /\ \/ file2 = (IF Wanted(file, "mixed") THEN moved(file, "mixed") ELSE file) /\ NoFault
     \/ /\ Wanted(file, "mixed") /\ Fails
        /\ file2 \in {file, copied(file, "mixed"), [file EXCEPT !["new"] = Torn]}
  /\ Then(p, next)

migrate_mixed_roaming_layout(p) ==
  /\ \/ at[p] = "move_db" /\ Moves(p, db, db', "move_wal") /\ UNCHANGED wal
     \/ at[p] = "move_wal" /\ Moves(p, wal, wal', "ready") /\ UNCHANGED db
  /\ UNCHANGED <<exe, running, window, ghosts, launches>>

\* Commits of a legacy program that never made it.
Left == \E d \in Legacy : ~(db[d] = None /\ wal[d] = None)
          /\ (db["new"].line # d \/ Committed("new") < Committed(d))

\* Database::open: a new one if there is none; opening it migrates the schema,
\* which is a commit of its own line.  A second tray ends at the mutex; so does
\* who finds a file that is being copied, or may find a torn database.
Open(p) ==
  /\ at[p] = "ready"
  /\ \/ /\ \/ p \notin window /\ Opened \ window # {}
           \/ \E q \in Proc : at[q] \in Copying
           \/ db["new"].line = "torn"
        /\ Then(p, "off") /\ UNCHANGED <<files, missed, damaged>>
     \/ /\ p \in window \/ Opened \subseteq window
        /\ \A q \in Proc : at[q] \notin Copying
        /\ Then(p, "open")
        /\ missed' = (missed \/ (db["new"].line # "new" /\ Left))
        /\ damaged' = (damaged \/ Alien)
        /\ db' = [db EXCEPT !["new"] = [line |-> "new", n |-> Committed("new")]]
        /\ wal' = [wal EXCEPT !["new"] = [line |-> "new", n |-> Committed("new")]]
  /\ UNCHANGED <<exe, running, window, restarted, spoilt, counts>>

NewCommits(p) ==
  /\ at[p] = "open" /\ Committed("new") < MaxCommits
  /\ Commit("new", "new")
  /\ UNCHANGED <<db, exe, running, at, window, ghosts, counts>>

NewCheckpoints(p) ==
  /\ at[p] = "open"
  /\ Checkpoint("new")
  /\ UNCHANGED <<wal, exe, running, at, window, ghosts, counts>>

\* A window closes its connection; the tray leaves by process::exit, as does
\* any process that is killed.
CloseWindow(p) ==
  /\ at[p] = "open" /\ p \in window
  /\ IF Opened = {p} THEN CloseLast("new") ELSE UNCHANGED files
  /\ Then(p, "off") /\ window' = window \ {p}
  /\ UNCHANGED <<exe, running, ghosts, counts>>

ExitAtOnce(p) ==
  /\ at[p] # "off"
  /\ Then(p, "off") /\ window' = window \ {p}
  /\ spoilt' = (spoilt \/ at[p] \in Copying)
  /\ UNCHANGED <<files, exe, running, restarted, missed, damaged, counts>>

LegacyStep(d) == LegacyStarts(d) \/ LegacyCommits(d) \/ LegacyCheckpoints(d) \/ LegacyQuits(d)

Step(p) ==
  \/ Launch(p) \/ Kill(p) \/ Remove(p)
  \/ migrate_pre_namespace_layout(p) \/ migrate_mixed_roaming_layout(p)
  \/ Open(p) \/ NewCommits(p) \/ NewCheckpoints(p) \/ CloseWindow(p) \/ ExitAtOnce(p)

Next == (\E d \in Legacy : LegacyStep(d)) \/ (\E p \in Proc : Step(p))

Spec == Init /\ [][Next]_vars

----------------------------------------------------------------------------
(* Properties.                                                             *)

\* Both layouts have left their data.
TwoHomes == db["old"] # None /\ db["mixed"] # None

\* Whoever opens the database at its new place first finds all a legacy
\* program has committed to it, though that program was killed with commits in
\* its log and several processes copy at once (install.rs:633-675, 186-222,
\* 293-320, main.rs:57-92).  Not so when a kill, a copy or a removal failed, a
\* copy was cut short or began over a file that was there by then, the legacy
\* program was started again after the kill, or both layouts have left data:
\* step 1 then brings the older one's and step 2 leaves the newer one's.
HistoryArrives == missed => restarted \/ faults > 0 \/ spoilt \/ TwoHomes

\* "Only copies files that exist at the source and do NOT already exist at the
\* destination (preserves any data already created at the new location)"
\* (install.rs:164-165): no database is opened with the log of another one
\* beside it.  Not so after step 1, whose copies leave the old log where it is:
\* every start copies it again once the new database has none; nor if both
\* layouts have left data, which can be a database of the one and a log of the
\* other; nor where a move has left the log there, for a failure or a legacy
\* program at work.
NewDataIsKept == damaged => wal["old"] # None \/ TwoHomes \/ restarted \/ faults > 0
=============================================================================
