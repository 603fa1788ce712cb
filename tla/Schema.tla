------------------------------- MODULE Schema -------------------------------
(***************************************************************************)
(* The steps that bring state.db to the schema of the program that opens   *)
(* it (src/src/db.rs): each runs, with its number, in one transaction; the *)
(* number is read once, before them.  The tray opens the database under    *)
(* the single-instance mutex, the log windows it starts open it when they  *)
(* like, also when another tray has taken its place, and an update on disk *)
(* makes a window, or the next tray, of another version than the tray.     *)
(***************************************************************************)
EXTENDS Naturals, FiniteSets

CONSTANTS
  Proc,
  MaxFaults  \* bound: steps that fail for the disk's or a lock's sake

VARIABLES
  version,  \* schema_version, 0 in a new file
  applied,  \* steps whose tables and columns are there
  at,       \* each process: off, open, steps, up
  tray,     \* those that are trays, under the mutex, and not windows
  own,      \* its program's SCHEMA_VERSION
  next,     \* the step to come
  faults

file   == <<version, applied>>
run    == <<at, tray, own, next>>
vars   == <<file, run, faults>>

SCHEMA_VERSION == 7
Step == 1..SCHEMA_VERSION

\* Steps that add columns, which can't be added twice; the others make tables
\* and indexes "if not exists".
AddsColumns == {2, 3, 4}

\* Mutant: the sixth relies on the fifth.
MakesOwn(v) == {v}

\* The sixth makes the fifth's table as well.
Makes(v) == IF v = 6 THEN {5, 6} ELSE {v}

TypeOK ==
  /\ version \in 0..SCHEMA_VERSION /\ applied \in SUBSET Step
  /\ at \in [Proc -> {"off", "open", "steps", "up"}]
  /\ tray \in SUBSET Proc
  /\ own \in [Proc -> Step]
  /\ next \in [Proc -> 1..SCHEMA_VERSION + 1]
  /\ faults \in Nat

\* No database, that of a release, or that of a branch whose fifth step was
\* what is the sixth now.
Init ==
  /\ \/ version \in 0..SCHEMA_VERSION /\ applied = 1..version
     \/ version = 5 /\ applied = {1, 2, 3, 4, 6}
  /\ at = [p \in Proc |-> "off"] /\ tray = {}
  /\ own = [p \in Proc |-> SCHEMA_VERSION] /\ next = [p \in Proc |-> 1]
  /\ faults = 0

Off(p) ==
  /\ at' = [at EXCEPT ![p] = "off"] /\ tray' = tray \ {p}
  /\ own' = [own EXCEPT ![p] = SCHEMA_VERSION] /\ next' = [next EXCEPT ![p] = 1]

Starts(p) ==
  /\ at[p] = "off"
  /\ at' = [at EXCEPT ![p] = "open"]
  /\ \E v \in Step : own' = [own EXCEPT ![p] = v]
  /\ UNCHANGED <<file, next, faults>>

\* main: Database::open comes after SingleInstance::acquire.
StartTray(p) == tray = {} /\ tray' = {p} /\ Starts(p)

\* run_window_subprocess: the Upload Log and the Trash Log, of a tray that is up.
OpenLog(p) == (\E q \in tray : at[q] = "up") /\ UNCHANGED tray /\ Starts(p)

\* Database::open and run_migrations up to the first step.
run_migrations(p) ==
  /\ at[p] = "open"
  /\ at' = [at EXCEPT ![p] = "steps"]
  /\ next' = [next EXCEPT ![p] = version + 1]
  /\ UNCHANGED <<file, tray, own, faults>>

\* Mutant: the number is a transaction of its own, which may not come.
apply_migration_alone(p) ==
  /\ at[p] = "steps" /\ next[p] <= own[p]
  /\ next[p] \notin AddsColumns \/ next[p] \notin applied
  /\ applied' = applied \cup Makes(next[p])
  /\ version' \in {version, next[p]}
  /\ next' = [next EXCEPT ![p] = next[p] + 1]
  /\ UNCHANGED <<at, tray, own, faults>>

\* A step and its number, or neither: the transaction may fail, and it must
\* where its columns are there.  Then nothing is opened, and the process ends.
apply_migration(p) ==
  /\ at[p] = "steps" /\ next[p] <= own[p]
  /\ \/ /\ next[p] \notin AddsColumns \/ next[p] \notin applied
        /\ applied' = applied \cup Makes(next[p])
        /\ version' = next[p]
        /\ next' = [next EXCEPT ![p] = next[p] + 1]
        /\ UNCHANGED <<at, tray, own, faults>>
     \/ /\ next[p] \in AddsColumns /\ next[p] \in applied
        /\ Off(p)
        /\ UNCHANGED <<file, faults>>
     \/ /\ faults < MaxFaults /\ faults' = faults + 1
        /\ Off(p)
        /\ UNCHANGED file

Opened(p) ==
  /\ at[p] = "steps" /\ next[p] > own[p]
  /\ at' = [at EXCEPT ![p] = "up"]
  /\ UNCHANGED <<file, tray, own, next, faults>>

\* The process ends, or is killed.
Exit(p) ==
  /\ at[p] # "off"
  /\ Off(p)
  /\ UNCHANGED <<file, faults>>

Next ==
  \E p \in Proc :
    \/ StartTray(p) \/ OpenLog(p)
    \/ run_migrations(p) \/ apply_migration(p) \/ Opened(p) \/ Exit(p)

Spec == Init /\ [][Next]_vars

----------------------------------------------------------------------------
(* Properties.                                                             *)

\* "instead of leaving a half-applied schema that fails forever on 'duplicate
\* column'" (db.rs:397-401): no step yet to come has its columns already, so
\* that the next start can take it, though processes with an old number in
\* hand take steps that others have taken, and write their numbers.
NeverStuck == \A v \in AddsColumns : v > version => v \notin applied

\* Who has opened the database has the whole schema it works with, also where
\* another process was at the steps, and in the database of that branch
\* (db.rs:552-562).
SchemaIsThere ==
  \A p \in Proc : at[p] = "up" /\ own[p] = SCHEMA_VERSION => applied = Step
=============================================================================
