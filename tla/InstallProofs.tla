---------------------------- MODULE InstallProofs ----------------------------
(***************************************************************************)
(* Three machines and their sum (MCInstall).                               *)
(*                                                                         *)
(* Schema: what holds of the stored version and the schema for every set   *)
(* of processes.  The stale numbers are harmless since only the first step *)
(* of a new file could write a number that hides columns, and whoever is   *)
(* at that step is alone: a tray, before there are windows.                *)
(*                                                                         *)
(* Migration: the history of a legacy install, and the new database, as    *)
(* long as nothing fails.  What holds on a machine with both layouts, or   *)
(* after a copy that was cut short, is carried apart from what needs one   *)
(* layout and whole copies.                                                *)
(*                                                                         *)
(* Installer: the three promises to whoever starts the program, for any    *)
(* number of processes, launches and failures.                             *)
(***************************************************************************)
EXTENDS MCInstall, TLAPS

\* Steps 1 to n are there, but for the fifth of that branch.
Through(n) == \A v \in Step : v <= n => v \in applied \/ (v = 5 /\ n = 5)

\* A window that runs, or has yet to open the database, was started by a tray
\* that had opened it.
WindowsComeLater ==
  \A p \in Proc : at[p] # "off" /\ p \notin tray => version >= 1

OneTray ==
  /\ \A p, q \in tray : p = q
  /\ \A p \in tray : at[p] # "off"

\* What a process has behind it.
StepsDone ==
  \A p \in Proc :
    /\ at[p] = "steps" => Through(next[p] - 1)
    /\ at[p] = "steps" /\ next[p] = 1 => p \in tray /\ version = 0
    /\ at[p] = "steps" /\ next[p] > 1 => version >= 1
    /\ at[p] = "up" => version >= 1 /\ (own[p] = SCHEMA_VERSION => applied = Step)

IInv ==
  /\ TypeOK
  /\ Through(version)
  /\ NeverStuck
  /\ WindowsComeLater
  /\ OneTray
  /\ StepsDone

USE DEF SCHEMA_VERSION, Step

\* The initial databases are whole.
LEMMA InitInvariant == Init => IInv
<1> SUFFICES ASSUME Init PROVE IInv
  OBVIOUS
<1>1. TypeOK
  BY SMT DEF Init, TypeOK
<1>2. Through(version) /\ NeverStuck
  BY SMT DEF Init, Through, NeverStuck, AddsColumns
<1>3. WindowsComeLater /\ OneTray /\ StepsDone
  BY SMT DEF Init, WindowsComeLater, OneTray, StepsDone
<1> QED
  BY <1>1, <1>2, <1>3 DEF IInv

\* A process that ends keeps the invariant.
LEMMA OffInvariant ==
  ASSUME NEW p \in Proc, IInv, Off(p), UNCHANGED file, faults' \in Nat
  PROVE  IInv'
<1> USE DEF Off, file, IInv
<1>1. TypeOK'
  BY DEF TypeOK
<1>2. Through(version)' /\ NeverStuck'
  BY DEF Through, NeverStuck
<1>3. WindowsComeLater' /\ OneTray'
  BY DEF WindowsComeLater, OneTray, TypeOK
<1>4. StepsDone'
  BY DEF StepsDone, Through, TypeOK
<1> QED
  BY <1>1, <1>2, <1>3, <1>4

\* Every step of every process keeps the invariant.
LEMMA NextInvariant == IInv /\ [Next]_vars => IInv'
<1> SUFFICES ASSUME IInv, [Next]_vars PROVE IInv'
  OBVIOUS
<1> USE DEF IInv
<1>1. ASSUME NEW p \in Proc, StartTray(p) PROVE IInv'
  <2> USE <1>1 DEF StartTray, Starts, file
  <2>1. TypeOK'
    BY DEF TypeOK
  <2>2. Through(version)' /\ NeverStuck'
    BY DEF Through, NeverStuck
  <2>3. WindowsComeLater'
    BY DEF WindowsComeLater, TypeOK
  <2>4. OneTray'
    BY DEF OneTray, TypeOK
  <2>5. StepsDone'
    BY DEF StepsDone, Through, TypeOK
  <2> QED
    BY <2>1, <2>2, <2>3, <2>4, <2>5
<1>2. ASSUME NEW p \in Proc, OpenLog(p) PROVE IInv'
  <2> USE <1>2 DEF OpenLog, Starts, file
  <2>1. TypeOK'
    BY DEF TypeOK
  <2>2. Through(version)' /\ NeverStuck'
    BY DEF Through, NeverStuck
  <2>3. WindowsComeLater'
    BY DEF WindowsComeLater, StepsDone, TypeOK
  <2>4. OneTray'
    BY DEF OneTray, TypeOK
  <2>5. StepsDone'
    BY DEF StepsDone, Through, TypeOK
  <2> QED
    BY <2>1, <2>2, <2>3, <2>4, <2>5
<1>3. ASSUME NEW p \in Proc, run_migrations(p) PROVE IInv'
  <2> USE <1>3 DEF run_migrations, file
  <2>1. TypeOK'
    BY DEF TypeOK
  <2>2. Through(version)' /\ NeverStuck'
    BY DEF Through, NeverStuck
  <2>3. WindowsComeLater' /\ OneTray'
    BY DEF WindowsComeLater, OneTray, TypeOK
  <2>4. StepsDone'
    BY DEF StepsDone, Through, WindowsComeLater, TypeOK
  <2> QED
    BY <2>1, <2>2, <2>3, <2>4
<1>4. ASSUME NEW p \in Proc, apply_migration(p) PROVE IInv'
  <2>1. CASE /\ at[p] = "steps" /\ next[p] <= own[p]
             /\ next[p] \notin AddsColumns \/ next[p] \notin applied
             /\ applied' = applied \cup Makes(next[p])
             /\ version' = next[p]
             /\ next' = [next EXCEPT ![p] = next[p] + 1]
             /\ UNCHANGED <<at, tray, own, faults>>
    <3> USE <2>1
    <3>0. next[p] \in Step /\ next[p] \in Makes(next[p]) /\ Makes(next[p]) \subseteq Step
      BY DEF TypeOK, Makes
    <3>1. TypeOK'
      <4>1. next[p] + 1 \in 1..SCHEMA_VERSION + 1
        BY DEF TypeOK
      <4>2. applied' \in SUBSET Step
        BY <3>0 DEF TypeOK
      <4> QED
        BY <3>0, <4>1, <4>2 DEF TypeOK
    <3>2. \A v \in Step : v <= next[p] => v \in applied' \/ (v = 5 /\ next[p] = 5)
      <4> SUFFICES ASSUME NEW v \in Step, v <= next[p], v # next[p]
                   PROVE  v \in applied' \/ (v = 5 /\ next[p] = 5)
        BY <3>0
      <4>1. v <= next[p] - 1
        BY <3>0
      <4>2. v \in applied \/ (v = 5 /\ next[p] = 6)
        BY <4>1, <3>0 DEF StepsDone, Through
      <4> QED
        BY <4>2 DEF Makes
    <3>3. Through(version)'
      BY <3>2 DEF Through
    <3>4. NeverStuck'
      <4> SUFFICES ASSUME NEW v \in AddsColumns, v > next[p], v \in applied' PROVE FALSE
        BY DEF NeverStuck
      <4>1. v \in applied /\ v <= version
        BY <3>0 DEF NeverStuck, Makes, AddsColumns, TypeOK
      <4>2. next[p] \in applied \/ next[p] = 1
        BY <3>0, <4>1 DEF Through, AddsColumns, TypeOK
      <4>3. next[p] # 1
        BY <4>1 DEF StepsDone, AddsColumns, TypeOK
      <4>4. next[p] \in AddsColumns
        BY <3>0, <4>3 DEF AddsColumns
      <4> QED
        BY <4>2, <4>3, <4>4
    <3>5. WindowsComeLater' /\ OneTray'
      BY <3>0 DEF WindowsComeLater, OneTray
    <3>6. StepsDone'
      <4> SUFFICES ASSUME NEW q \in Proc
                   PROVE  /\ at[q] = "steps" => Through(next[q] - 1)'
                          /\ at[q] = "steps" /\ next'[q] = 1 => q \in tray /\ version' = 0
                          /\ at[q] = "up" => (own[q] = SCHEMA_VERSION => applied' = Step)
        BY <3>0 DEF StepsDone
      <4>1. CASE q = p
        BY <4>1, <3>0, <3>2 DEF Through, TypeOK
      <4>2. CASE q # p
        <5>1. next'[q] = next[q]
          BY <4>2 DEF TypeOK
        <5>2. at[q] = "steps" => Through(next[q] - 1)'
          BY <5>1 DEF StepsDone, Through
        <5>3. ~(at[q] = "steps" /\ next[q] = 1)
          BY <4>2, <3>0 DEF StepsDone, OneTray, WindowsComeLater, TypeOK
        <5>4. at[q] = "up" => (own[q] = SCHEMA_VERSION => applied' = Step)
          BY <3>0 DEF StepsDone
        <5> QED
          BY <5>1, <5>2, <5>3, <5>4
      <4> QED
        BY <4>1, <4>2
    <3> QED
      BY <3>1, <3>3, <3>4, <3>5, <3>6
  <2>2. CASE Off(p) /\ UNCHANGED file /\ faults' \in Nat
    BY <2>2, OffInvariant
  <2> QED
    BY <1>4, <2>1, <2>2 DEF apply_migration, TypeOK
<1>5. ASSUME NEW p \in Proc, Opened(p) PROVE IInv'
  <2> USE <1>5 DEF Opened, file
  <2>1. TypeOK'
    BY DEF TypeOK
  <2>2. Through(version)' /\ NeverStuck'
    BY DEF Through, NeverStuck
  <2>3. WindowsComeLater' /\ OneTray'
    BY DEF WindowsComeLater, OneTray, TypeOK
  <2>4. next[p] > 1 /\ (own[p] = SCHEMA_VERSION => next[p] - 1 = SCHEMA_VERSION)
    BY DEF TypeOK
  <2>5. own[p] = SCHEMA_VERSION => applied = Step
    <3> SUFFICES ASSUME own[p] = SCHEMA_VERSION PROVE applied = Step
      OBVIOUS
    <3>1. \A v \in Step : v \in applied
      BY <2>4 DEF StepsDone, Through
    <3> QED
      BY <3>1 DEF TypeOK
  <2>6. StepsDone'
    BY <2>4, <2>5 DEF StepsDone, Through, TypeOK
  <2> QED
    BY <2>1, <2>2, <2>3, <2>6
<1>6. ASSUME NEW p \in Proc, Exit(p) PROVE IInv'
  BY <1>6, OffInvariant DEF Exit, TypeOK
<1>7. CASE UNCHANGED vars
  BY <1>7 DEF vars, file, run, TypeOK, Through, NeverStuck, WindowsComeLater, OneTray, StepsDone
<1> QED
  BY <1>1, <1>2, <1>3, <1>4, <1>5, <1>6, <1>7 DEF Next

LEMMA Invariant == Spec => []IInv
  BY InitInvariant, NextInvariant, PTL DEF Spec

\* The model's type invariant (db.rs:329-393).
THEOREM SchemaTypes == Spec => []TypeOK
<1>1. IInv => TypeOK
  BY DEF IInv
<1> QED
  BY <1>1, Invariant, PTL

\* No start ever finds columns a step would add again, whatever the processes
\* and however many open the database at once (db.rs:397-409).
THEOREM NoStartIsStuck == Spec => []NeverStuck
<1>1. IInv => NeverStuck
  BY DEF IInv
<1> QED
  BY <1>1, Invariant, PTL

\* Every process that has opened the database has its whole schema
\* (db.rs:361-396, 552-577).
THEOREM SchemaIsWhole == Spec => []SchemaIsThere
<1>1. IInv => SchemaIsThere
  BY DEF IInv, StepsDone, SchemaIsThere
<1> QED
  BY <1>1, Invariant, PTL

----------------------------------------------------------------------------
(* Migration.  As long as nothing fails and no legacy program is started   *)
(* after the kill, a process that comes to a step finds what its earlier   *)
(* ones, or those of another process, have left (Way).  If only one layout *)
(* has left data, nothing is at the old places that the new one lacks,     *)
(* whoever copied or moved it (Homes), and if no copy was cut short, what  *)
(* is at the new place is whole, or its one copier is still at it          *)
(* (Straight).                                                             *)

HIDE DEF SCHEMA_VERSION, Step

None == Data!None
Planned == ~m_restarted /\ m_faults = 0
Torn(f) == f["new"].line = "torn"

\* The steps before which something must have been done.
LogCopied == {"move_db", "move_wal", "ready", "open"}
DbCopied  == LogCopied \cup {"copy_wal", "make_wal", "copying_wal"}
DbMoved   == LogCopied \ {"move_db"}
LogMoved  == DbMoved \ {"move_wal"}

\* Whatever fails: a legacy place has its own line, and what is open or being
\* copied is there.
Lines ==
  /\ \A d \in Data!Legacy : m_db[d].line \in {d, "none"} /\ m_wal[d].line \in {d, "none"}
  /\ \A d \in m_running : m_db[d] # None
  /\ \A p \in Proc : m_at[p] = "open" => m_db["new"] # None
  /\ \A p \in Proc : m_at[p] \in {"make_db", "copying_db"} => m_db["old"] # None

\* What a process at its step may count on when nothing fails.
Way(p) ==
  /\ m_at[p] \notin {"off", "kill"} => m_running = {}
  /\ m_at[p] \notin {"off", "kill", "remove"} => m_exe = {}
  /\ m_at[p] \in {"make_wal", "copying_wal"} => m_wal["old"] # None
  /\ m_at[p] \in DbCopied \cup {"copying_db"} => (m_db["old"] # None => m_db["new"] # None)

\* And unless both layouts have left data: what lies at the legacy places,
LegacyFiles ==
  /\ (m_db["old"] = None /\ m_wal["old"] = None) \/ (m_db["mixed"] = None /\ m_wal["mixed"] = None)
  /\ \A d \in m_exe : m_db[d] # None
  /\ m_wal["old"] # None => m_db["old"] # None
  /\ m_spoilt => m_db["old"] # None

\* at the new place,
NewFiles ==
  /\ m_exe # {} => m_db["new"] = None
  /\ m_db["new"] = None => m_wal["new"] = None /\ (m_wal["mixed"] # None => m_db["mixed"] # None)
  /\ m_db["mixed"] # None => m_db["new"] = None
  /\ m_wal["mixed"] # None => m_wal["new"] = None
  /\ m_db["new"].line \in {"old", "torn"} => m_db["old"] # None
  /\ m_db["new"].line = "mixed" => m_db["old"] = None
  /\ m_db["new"].line = "new" => m_wal["mixed"] = None
  /\ m_wal["new"].line \in {"old", "torn"} => m_wal["old"] # None
  /\ m_wal["new"].line = "mixed" => m_db["new"].line = "mixed"

\* and who has moved it there.
Moved(p) ==
  /\ m_at[p] \in DbMoved => m_db["mixed"] = None
  /\ m_at[p] \in LogMoved => m_wal["mixed"] = None

Kept == m_damaged => m_db["new"] # None /\ m_wal["old"] # None

Homes == (\A p \in Proc : Moved(p)) /\ LegacyFiles /\ NewFiles /\ Kept

\* And unless a copy was cut short or repeated: what is copied is complete,
Copied(p) ==
  /\ m_at[p] \in LogCopied \cup {"copying_wal"} =>
       (m_db["new"].line # "new" /\ m_wal["old"] # None => m_wal["new"] # None)
  /\ m_at[p] = "copying_db" => Torn(m_db)
  /\ m_at[p] = "copying_wal" => Torn(m_wal)
  /\ m_at[p] = "open" => m_db["new"].line = "new" /\ m_wal["new"].line = "new"

\* or its one copier is still at it.
Whole ==
  /\ \A p, q \in Proc : m_at[p] = "copying_db" /\ m_at[q] = "copying_db" => p = q
  /\ \A p, q \in Proc : m_at[p] = "copying_wal" /\ m_at[q] = "copying_wal" => p = q
  /\ Torn(m_db) => \E p \in Proc : m_at[p] = "copying_db"
  /\ Torn(m_wal) => \E p \in Proc : m_at[p] = "copying_wal"
  /\ m_db["new"].line = "old" => m_db["new"] = m_db["old"]
  /\ m_db["new"].line \in {"old", "torn"} => Torn(m_wal) \/ m_wal["new"] \in {None, m_wal["old"]}

Straight == (\A p \in Proc : Copied(p)) /\ Whole /\ ~m_missed

Promise ==
  /\ \A p \in Proc : Way(p)
  /\ ~Data!TwoHomes => Homes
  /\ ~Data!TwoHomes /\ ~m_spoilt => Straight

DataInv ==
  /\ Data!TypeOK
  /\ m_running \subseteq m_exe
  /\ Lines
  /\ Planned => Promise

USE DEF Data!files, Data!ghosts, Data!counts, Data!Legacy, Data!Dir, None, Data!None,
        DbCopied, LogCopied, DbMoved, LogMoved, Torn, Data!TwoHomes

LEMMA InitData == Data!Init => DataInv
<1> SUFFICES ASSUME Data!Init PROVE DataInv
  OBVIOUS
<1>0. PICK held \in SUBSET Data!Legacy :
        /\ m_exe \in SUBSET held
        /\ m_db = [d \in Data!Dir |-> IF d \in held THEN [line |-> d, n |-> 0] ELSE None]
  BY DEF Data!Init
<1>1. Data!TypeOK
  <2>1. m_db \in [Data!Dir -> Data!Image] /\ m_wal \in [Data!Dir -> Data!Image]
    BY <1>0, InstallAssumption, SMT DEF Data!Init, Data!Image, Data!Nothing
  <2>2. /\ m_exe \in SUBSET Data!Legacy /\ m_running \in SUBSET Data!Legacy
        /\ m_at \in [Proc -> Data!Doing] /\ m_window \in SUBSET Proc
    BY <1>0 DEF Data!Init, Data!Doing
  <2>3. m_restarted \in BOOLEAN /\ m_spoilt \in BOOLEAN /\ m_missed \in BOOLEAN /\ m_damaged \in BOOLEAN
    BY DEF Data!Init
  <2>4. m_faults \in 0..MaxFaults /\ m_launches \in 0..MaxStarts
    BY InstallAssumption DEF Data!Init
  <2> QED
    BY <2>1, <2>2, <2>3, <2>4 DEF Data!TypeOK
<1>2. m_running \subseteq m_exe
  BY DEF Data!Init
<1>3. \A p \in Proc : Way(p) /\ Moved(p) /\ Copied(p)
  BY DEF Data!Init, Way, Moved, Copied
<1>4. ~Data!TwoHomes => LegacyFiles
  BY <1>0 DEF Data!Init, Data!Nothing, LegacyFiles
<1>5. NewFiles /\ Kept /\ Whole /\ ~m_missed
  BY <1>0 DEF Data!Init, Data!Nothing, NewFiles, Kept, Whole
<1>6. Lines
  BY <1>0 DEF Data!Init, Data!Nothing, Lines
<1> QED
  BY <1>1, <1>2, <1>3, <1>4, <1>5, <1>6 DEF DataInv, Promise, Homes, Straight

LEMMA DataTypes ==
  ASSUME DataInv
  PROVE  /\ m_db \in [Data!Dir -> Data!Image] /\ m_wal \in [Data!Dir -> Data!Image]
         /\ m_exe \in SUBSET Data!Legacy /\ m_running \in SUBSET Data!Legacy
         /\ m_at \in [Proc -> Data!Doing] /\ m_window \in SUBSET Proc
         /\ m_restarted \in BOOLEAN /\ m_spoilt \in BOOLEAN /\ m_missed \in BOOLEAN /\ m_damaged \in BOOLEAN
         /\ m_faults \in 0..MaxFaults /\ m_launches \in 0..MaxStarts
  BY DEF DataInv, Data!TypeOK

LEMMA DataTypesTogether ==
  ASSUME m_db' \in [Data!Dir -> Data!Image], m_wal' \in [Data!Dir -> Data!Image],
         m_exe' \in SUBSET Data!Legacy, m_running' \in SUBSET Data!Legacy,
         m_at' \in [Proc -> Data!Doing], m_window' \in SUBSET Proc,
         m_restarted' \in BOOLEAN, m_spoilt' \in BOOLEAN, m_missed' \in BOOLEAN, m_damaged' \in BOOLEAN,
         m_faults' \in 0..MaxFaults, m_launches' \in 0..MaxStarts
  PROVE  Data!TypeOK'
  BY DEF Data!TypeOK

LEMMA ImageFields ==
  ASSUME NEW x \in Data!Image
  PROVE  /\ x.line \in Data!Dir \cup {"torn", "none"} /\ x.n \in Nat
         /\ x = None <=> x.line = "none"
         /\ x = [line |-> x.line, n |-> x.n]
  BY InstallAssumption DEF Data!Image

LEMMA NoLine == None.line = "none"
  OBVIOUS

LEMMA CommittedType ==
  ASSUME DataInv, NEW d \in Data!Dir
  PROVE  Data!Committed(d) \in 0..MaxCommits
<1>1. m_db[d] \in Data!Image /\ m_wal[d] \in Data!Image
  BY DataTypes
<1>2. \A x \in Data!Image : x.n \in 0..MaxCommits
  BY InstallAssumption DEF Data!Image
<1> QED
  BY <1>1, <1>2 DEF Data!Committed

\* The legacy program starts: unless this is a restart, nobody is past the kill.
LEMMA LegacyStartsKeeps ==
  ASSUME DataInv, NEW d \in Data!Legacy, Data!LegacyStarts(d)
  PROVE  DataInv'
<1> USE DataTypes DEF Data!LegacyStarts
<1>1. m_db' \in [Data!Dir -> Data!Image]
  <2>1. [line |-> d, n |-> 0] \in Data!Image
    BY InstallAssumption DEF Data!Image
  <2> QED
    BY <2>1
<1>2. m_restarted' \in BOOLEAN
  OBVIOUS
<1>3. m_launches' \in 0..MaxStarts
  BY InstallAssumption
<1>4. Data!TypeOK'
  BY <1>1, <1>2, <1>3, DataTypesTogether
<1>5. m_running' \subseteq m_exe'
  BY DEF DataInv
<1>6. ASSUME Planned' PROVE Promise'
  <2>1. Planned /\ Promise /\ \A p \in Proc : m_at[p] \in {"off", "kill"}
    BY <1>6 DEF Planned, DataInv
  <2>2. m_db' = m_db
    BY <2>1 DEF Promise, Homes, LegacyFiles
  <2>3. (\A p \in Proc : Way(p))'
    BY <2>1 DEF Way
  <2>4. ~Data!TwoHomes' => Homes'
    BY <2>1, <2>2 DEF Promise, Homes, LegacyFiles, NewFiles, Moved, Kept
  <2>5. ~Data!TwoHomes' /\ ~m_spoilt' => Straight'
    BY <2>1, <2>2 DEF Promise, Straight, Copied, Whole
  <2> QED
    BY <2>3, <2>4, <2>5 DEF Promise
<1>7. Lines'
  BY DEF DataInv, Lines
<1> QED
  BY <1>4, <1>5, <1>6, <1>7 DEF DataInv

\* A running legacy program writes at its own place only, before anything is
\* copied or moved.
LEMMA LegacyWritesKeep ==
  ASSUME DataInv, NEW d \in m_running,
         m_db' \in [Data!Dir -> Data!Image], m_wal' \in [Data!Dir -> Data!Image],
         \A e \in Data!Dir \ {d} : m_db'[e] = m_db[e] /\ m_wal'[e] = m_wal[e],
         m_db'[d].line = m_db[d].line, m_wal'[d].line \in {d, "none"},
         m_running' \in {m_running, m_running \ {d}},
         UNCHANGED <<m_exe, m_at, m_window, m_restarted, m_spoilt, m_missed, m_damaged, m_faults, m_launches>>
  PROVE  DataInv'
<1> USE DataTypes
<1>1. Data!TypeOK'
  BY DataTypesTogether
<1>2. m_running' \subseteq m_exe' /\ d \in m_exe /\ d \in Data!Legacy
  BY DEF DataInv
<1>3. m_db[d] # None /\ m_db'[d] # None
  BY <1>2, ImageFields DEF DataInv, Lines
<1>4. Lines'
  BY <1>2, <1>3, ImageFields DEF DataInv, Lines
<1>5. ASSUME Planned' PROVE Promise'
  <2>1. Promise
    BY <1>5 DEF Planned, DataInv
  <2>2. \A p \in Proc : m_at[p] \in {"off", "kill"}
    BY <2>1 DEF Promise, Way
  <2>3. (\A p \in Proc : Way(p) /\ Moved(p) /\ Copied(p))'
    BY <2>2 DEF Way, Moved, Copied
  <2>4. Data!TwoHomes' = Data!TwoHomes
    BY <1>2, <1>3
  <2>5. ASSUME ~Data!TwoHomes PROVE LegacyFiles' /\ NewFiles' /\ Kept' /\ m_db'["new"] = None /\ m_wal'["new"] = None
    <3>1. LegacyFiles /\ NewFiles /\ Kept /\ m_db["new"] = None /\ m_wal["new"] = None
      BY <1>2, <2>1, <2>5 DEF Promise, Homes, NewFiles
    <3>2. m_db'["new"] = None /\ m_wal'["new"] = None
      BY <1>2, <3>1
    <3>3. LegacyFiles'
      BY <1>2, <1>3, <3>1 DEF LegacyFiles
    <3>4. NewFiles' /\ Kept'
      BY <1>2, <1>3, <3>1, <3>2 DEF NewFiles, Kept
    <3> QED
      BY <3>2, <3>3, <3>4
  <2>6. ASSUME ~Data!TwoHomes, ~m_spoilt PROVE Whole' /\ ~m_missed'
    BY <2>1, <2>2, <2>5, <2>6 DEF Promise, Straight, Whole
  <2> QED
    BY <2>3, <2>4, <2>5, <2>6 DEF Promise, Homes, Straight
<1> QED
  BY <1>1, <1>2, <1>4, <1>5 DEF DataInv

\* A checkpoint leaves a database its line.
LEMMA CheckpointKeepsLine ==
  ASSUME DataInv, NEW d \in Data!Dir, Data!Checkpoint(d), m_db[d] # None
  PROVE  /\ m_db' \in [Data!Dir -> Data!Image] /\ m_db'[d].line = m_db[d].line
         /\ \A e \in Data!Dir \ {d} : m_db'[e] = m_db[e]
<1> USE DataTypes
<1>1. m_db[d] \in [line : Data!Dir \cup {"torn"}, n : 0..MaxCommits]
  BY DEF Data!Image
<1>2. [m_db[d] EXCEPT !.n = Data!Committed(d)] \in Data!Image
  BY <1>1, CommittedType DEF Data!Image
<1>3. m_db' = [m_db EXCEPT ![d] = [m_db[d] EXCEPT !.n = Data!Committed(d)]]
  BY DEF Data!Checkpoint
<1> QED
  BY <1>1, <1>2, <1>3

\* And so does a commit; its log has that line too.
LEMMA CommitKeepsLine ==
  ASSUME DataInv, NEW d \in Data!Dir, NEW line \in Data!Dir, Data!Commit(d, line),
         Data!Committed(d) < MaxCommits
  PROVE  /\ m_wal' \in [Data!Dir -> Data!Image] /\ m_wal'[d].line = line
         /\ \A e \in Data!Dir \ {d} : m_wal'[e] = m_wal[e]
<1> USE DataTypes
<1>1. Data!Committed(d) + 1 \in 0..MaxCommits
  BY CommittedType, InstallAssumption
<1>2. [line |-> line, n |-> Data!Committed(d) + 1] \in Data!Image
  BY <1>1 DEF Data!Image
<1> QED
  BY <1>2 DEF Data!Commit

LEMMA LegacyCommitsKeeps ==
  ASSUME DataInv, NEW d \in Data!Legacy, Data!LegacyCommits(d)
  PROVE  DataInv'
<1> USE DEF Data!LegacyCommits
<1>1. m_db[d].line = d
  BY DataTypes, ImageFields DEF DataInv, Lines
<1>2. /\ m_wal' \in [Data!Dir -> Data!Image] /\ m_wal'[d].line = d
      /\ \A e \in Data!Dir \ {d} : m_wal'[e] = m_wal[e]
  BY <1>1, CommitKeepsLine
<1> QED
  BY <1>1, <1>2, DataTypes, LegacyWritesKeep

LEMMA LegacyCheckpointsKeeps ==
  ASSUME DataInv, NEW d \in Data!Legacy, Data!LegacyCheckpoints(d)
  PROVE  DataInv'
<1> USE DEF Data!LegacyCheckpoints
<1>1. m_db[d] # None /\ m_wal[d].line \in {d, "none"}
  BY DEF DataInv, Lines
<1>2. /\ m_db' \in [Data!Dir -> Data!Image] /\ m_db'[d].line = m_db[d].line
      /\ \A e \in Data!Dir \ {d} : m_db'[e] = m_db[e]
  BY <1>1, CheckpointKeepsLine
<1> QED
  BY <1>1, <1>2, DataTypes, LegacyWritesKeep

LEMMA LegacyQuitsKeeps ==
  ASSUME DataInv, NEW d \in Data!Legacy, Data!LegacyQuits(d)
  PROVE  DataInv'
<1> USE DEF Data!LegacyQuits, Data!CloseLast
<1>1. m_db[d] # None
  BY DEF DataInv, Lines
<1>2. /\ m_db' \in [Data!Dir -> Data!Image] /\ m_db'[d].line = m_db[d].line
      /\ \A e \in Data!Dir \ {d} : m_db'[e] = m_db[e]
  BY <1>1, CheckpointKeepsLine
<1>3. /\ m_wal' \in [Data!Dir -> Data!Image] /\ m_wal'[d].line = "none"
      /\ \A e \in Data!Dir \ {d} : m_wal'[e] = m_wal[e]
  BY DataTypes DEF Data!Image
<1> QED
  BY <1>2, <1>3, DataTypes, LegacyWritesKeep

LEMMA Stepped ==
  ASSUME DataInv, NEW p \in Proc, NEW doing \in Data!Doing, Data!Then(p, doing)
  PROVE  /\ m_at' \in [Proc -> Data!Doing] /\ m_at'[p] = doing
         /\ \A q \in Proc \ {p} : m_at'[q] = m_at[q]
  BY DataTypes DEF Data!Then

\* A process is started, or ends and leaves the files alone.
LEMMA LaunchKeeps ==
  ASSUME DataInv, NEW p \in Proc, Data!Launch(p)
  PROVE  DataInv'
<1> USE DataTypes DEF Data!Launch
<1>1. m_at' \in [Proc -> Data!Doing] /\ m_at'[p] = "kill" /\ \A q \in Proc \ {p} : m_at'[q] = m_at[q]
  BY DEF Data!Doing
<1>2. m_launches' \in 0..MaxStarts /\ m_window' \in SUBSET Proc
  BY InstallAssumption
<1>3. Data!TypeOK'
  BY <1>1, <1>2, DataTypesTogether
<1>4. m_running' \subseteq m_exe' /\ Lines'
  BY <1>1 DEF DataInv, Lines
<1>5. ASSUME Planned' PROVE Promise'
  <2>1. Promise
    BY <1>5 DEF Planned, DataInv
  <2>2. (\A q \in Proc : Way(q))'
    BY <1>1, <2>1 DEF Promise, Way
  <2>3. ~Data!TwoHomes' => Homes'
    BY <1>1, <2>1 DEF Promise, Homes, LegacyFiles, NewFiles, Moved, Kept
  <2>4. ~Data!TwoHomes' /\ ~m_spoilt' => Straight'
    BY <1>1, <2>1 DEF Promise, Straight, Copied, Whole
  <2> QED
    BY <2>2, <2>3, <2>4 DEF Promise
<1> QED
  BY <1>3, <1>4, <1>5 DEF DataInv

LEMMA ExitAtOnceKeeps ==
  ASSUME DataInv, NEW p \in Proc, Data!ExitAtOnce(p)
  PROVE  DataInv'
<1> USE DataTypes DEF Data!ExitAtOnce
<1>1. m_at' \in [Proc -> Data!Doing] /\ m_at'[p] = "off" /\ \A q \in Proc \ {p} : m_at'[q] = m_at[q]
  BY Stepped DEF Data!Doing
<1>2. m_spoilt' \in BOOLEAN
  OBVIOUS
<1>3. Data!TypeOK'
  BY <1>1, <1>2, DataTypesTogether
<1>4. m_running' \subseteq m_exe' /\ Lines'
  BY <1>1 DEF DataInv, Lines
<1>5. ASSUME Planned' PROVE Promise'
  <2>1. Promise
    BY <1>5 DEF Planned, DataInv
  <2>2. (\A q \in Proc : Way(q))'
    BY <1>1, <2>1 DEF Promise, Way
  <2>3. ASSUME ~Data!TwoHomes PROVE Homes'
    <3>1. m_at[p] \in Data!Copying => m_db["old"] # None
      BY <2>1, <2>3 DEF DataInv, Lines, Promise, Way, Data!Copying, Homes, LegacyFiles
    <3>2. LegacyFiles'
      BY <2>1, <2>3, <3>1 DEF Promise, Homes, LegacyFiles
    <3> QED
      BY <1>1, <2>1, <2>3, <3>2 DEF Promise, Homes, NewFiles, Moved, Kept
  <2>4. ASSUME ~Data!TwoHomes, ~m_spoilt' PROVE Straight'
    <3>1. ~m_spoilt /\ m_at[p] \notin Data!Copying
      BY <2>4
    <3> QED
      BY <1>1, <2>1, <2>4, <3>1 DEF Promise, Straight, Copied, Whole, Data!Copying
  <2> QED
    BY <2>2, <2>3, <2>4 DEF Promise
<1> QED
  BY <1>3, <1>4, <1>5 DEF DataInv

\* A fault is one too many to be as planned.
LEMMA FaultCounts ==
  ASSUME DataInv, Data!Fails
  PROVE  m_faults' \in 0..MaxFaults /\ ~Planned'
  BY DataTypes, InstallAssumption DEF Data!Fails, Planned

LEMMA KillKeeps ==
  ASSUME DataInv, NEW p \in Proc, Data!Kill(p)
  PROVE  DataInv'
<1> USE DataTypes DEF Data!Kill
<1>1. CASE m_exe = {} /\ Data!Then(p, "copy_db") /\ UNCHANGED <<m_running, m_window, m_spoilt, m_faults>>
  <2>1. /\ m_at' \in [Proc -> Data!Doing] /\ m_at'[p] = "copy_db"
        /\ \A q \in Proc \ {p} : m_at'[q] = m_at[q]
    BY <1>1, Stepped DEF Data!Doing
  <2>2. Data!TypeOK'
    BY <1>1, <2>1, DataTypesTogether
  <2>3. m_running' \subseteq m_exe' /\ Lines'
    BY <1>1, <2>1 DEF DataInv, Lines
  <2>4. ASSUME Planned' PROVE Promise'
    <3>1. Promise /\ m_running = {}
      BY <1>1, <2>4 DEF Planned, DataInv
    <3>2. (\A q \in Proc : Way(q))'
      BY <1>1, <2>1, <3>1 DEF Promise, Way
    <3>3. ~Data!TwoHomes' => Homes'
      BY <1>1, <2>1, <3>1 DEF Promise, Homes, LegacyFiles, NewFiles, Moved, Kept
    <3>4. ~Data!TwoHomes' /\ ~m_spoilt' => Straight'
      BY <1>1, <2>1, <3>1 DEF Promise, Straight, Copied, Whole
    <3> QED
      BY <3>2, <3>3, <3>4 DEF Promise
  <2> QED
    BY <2>2, <2>3, <2>4 DEF DataInv
<1>2. CASE /\ m_exe # {} /\ Data!NoFault /\ m_running' = {} /\ m_window' = m_window \cap {p}
           /\ m_at' = [q \in Proc |-> IF q = p THEN "remove" ELSE "off"]
           /\ m_spoilt' = (m_spoilt \/ \E q \in Proc : m_at[q] \in Data!Copying)
  <2>1. m_at' \in [Proc -> Data!Doing] /\ \A q \in Proc : m_at'[q] \in {"off", "remove"}
    BY <1>2 DEF Data!Doing
  <2>2. m_spoilt' \in BOOLEAN
    BY <1>2
  <2>3. Data!TypeOK'
    BY <1>2, <2>1, <2>2, DataTypesTogether DEF Data!NoFault
  <2>4. m_running' \subseteq m_exe' /\ Lines'
    BY <1>2, <2>1 DEF DataInv, Lines
  <2>5. ASSUME Planned' PROVE Promise'
    <3>1. Promise
      BY <1>2, <2>5 DEF Planned, DataInv, Data!NoFault
    <3>2. (\A q \in Proc : m_at[q] \notin Data!Copying) /\ m_spoilt' = m_spoilt
      BY <1>2, <3>1 DEF Promise, Way, Data!Copying
    <3>3. (\A q \in Proc : Way(q) /\ Moved(q) /\ Copied(q))'
      BY <1>2, <2>1 DEF Way, Moved, Copied
    <3>4. ~Data!TwoHomes' => Homes'
      BY <1>2, <3>1, <3>2, <3>3 DEF Promise, Homes, LegacyFiles, NewFiles, Kept
    <3>5. ~Data!TwoHomes' /\ ~m_spoilt' => Straight'
      BY <1>2, <2>1, <3>1, <3>2, <3>3 DEF Promise, Straight, Whole, Data!Copying
    <3> QED
      BY <3>3, <3>4, <3>5 DEF Promise
  <2> QED
    BY <2>3, <2>4, <2>5 DEF DataInv
<1>3. CASE m_exe # {} /\ Data!Fails /\ Data!Then(p, "remove") /\ UNCHANGED <<m_running, m_window, m_spoilt>>
  <2>1. m_at' \in [Proc -> Data!Doing] /\ m_at'[p] = "remove" /\ \A q \in Proc \ {p} : m_at'[q] = m_at[q]
    BY <1>3, Stepped DEF Data!Doing
  <2>2. m_faults' \in 0..MaxFaults /\ ~Planned'
    BY <1>3, FaultCounts
  <2>3. Data!TypeOK'
    BY <1>3, <2>1, <2>2, DataTypesTogether
  <2>4. m_running' \subseteq m_exe' /\ Lines'
    BY <1>3, <2>1 DEF DataInv, Lines
  <2> QED
    BY <2>2, <2>3, <2>4 DEF DataInv
<1> QED
  BY <1>1, <1>2, <1>3

LEMMA RemoveKeeps ==
  ASSUME DataInv, NEW p \in Proc, Data!Remove(p)
  PROVE  DataInv'
<1> USE DataTypes DEF Data!Remove
<1>1. /\ m_at' \in [Proc -> Data!Doing] /\ m_at'[p] = "copy_db"
      /\ \A q \in Proc \ {p} : m_at'[q] = m_at[q]
  BY Stepped DEF Data!Doing
<1>2. m_exe' \in {m_running, m_exe} /\ m_faults' \in 0..MaxFaults /\ (Planned' => m_exe' = m_running)
  BY FaultCounts DEF Data!NoFault
<1>3. Data!TypeOK'
  BY <1>1, <1>2, DataTypesTogether
<1>4. m_running' \subseteq m_exe' /\ Lines'
  BY <1>1, <1>2 DEF DataInv, Lines
<1>5. ASSUME Planned' PROVE Promise'
  <2>1. Planned /\ Promise
    BY <1>5, FaultCounts DEF Planned, DataInv, Data!NoFault
  <2>2. m_running = {} /\ m_exe' = {}
    BY <1>2, <1>5, <2>1 DEF Promise, Way
  <2>3. (\A q \in Proc : Way(q))'
    BY <1>1, <2>1, <2>2 DEF Promise, Way
  <2>4. ~Data!TwoHomes' => Homes'
    BY <1>1, <2>1, <2>2 DEF Promise, Homes, LegacyFiles, NewFiles, Moved, Kept
  <2>5. ~Data!TwoHomes' /\ ~m_spoilt' => Straight'
    BY <1>1, <2>1 DEF Promise, Straight, Copied, Whole
  <2> QED
    BY <2>3, <2>4, <2>5 DEF Promise
<1> QED
  BY <1>3, <1>4, <1>5 DEF DataInv

\* Step 1: the database is copied if the new place has none by the check,
LEMMA CheckedDb ==
  ASSUME DataInv, NEW p \in Proc, m_at[p] = "copy_db", Data!Checks(p, m_db, "make_db", "copy_wal"),
         UNCHANGED <<m_db, m_wal, m_exe, m_running, m_window, m_restarted, m_missed, m_damaged, m_launches>>
  PROVE  DataInv'
<1> USE DataTypes DEF Data!Checks, Data!Wanted
<1>1. /\ m_at' \in [Proc -> Data!Doing]
      /\ m_at'[p] = (IF Data!Wanted(m_db, "old") THEN "make_db" ELSE "copy_wal")
      /\ \A q \in Proc \ {p} : m_at'[q] = m_at[q]
  BY Stepped DEF Data!Doing
<1>2. m_faults' = m_faults /\ m_spoilt' = m_spoilt
  BY DEF Data!NoFault
<1>3. Data!TypeOK'
  BY <1>1, <1>2, DataTypesTogether
<1>4. m_running' \subseteq m_exe' /\ Lines'
  BY <1>1 DEF DataInv, Lines
<1>5. ASSUME Planned' PROVE Promise'
  <2>1. Promise
    BY <1>2, <1>5 DEF Planned, DataInv
  <2>2. (\A q \in Proc : Way(q))'
    BY <1>1, <2>1 DEF Promise, Way
  <2>3. ~Data!TwoHomes' => Homes'
    BY <1>1, <1>2, <2>1 DEF Promise, Way, Homes, LegacyFiles, NewFiles, Moved, Kept
  <2>4. ~Data!TwoHomes' /\ ~m_spoilt' => Straight'
    BY <1>1, <1>2, <2>1 DEF Promise, Straight, Copied, Whole
  <2> QED
    BY <2>2, <2>3, <2>4 DEF Promise
<1> QED
  BY <1>3, <1>4, <1>5 DEF DataInv

\* then made anew, in one that there may be by now,
LEMMA MadeDb ==
  ASSUME DataInv, NEW p \in Proc, m_at[p] = "make_db", Data!Makes(p, m_db, m_db', "copying_db", "copy_wal"),
         UNCHANGED <<m_wal, m_exe, m_running, m_window, m_restarted, m_missed, m_damaged, m_launches>>
  PROVE  DataInv'
<1> USE DataTypes DEF Data!Makes
<1>0. Data!Torn \in Data!Image /\ Data!Torn # None /\ Data!Torn.line = "torn"
  BY InstallAssumption DEF Data!Image, Data!Torn
<1>1. CASE /\ m_db' = [m_db EXCEPT !["new"] = Data!Torn] /\ Data!NoFault
           /\ m_spoilt' = (m_spoilt \/ m_db["new"] # None) /\ Data!Then(p, "copying_db")
  <2>1. /\ m_at' \in [Proc -> Data!Doing] /\ m_at'[p] = "copying_db"
        /\ \A q \in Proc \ {p} : m_at'[q] = m_at[q]
    BY <1>1, Stepped DEF Data!Doing
  <2>2. m_faults' = m_faults /\ m_spoilt' \in BOOLEAN
    BY <1>1 DEF Data!NoFault
  <2>3. /\ m_db' \in [Data!Dir -> Data!Image] /\ m_db'["new"] = Data!Torn
        /\ \A d \in Data!Legacy : m_db'[d] = m_db[d]
    BY <1>0, <1>1
  <2>4. Data!TypeOK'
    BY <2>1, <2>2, <2>3, DataTypesTogether
  <2>5. m_running' \subseteq m_exe' /\ Lines'
    BY <1>0, <2>1, <2>3 DEF DataInv, Lines
  <2>6. ASSUME Planned' PROVE Promise'
    <3>1. Promise /\ m_db["old"] # None /\ m_exe = {} /\ m_running = {}
      BY <2>2, <2>6 DEF Planned, DataInv, Lines, Promise, Way
    <3>2. (\A q \in Proc : Way(q))'
      BY <1>0, <2>1, <2>3, <3>1 DEF Promise, Way
    <3>3. ASSUME ~Data!TwoHomes PROVE Homes'
      <4>1. m_db["mixed"] = None /\ m_wal["mixed"] = None
        BY <3>1, <3>3 DEF Promise, Homes, LegacyFiles
      <4>2. (\A q \in Proc : Moved(q))' /\ LegacyFiles'
        BY <2>3, <3>1, <3>3, <4>1 DEF Promise, Homes, LegacyFiles, Moved
      <4>3. m_wal["new"].line # "mixed"
        BY <3>1, <3>3 DEF Promise, Homes, NewFiles
      <4>4. NewFiles' /\ Kept'
        BY <1>0, <2>3, <3>1, <3>3, <4>1, <4>3 DEF Promise, Homes, NewFiles, Kept
      <4> QED
        BY <4>2, <4>4 DEF Homes
    <3>4. ASSUME ~Data!TwoHomes, ~m_spoilt' PROVE Straight'
      <4>1. ~m_spoilt /\ m_db["new"] = None /\ m_wal["new"] = None
        BY <1>1, <3>1, <3>4 DEF Promise, Homes, NewFiles
      <4>2. \A q \in Proc : m_at[q] \notin DbCopied \cup {"copying_db"}
        BY <3>1, <4>1 DEF Promise, Way
      <4>3. (\A q \in Proc : Copied(q))'
        BY <1>0, <2>1, <2>3, <4>2 DEF Copied
      <4>4. Whole' /\ ~m_missed'
        BY <1>0, <2>1, <2>3, <3>1, <3>4, <4>1, <4>2 DEF Promise, Straight, Whole
      <4> QED
        BY <4>3, <4>4 DEF Straight
    <3> QED
      BY <2>3, <3>2, <3>3, <3>4 DEF Promise
  <2> QED
    BY <2>4, <2>5, <2>6 DEF DataInv
<1>2. CASE /\ IF m_db["new"] # None /\ Data!InUse(p) THEN Data!NoFault ELSE Data!Fails
           /\ m_db' = m_db /\ Data!Then(p, "copy_wal") /\ UNCHANGED m_spoilt
  <2>1. /\ m_at' \in [Proc -> Data!Doing] /\ m_at'[p] = "copy_wal"
        /\ \A q \in Proc \ {p} : m_at'[q] = m_at[q]
    BY <1>2, Stepped DEF Data!Doing
  <2>2. m_faults' \in 0..MaxFaults /\ (Planned' => m_db["new"] # None /\ m_faults' = m_faults)
    BY <1>2, FaultCounts DEF Data!NoFault
  <2>3. Data!TypeOK'
    BY <1>2, <2>1, <2>2, DataTypesTogether
  <2>4. m_running' \subseteq m_exe' /\ Lines'
    BY <1>2, <2>1 DEF DataInv, Lines
  <2>5. ASSUME Planned' PROVE Promise'
    <3>1. Promise /\ m_db["new"] # None
      BY <2>2, <2>5 DEF Planned, DataInv
    <3>2. (\A q \in Proc : Way(q))'
      BY <1>2, <2>1, <3>1 DEF Promise, Way
    <3>3. ~Data!TwoHomes' => Homes'
      BY <1>2, <2>1, <3>1 DEF Promise, Homes, LegacyFiles, NewFiles, Moved, Kept
    <3>4. ~Data!TwoHomes' /\ ~m_spoilt' => Straight'
      BY <1>2, <2>1, <3>1 DEF Promise, Straight, Copied, Whole
    <3> QED
      BY <3>2, <3>3, <3>4 DEF Promise
  <2> QED
    BY <2>3, <2>4, <2>5 DEF DataInv
<1> QED
  BY <1>1, <1>2

\* and completed by the one who made it;
LEMMA CompletedDb ==
  ASSUME DataInv, NEW p \in Proc, m_at[p] = "copying_db", Data!Completes(p, m_db, m_db', "copy_wal"),
         UNCHANGED <<m_wal, m_exe, m_running, m_window, m_restarted, m_missed, m_damaged, m_launches>>
  PROVE  DataInv'
<1> USE DataTypes DEF Data!Completes, Data!copied
<1>1. /\ m_at' \in [Proc -> Data!Doing] /\ m_at'[p] = "copy_wal"
      /\ \A q \in Proc \ {p} : m_at'[q] = m_at[q]
  BY Stepped DEF Data!Doing
<1>2. /\ m_db' \in [Data!Dir -> Data!Image] /\ m_faults' \in 0..MaxFaults /\ m_spoilt' = m_spoilt
      /\ \A d \in Data!Legacy : m_db'[d] = m_db[d]
      /\ Planned' => m_db'["new"] = m_db["old"] /\ m_faults' = m_faults
  <2>1. None \in Data!Image
    BY DEF Data!Image
  <2> QED
    BY <2>1, FaultCounts DEF Data!NoFault
<1>3. Data!TypeOK'
  BY <1>1, <1>2, DataTypesTogether
<1>4. m_running' \subseteq m_exe' /\ Lines'
  <2>1. \A q \in Proc : m_at'[q] = "open" => m_at[q] = "open" /\ m_db'["new"] \in {m_db["new"], m_db["old"]}
    BY <1>1 DEF Data!Opened
  <2>2. \A q \in Proc : m_at'[q] = "open" => m_db'["new"] # None
    BY <2>1 DEF DataInv, Lines
  <2> QED
    BY <1>1, <1>2, <2>2 DEF DataInv, Lines
<1>5. ASSUME Planned' PROVE Promise'
  <2>1. Promise /\ Lines /\ m_db["old"] # None /\ m_exe = {} /\ m_running = {}
    BY <1>2, <1>5 DEF Planned, DataInv, Lines, Promise, Way
  <2>2. m_db'["new"] = m_db["old"] /\ m_db["old"].line = "old" /\ m_db'["new"] # None
    BY <1>2, <1>5, <2>1, ImageFields DEF Lines
  <2>3. (\A q \in Proc : Way(q))'
    BY <1>1, <1>2, <2>1, <2>2 DEF Promise, Way
  <2>4. ASSUME ~Data!TwoHomes PROVE Homes'
    <3>1. m_db["mixed"] = None /\ m_wal["mixed"] = None
      BY <2>1, <2>4 DEF Promise, Homes, LegacyFiles
    <3>2. (\A q \in Proc : Moved(q))' /\ LegacyFiles'
      BY <1>2, <2>1, <2>4, <3>1 DEF Promise, Homes, LegacyFiles, Moved
    <3>3. m_wal["new"].line # "mixed"
      BY <2>1, <2>4 DEF Promise, Homes, NewFiles
    <3>4. NewFiles' /\ Kept'
      BY <1>2, <2>1, <2>2, <2>4, <3>1, <3>3 DEF Promise, Homes, NewFiles, Kept
    <3> QED
      BY <3>2, <3>4 DEF Homes
  <2>5. ASSUME ~Data!TwoHomes, ~m_spoilt PROVE Straight'
    <3>1. Straight /\ Torn(m_db)
      BY <2>1, <2>5 DEF Promise, Straight, Copied
    <3>2. \A q \in Proc : m_at'[q] \notin {"copying_db", "open"}
      BY <1>1, <3>1 DEF Straight, Whole, Copied
    <3>3. (\A q \in Proc : Copied(q))'
      BY <1>1, <2>2, <3>1, <3>2 DEF Straight, Copied
    <3>4. Whole' /\ ~m_missed'
      BY <1>1, <1>2, <2>2, <3>1, <3>2 DEF Straight, Whole
    <3> QED
      BY <3>3, <3>4 DEF Straight
  <2> QED
    BY <1>2, <2>3, <2>4, <2>5 DEF Promise
<1> QED
  BY <1>3, <1>4, <1>5 DEF DataInv

\* and its log then too.
LEMMA CheckedLog ==
  ASSUME DataInv, NEW p \in Proc, m_at[p] = "copy_wal", Data!Checks(p, m_wal, "make_wal", "move_db"),
         UNCHANGED <<m_db, m_wal, m_exe, m_running, m_window, m_restarted, m_missed, m_damaged, m_launches>>
  PROVE  DataInv'
<1> USE DataTypes DEF Data!Checks, Data!Wanted
<1>1. /\ m_at' \in [Proc -> Data!Doing]
      /\ m_at'[p] = (IF Data!Wanted(m_wal, "old") THEN "make_wal" ELSE "move_db")
      /\ \A q \in Proc \ {p} : m_at'[q] = m_at[q]
  BY Stepped DEF Data!Doing
<1>2. m_faults' = m_faults /\ m_spoilt' = m_spoilt
  BY DEF Data!NoFault
<1>3. Data!TypeOK'
  BY <1>1, <1>2, DataTypesTogether
<1>4. m_running' \subseteq m_exe' /\ Lines'
  BY <1>1 DEF DataInv, Lines
<1>5. ASSUME Planned' PROVE Promise'
  <2>1. Promise
    BY <1>2, <1>5 DEF Planned, DataInv
  <2>2. (\A q \in Proc : Way(q))'
    BY <1>1, <2>1 DEF Promise, Way
  <2>3. ~Data!TwoHomes' => Homes'
    BY <1>1, <1>2, <2>1 DEF Promise, Way, Homes, LegacyFiles, NewFiles, Moved, Kept
  <2>4. ~Data!TwoHomes' /\ ~m_spoilt' => Straight'
    BY <1>1, <1>2, <2>1 DEF Promise, Straight, Copied, Whole
  <2> QED
    BY <2>2, <2>3, <2>4 DEF Promise
<1> QED
  BY <1>3, <1>4, <1>5 DEF DataInv

LEMMA MadeLog ==
  ASSUME DataInv, NEW p \in Proc, m_at[p] = "make_wal", Data!Makes(p, m_wal, m_wal', "copying_wal", "move_db"),
         UNCHANGED <<m_db, m_exe, m_running, m_window, m_restarted, m_missed, m_damaged, m_launches>>
  PROVE  DataInv'
<1> USE DataTypes DEF Data!Makes
<1>0. Data!Torn \in Data!Image /\ Data!Torn # None /\ Data!Torn.line = "torn"
  BY InstallAssumption DEF Data!Image, Data!Torn
<1>1. CASE /\ m_wal' = [m_wal EXCEPT !["new"] = Data!Torn] /\ Data!NoFault
           /\ m_spoilt' = (m_spoilt \/ m_wal["new"] # None) /\ Data!Then(p, "copying_wal")
  <2>1. /\ m_at' \in [Proc -> Data!Doing] /\ m_at'[p] = "copying_wal"
        /\ \A q \in Proc \ {p} : m_at'[q] = m_at[q]
    BY <1>1, Stepped DEF Data!Doing
  <2>2. m_faults' = m_faults /\ m_spoilt' \in BOOLEAN
    BY <1>1 DEF Data!NoFault
  <2>3. /\ m_wal' \in [Data!Dir -> Data!Image] /\ m_wal'["new"] = Data!Torn
        /\ \A d \in Data!Legacy : m_wal'[d] = m_wal[d]
    BY <1>0, <1>1
  <2>4. Data!TypeOK'
    BY <2>1, <2>2, <2>3, DataTypesTogether
  <2>5. m_running' \subseteq m_exe' /\ Lines'
    BY <2>1, <2>3 DEF DataInv, Lines
  <2>6. ASSUME Planned' PROVE Promise'
    <3>1. Promise /\ m_wal["old"] # None /\ m_exe = {} /\ m_running = {}
      BY <2>2, <2>6 DEF Planned, DataInv, Promise, Way
    <3>2. (\A q \in Proc : Way(q))'
      BY <2>1, <2>3, <3>1 DEF Promise, Way
    <3>3. ASSUME ~Data!TwoHomes PROVE Homes'
      <4>1. /\ m_db["old"] # None /\ m_db["mixed"] = None /\ m_wal["mixed"] = None
            /\ m_db["new"] # None
        BY <3>1, <3>3 DEF Promise, Way, Homes, LegacyFiles
      <4>2. (\A q \in Proc : Moved(q))' /\ LegacyFiles'
        BY <2>3, <3>1, <3>3, <4>1 DEF Promise, Homes, LegacyFiles, Moved
      <4>3. NewFiles' /\ Kept'
        BY <1>0, <2>3, <3>1, <3>3, <4>1 DEF Promise, Homes, NewFiles, Kept
      <4> QED
        BY <4>2, <4>3 DEF Homes
    <3>4. ASSUME ~Data!TwoHomes, ~m_spoilt' PROVE Straight'
      <4>1. ~m_spoilt /\ m_wal["new"] = None /\ Straight
        BY <1>1, <3>1, <3>4 DEF Promise
      <4>2. \A q \in Proc : m_at[q] \notin {"copying_wal", "open"}
        BY <4>1, NoLine DEF Straight, Copied
      <4>3. (\A q \in Proc : Copied(q))'
        BY <1>0, <2>1, <2>3, <4>1, <4>2 DEF Straight, Copied
      <4>4. Whole' /\ ~m_missed'
        BY <1>0, <2>1, <2>3, <4>1, <4>2 DEF Straight, Whole
      <4> QED
        BY <4>3, <4>4 DEF Straight
    <3> QED
      BY <3>2, <3>3, <3>4 DEF Promise
  <2> QED
    BY <2>4, <2>5, <2>6 DEF DataInv
<1>2. CASE /\ IF m_wal["new"] # None /\ Data!InUse(p) THEN Data!NoFault ELSE Data!Fails
           /\ m_wal' = m_wal /\ Data!Then(p, "move_db") /\ UNCHANGED m_spoilt
  <2>1. /\ m_at' \in [Proc -> Data!Doing] /\ m_at'[p] = "move_db"
        /\ \A q \in Proc \ {p} : m_at'[q] = m_at[q]
    BY <1>2, Stepped DEF Data!Doing
  <2>2. m_faults' \in 0..MaxFaults /\ (Planned' => m_wal["new"] # None /\ m_faults' = m_faults)
    BY <1>2, FaultCounts DEF Data!NoFault
  <2>3. Data!TypeOK'
    BY <1>2, <2>1, <2>2, DataTypesTogether
  <2>4. m_running' \subseteq m_exe' /\ Lines'
    BY <1>2, <2>1 DEF DataInv, Lines
  <2>5. ASSUME Planned' PROVE Promise'
    <3>1. Promise /\ m_wal["new"] # None
      BY <2>2, <2>5 DEF Planned, DataInv
    <3>2. (\A q \in Proc : Way(q))'
      BY <1>2, <2>1, <3>1 DEF Promise, Way
    <3>3. ~Data!TwoHomes' => Homes'
      BY <1>2, <2>1, <3>1 DEF Promise, Homes, LegacyFiles, NewFiles, Moved, Kept
    <3>4. ~Data!TwoHomes' /\ ~m_spoilt' => Straight'
      BY <1>2, <2>1, <3>1 DEF Promise, Straight, Copied, Whole
    <3> QED
      BY <3>2, <3>3, <3>4 DEF Promise
  <2> QED
    BY <2>3, <2>4, <2>5 DEF DataInv
<1> QED
  BY <1>1, <1>2

LEMMA CompletedLog ==
  ASSUME DataInv, NEW p \in Proc, m_at[p] = "copying_wal", Data!Completes(p, m_wal, m_wal', "move_db"),
         UNCHANGED <<m_db, m_exe, m_running, m_window, m_restarted, m_missed, m_damaged, m_launches>>
  PROVE  DataInv'
<1> USE DataTypes DEF Data!Completes, Data!copied
<1>1. /\ m_at' \in [Proc -> Data!Doing] /\ m_at'[p] = "move_db"
      /\ \A q \in Proc \ {p} : m_at'[q] = m_at[q]
  BY Stepped DEF Data!Doing
<1>2. /\ m_wal' \in [Data!Dir -> Data!Image] /\ m_faults' \in 0..MaxFaults /\ m_spoilt' = m_spoilt
      /\ \A d \in Data!Legacy : m_wal'[d] = m_wal[d]
      /\ Planned' => m_wal'["new"] = m_wal["old"] /\ m_faults' = m_faults
  <2>1. None \in Data!Image
    BY DEF Data!Image
  <2> QED
    BY <2>1, FaultCounts DEF Data!NoFault
<1>3. Data!TypeOK'
  BY <1>1, <1>2, DataTypesTogether
<1>4. m_running' \subseteq m_exe' /\ Lines'
  BY <1>1, <1>2 DEF DataInv, Lines
<1>5. ASSUME Planned' PROVE Promise'
  <2>1. Promise /\ Lines /\ m_wal["old"] # None /\ m_exe = {} /\ m_running = {}
    BY <1>2, <1>5 DEF Planned, DataInv, Promise, Way
  <2>2. m_wal'["new"] = m_wal["old"] /\ m_wal["old"].line = "old" /\ m_wal'["new"] # None
    BY <1>2, <1>5, <2>1, ImageFields DEF Lines
  <2>3. (\A q \in Proc : Way(q))'
    BY <1>1, <1>2, <2>1 DEF Promise, Way
  <2>4. ASSUME ~Data!TwoHomes PROVE Homes'
    <3>1. /\ m_db["old"] # None /\ m_db["mixed"] = None /\ m_wal["mixed"] = None
          /\ m_db["new"] # None
      BY <2>1, <2>4 DEF Promise, Way, Homes, LegacyFiles
    <3>2. (\A q \in Proc : Moved(q))' /\ LegacyFiles'
      BY <1>2, <2>1, <2>4, <3>1 DEF Promise, Homes, LegacyFiles, Moved
    <3>3. NewFiles' /\ Kept'
      BY <1>2, <2>1, <2>2, <2>4, <3>1 DEF Promise, Homes, NewFiles, Kept
    <3> QED
      BY <3>2, <3>3 DEF Homes
  <2>5. ASSUME ~Data!TwoHomes, ~m_spoilt PROVE Straight'
    <3>1. Straight /\ Torn(m_wal)
      BY <2>1, <2>5 DEF Promise, Straight, Copied
    <3>2. \A q \in Proc : m_at'[q] \notin {"copying_wal", "open"}
      BY <1>1, <3>1 DEF Straight, Whole, Copied
    <3>3. (\A q \in Proc : Copied(q))'
      BY <1>1, <2>2, <3>1, <3>2 DEF Straight, Copied
    <3>4. Whole' /\ ~m_missed'
      BY <1>1, <1>2, <2>2, <3>1, <3>2 DEF Straight, Whole
    <3> QED
      BY <3>3, <3>4 DEF Straight
  <2> QED
    BY <1>2, <2>3, <2>4, <2>5 DEF Promise
<1> QED
  BY <1>3, <1>4, <1>5 DEF DataInv

\* Step 2 moves: nothing is left behind, as no legacy program runs.
LEMMA MovedDb ==
  ASSUME DataInv, NEW p \in Proc, m_at[p] = "move_db", Data!Moves(p, m_db, m_db', "move_wal"),
         UNCHANGED <<m_wal, m_exe, m_running, m_window, m_restarted, m_spoilt, m_missed, m_damaged, m_launches>>
  PROVE  DataInv'
<1> USE DataTypes DEF Data!Moves, Data!Wanted, Data!copied, Data!moved
<1>1. /\ m_at' \in [Proc -> Data!Doing] /\ m_at'[p] = "move_wal"
      /\ \A q \in Proc \ {p} : m_at'[q] = m_at[q]
  BY Stepped DEF Data!Doing
<1>0. /\ Data!Torn \in Data!Image /\ Data!Torn # None /\ None \in Data!Image
  BY InstallAssumption DEF Data!Image, Data!Torn
<1>2. /\ m_db' \in [Data!Dir -> Data!Image]
      /\ \/ m_db' = m_db
         \/ m_db["mixed"] # None /\ m_db' = [m_db EXCEPT !["new"] = m_db["mixed"]]
         \/ m_db["mixed"] # None /\ m_db' = [m_db EXCEPT !["new"] = Data!Torn]
         \/ /\ m_db["mixed"] # None /\ "mixed" \notin m_running
            /\ m_db' = [m_db EXCEPT !["new"] = m_db["mixed"], !["mixed"] = None]
      /\ m_faults' \in 0..MaxFaults
  BY <1>0, FaultCounts DEF Data!NoFault
<1>3. Data!TypeOK'
  BY <1>1, <1>2, DataTypesTogether
<1>4. m_running' \subseteq m_exe' /\ Lines'
  <2>1. /\ m_db'["old"] = m_db["old"] /\ m_db'["mixed"] \in {m_db["mixed"], None}
        /\ "mixed" \in m_running => m_db'["mixed"] = m_db["mixed"]
        /\ m_db["new"] # None => m_db'["new"] # None
    BY <1>0, <1>2
  <2>2. None.line = "none"
    OBVIOUS
  <2> QED
    BY <1>1, <2>1, <2>2 DEF DataInv, Lines
<1>5. ASSUME Planned' PROVE Promise'
  <2>1. /\ Planned /\ m_db' = (IF Data!Wanted(m_db, "mixed") THEN Data!moved(m_db, "mixed") ELSE m_db)
    BY <1>5, FaultCounts DEF Planned, Data!NoFault
  <2>2. /\ m_running = {} /\ m_exe = {} /\ Promise /\ Lines
        /\ m_db["old"] # None => m_db["new"] # None
    BY <2>1 DEF DataInv, Promise, Way
  <2>3. CASE Data!Wanted(m_db, "mixed")
    <3>0. m_db' = [m_db EXCEPT !["new"] = m_db["mixed"], !["mixed"] = None]
      BY <2>1, <2>2, <2>3
    <3>1. /\ m_db'["new"] = m_db["mixed"] /\ m_db'["old"] = m_db["old"] /\ m_db'["mixed"] = None
          /\ m_db["mixed"] # None /\ m_db["new"] = None /\ m_db["old"] = None /\ m_db["mixed"].line = "mixed"
      <4>1. m_db["mixed"] # None /\ m_db["new"] = None /\ m_db["old"] = None
        BY <2>2, <2>3
      <4>2. m_db["mixed"].line \in {"mixed", "none"} /\ m_db["mixed"] \in Data!Image
        BY <2>2 DEF Lines
      <4>3. m_db["mixed"].line = "mixed"
        BY <4>1, <4>2, ImageFields
      <4> QED
        BY <3>0, <4>1, <4>3
    <3>2. /\ Homes /\ m_wal["new"] = None /\ m_wal["old"] = None /\ ~m_spoilt
      BY <2>2, <3>1 DEF Promise, Homes, LegacyFiles, NewFiles
    <3>3. (\A q \in Proc : Way(q))'
      BY <1>1, <2>2, <3>1, <3>2 DEF Promise, Way
    <3>4. (\A q \in Proc : Moved(q))' /\ LegacyFiles'
      BY <1>1, <2>2, <3>1, <3>2 DEF Homes, Moved, LegacyFiles
    <3>5. NewFiles' /\ Kept'
      BY <2>2, <3>1, <3>2, NoLine DEF Homes, NewFiles, Kept
    <3>6. Straight /\ \A q \in Proc : m_at[q] \notin {"copying_db", "copying_wal", "open"}
      BY <2>2, <3>1, <3>2 DEF Lines, Promise, Way
    <3>7. (\A q \in Proc : Copied(q))'
      BY <1>1, <3>1, <3>2, <3>6 DEF Copied
    <3>8. Whole' /\ ~m_missed'
      BY <1>1, <3>1, <3>2, <3>6, NoLine DEF Straight, Whole
    <3> QED
      BY <3>3, <3>4, <3>5, <3>7, <3>8 DEF Promise, Homes, Straight
  <2>4. CASE ~Data!Wanted(m_db, "mixed")
    <3>1. m_db' = m_db
      BY <2>1, <2>4
    <3>2. (\A q \in Proc : Way(q))'
      BY <1>1, <2>2, <3>1 DEF Promise, Way
    <3>3. ASSUME ~Data!TwoHomes PROVE Homes'
      <4>1. m_db["mixed"] = None
        BY <2>2, <2>4, <3>3 DEF Promise, Homes, NewFiles
      <4> QED
        BY <1>1, <2>2, <3>1, <3>3, <4>1 DEF Promise, Homes, LegacyFiles, NewFiles, Moved, Kept
    <3>4. ~Data!TwoHomes /\ ~m_spoilt => Straight'
      BY <1>1, <2>2, <3>1 DEF Promise, Straight, Copied, Whole
    <3> QED
      BY <3>1, <3>2, <3>3, <3>4 DEF Promise
  <2> QED
    BY <2>3, <2>4
<1> QED
  BY <1>3, <1>4, <1>5 DEF DataInv

LEMMA MovedLog ==
  ASSUME DataInv, NEW p \in Proc, m_at[p] = "move_wal", Data!Moves(p, m_wal, m_wal', "ready"),
         UNCHANGED <<m_db, m_exe, m_running, m_window, m_restarted, m_spoilt, m_missed, m_damaged, m_launches>>
  PROVE  DataInv'
<1> USE DataTypes DEF Data!Moves, Data!Wanted, Data!copied, Data!moved
<1>1. /\ m_at' \in [Proc -> Data!Doing] /\ m_at'[p] = "ready"
      /\ \A q \in Proc \ {p} : m_at'[q] = m_at[q]
  BY Stepped DEF Data!Doing
<1>0. /\ Data!Torn \in Data!Image /\ None \in Data!Image
  BY InstallAssumption DEF Data!Image, Data!Torn
<1>2. /\ m_wal' \in [Data!Dir -> Data!Image]
      /\ m_wal'["old"] = m_wal["old"] /\ m_wal'["mixed"] \in {m_wal["mixed"], None}
      /\ m_faults' \in 0..MaxFaults
  BY <1>0, FaultCounts DEF Data!NoFault
<1>3. Data!TypeOK'
  BY <1>1, <1>2, DataTypesTogether
<1>4. m_running' \subseteq m_exe' /\ Lines'
  <2> HIDE DEF None
  <2>2. m_wal'["mixed"].line \in {m_wal["mixed"].line, "none"}
    BY <1>2, NoLine
  <2>3. \A d \in Data!Legacy : m_wal'[d].line \in {d, "none"}
    BY <1>2, <2>2 DEF DataInv, Lines
  <2>4. m_running' \subseteq m_exe' /\ m_db' = m_db /\ m_running' = m_running
    BY DEF DataInv
  <2>5. \A q \in Proc : m_at'[q] \in {"open", "make_db", "copying_db"} => m_at'[q] = m_at[q]
    BY <1>1
  <2> HIDE DataTypes
  <2>6. Lines
    BY DEF DataInv
  <2> QED
    BY <2>3, <2>4, <2>5, <2>6 DEF Lines
<1>5. ASSUME Planned' PROVE Promise'
  <2>1. Planned /\ m_wal' = (IF Data!Wanted(m_wal, "mixed") THEN Data!moved(m_wal, "mixed") ELSE m_wal)
    BY <1>5, FaultCounts DEF Planned, Data!NoFault
  <2>2. m_running = {} /\ m_exe = {} /\ Promise /\ Lines
    BY <2>1 DEF DataInv, Promise, Way
  <2>3. (\A q \in Proc : Way(q))'
    BY <1>1, <1>2, <2>2 DEF Promise, Way
  <2>4. ASSUME ~Data!TwoHomes, Data!Wanted(m_wal, "mixed") PROVE Homes' /\ (~m_spoilt => Straight')
    <3>1. /\ m_wal'["new"] = m_wal["mixed"] /\ m_wal'["old"] = m_wal["old"] /\ m_wal'["mixed"] = None
          /\ m_wal["mixed"] # None /\ m_wal["new"] = None /\ m_wal["mixed"].line = "mixed"
      BY <2>1, <2>2, <2>4, ImageFields DEF Lines
    <3>2. Homes /\ m_db["mixed"] = None
      BY <2>2, <2>4 DEF Promise, Homes, Moved
    <3>3. m_db["old"] = None /\ m_wal["old"] = None /\ m_db["new"] # None
      BY <3>1, <3>2 DEF Homes, LegacyFiles, NewFiles
    <3>4. m_db["new"].line = "mixed"
      BY <3>1, <3>2, <3>3, ImageFields DEF Homes, NewFiles
    <3>5. (\A q \in Proc : Moved(q))' /\ LegacyFiles'
      BY <1>1, <2>2, <3>1, <3>2, <3>3 DEF Homes, Moved, LegacyFiles
    <3>6. NewFiles' /\ Kept'
      BY <2>2, <3>1, <3>2, <3>3, <3>4 DEF Homes, NewFiles, Kept
    <3>7. ASSUME ~m_spoilt PROVE Straight'
      <4>1. Straight
        BY <2>2, <2>4, <3>7 DEF Promise
      <4>2. \A q \in Proc : m_at[q] \notin {"copying_db", "copying_wal", "open"}
        BY <2>2, <3>3, <3>4, <4>1 DEF Lines, Promise, Way, Straight, Copied
      <4>3. (\A q \in Proc : Copied(q))'
        BY <1>1, <3>1, <3>3, <4>2 DEF Copied
      <4>4. Whole' /\ ~m_missed'
        BY <1>1, <3>1, <3>4, <4>1, <4>2 DEF Straight, Whole
      <4> QED
        BY <4>3, <4>4 DEF Straight
    <3> QED
      BY <3>5, <3>6, <3>7 DEF Homes
  <2>5. ASSUME ~Data!TwoHomes, ~Data!Wanted(m_wal, "mixed") PROVE Homes' /\ (~m_spoilt => Straight')
    <3>1. m_wal' = m_wal
      BY <2>1, <2>5
    <3>2. m_wal["mixed"] = None
      BY <2>2, <2>5 DEF Promise, Homes, NewFiles
    <3>3. Homes'
      BY <1>1, <2>2, <2>5, <3>1, <3>2 DEF Promise, Homes, LegacyFiles, NewFiles, Moved, Kept
    <3>4. ~m_spoilt => Straight'
      BY <1>1, <2>2, <2>5, <3>1 DEF Promise, Straight, Copied, Whole
    <3> QED
      BY <3>3, <3>4
  <2> QED
    BY <2>3, <2>4, <2>5 DEF Promise
<1> QED
  BY <1>3, <1>4, <1>5 DEF DataInv

\* Whoever opens the database comes after all that its place was to be given.
LEMMA OpenKeeps ==
  ASSUME DataInv, NEW p \in Proc, Data!Open(p)
  PROVE  DataInv'
<1> USE DataTypes DEF Data!Open
<1>1. CASE Data!Then(p, "off") /\ UNCHANGED <<Data!files, m_missed, m_damaged>>
  <2>1. m_at' \in [Proc -> Data!Doing] /\ m_at'[p] = "off" /\ \A q \in Proc \ {p} : m_at'[q] = m_at[q]
    BY <1>1, Stepped DEF Data!Doing
  <2>2. Data!TypeOK'
    BY <1>1, <2>1, DataTypesTogether
  <2>3. m_running' \subseteq m_exe' /\ Lines'
    BY <1>1, <2>1 DEF DataInv, Lines
  <2>4. ASSUME Planned' PROVE Promise'
    <3>1. Promise
      BY <2>4 DEF Planned, DataInv
    <3>2. (\A q \in Proc : Way(q))'
      BY <1>1, <2>1, <3>1 DEF Promise, Way
    <3>3. ~Data!TwoHomes' => Homes'
      BY <1>1, <2>1, <3>1 DEF Promise, Homes, LegacyFiles, NewFiles, Moved, Kept
    <3>4. ~Data!TwoHomes' /\ ~m_spoilt' => Straight'
      BY <1>1, <2>1, <3>1 DEF Promise, Straight, Copied, Whole
    <3> QED
      BY <3>2, <3>3, <3>4 DEF Promise
  <2> QED
    BY <2>2, <2>3, <2>4 DEF DataInv
<1>2. CASE /\ Data!Then(p, "open") /\ \A q \in Proc : m_at[q] \notin Data!Copying
           /\ m_missed' = (m_missed \/ (m_db["new"].line # "new" /\ Data!Left))
           /\ m_damaged' = (m_damaged \/ Data!Alien)
           /\ m_db' = [m_db EXCEPT !["new"] = [line |-> "new", n |-> Data!Committed("new")]]
           /\ m_wal' = [m_wal EXCEPT !["new"] = [line |-> "new", n |-> Data!Committed("new")]]
  <2> DEFINE image == [line |-> "new", n |-> Data!Committed("new")]
  <2>1. m_at' \in [Proc -> Data!Doing] /\ m_at'[p] = "open" /\ \A q \in Proc \ {p} : m_at'[q] = m_at[q]
    BY <1>2, Stepped DEF Data!Doing
  <2>2. image \in Data!Image /\ image.line = "new" /\ image # None
    BY CommittedType DEF Data!Image
  <2>3. m_db' = [m_db EXCEPT !["new"] = image] /\ m_wal' = [m_wal EXCEPT !["new"] = image]
    BY <1>2
  <2> HIDE DEF image
  <2>4. /\ m_db' \in [Data!Dir -> Data!Image] /\ m_wal' \in [Data!Dir -> Data!Image]
        /\ m_db'["new"] = image /\ m_wal'["new"] = image
        /\ \A d \in Data!Legacy : m_db'[d] = m_db[d] /\ m_wal'[d] = m_wal[d]
    BY <2>2, <2>3
  <2>5. m_missed' \in BOOLEAN /\ m_damaged' \in BOOLEAN
    BY <1>2
  <2>6. Data!TypeOK'
    BY <2>1, <2>4, <2>5, DataTypesTogether
  <2>7. m_running' \subseteq m_exe' /\ Lines'
    BY <2>1, <2>2, <2>4 DEF DataInv, Lines
  <2>8. ASSUME Planned' PROVE Promise'
    <3>1. Promise /\ m_exe = {} /\ m_running = {} /\ (m_db["old"] # None => m_db["new"] # None)
      BY <2>8 DEF Planned, DataInv, Promise, Way
    <3>2. (\A q \in Proc : Way(q))'
      BY <2>1, <2>2, <2>4, <3>1 DEF Promise, Way
    <3>3. ASSUME ~Data!TwoHomes PROVE Homes'
      <4>1. Homes /\ m_db["mixed"] = None /\ m_wal["mixed"] = None
        BY <3>1, <3>3 DEF Promise, Homes, Moved
      <4>2. Data!Alien => m_wal["old"] # None
        BY <4>1 DEF Homes, NewFiles, Data!Alien
      <4>3. (\A q \in Proc : Moved(q))' /\ LegacyFiles'
        BY <2>1, <2>4, <4>1 DEF Homes, Moved, LegacyFiles
      <4>4. NewFiles'
        BY <2>2, <2>4, <3>1, <4>1 DEF Homes, NewFiles
      <4>5. Kept'
        BY <1>2, <2>2, <2>4, <4>1, <4>2 DEF Homes, Kept
      <4> QED
        BY <4>3, <4>4, <4>5 DEF Homes
    <3>4. ASSUME ~Data!TwoHomes, ~m_spoilt PROVE Straight'
      <4>1. /\ Homes /\ Straight /\ m_db["mixed"] = None /\ m_wal["mixed"] = None
            /\ ~Torn(m_db) /\ ~Torn(m_wal)
        BY <1>2, <3>1, <3>4 DEF Promise, Homes, Moved, Straight, Whole, Data!Copying
      <4>2. ASSUME m_db["new"].line # "new", m_db["old"] # None \/ m_wal["old"] # None
            PROVE  m_db["new"].line = "old" /\ ~(Data!Committed("new") < Data!Committed("old"))
        <5>1. m_db["old"] # None /\ m_db["new"] # None
          BY <3>1, <4>1, <4>2 DEF Homes, LegacyFiles
        <5>2. m_db["new"].line = "old"
          BY <4>1, <4>2, <5>1, ImageFields DEF Homes, NewFiles
        <5>3. m_db["new"] = m_db["old"] /\ m_wal["new"] = m_wal["old"]
          BY <4>1, <4>2, <5>2 DEF Straight, Whole, Copied
        <5>4. Data!Committed("new") = Data!Committed("old") /\ Data!Committed("new") \in 0..MaxCommits
          BY <5>3, CommittedType DEF Data!Committed
        <5> QED
          BY <5>2, <5>4
      <4>3. ~m_missed'
        BY <1>2, <4>1, <4>2 DEF Straight, Data!Left
      <4>4. (\A q \in Proc : Copied(q))'
        BY <1>2, <2>1, <2>2, <2>4 DEF Copied, Data!Copying
      <4>5. Whole'
        BY <1>2, <2>1, <2>2, <2>4, <4>1 DEF Straight, Whole, Data!Copying
      <4> QED
        BY <4>3, <4>4, <4>5 DEF Straight
    <3> QED
      BY <2>4, <3>2, <3>3, <3>4 DEF Promise
  <2> QED
    BY <2>6, <2>7, <2>8 DEF DataInv
<1> QED
  BY <1>1, <1>2

\* Who has it open writes its own line.
LEMMA NewWritesKeep ==
  ASSUME DataInv, NEW p \in Proc, m_at[p] = "open",
         m_db' \in [Data!Dir -> Data!Image], m_wal' \in [Data!Dir -> Data!Image],
         \A d \in Data!Legacy : m_db'[d] = m_db[d] /\ m_wal'[d] = m_wal[d],
         m_db'["new"].line = m_db["new"].line,
         \/ m_wal'["new"] = m_wal["new"] \/ m_wal'["new"].line = "new"
         \/ m_wal'["new"].line = "none" /\ Data!Opened = {p} /\ m_at'[p] = "off",
         m_at' \in [Proc -> Data!Doing], m_window' \in SUBSET Proc,
         m_at' = m_at \/ m_at' = [m_at EXCEPT ![p] = "off"],
         UNCHANGED <<m_exe, m_running, m_restarted, m_spoilt, m_missed, m_damaged, m_faults, m_launches>>
  PROVE  DataInv'
<1> USE DataTypes
<1>1. Data!TypeOK'
  BY DataTypesTogether
<1>2. m_db["new"] # None /\ m_db'["new"] # None
  BY ImageFields DEF DataInv, Lines
<1>3. \A q \in Proc : m_at'[q] \in {m_at[q], "off"}
  OBVIOUS
<1>4. m_running' \subseteq m_exe' /\ Lines'
  BY <1>2, <1>3 DEF DataInv, Lines
<1>5. ASSUME Planned' PROVE Promise'
  <2>1. Promise /\ m_exe = {}
    BY <1>5 DEF Planned, DataInv, Promise, Way
  <2>2. (\A q \in Proc : Way(q))'
    BY <1>2, <1>3, <2>1 DEF Promise, Way
  <2>3. ASSUME ~Data!TwoHomes PROVE Homes'
    <3>1. Homes /\ m_db["mixed"] = None /\ m_wal["mixed"] = None
      BY <2>1, <2>3 DEF Promise, Homes, Moved
    <3>2. (\A q \in Proc : Moved(q))' /\ LegacyFiles'
      BY <3>1 DEF Homes, Moved, LegacyFiles
    <3>3. NewFiles' /\ Kept'
      BY <1>2, <2>1, <3>1, ImageFields DEF Homes, NewFiles, Kept
    <3> QED
      BY <3>2, <3>3 DEF Homes
  <2>4. ASSUME ~Data!TwoHomes, ~m_spoilt PROVE Straight'
    <3>1. Straight /\ m_db["new"].line = "new" /\ m_wal["new"].line = "new"
      BY <2>1, <2>4 DEF Promise, Straight, Copied
    <3>2. /\ \A q \in Proc : m_at[q] \notin {"copying_db", "copying_wal"}
          /\ \A q \in Proc : m_at'[q] = "open" => m_wal'["new"].line = "new"
      BY <1>3, <3>1 DEF Straight, Copied, Data!Opened
    <3>3. m_wal'["new"].line \in {"new", "none"}
      BY <3>1
    <3>4. (\A q \in Proc : Copied(q))'
      BY <1>3, <3>1, <3>2 DEF Copied
    <3>5. Whole' /\ ~m_missed'
      BY <1>3, <3>1, <3>2, <3>3 DEF Straight, Whole
    <3> QED
      BY <3>4, <3>5 DEF Straight
  <2> QED
    BY <2>2, <2>3, <2>4 DEF Promise
<1> QED
  BY <1>1, <1>4, <1>5 DEF DataInv

LEMMA NewCommitsKeeps ==
  ASSUME DataInv, NEW p \in Proc, Data!NewCommits(p)
  PROVE  DataInv'
<1> USE DEF Data!NewCommits
<1>1. /\ m_wal' \in [Data!Dir -> Data!Image] /\ m_wal'["new"].line = "new"
      /\ \A e \in Data!Dir \ {"new"} : m_wal'[e] = m_wal[e]
  BY CommitKeepsLine
<1> QED
  BY <1>1, DataTypes, NewWritesKeep

LEMMA NewCheckpointsKeeps ==
  ASSUME DataInv, NEW p \in Proc, Data!NewCheckpoints(p)
  PROVE  DataInv'
<1> USE DEF Data!NewCheckpoints
<1>1. m_db["new"] # None
  BY DEF DataInv, Lines
<1>2. /\ m_db' \in [Data!Dir -> Data!Image] /\ m_db'["new"].line = m_db["new"].line
      /\ \A e \in Data!Dir \ {"new"} : m_db'[e] = m_db[e]
  BY <1>1, CheckpointKeepsLine
<1> QED
  BY <1>2, DataTypes, NewWritesKeep

LEMMA CloseWindowKeeps ==
  ASSUME DataInv, NEW p \in Proc, Data!CloseWindow(p)
  PROVE  DataInv'
<1> USE DEF Data!CloseWindow
<1>1. m_at' \in [Proc -> Data!Doing] /\ m_at' = [m_at EXCEPT ![p] = "off"] /\ m_window' \in SUBSET Proc
  BY DataTypes DEF Data!Then, Data!Doing
<1>2. CASE Data!Opened = {p}
  <2>1. m_db["new"] # None
    BY DEF DataInv, Lines
  <2>2. /\ m_db' \in [Data!Dir -> Data!Image] /\ m_db'["new"].line = m_db["new"].line
        /\ \A e \in Data!Dir \ {"new"} : m_db'[e] = m_db[e]
    BY <1>2, <2>1, CheckpointKeepsLine DEF Data!CloseLast
  <2>3. m_wal' = [m_wal EXCEPT !["new"] = None]
    BY <1>2 DEF Data!CloseLast
  <2> HIDE DEF None
  <2>4. None \in Data!Image
    BY DEF Data!Image, None
  <2>5. /\ m_wal' \in [Data!Dir -> Data!Image] /\ m_wal'["new"].line = "none"
        /\ \A e \in Data!Dir \ {"new"} : m_wal'[e] = m_wal[e]
    BY <2>3, <2>4, NoLine, DataTypes
  <2> QED
    BY <1>1, <1>2, <2>2, <2>5, DataTypes, NewWritesKeep
<1>3. CASE Data!Opened # {p}
  BY <1>1, <1>3, DataTypes, NewWritesKeep
<1> QED
  BY <1>2, <1>3

LEMMA DataUnchanged == DataInv /\ UNCHANGED dataVars => DataInv'
<1> SUFFICES ASSUME DataInv, UNCHANGED dataVars PROVE DataInv'
  OBVIOUS
<1> USE DEF dataVars
<1>1. Data!TypeOK'
  BY DataTypes, DataTypesTogether
<1>2. m_running' \subseteq m_exe' /\ Lines'
  BY DEF DataInv, Lines
<1>3. ASSUME Planned' PROVE Promise'
  <2>1. Promise
    BY <1>3 DEF Planned, DataInv
  <2> QED
    BY <2>1 DEF Promise, Way, Homes, LegacyFiles, NewFiles, Moved, Kept, Straight, Copied, Whole
<1> QED
  BY <1>1, <1>2, <1>3 DEF DataInv

\* Every step of the sum keeps the invariant.
LEMMA DataStep == DataInv /\ [AllNext]_allVars => DataInv'
<1> SUFFICES ASSUME DataInv, [AllNext]_allVars PROVE DataInv'
  OBVIOUS
<1>1. ASSUME NEW d \in Data!Legacy,
             \/ Data!LegacyStarts(d) \/ Data!LegacyCommits(d)
             \/ Data!LegacyCheckpoints(d) \/ Data!LegacyQuits(d)
      PROVE  DataInv'
  BY <1>1, LegacyStartsKeeps, LegacyCommitsKeeps, LegacyCheckpointsKeeps, LegacyQuitsKeeps
<1>2. ASSUME NEW p \in Proc,
             \/ Data!Launch(p) \/ Data!Kill(p) \/ Data!Remove(p) \/ Data!Open(p)
             \/ Data!NewCommits(p) \/ Data!NewCheckpoints(p)
             \/ Data!CloseWindow(p) \/ Data!ExitAtOnce(p)
      PROVE  DataInv'
  BY <1>2, LaunchKeeps, KillKeeps, RemoveKeeps, OpenKeeps, NewCommitsKeeps,
     NewCheckpointsKeeps, CloseWindowKeeps, ExitAtOnceKeeps
<1>3. ASSUME NEW p \in Proc, Data!migrate_pre_namespace_layout(p) PROVE DataInv'
  BY <1>3, CheckedDb, MadeDb, CompletedDb, CheckedLog, MadeLog, CompletedLog
  DEF Data!migrate_pre_namespace_layout
<1>4. ASSUME NEW p \in Proc, Data!migrate_mixed_roaming_layout(p) PROVE DataInv'
  BY <1>4, MovedDb, MovedLog DEF Data!migrate_mixed_roaming_layout
<1>5. DataNext => DataInv'
  BY <1>1, <1>2, <1>3, <1>4 DEF DataNext
<1>6. ProgramNext \/ StepsNext \/ UNCHANGED allVars => UNCHANGED dataVars
  BY DEF ProgramNext, StepsNext, InProgram, InSteps, allVars
<1> QED
  BY <1>5, <1>6, DataUnchanged DEF AllNext

LEMMA DataInvariant == AllSpec => []DataInv
<1>1. AllInit => DataInv
  BY InitData DEF AllInit
<1> QED
  BY <1>1, DataStep, PTL DEF AllSpec

\* The history of a legacy install arrives whole, of either layout, for any
\* number of processes that start, end and copy beside one another, and any
\* commits in the log: the kill waits until nothing writes at the old place, and
\* a database is opened when each file is complete (install.rs:633-675,
\* main.rs:57-92).  Not where something failed, a copy was cut short or repeated,
\* or both layouts have left data.
THEOREM TheHistoryArrives == AllSpec => []HistoryArrives
<1>1. DataInv => HistoryArrives
  BY DataTypes, InstallAssumption
  DEF DataInv, Planned, Promise, Straight, HistoryArrives, Data!HistoryArrives
<1> QED
  BY <1>1, DataInvariant, PTL

\* No database is opened with the log of another one beside it unless step 1
\* copied, both layouts have left data, or something failed
\* (install.rs:164-165).
THEOREM TheNewDataIsKept == AllSpec => []NewDataIsKept
<1>1. DataInv => NewDataIsKept
  BY DataTypes, InstallAssumption
  DEF DataInv, Planned, Promise, Homes, Kept, NewDataIsKept, Data!NewDataIsKept
<1> QED
  BY <1>1, DataInvariant, PTL

----------------------------------------------------------------------------
(* Installer.  Three arguments over one picture of the processes: who      *)
(* waits for whom (Orderly); that somebody is on the way to a tray (Hopes);*)
(* that entries lose their program between two renames only (Entries); and *)
(* that a dialog's version is not behind the installed one (Versions).     *)

HIDE DEF Data!files, Data!ghosts, Data!counts, Data!Legacy, Data!Dir, None, Data!None,
         DbCopied, LogCopied, DbMoved, LogMoved, Torn, Data!TwoHomes

Dialogs == {"install", "update"}

\* A process at its place: what it was started for, and from where.
Fits(r) ==
  /\ r.at = "off" => r = Program!Off
  /\ r.at # "off" => r.ver > 0
  /\ r.at \in {"waiting", "relaying", "instance", "tray", "closing"} => r.mode = "tray"
  /\ r.at \in {"waiting", "relaying"} => r.place \notin {"installed", "parked"}
  /\ r.at \in {"dialog"} \cup Program!Installing => r.mode \in Dialogs
  /\ r.at = "window" => r.mode = "window"
  /\ r.at \in {"stopping", "unregistering", "unregistered"} => r.mode = "uninstall"

\* A process that waits for another: for a dialog, or for the installed copy.
\* So no chain of them is longer than two.
WaitsIn(f, q) ==
  f[q].child # NoProc =>
    /\ f[q].at \in {"waiting", "relaying"}
    /\ f[f[q].child].at # "off"
    /\ f[q].at = "waiting" => f[f[q].child].mode \in Dialogs
    /\ f[q].at = "relaying" => f[f[q].child].place \in {"installed", "parked"}

Orderly(f) ==
  /\ f \in [Programs -> Program!Process]
  /\ \A q \in Programs : Fits(f[q]) /\ WaitsIn(f, q)

\* A tray, what will be one, what will start one, or an uninstaller that has
\* yet to say that no tray is wanted.
Hopes(r) ==
  \/ r.at \in {"tray", "old"}
  \/ r.mode = "tray" /\ r.at \in {"started", "killed", "dispatch", "instance", "waiting"}
  \/ r.at \in Program!Installing
  \/ r.mode = "uninstall" /\ r.at \in {"started", "killed", "dispatch", "stopping"}

SomeHope ==
  wanted /\ Program!Spared({"orphan", "failed", "late"}) => \E q \in Programs : Hopes(proc[q])

Entries ==
  /\ Program!Spared({"failed", "raced", "portable"}) /\ Program!Points =>
       installed > 0 \/ \E q \in Programs : proc[q].at = "renamed"
  /\ "legacy" \in {run_key, uninstall_key} => legacy > 0 \/ "stale" \in mishaps

IsDialog(r) == r.mode \in Dialogs

Versions ==
  Program!Spared({"failed", "raced", "unstamped"}) =>
    /\ \A p, q \in Programs : IsDialog(proc[p]) /\ IsDialog(proc[q]) => p = q
    /\ installed = last \/ (installed = 0 /\ \E q \in Programs : proc[q].at = "renamed")
    /\ stamp = last \/ \E q \in Programs : proc[q].at \in {"dance", "renamed"}
    /\ \A q \in Programs : IsDialog(proc[q]) => proc[q].ver >= last

ProgramInv ==
  /\ Program!TypeOK
  /\ Orderly(proc)
  /\ SomeHope
  /\ Entries
  /\ Versions

USE DEF Program!files, Program!keys, Program!counts, Program!Is, Program!Go,
        Program!Version, Program!Installing, Dialogs

Mishap == {"orphan", "failed", "raced", "unstamped", "late", "portable", "stale"}
Pointed == {"none", "legacy", "installed"}

LEMMA ProgramTypes ==
  ASSUME ProgramInv
  PROVE  /\ installed \in 0..Newest /\ parked \in 0..Newest
         /\ stamp \in 0..Newest /\ legacy \in 0..Newest /\ last \in 0..Newest
         /\ run_key \in Pointed /\ uninstall_key \in Pointed
         /\ shortcut \in BOOLEAN /\ portable \in BOOLEAN /\ doomed \in BOOLEAN /\ wanted \in BOOLEAN
         /\ proc \in [Programs -> Program!Process]
         /\ mishaps \in SUBSET Mishap
         /\ p_faults \in 0..MaxFaults /\ launches \in 0..MaxLaunches
         /\ Orderly(proc)
  BY DEF ProgramInv, Program!TypeOK, Pointed, Mishap

LEMMA ProgramTypesTogether ==
  ASSUME installed' \in 0..Newest, parked' \in 0..Newest,
         stamp' \in 0..Newest, legacy' \in 0..Newest, last' \in 0..Newest,
         run_key' \in Pointed, uninstall_key' \in Pointed,
         shortcut' \in BOOLEAN, portable' \in BOOLEAN, doomed' \in BOOLEAN, wanted' \in BOOLEAN,
         Orderly(proc'), mishaps' \in SUBSET Mishap,
         p_faults' \in 0..MaxFaults, launches' \in 0..MaxLaunches
  PROVE  Program!TypeOK'
  BY DEF Program!TypeOK, Pointed, Mishap, Orderly

LEMMA ProcessFields ==
  ASSUME NEW r \in Program!Process
  PROVE  /\ r.place \in {"installed", "parked", "legacy", "download"} /\ r.ver \in 0..Newest
         /\ r.mode \in {"tray", "install", "update", "window", "uninstall"}
         /\ r.child \in Programs \cup {NoProc} /\ r.parent \in Programs \cup {NoProc}
         /\ r.at \in Program!At
  BY DEF Program!Process, Program!Place, Program!Mode

LEMMA OffFits ==
  /\ Program!Off \in Program!Process /\ Fits(Program!Off)
  /\ Program!Off.at = "off" /\ Program!Off.child = NoProc /\ Program!Off.mode = "tray"
<1>1. Program!Off \in Program!Process
  BY InstallAssumption DEF Program!Off, Program!Process, Program!Place, Program!Mode, Program!At
<1>2. /\ Program!Off.at = "off" /\ Program!Off.child = NoProc /\ Program!Off.mode = "tray"
  BY DEF Program!Off
<1> QED
  BY <1>1, <1>2 DEF Fits

\* A process that goes to its next step.
LEMMA GoneTo ==
  ASSUME NEW f, Orderly(f), NEW p \in Programs, NEW x \in Program!At \ {"off"},
         f[p].at \notin {"off", "waiting", "relaying"},
         Fits([f[p] EXCEPT !.at = x])
  PROVE  Orderly([f EXCEPT ![p] = [f[p] EXCEPT !.at = x]])
<1> DEFINE r == [f[p] EXCEPT !.at = x]
           g == [f EXCEPT ![p] = r]
<1>1. f[p] \in Program!Process /\ f \in [Programs -> Program!Process]
  BY DEF Orderly
<1>2. /\ r \in Program!Process /\ r.at = x /\ r.mode = f[p].mode /\ r.place = f[p].place
      /\ r.child = f[p].child
  BY <1>1 DEF Program!Process
<1>3. r.child = NoProc
  BY <1>2 DEF Orderly, WaitsIn
<1>4. Fits(r)
  OBVIOUS
<1> HIDE DEF r
<1>5. g \in [Programs -> Program!Process] /\ g[p] = r /\ \A q \in Programs \ {p} : g[q] = f[q]
  BY <1>1, <1>2
<1> HIDE DEF g
<1>6. ASSUME NEW q \in Programs PROVE Fits(g[q]) /\ WaitsIn(g, q)
  <2>1. Fits(g[q])
    BY <1>4, <1>5 DEF Orderly
  <2>2. CASE q = p
    BY <1>3, <1>5, <2>1, <2>2 DEF WaitsIn
  <2>3. CASE q # p
    <3>1. f[q].child \in Programs \cup {NoProc} /\ WaitsIn(f, q)
      BY <1>1, ProcessFields DEF Orderly
    <3> QED
      BY <1>2, <1>5, <2>1, <2>3, <3>1 DEF WaitsIn
  <2> QED
    BY <2>2, <2>3
<1>7. Orderly(g)
  BY <1>5, <1>6 DEF Orderly
<1> QED
  BY <1>7 DEF g, r

\* A process that is started in a free slot.
LEMMA SpawnedIn ==
  ASSUME NEW f, Orderly(f), NEW p \in Programs, f[p].at = "off",
         NEW r \in Program!Process, Fits(r), r.child = NoProc
  PROVE  Orderly([f EXCEPT ![p] = r])
<1> DEFINE g == [f EXCEPT ![p] = r]
<1>1. g \in [Programs -> Program!Process] /\ g[p] = r /\ \A q \in Programs \ {p} : g[q] = f[q]
  BY DEF Orderly
<1> HIDE DEF g
<1>2. ASSUME NEW q \in Programs PROVE Fits(g[q]) /\ WaitsIn(g, q)
  <2>1. CASE q = p
    BY <1>1, <2>1 DEF WaitsIn
  <2>2. CASE q # p
    <3>1. f[q].child \in Programs \cup {NoProc} /\ WaitsIn(f, q) /\ Fits(f[q]) /\ f[q].child # p
      BY ProcessFields, InstallAssumption DEF Orderly, WaitsIn
    <3> QED
      BY <1>1, <2>2, <3>1 DEF WaitsIn
  <2> QED
    BY <2>1, <2>2
<1>3. Orderly(g)
  BY <1>1, <1>2 DEF Orderly
<1> QED
  BY <1>3 DEF g

\* What becomes of each process when those of S end: they are off, as are the
\* relayers and, if the dialog has installed, the waiter; another waiter goes on.
LEMMA WithoutEach ==
  ASSUME ProgramInv, NEW S \in SUBSET Programs, NEW code, NEW q \in Programs
  PROVE  /\ Program!Without(S, code)[q] \in Program!Process
         /\ q \in S \/ proc[q].at = "off" => Program!Without(S, code)[q] = Program!Off
         /\ q \notin S /\ proc[q].child \notin S =>
              /\ Program!Without(S, code)[q].at = proc[q].at
              /\ Program!Without(S, code)[q].mode = proc[q].mode
              /\ Program!Without(S, code)[q].ver = proc[q].ver
              /\ Program!Without(S, code)[q].place = proc[q].place
              /\ Program!Without(S, code)[q].child = proc[q].child
         /\ q \notin S /\ proc[q].child \in S =>
              \/ /\ proc[q].at = "relaying" \/ code = 0
                 /\ Program!Without(S, code)[q] = Program!Off
              \/ /\ proc[q].at = "waiting" /\ code # 0
                 /\ Program!Without(S, code)[q].at = "instance"
                 /\ Program!Without(S, code)[q].mode = "tray"
                 /\ Program!Without(S, code)[q].ver = proc[q].ver
                 /\ Program!Without(S, code)[q].place = proc[q].place
                 /\ Program!Without(S, code)[q].child = NoProc
<1> DEFINE r == proc[q]
           up == IF r.parent \in S THEN NoProc ELSE r.parent
           same == [r EXCEPT !.parent = up]
           freed == [r EXCEPT !.at = "instance", !.child = NoProc, !.parent = up]
<1>1. r \in Program!Process /\ up \in Programs \cup {NoProc} /\ Fits(r) /\ WaitsIn(proc, q)
  BY ProgramTypes, ProcessFields DEF Orderly
<1>2. /\ same \in Program!Process /\ same.at = r.at /\ same.mode = r.mode /\ same.ver = r.ver
      /\ same.place = r.place /\ same.child = r.child
  <2> HIDE DEF r, up
  <2> QED
    BY <1>1 DEF Program!Process
<1>3. "instance" \in Program!At
  BY DEF Program!At
<1>4. /\ freed \in Program!Process /\ freed.at = "instance" /\ freed.mode = r.mode
      /\ freed.ver = r.ver /\ freed.place = r.place /\ freed.child = NoProc
  <2> HIDE DEF r, up
  <2> QED
    BY <1>1, <1>3 DEF Program!Process
<1>5. Program!Without(S, code)[q] =
        IF q \in S THEN Program!Off
        ELSE IF r.child \notin S THEN same
        ELSE IF r.at = "relaying" \/ code = 0 THEN Program!Off ELSE freed
  BY DEF Program!Without
<1>6. r.child \in S => r.at \in {"waiting", "relaying"} /\ r.mode = "tray"
  BY <1>1, InstallAssumption DEF WaitsIn, Fits
<1>7. r.at = "off" => r.child \notin S /\ same = Program!Off
  <2> SUFFICES ASSUME r = Program!Off PROVE r.child \notin S /\ same = Program!Off
    BY <1>1 DEF Fits
  <2> QED
    BY InstallAssumption DEF Program!Off
<1> HIDE DEF same, freed
<1> QED
  BY <1>1, <1>2, <1>4, <1>5, <1>6, <1>7, OffFits

LEMMA WithoutOrderly ==
  ASSUME ProgramInv, NEW S \in SUBSET Programs, NEW code
  PROVE  Orderly(Program!Without(S, code))
<1> DEFINE f == Program!Without(S, code)
<1>1. f \in [Programs -> Program!Process]
  <2>1. f = [q \in Programs |-> f[q]]
    BY DEF Program!Without
  <2>2. \A q \in Programs : f[q] \in Program!Process
    BY WithoutEach
  <2> HIDE DEF f
  <2> QED
    BY <2>1, <2>2
<1>2. ASSUME NEW q \in Programs PROVE Fits(f[q])
  <2>1. Fits(proc[q])
    BY ProgramTypes DEF Orderly
  <2>2. CASE f[q] = Program!Off
    BY <2>2, OffFits
  <2>3. CASE f[q] # Program!Off /\ proc[q].child \notin S
    BY <2>1, <2>3, WithoutEach, OffFits DEF Fits
  <2>4. CASE f[q] # Program!Off /\ proc[q].child \in S
    BY <2>1, <2>4, WithoutEach, OffFits DEF Fits
  <2> QED
    BY <2>2, <2>3, <2>4
<1>3. ASSUME NEW q \in Programs PROVE WaitsIn(f, q)
  <2> SUFFICES ASSUME f[q].child # NoProc PROVE WaitsIn(f, q)
    BY DEF WaitsIn
  <2>1. q \notin S /\ proc[q].child \notin S /\ f[q].child = proc[q].child /\ f[q].at = proc[q].at
    BY WithoutEach, OffFits
  <2> DEFINE c == proc[q].child
  <2>2. /\ c \in Programs /\ WaitsIn(proc, q) /\ Fits(proc[c]) /\ WaitsIn(proc, c)
    BY <2>1, ProgramTypes, ProcessFields DEF Orderly
  <2>3. proc[c].child = NoProc
    BY <2>1, <2>2 DEF WaitsIn, Fits
  <2>4. f[c].at = proc[c].at /\ f[c].mode = proc[c].mode /\ f[c].place = proc[c].place
    BY <2>1, <2>2, <2>3, WithoutEach, InstallAssumption
  <2> QED
    BY <2>1, <2>2, <2>4 DEF WaitsIn
<1> QED
  BY <1>1, <1>2, <1>3 DEF Orderly

LEMMA InitProgram == Program!Init => ProgramInv
<1> SUFFICES ASSUME Program!Init PROVE ProgramInv
  OBVIOUS
<1> USE DEF Program!Init
<1>1. proc = [q \in Programs |-> Program!Off]
  OBVIOUS
<1>2. Orderly(proc)
  BY <1>1, OffFits DEF Orderly, WaitsIn
<1>3. installed \in 0..Newest /\ stamp \in 0..Newest /\ legacy \in 0..Newest /\ last \in 0..Newest
  BY InstallAssumption
<1>4. parked \in 0..Newest /\ p_faults \in 0..MaxFaults /\ launches \in 0..MaxLaunches
  BY InstallAssumption
<1>5. run_key \in Pointed /\ uninstall_key \in Pointed
  BY DEF Pointed
<1>6. portable \in BOOLEAN /\ doomed \in BOOLEAN /\ wanted \in BOOLEAN /\ mishaps \in SUBSET Mishap
  OBVIOUS
<1>7. shortcut \in BOOLEAN
  <2>1. (installed > 0) \in BOOLEAN
    BY <1>3
  <2>2. shortcut = FALSE \/ shortcut = (installed > 0)
    OBVIOUS
  <2> QED
    BY <2>1, <2>2, Zenon
<1>8. Program!TypeOK
  BY <1>1, <1>2, <1>3, <1>4, <1>5, <1>6, <1>7 DEF Program!TypeOK, Orderly, Pointed, Mishap
<1>9. SomeHope
  BY DEF SomeHope
<1>10. Entries
  BY DEF Entries, Program!Points
<1>11. Versions
  BY <1>1, OffFits DEF Versions, IsDialog
<1> QED
  BY <1>2, <1>8, <1>9, <1>10, <1>11 DEF ProgramInv

\* A process at work goes on, and hopes on.
LEMMA HopeGoes ==
  ASSUME ProgramInv, NEW p \in Programs, NEW x, proc' = [proc EXCEPT ![p].at = x],
         Hopes(proc[p]) => Hopes([proc[p] EXCEPT !.at = x]),
         wanted' => wanted, mishaps \subseteq mishaps'
  PROVE  SomeHope'
<1> SUFFICES ASSUME wanted, Program!Spared({"orphan", "failed", "late"})
             PROVE  \E q \in Programs : Hopes(proc'[q])
  BY DEF SomeHope, Program!Spared
<1>1. PICK q \in Programs : Hopes(proc[q])
  BY DEF ProgramInv, SomeHope
<1>2. Hopes(proc'[q])
  BY <1>1, ProgramTypes
<1> QED
  BY <1>2

LEMMA HopeSpawned ==
  ASSUME ProgramInv, NEW p \in Programs, NEW r, proc[p].at = "off",
         proc' = [proc EXCEPT ![p] = r],
         wanted' => wanted \/ Hopes(r), mishaps \subseteq mishaps'
  PROVE  SomeHope'
<1> SUFFICES ASSUME wanted', Program!Spared({"orphan", "failed", "late"})
             PROVE  \E q \in Programs : Hopes(proc'[q])
  BY DEF SomeHope, Program!Spared
<1>1. CASE Hopes(r)
  BY <1>1, ProgramTypes
<1>2. CASE wanted
  <2>1. PICK q \in Programs : Hopes(proc[q])
    BY <1>2 DEF ProgramInv, SomeHope
  <2>2. ~Hopes(proc[p])
    BY OffFits, ProgramTypes DEF Hopes, Orderly, Fits
  <2>3. Hopes(proc'[q])
    BY <2>1, <2>2, ProgramTypes
  <2> QED
    BY <2>3
<1> QED
  BY <1>1, <1>2

\* The entries, and what is installed, do not change.
LEMMA EntriesKeep ==
  ASSUME ProgramInv, UNCHANGED <<installed, legacy, run_key, uninstall_key, shortcut>>,
         mishaps \subseteq mishaps',
         \A q \in Programs : proc[q].at = "renamed" => proc'[q].at = "renamed" \/ "raced" \in mishaps'
  PROVE  Entries'
  BY DEF ProgramInv, Entries, Program!Spared, Program!Points

\* No dialog is opened, and none in the midst of an install is lost unnoticed.
LEMMA VersionsKeep ==
  ASSUME ProgramInv, UNCHANGED <<installed, stamp, last>>, mishaps \subseteq mishaps',
         \A q \in Programs : IsDialog(proc'[q]) => IsDialog(proc[q]) /\ proc'[q].ver = proc[q].ver,
         \A q \in Programs : proc[q].at \in {"dance", "renamed"} =>
           proc'[q].at = proc[q].at \/ "raced" \in mishaps' \/ "failed" \in mishaps'
  PROVE  Versions'
<1> SUFFICES ASSUME Program!Spared({"failed", "raced", "unstamped"})'
             PROVE  /\ \A p, q \in Programs : IsDialog(proc'[p]) /\ IsDialog(proc'[q]) => p = q
                    /\ installed = last \/ (installed = 0 /\ \E q \in Programs : proc'[q].at = "renamed")
                    /\ stamp = last \/ \E q \in Programs : proc'[q].at \in {"dance", "renamed"}
                    /\ \A q \in Programs : IsDialog(proc'[q]) => proc'[q].ver >= last
  BY DEF Versions
<1>1. /\ \A p, q \in Programs : IsDialog(proc[p]) /\ IsDialog(proc[q]) => p = q
      /\ installed = last \/ (installed = 0 /\ \E q \in Programs : proc[q].at = "renamed")
      /\ stamp = last \/ \E q \in Programs : proc[q].at \in {"dance", "renamed"}
      /\ \A q \in Programs : IsDialog(proc[q]) => proc[q].ver >= last
  BY DEF ProgramInv, Versions, Program!Spared
<1>2. "raced" \notin mishaps' /\ "failed" \notin mishaps'
  BY DEF Program!Spared
<1> QED
  BY <1>1, <1>2

\* What Start and the others put in a free slot.
LEMMA SpawnedFits ==
  ASSUME NEW place \in {"installed", "parked", "legacy", "download"}, NEW ver \in 1..Newest,
         NEW mode \in {"tray", "install", "update", "window", "uninstall"},
         NEW parent \in Programs \cup {NoProc}
  PROVE  LET r == Program!Spawned(place, ver, mode, parent)
         IN  /\ r \in Program!Process /\ Fits(r) /\ r.child = NoProc
             /\ r.mode = mode /\ r.ver = ver /\ r.place = place
             /\ r.at \in {"started", "old"} /\ (mode \in {"tray", "uninstall"} => Hopes(r))
<1> DEFINE r == Program!Spawned(place, ver, mode, parent)
<1>1. r \in Program!Process
  BY InstallAssumption
  DEF Program!Spawned, Program!Process, Program!Place, Program!Mode, Program!At
<1>2. /\ r.child = NoProc /\ r.mode = mode /\ r.ver = ver /\ r.place = place
      /\ r.at \in {"started", "old"}
  BY DEF Program!Spawned
<1> HIDE DEF r
<1>3. Fits(r)
  BY <1>2 DEF Fits
<1>4. mode \in {"tray", "uninstall"} => Hopes(r)
  BY <1>2 DEF Hopes
<1> QED
  BY <1>1, <1>2, <1>3, <1>4 DEF r

----------------------------------------------------------------------------
(* Installer, action by action.                                            *)

LEMMA ProgramStarted ==
  ASSUME ProgramInv, NEW p \in Programs, proc[p].at = "off",
         NEW place \in {"installed", "legacy", "download"}, NEW ver \in 1..Newest,
         NEW mode \in {"tray", "uninstall"},
         proc' = [proc EXCEPT ![p] = Program!Spawned(place, ver, mode, NoProc)],
         launches < MaxLaunches, launches' = launches + 1, wanted' \in BOOLEAN,
         UNCHANGED <<installed, parked, stamp, legacy, run_key, uninstall_key, shortcut,
                     portable, doomed, last, mishaps, p_faults>>
  PROVE  ProgramInv'
<1> USE ProgramTypes
<1> DEFINE r == Program!Spawned(place, ver, mode, NoProc)
<1>1. r \in Program!Process /\ Fits(r) /\ r.child = NoProc /\ r.mode = mode /\ Hopes(r)
  BY SpawnedFits
<1> HIDE DEF r
<1>2. proc' = [proc EXCEPT ![p] = r]
  BY DEF r
<1>3. Orderly(proc')
  <2>1. Orderly([proc EXCEPT ![p] = r])
    <3> HIDE ProgramTypes
    <3>1. Orderly(proc)
      BY ProgramTypes
    <3> QED
      BY <1>1, <3>1, SpawnedIn
  <2> QED
    BY <1>2, <2>1
<1>4. launches' \in 0..MaxLaunches
  BY InstallAssumption
<1>5. Program!TypeOK'
  BY <1>3, <1>4, ProgramTypesTogether
<1>6. SomeHope'
  BY <1>1, <1>2, HopeSpawned
<1>7. \A q \in Programs \ {p} : proc'[q] = proc[q]
  BY <1>2
<1>8. proc'[p] = r
  BY <1>2
<1>9. Entries'
  BY <1>7, EntriesKeep
<1>10. Versions'
  BY <1>1, <1>7, <1>8, VersionsKeep DEF IsDialog
<1> QED
  BY <1>3, <1>5, <1>6, <1>9, <1>10 DEF ProgramInv

LEMMA StartKeeps ==
  ASSUME ProgramInv, NEW p \in Programs, Program!Start(p)
  PROVE  ProgramInv'
<1> USE DEF Program!Start
<1>1. ASSUME NEW v \in 2..Newest,
             proc' = [proc EXCEPT ![p] = Program!Spawned("download", v, "tray", NoProc)]
      PROVE  ProgramInv'
  <2>1. v \in 1..Newest
    BY InstallAssumption
  <2> QED
    BY <1>1, <2>1, ProgramStarted
<1>2. ASSUME NEW place \in {"installed", "legacy"}, Program!Image(place) > 0,
             proc' = [proc EXCEPT ![p] = Program!Spawned(place, Program!Image(place), "tray", NoProc)]
      PROVE  ProgramInv'
  <2>1. Program!Image(place) \in 1..Newest
    BY <1>2, ProgramTypes DEF Program!Image
  <2> QED
    BY <1>2, <2>1, ProgramStarted
<1> QED
  BY <1>1, <1>2

LEMMA StartUninstallKeeps ==
  ASSUME ProgramInv, NEW p \in Programs, Program!StartUninstall(p)
  PROVE  ProgramInv'
<1>1. installed \in 1..Newest
  BY ProgramTypes DEF Program!StartUninstall
<1> QED
  BY <1>1, ProgramStarted DEF Program!StartUninstall

\* What Go needs and gives, when nothing else happens to the processes.
LEMMA GoKeeps ==
  ASSUME ProgramInv, NEW p \in Programs, NEW x \in Program!At \ {"off"}, Program!Go(p, x),
         proc[p].at \notin {"off", "waiting", "relaying"},
         Fits([proc[p] EXCEPT !.at = x])
  PROVE  /\ Orderly(proc')
         /\ proc'[p] = [proc[p] EXCEPT !.at = x]
         /\ proc'[p].at = x /\ proc'[p].mode = proc[p].mode /\ proc'[p].ver = proc[p].ver
         /\ \A q \in Programs \ {p} : proc'[q] = proc[q]
         /\ \A q \in Programs : IsDialog(proc'[q]) => IsDialog(proc[q]) /\ proc'[q].ver = proc[q].ver
<1>0. proc' = [proc EXCEPT ![p] = [proc[p] EXCEPT !.at = x]]
  OBVIOUS
<1>1. Orderly(proc')
  <2>1. Orderly([proc EXCEPT ![p] = [proc[p] EXCEPT !.at = x]])
    <3>1. Orderly(proc)
      BY ProgramTypes
    <3> QED
      BY <3>1, GoneTo
  <2> QED
    BY <1>0, <2>1
<1>2. proc[p] \in Program!Process /\ proc \in [Programs -> Program!Process]
  BY ProgramTypes
<1>3. proc'[p] = [proc[p] EXCEPT !.at = x] /\ \A q \in Programs \ {p} : proc'[q] = proc[q]
  BY <1>2
<1>4. proc'[p].at = x /\ proc'[p].mode = proc[p].mode /\ proc'[p].ver = proc[p].ver
  BY <1>2, <1>3 DEF Program!Process
<1> QED
  BY <1>1, <1>3, <1>4 DEF IsDialog

LEMMA ProgramFaults ==
  ASSUME ProgramInv, Program!Fails \/ Program!NoFault
  PROVE  p_faults' \in 0..MaxFaults
  BY ProgramTypes, InstallAssumption DEF Program!Fails, Program!NoFault

\* A step that is only that.
LEMMA GoesQuietly ==
  ASSUME ProgramInv, NEW p \in Programs, NEW x \in Program!At \ {"off"}, Program!Go(p, x),
         proc[p].at \notin {"off", "waiting", "relaying", "dance", "renamed"},
         Fits([proc[p] EXCEPT !.at = x]),
         Hopes(proc[p]) => Hopes([proc[p] EXCEPT !.at = x]),
         UNCHANGED <<installed, stamp, last, legacy, run_key, uninstall_key, shortcut>>,
         wanted' => wanted, mishaps \subseteq mishaps'
  PROVE  Orderly(proc') /\ SomeHope' /\ Entries' /\ Versions'
<1>1. /\ Orderly(proc') /\ \A q \in Programs \ {p} : proc'[q] = proc[q]
      /\ \A q \in Programs : IsDialog(proc'[q]) => IsDialog(proc[q]) /\ proc'[q].ver = proc[q].ver
  BY GoKeeps
<1>2. SomeHope'
  BY HopeGoes
<1>3. Entries'
  BY <1>1, EntriesKeep
<1>4. Versions'
  BY <1>1, VersionsKeep
<1> QED
  BY <1>1, <1>2, <1>3, <1>4

\* What the end of some processes leaves of the others.
LEMMA EndsLeaves ==
  ASSUME ProgramInv, NEW S \in SUBSET Programs, NEW code, NEW f, f = Program!Without(S, code)
  PROVE  /\ Orderly(f)
         /\ \A q \in Programs : IsDialog(f[q]) => IsDialog(proc[q]) /\ f[q].ver = proc[q].ver
         /\ \A q \in Programs \ S : proc[q].at \notin {"waiting", "relaying"} =>
              f[q].at = proc[q].at /\ f[q].mode = proc[q].mode
         /\ \A q \in Programs \ S : Hopes(proc[q]) =>
              Hopes(f[q]) \/ (proc[q].at = "waiting" /\ proc[q].child \in S /\ code = 0)
<1>1. Orderly(f)
  BY WithoutOrderly
<1>2. ASSUME NEW q \in Programs, IsDialog(f[q]) PROVE IsDialog(proc[q]) /\ f[q].ver = proc[q].ver
  BY <1>2, WithoutEach, OffFits DEF IsDialog
<1>3. ASSUME NEW q \in Programs \ S, proc[q].at \notin {"waiting", "relaying"}
      PROVE  proc[q].child \notin S /\ f[q].at = proc[q].at /\ f[q].mode = proc[q].mode
  <2>1. proc[q].child = NoProc
    BY <1>3, ProgramTypes DEF Orderly, WaitsIn
  <2> QED
    BY <1>3, <2>1, WithoutEach, InstallAssumption
<1>4. ASSUME NEW q \in Programs \ S, Hopes(proc[q])
      PROVE  Hopes(f[q]) \/ (proc[q].at = "waiting" /\ proc[q].child \in S /\ code = 0)
  <2>1. CASE proc[q].child \notin S
    BY <1>4, <2>1, WithoutEach DEF Hopes
  <2>2. CASE proc[q].child \in S
    <3>1. proc[q].at # "relaying"
      BY <1>4, ProgramTypes DEF Hopes, Orderly, Fits
    <3> QED
      BY <1>4, <2>2, <3>1, WithoutEach DEF Hopes
  <2> QED
    BY <2>1, <2>2
<1> QED
  BY <1>1, <1>2, <1>3, <1>4

\* taskkill: who kills the others is the one that is left, and goes on.
LEMMA OthersKilled ==
  ASSUME ProgramInv, NEW p \in Programs, NEW x \in {"killed", "copying"},
         proc[p].at \in {"started", "dialog"}, Fits([proc[p] EXCEPT !.at = x]),
         proc' = [Program!Without(Program!Others(p), 1) EXCEPT ![p].at = x],
         mishaps' \in SUBSET Mishap,
         mishaps \cup Program!Cut(Program!Others(p)) \subseteq mishaps',
         Hopes([proc[p] EXCEPT !.at = x]) \/ "orphan" \in mishaps',
         p_faults' = p_faults,
         UNCHANGED <<installed, parked, stamp, legacy, run_key, uninstall_key, shortcut,
                     portable, doomed, wanted, last, launches>>
  PROVE  ProgramInv'
<1> DEFINE S == Program!Others(p)
           f == Program!Without(S, 1)
<1>1. S \in SUBSET Programs /\ p \notin S /\ \A q \in Programs \ S : q # p => proc[q].at = "off"
  BY DEF Program!Others
<1>2. proc' = [f EXCEPT ![p] = [f[p] EXCEPT !.at = x]]
  OBVIOUS
<1>3. (\E q \in S : proc[q].at \in Program!Installing) => "raced" \in mishaps'
  BY DEF Program!Cut
<1> HIDE DEF S
<1>4. /\ Orderly(f)
      /\ \A q \in Programs : IsDialog(f[q]) => IsDialog(proc[q]) /\ f[q].ver = proc[q].ver
      /\ \A q \in Programs \ S : proc[q].at \notin {"waiting", "relaying"} =>
              f[q].at = proc[q].at /\ f[q].mode = proc[q].mode
  BY <1>1, EndsLeaves
<1>5. /\ f[p].at = proc[p].at /\ f[p].mode = proc[p].mode /\ f[p].ver = proc[p].ver
      /\ f[p].place = proc[p].place /\ f[p] \in Program!Process /\ f \in [Programs -> Program!Process]
  <2>1. proc[p].child = NoProc
    BY ProgramTypes DEF Orderly, WaitsIn
  <2>2. f \in [Programs -> Program!Process]
    BY <1>4 DEF Orderly
  <2> QED
    BY <1>1, <2>1, <2>2, WithoutEach, InstallAssumption
<1> HIDE DEF f
<1> DEFINE r == [f[p] EXCEPT !.at = x]
<1>6. /\ r \in Program!Process /\ r.at = x /\ r.mode = proc[p].mode /\ r.ver = proc[p].ver
      /\ r.place = proc[p].place
  <2>1. x \in Program!At
    BY DEF Program!At
  <2> QED
    BY <1>5, <2>1 DEF Program!Process
<1>7. LET s == [proc[p] EXCEPT !.at = x]
      IN  s.at = x /\ s.mode = proc[p].mode /\ s.ver = proc[p].ver /\ s.place = proc[p].place
  BY ProgramTypes DEF Program!Process
<1>8. Fits(r) /\ (Hopes(r) \/ "orphan" \in mishaps')
  <2> HIDE DEF r
  <2>1. Fits(r)
    BY <1>6, <1>7 DEF Fits
  <2>2. Hopes([proc[p] EXCEPT !.at = x]) => Hopes(r)
    BY <1>6, <1>7 DEF Hopes
  <2> QED
    BY <2>1, <2>2
<1>9. Orderly(proc')
  <2>1. x \in Program!At \ {"off"}
    BY DEF Program!At
  <2>2. Orderly([f EXCEPT ![p] = [f[p] EXCEPT !.at = x]])
    BY <1>4, <1>5, <1>8, <2>1, GoneTo
  <2> QED
    BY <1>2, <2>2
<1>10. proc'[p] = r /\ \A q \in Programs \ {p} : proc'[q] = f[q]
  BY <1>2, <1>5
<1> HIDE DEF r
<1>11. Program!TypeOK'
  BY <1>9, ProgramTypes, ProgramTypesTogether
<1>12. SomeHope'
  BY <1>8, <1>10 DEF SomeHope, Program!Spared
<1>13. \A q \in Programs : proc[q].at \in {"dance", "renamed"} => "raced" \in mishaps'
  <2> SUFFICES ASSUME NEW q \in Programs, proc[q].at \in {"dance", "renamed"}
               PROVE  "raced" \in mishaps'
    OBVIOUS
  <2>1. q \in S
    BY <1>1
  <2> QED
    BY <1>3, <2>1
<1>14. Entries'
  BY <1>13, EntriesKeep
<1>15. Versions'
  <2>1. \A q \in Programs : IsDialog(proc'[q]) => IsDialog(proc[q]) /\ proc'[q].ver = proc[q].ver
    BY <1>4, <1>6, <1>10 DEF IsDialog
  <2> QED
    BY <1>13, <2>1, VersionsKeep
<1> QED
  BY <1>9, <1>11, <1>12, <1>14, <1>15 DEF ProgramInv

LEMMA GoneFields ==
  ASSUME NEW r \in Program!Process, NEW x
  PROVE  LET s == [r EXCEPT !.at = x]
         IN  /\ s.at = x /\ s.mode = r.mode /\ s.ver = r.ver /\ s.place = r.place
             /\ s.child = r.child
  BY DEF Program!Process

\* Which steps fit, and keep the hope: the tables of Fits and Hopes.
LEMMA GoneFits ==
  ASSUME ProgramInv, NEW p \in Programs, NEW x \in Program!At \ {"off", "waiting", "relaying"},
         proc[p].at # "off",
         x \in {"instance", "tray", "closing"} => proc[p].mode = "tray",
         x \in {"dialog"} \cup Program!Installing => proc[p].mode \in Dialogs,
         x = "window" => proc[p].mode = "window",
         x \in {"stopping", "unregistering", "unregistered"} => proc[p].mode = "uninstall"
  PROVE  Fits([proc[p] EXCEPT !.at = x])
<1> DEFINE s == [proc[p] EXCEPT !.at = x]
<1>1. proc[p] \in Program!Process /\ Fits(proc[p])
  BY ProgramTypes DEF Orderly
<1>2. s.at = x /\ s.mode = proc[p].mode /\ s.ver = proc[p].ver /\ s.place = proc[p].place
  BY <1>1, GoneFields
<1> HIDE DEF s
<1>3. Fits(s)
  BY <1>1, <1>2 DEF Fits
<1> QED
  BY <1>3 DEF s

LEMMA KillOthersKeeps ==
  ASSUME ProgramInv, NEW p \in Programs, Program!kill_other_immichsync_processes(p)
  PROVE  ProgramInv'
<1> USE DEF Program!kill_other_immichsync_processes
<1>1. proc[p].at = "started" /\ proc[p] \in Program!Process
  BY ProgramTypes
<1>2. "killed" \in Program!At \ {"off", "waiting", "relaying"}
      /\ "dispatch" \in Program!At \ {"off", "waiting", "relaying"}
  BY DEF Program!At
<1>3. ASSUME NEW x \in {"killed", "dispatch"}
      PROVE  /\ Fits([proc[p] EXCEPT !.at = x])
             /\ Hopes(proc[p]) => Hopes([proc[p] EXCEPT !.at = x])
             /\ proc[p].mode \in {"tray", "uninstall"} => Hopes([proc[p] EXCEPT !.at = x])
  <2>1. Fits([proc[p] EXCEPT !.at = x])
    BY <1>1, <1>2, GoneFits
  <2>2. [proc[p] EXCEPT !.at = x].at = x /\ [proc[p] EXCEPT !.at = x].mode = proc[p].mode
    BY <1>1, GoneFields
  <2> QED
    BY <1>1, <2>1, <2>2 DEF Hopes
<1>4. ASSUME NEW x \in {"killed", "dispatch"}, Program!Go(p, x),
             Program!NoFault \/ Program!Fails \/ UNCHANGED p_faults, UNCHANGED mishaps
      PROVE  ProgramInv'
  <2>1. Orderly(proc') /\ SomeHope' /\ Entries' /\ Versions'
    BY <1>1, <1>2, <1>3, <1>4, GoesQuietly
  <2>2. p_faults' \in 0..MaxFaults
    BY <1>4, ProgramFaults DEF Program!NoFault
  <2>3. Program!TypeOK'
    BY <1>4, <2>1, <2>2, ProgramTypes, ProgramTypesTogether
  <2> QED
    BY <2>1, <2>3 DEF ProgramInv
<1>5. ASSUME Program!NoFault,
             proc' = [Program!Without(Program!Others(p), 1) EXCEPT ![p].at = "killed"],
             mishaps' = mishaps \cup Program!Cut(Program!Others(p)) \cup
                  (IF proc[p].mode \in {"window", "install", "update"} THEN {"orphan"} ELSE {})
      PROVE  ProgramInv'
  <2>1. Hopes([proc[p] EXCEPT !.at = "killed"]) \/ "orphan" \in mishaps'
    BY <1>1, <1>3, <1>5, ProcessFields
  <2>2. mishaps' \in SUBSET Mishap /\ mishaps \cup Program!Cut(Program!Others(p)) \subseteq mishaps'
    BY <1>5, ProgramTypes DEF Program!Cut, Mishap
  <2> QED
    BY <1>1, <1>3, <1>5, <2>1, <2>2, OthersKilled DEF Program!NoFault
<1> QED
  BY <1>4, <1>5

LEMMA CleanupKeeps ==
  ASSUME ProgramInv, NEW p \in Programs, Program!cleanup_legacy_install(p)
  PROVE  ProgramInv'
<1> USE DEF Program!cleanup_legacy_install
<1>1. proc[p].at = "killed" /\ proc[p] \in Program!Process
  BY ProgramTypes
<1>2. "dispatch" \in Program!At \ {"off", "waiting", "relaying"}
  BY DEF Program!At
<1>3. Fits([proc[p] EXCEPT !.at = "dispatch"])
  BY <1>1, <1>2, GoneFits
<1>4. Hopes(proc[p]) => Hopes([proc[p] EXCEPT !.at = "dispatch"])
  BY <1>1, GoneFields DEF Hopes
<1>5. Program!Go(p, "dispatch")
  OBVIOUS
<1>6. /\ Orderly(proc') /\ \A q \in Programs \ {p} : proc'[q] = proc[q]
      /\ proc'[p].at = "dispatch"
      /\ \A q \in Programs : IsDialog(proc'[q]) => IsDialog(proc[q]) /\ proc'[q].ver = proc[q].ver
  BY <1>1, <1>2, <1>3, <1>5, GoKeeps
<1>9. /\ legacy' \in 0..Newest
      /\ run_key' \in {run_key, "none"} /\ uninstall_key' \in {uninstall_key, "none"}
      /\ p_faults' \in 0..MaxFaults
  <2>1. legacy \in 0..Newest /\ 0 \in 0..Newest
    BY ProgramTypes, InstallAssumption
  <2>2. legacy' = legacy \/ legacy' = 0
    BY DEF Program!remove_legacy_binary
  <2>3. run_key' \in {run_key, "none"} /\ uninstall_key' \in {uninstall_key, "none"}
    BY DEF Program!cleanup_stale_autostart, Program!cleanup_stale_uninstall_key,
       Program!set_autostart, Program!delete_uninstall_registry
  <2>4. p_faults' \in 0..MaxFaults
    BY ProgramFaults DEF Program!NoFault
  <2> QED
    BY <2>1, <2>2, <2>3, <2>4
<1>10. /\ mishaps \subseteq mishaps' /\ mishaps' \in SUBSET Mishap
       /\ legacy' = 0 /\ "legacy" \in {run_key', uninstall_key'} => "stale" \in mishaps'
  BY ProgramTypes DEF Mishap
<1>7. SomeHope'
  BY <1>4, <1>5, <1>10, HopeGoes
<1>8. Versions'
  BY <1>1, <1>6, <1>10, VersionsKeep
<1>11. Entries'
  <2>1. Program!Points' => Program!Points
    BY <1>9 DEF Program!Points
  <2>2. "legacy" \in {run_key', uninstall_key'} => legacy' > 0 \/ "stale" \in mishaps'
    BY <1>9, <1>10, InstallAssumption
  <2>3. /\ UNCHANGED installed
        /\ \A q \in Programs : proc[q].at = "renamed" => proc'[q].at = "renamed"
    BY <1>1, <1>6
  <2>4. Program!Spared({"failed", "raced", "portable"})' => Program!Spared({"failed", "raced", "portable"})
    BY <1>10 DEF Program!Spared
  <2> QED
    BY <2>1, <2>2, <2>3, <2>4 DEF ProgramInv, Entries
<1>12. Program!TypeOK'
  <2>1. run_key' \in Pointed /\ uninstall_key' \in Pointed
    BY <1>9, ProgramTypes DEF Pointed
  <2> QED
    BY <1>6, <1>9, <1>10, <2>1, ProgramTypes, ProgramTypesTogether
<1> QED
  BY <1>6, <1>7, <1>8, <1>11, <1>12 DEF ProgramInv

LEMMA DispatchKeeps ==
  ASSUME ProgramInv, NEW p \in Programs, Program!Dispatch(p)
  PROVE  ProgramInv'
<1> USE DEF Program!Dispatch
<1>1. proc[p].at = "dispatch" /\ proc[p] \in Program!Process /\ proc[p].mode # "tray"
  BY ProgramTypes
<1>2. \A x \in {"window", "stopping", "dialog"} : x \in Program!At \ {"off", "waiting", "relaying"}
  BY DEF Program!At
<1>3. PICK x \in {"window", "stopping", "dialog"} :
        /\ Program!Go(p, x)
        /\ x = "window" => proc[p].mode = "window"
        /\ x = "stopping" <=> proc[p].mode = "uninstall"
        /\ x = "dialog" => proc[p].mode \in Dialogs
  <2>1. proc[p].mode \in {"install", "update", "window", "uninstall"}
    BY <1>1, ProcessFields
  <2>2. CASE proc[p].mode = "window"
    BY <2>2
  <2>3. CASE proc[p].mode = "uninstall"
    BY <2>3
  <2>4. CASE proc[p].mode \in Dialogs
    BY <2>4
  <2> QED
    BY <2>1, <2>2, <2>3, <2>4
<1>4. Fits([proc[p] EXCEPT !.at = x])
  BY <1>1, <1>2, <1>3, GoneFits
<1>5. Hopes(proc[p]) => Hopes([proc[p] EXCEPT !.at = x])
  BY <1>1, <1>3, GoneFields DEF Hopes
<1>6. Orderly(proc') /\ SomeHope' /\ Entries' /\ Versions'
  BY <1>1, <1>2, <1>3, <1>4, <1>5, GoesQuietly
<1>7. parked' \in 0..Newest /\ p_faults' \in 0..MaxFaults /\ launches' \in 0..MaxLaunches
  <2>1. parked' \in {0, parked}
    OBVIOUS
  <2> QED
    BY <2>1, ProgramTypes, InstallAssumption
<1>8. Program!TypeOK'
  BY <1>6, <1>7, ProgramTypes, ProgramTypesTogether
<1> QED
  BY <1>6, <1>8 DEF ProgramInv

\* A process that starts to wait for another.
LEMMA NowWaits ==
  ASSUME NEW f, Orderly(f), NEW p \in Programs, NEW q \in Programs \ {p},
         f[p].at = "dispatch", f[p].mode = "tray", f[p].place \notin {"installed", "parked"},
         NEW x \in {"waiting", "relaying"}, f[q].at # "off",
         x = "waiting" => f[q].mode \in Dialogs,
         x = "relaying" => f[q].place \in {"installed", "parked"}
  PROVE  Orderly([f EXCEPT ![p] = [f[p] EXCEPT !.child = q, !.at = x]])
<1> DEFINE r == [f[p] EXCEPT !.child = q, !.at = x]
           g == [f EXCEPT ![p] = r]
<1>1. f[p] \in Program!Process /\ f \in [Programs -> Program!Process] /\ Fits(f[p])
  BY DEF Orderly
<1>2. /\ r \in Program!Process /\ r.at = x /\ r.mode = f[p].mode /\ r.place = f[p].place
      /\ r.child = q /\ r.ver = f[p].ver
  <2>1. x \in Program!At
    BY DEF Program!At
  <2> QED
    BY <1>1, <2>1 DEF Program!Process
<1> HIDE DEF r
<1>3. g \in [Programs -> Program!Process] /\ g[p] = r /\ \A s \in Programs \ {p} : g[s] = f[s]
  BY <1>1, <1>2
<1> HIDE DEF g
<1>4. Fits(r)
  BY <1>1, <1>2 DEF Fits
<1>5. ASSUME NEW s \in Programs PROVE Fits(g[s]) /\ WaitsIn(g, s)
  <2>1. CASE s = p
    BY <1>2, <1>3, <1>4, <2>1 DEF WaitsIn
  <2>2. CASE s # p
    <3>1. f[s].child \in Programs \cup {NoProc} /\ WaitsIn(f, s) /\ Fits(f[s])
      BY <1>1, ProcessFields DEF Orderly
    <3> QED
      BY <1>2, <1>3, <2>2, <3>1 DEF WaitsIn
  <2> QED
    BY <2>1, <2>2
<1>6. Orderly(g)
  BY <1>3, <1>5 DEF Orderly
<1> QED
  BY <1>6 DEF g, r

\* The dialog, or the installed copy, is started, and waited for.
LEMMA ChildStarted ==
  ASSUME ProgramInv, NEW p \in Programs, NEW q \in Programs, NEW child \in Program!Process,
         Fits(child), child.child = NoProc, child.at # "off",
         proc[p].at = "dispatch", proc[p].mode = "tray", proc[q].at = "off",
         proc[p].place \notin {"installed", "parked"},
         NEW x \in {"waiting", "relaying"},
         x = "waiting" => child.mode \in Dialogs,
         x = "relaying" => child.place \in {"installed", "parked"},
         proc' = [proc EXCEPT ![q] = child, ![p].child = q, ![p].at = x]
  PROVE  /\ Orderly(proc') /\ q # p /\ proc'[q] = child
         /\ proc'[p].at = x /\ proc'[p].mode = "tray"
         /\ \A s \in Programs \ {p, q} : proc'[s] = proc[s]
<1>1. q # p /\ proc \in [Programs -> Program!Process] /\ proc[p] \in Program!Process
  BY ProgramTypes
<1> DEFINE g == [proc EXCEPT ![q] = child]
<1>2. Orderly(g)
  <2>1. Orderly(proc)
    BY ProgramTypes
  <2> QED
    BY <2>1, SpawnedIn
<1>3. /\ g[q] = child /\ g[p] = proc[p] /\ g \in [Programs -> Program!Process]
      /\ \A s \in Programs \ {q} : g[s] = proc[s]
  BY <1>1
<1>4. proc' = [g EXCEPT ![p] = [g[p] EXCEPT !.child = q, !.at = x]]
  BY <1>1
<1> HIDE DEF g
<1>5. Orderly(proc')
  <2>1. Orderly([g EXCEPT ![p] = [g[p] EXCEPT !.child = q, !.at = x]])
    BY <1>1, <1>2, <1>3, NowWaits
  <2> QED
    BY <1>4, <2>1
<1>6. proc'[p] = [proc[p] EXCEPT !.child = q, !.at = x] /\ \A s \in Programs \ {p} : proc'[s] = g[s]
  BY <1>3, <1>4
<1>7. proc'[p].at = x /\ proc'[p].mode = "tray"
  BY <1>1, <1>6 DEF Program!Process
<1> QED
  BY <1>1, <1>3, <1>5, <1>6, <1>7

LEMMA RelaunchKeeps ==
  ASSUME ProgramInv, NEW p \in Programs, Program!install_or_relaunch(p)
  PROVE  ProgramInv'
<1> USE DEF Program!install_or_relaunch
<1> DEFINE mode == IF installed = 0 THEN "install"
                   ELSE IF stamp = 0 \/ Program!is_update_available(p) THEN "update" ELSE "tray"
           child == IF mode = "tray" THEN Program!Spawned("installed", installed, "tray", p)
                    ELSE Program!Spawned(proc[p].place, proc[p].ver, mode, p)
           x == IF mode = "tray" THEN "relaying" ELSE "waiting"
<1>1. /\ proc[p].at = "dispatch" /\ proc[p].mode = "tray" /\ proc[p] \in Program!Process
      /\ proc[p].ver \in 1..Newest
  <2>1. Fits(proc[p]) /\ proc[p] \in Program!Process
    BY ProgramTypes DEF Orderly
  <2>2. proc[p].at = "dispatch" /\ proc[p].mode = "tray"
    OBVIOUS
  <2>3. proc[p].ver \in 0..Newest /\ proc[p].ver > 0
    BY <2>1, <2>2, ProcessFields DEF Fits
  <2> QED
    BY <2>1, <2>2, <2>3
<1>2. "instance" \in Program!At \ {"off", "waiting", "relaying"}
  BY DEF Program!At
<1>3. /\ parked' \in 0..Newest /\ mishaps' \in SUBSET Mishap /\ mishaps \subseteq mishaps'
      /\ (\E q \in Programs : IsDialog(proc[q])) => "raced" \in mishaps'
  <2>1. parked' \in 0..Newest
    <3>1. parked' \in {0, parked}
      OBVIOUS
    <3> QED
      BY <3>1, ProgramTypes, InstallAssumption
  <2>2. mishaps' = mishaps \cup
          (IF \E q \in Programs : IsDialog(proc[q]) THEN {"raced"} ELSE {})
    BY DEF IsDialog
  <2> QED
    BY <2>1, <2>2, ProgramTypes DEF Mishap
<1>4. ASSUME Program!Go(p, "instance"), Program!NoFault \/ Program!Fails
      PROVE  ProgramInv'
  <2>1. Fits([proc[p] EXCEPT !.at = "instance"])
    BY <1>1, <1>2, GoneFits
  <2>2. Hopes([proc[p] EXCEPT !.at = "instance"])
    BY <1>1, GoneFields DEF Hopes
  <2>3. Orderly(proc') /\ SomeHope' /\ Entries' /\ Versions'
    BY <1>1, <1>2, <1>3, <1>4, <2>1, <2>2, GoesQuietly
  <2>4. p_faults' \in 0..MaxFaults
    BY <1>4, ProgramFaults
  <2>5. Program!TypeOK'
    BY <1>3, <2>3, <2>4, ProgramTypes, ProgramTypesTogether
  <2> QED
    BY <2>3, <2>5 DEF ProgramInv
<1>5. ASSUME NEW q \in Programs, proc[q].at = "off", ~Program!is_running_installed(p),
             Program!NoFault,
             proc' = [proc EXCEPT ![q] = child, ![p].child = q, ![p].at = x]
      PROVE  ProgramInv'
  <2>1. proc[p].place \in {"legacy", "download"}
    BY <1>1, <1>5, ProcessFields DEF Program!is_running_installed
  <2>2. /\ child \in Program!Process /\ Fits(child) /\ child.child = NoProc
        /\ child.at \in {"started", "old"} /\ child.mode = mode
        /\ mode = "tray" => Hopes(child) /\ child.place = "installed"
        /\ mode # "tray" => child.ver = proc[p].ver
    <3>1. CASE mode = "tray"
      <4>1. installed \in 1..Newest /\ p \in Programs \cup {NoProc}
        BY <3>1, ProgramTypes
      <4> DEFINE c == Program!Spawned("installed", installed, "tray", p)
      <4>2. /\ c \in Program!Process /\ Fits(c) /\ c.child = NoProc /\ c.mode = "tray"
            /\ c.at \in {"started", "old"} /\ Hopes(c) /\ c.place = "installed"
        BY <4>1, SpawnedFits
      <4>3. child = c
        BY <3>1
      <4> HIDE DEF c, child, mode
      <4> QED
        BY <3>1, <4>2, <4>3
    <3>2. CASE mode # "tray"
      <4>1. mode \in {"install", "update"} /\ p \in Programs \cup {NoProc}
        BY <3>2
      <4>2. proc[p].place \in {"installed", "parked", "legacy", "download"}
        BY <2>1
      <4> DEFINE c == Program!Spawned(proc[p].place, proc[p].ver, mode, p)
      <4>3. child = c
        BY <3>2
      <4> HIDE DEF mode, child
      <4>4. /\ c \in Program!Process /\ Fits(c) /\ c.child = NoProc /\ c.mode = mode
            /\ c.at \in {"started", "old"} /\ c.ver = proc[p].ver
        BY <1>1, <4>1, <4>2, SpawnedFits
      <4> HIDE DEF c
      <4> QED
        BY <3>2, <4>3, <4>4
    <3> QED
      BY <3>1, <3>2
  <2>3. mode \in {"tray", "install", "update"} /\ (mode = "tray" <=> x = "relaying")
        /\ x \in {"waiting", "relaying"} /\ (mode = "install" => installed = 0)
        /\ (mode = "update" => stamp = 0 \/ proc[p].ver > stamp)
    BY DEF Program!is_update_available
  <2> HIDE DEF mode, child, x
  <2>4. /\ Orderly(proc') /\ q # p /\ proc'[q] = child
        /\ proc'[p].at = x /\ proc'[p].mode = "tray"
        /\ \A s \in Programs \ {p, q} : proc'[s] = proc[s]
    <3>1. x = "waiting" => child.mode \in Dialogs
      BY <2>2, <2>3
    <3>2. x = "relaying" => child.place \in {"installed", "parked"}
      BY <2>2, <2>3
    <3>3. child.at # "off" /\ proc[p].place \notin {"installed", "parked"}
      BY <2>1, <2>2
    <3>4. x \in {"waiting", "relaying"}
      BY <2>3
    <3>5. proc' = [proc EXCEPT ![q] = child, ![p].child = q, ![p].at = x]
      BY <1>5
    <3> HIDE DEF Program!install_or_relaunch
    <3>6. proc[p].at = "dispatch" /\ proc[p].mode = "tray" /\ proc[q].at = "off"
      BY <1>1, <1>5
    <3>7. child \in Program!Process /\ Fits(child) /\ child.child = NoProc
      BY <2>2
    <3> QED
      BY <3>1, <3>2, <3>3, <3>4, <3>5, <3>6, <3>7, ChildStarted
  <2>5. SomeHope'
    <3>1. Hopes(proc'[p]) \/ Hopes(proc'[q])
      BY <2>2, <2>3, <2>4 DEF Hopes
    <3> QED
      BY <3>1 DEF SomeHope
  <2>6. Entries'
    BY <1>1, <1>3, <1>5, <2>4, EntriesKeep
  <2>7. Versions'
    <3>1. CASE mode = "tray"
      <4>1. \A s \in Programs : IsDialog(proc'[s]) => IsDialog(proc[s]) /\ proc'[s].ver = proc[s].ver
        BY <2>2, <2>4, <3>1 DEF IsDialog
      <4>2. \A s \in Programs : proc[s].at \in {"dance", "renamed"} => proc'[s].at = proc[s].at
        BY <1>1, <1>5, <2>4
      <4> QED
        BY <1>3, <4>1, <4>2, VersionsKeep
    <3>2. CASE mode # "tray" /\ Program!Spared({"failed", "raced", "unstamped"})'
      <4>1. \A s \in Programs : ~IsDialog(proc[s])
        BY <1>3, <3>2 DEF Program!Spared
      <4>2. \A s \in Programs : proc[s].at \notin {"dance", "renamed"}
        BY <4>1, ProgramTypes DEF Orderly, Fits, IsDialog
      <4>3. installed = last /\ stamp = last
        BY <1>3, <3>2, <4>2 DEF ProgramInv, Versions, Program!Spared
      <4>4. \A s \in Programs : IsDialog(proc'[s]) => s = q
        BY <2>4, <4>1 DEF IsDialog
      <4>5. child.ver >= last
        <5>1. child.ver \in 1..Newest /\ last \in 0..Newest /\ Newest \in Nat
          BY <1>1, <2>2, <3>2, ProgramTypes, InstallAssumption
        <5>2. last = 0 \/ child.ver > last
          BY <2>2, <2>3, <3>2, <4>3
        <5> QED
          BY <5>1, <5>2
      <4> QED
        BY <2>4, <4>3, <4>4, <4>5 DEF Versions
    <3> QED
      BY <3>1, <3>2 DEF Versions
  <2>8. p_faults' \in 0..MaxFaults
    BY <1>5, ProgramFaults
  <2>9. Program!TypeOK'
    BY <1>3, <2>4, <2>8, ProgramTypes, ProgramTypesTogether
  <2> QED
    BY <2>4, <2>5, <2>6, <2>7, <2>9 DEF ProgramInv
<1> QED
  BY <1>4, <1>5

LEMMA EndLeaves ==
  ASSUME ProgramInv, NEW p \in Programs, NEW code, Program!Ends(p, code)
  PROVE  /\ Orderly(proc')
         /\ \A q \in Programs : IsDialog(proc'[q]) => IsDialog(proc[q]) /\ proc'[q].ver = proc[q].ver
         /\ \A q \in Programs \ {p} : proc[q].at \notin {"waiting", "relaying"} =>
              proc'[q].at = proc[q].at /\ proc'[q].mode = proc[q].mode
         /\ \A q \in Programs \ {p} : Hopes(proc[q]) =>
              Hopes(proc'[q]) \/ (proc[q].at = "waiting" /\ proc[q].child = p /\ code = 0)
<1> DEFINE S == {p}
           f == Program!Without(S, code)
<1>1. S \in SUBSET Programs /\ proc' = f /\ \A q : q \in S <=> q = p
  BY DEF Program!Ends
<1> HIDE DEF S
<1>2. /\ Orderly(f)
      /\ \A q \in Programs : IsDialog(f[q]) => IsDialog(proc[q]) /\ f[q].ver = proc[q].ver
      /\ \A q \in Programs \ S : proc[q].at \notin {"waiting", "relaying"} =>
              f[q].at = proc[q].at /\ f[q].mode = proc[q].mode
      /\ \A q \in Programs \ S : Hopes(proc[q]) =>
              Hopes(f[q]) \/ (proc[q].at = "waiting" /\ proc[q].child \in S /\ code = 0)
  BY <1>1, EndsLeaves
<1> HIDE DEF f
<1> QED
  BY <1>1, <1>2

\* A process that ends, when the files and the entries stay as they are.
LEMMA EndsKeeps ==
  ASSUME ProgramInv, NEW p \in Programs, NEW code, Program!Ends(p, code),
         proc[p].at \notin {"dance", "renamed"},
         UNCHANGED <<installed, stamp, last, legacy, run_key, uninstall_key, shortcut>>,
         mishaps \subseteq mishaps'
  PROVE  Orderly(proc') /\ Entries' /\ Versions'
<1>2. /\ Orderly(proc')
      /\ \A q \in Programs : IsDialog(proc'[q]) => IsDialog(proc[q]) /\ proc'[q].ver = proc[q].ver
      /\ \A q \in Programs \ {p} : proc[q].at \notin {"waiting", "relaying"} => proc'[q].at = proc[q].at
  BY EndLeaves
<1>3. \A q \in Programs : proc[q].at \in {"dance", "renamed"} => proc'[q].at = proc[q].at
  BY <1>2
<1>4. Entries'
  BY <1>3, EntriesKeep
<1>5. Versions'
  BY <1>2, <1>3, VersionsKeep
<1> QED
  BY <1>2, <1>4, <1>5

\* It was no hope, and no parent took it for a dialog that has installed.
LEMMA EndsHope ==
  ASSUME ProgramInv, NEW p \in Programs, NEW code, Program!Ends(p, code),
         ~Hopes(proc[p]), code # 0 \/ proc[p].mode \notin Dialogs,
         wanted' => wanted, mishaps \subseteq mishaps'
  PROVE  SomeHope'
<1> SUFFICES ASSUME wanted, Program!Spared({"orphan", "failed", "late"})
             PROVE  \E q \in Programs : Hopes(proc'[q])
  BY DEF SomeHope, Program!Spared
<1>1. PICK q \in Programs : Hopes(proc[q])
  BY DEF ProgramInv, SomeHope
<1>2. q # p
  BY <1>1
<1>3. Hopes(proc'[q]) \/ (proc[q].at = "waiting" /\ proc[q].child = p /\ code = 0)
  BY <1>1, <1>2, EndLeaves
<1>4. proc[q].at = "waiting" /\ proc[q].child = p => proc[p].mode \in Dialogs
  BY ProgramTypes, InstallAssumption DEF Orderly, WaitsIn
<1> QED
  BY <1>3, <1>4

LEMMA AcquireKeeps ==
  ASSUME ProgramInv, NEW p \in Programs, Program!acquire(p)
  PROVE  ProgramInv'
<1> USE DEF Program!acquire
<1> DEFINE holder == {q \in Programs : proc[q].at \in {"tray", "closing"}}
<1>1. proc[p].at = "instance" /\ proc[p] \in Program!Process /\ proc[p].mode = "tray"
  BY ProgramTypes DEF Orderly, Fits
<1>2. mishaps' \in SUBSET Mishap /\ mishaps \subseteq mishaps'
  BY ProgramTypes DEF Mishap
<1>3. CASE holder = {}
  <2>1. "tray" \in Program!At \ {"off", "waiting", "relaying"}
    BY DEF Program!At
  <2>2. Fits([proc[p] EXCEPT !.at = "tray"])
    BY <1>1, <2>1, GoneFits
  <2>3. Hopes([proc[p] EXCEPT !.at = "tray"])
    BY <1>1, GoneFields DEF Hopes
  <2>4. Orderly(proc') /\ SomeHope' /\ Entries' /\ Versions'
    BY <1>1, <1>2, <1>3, <2>1, <2>2, <2>3, GoesQuietly
  <2>5. Program!TypeOK'
    BY <1>2, <2>4, ProgramTypes, ProgramTypesTogether
  <2> QED
    BY <2>4, <2>5 DEF ProgramInv
<1>4. CASE holder # {}
  <2>1. Program!Ends(p, 1)
    BY <1>4
  <2>2. Orderly(proc') /\ Entries' /\ Versions'
    BY <1>1, <1>2, <2>1, EndsKeeps
  <2>3. PICK q \in holder : TRUE
    BY <1>4
  <2>4. proc[q].at = "closing" => SomeHope'
    BY <2>3 DEF SomeHope, Program!Spared
  <2>5. proc[q].at = "tray" => SomeHope'
    <3> SUFFICES ASSUME proc[q].at = "tray" PROVE Hopes(proc'[q])
      BY <2>3 DEF SomeHope
    <3> QED
      BY <1>1, <2>1, <2>3, EndLeaves DEF Hopes
  <2>6. SomeHope'
    BY <2>3, <2>4, <2>5
  <2>7. Program!TypeOK'
    BY <1>2, <2>2, ProgramTypes, ProgramTypesTogether
  <2> QED
    BY <2>2, <2>6, <2>7 DEF ProgramInv
<1> QED
  BY <1>3, <1>4

LEMMA SpawnWindowKeeps ==
  ASSUME ProgramInv, NEW p \in Programs, Program!spawn_window_subprocess(p)
  PROVE  ProgramInv'
<1> USE DEF Program!spawn_window_subprocess
<1> DEFINE place == IF installed > 0 THEN "installed" ELSE proc[p].place
           ver == CASE place = "installed" -> installed
                    [] place = "legacy" -> legacy [] OTHER -> proc[p].ver
<1>1. place # "parked" /\ ver > 1
  OBVIOUS
<1>2. PICK q \in Programs : proc[q].at = "off" /\
                            proc' = [proc EXCEPT ![q] = Program!Spawned(place, ver, "window", p)]
  OBVIOUS
<1>3. place \in {"installed", "parked", "legacy", "download"} /\ ver \in 0..Newest
  <2>1. proc[p].place \in {"installed", "parked", "legacy", "download"} /\ proc[p].ver \in 0..Newest
    BY ProgramTypes, ProcessFields
  <2>2. installed \in 0..Newest /\ legacy \in 0..Newest
    BY ProgramTypes
  <2> QED
    BY <2>1, <2>2
<1>4. UNCHANGED <<installed, parked, stamp, legacy, run_key, uninstall_key, shortcut,
                     portable, doomed, wanted, last, mishaps, p_faults, launches>>
  OBVIOUS
<1> HIDE DEF place, ver, Program!spawn_window_subprocess
<1> DEFINE r == Program!Spawned(place, ver, "window", p)
<1>5. r \in Program!Process /\ Fits(r) /\ r.child = NoProc /\ r.mode = "window"
  <2>1. ver \in 1..Newest /\ p \in Programs \cup {NoProc}
    BY <1>1, <1>3
  <2> QED
    BY <1>3, <2>1, SpawnedFits
<1>6. proc' = [proc EXCEPT ![q] = r]
  BY <1>2
<1> HIDE DEF r
<1>7. Orderly(proc')
  <2>1. Orderly([proc EXCEPT ![q] = r])
    <3>1. Orderly(proc)
      BY ProgramTypes
    <3> QED
      BY <1>2, <1>5, <3>1, SpawnedIn
  <2> QED
    BY <1>6, <2>1
<1>8. proc'[q] = r /\ \A s \in Programs \ {q} : proc'[s] = proc[s]
  BY <1>6, ProgramTypes
<1>9. SomeHope'
  BY <1>2, <1>4, <1>6, HopeSpawned
<1>10. \A s \in Programs : proc[s].at \in {"dance", "renamed"} => proc'[s].at = proc[s].at
  BY <1>2, <1>8
<1>11. Entries'
  BY <1>4, <1>10, EntriesKeep
<1>12. Versions'
  BY <1>4, <1>5, <1>8, <1>10, VersionsKeep DEF IsDialog
<1>13. Program!TypeOK'
  BY <1>4, <1>7, ProgramTypes, ProgramTypesTogether
<1> QED
  BY <1>7, <1>9, <1>11, <1>12, <1>13 DEF ProgramInv

LEMMA CloseWindowEnds ==
  ASSUME ProgramInv, NEW p \in Programs,
         Program!CloseWindow(p) \/ Program!Closed(p) \/ Program!schedule_self_delete(p)
  PROVE  ProgramInv'
<1> USE DEF Program!CloseWindow, Program!Closed, Program!schedule_self_delete
<1>1. /\ proc[p].at \in {"window", "closing", "unregistered"} /\ Program!Ends(p, 0)
      /\ UNCHANGED <<installed, parked, stamp, legacy, run_key, uninstall_key, shortcut,
                     portable, wanted, last, mishaps, launches>>
      /\ doomed' = TRUE \/ doomed' = doomed
  OBVIOUS
<1>2. p_faults' \in 0..MaxFaults
  <2>1. Program!Fails \/ Program!NoFault
    BY DEF Program!NoFault
  <2> QED
    BY <2>1, ProgramFaults
<1> HIDE DEF Program!CloseWindow, Program!Closed, Program!schedule_self_delete
<1>3. Fits(proc[p]) /\ proc[p] \in Program!Process
  BY ProgramTypes DEF Orderly
<1>4. ~Hopes(proc[p]) /\ proc[p].mode \notin Dialogs
  BY <1>1, <1>3 DEF Hopes, Fits
<1>5. Orderly(proc') /\ Entries' /\ Versions' /\ SomeHope'
  BY <1>1, <1>4, EndsKeeps, EndsHope
<1>6. doomed' \in BOOLEAN
  BY <1>1, ProgramTypes, Zenon
<1>7. Program!TypeOK'
  BY <1>1, <1>2, <1>5, <1>6, ProgramTypes, ProgramTypesTogether
<1> QED
  BY <1>5, <1>7 DEF ProgramInv

LEMMA SaveSettingsKeeps ==
  ASSUME ProgramInv, NEW p \in Programs, Program!SaveSettings(p)
  PROVE  ProgramInv'
<1> USE DEF Program!SaveSettings
<1>1. /\ UNCHANGED <<installed, parked, stamp, legacy, uninstall_key, shortcut,
                     doomed, proc, wanted, last, p_faults, launches>>
      /\ portable' \in BOOLEAN
  OBVIOUS
<1>2. /\ run_key' \in {"installed", "none"}
      /\ mishaps' = mishaps \cup (IF installed = 0 /\ run_key' = "installed" THEN {"portable"} ELSE {})
  BY DEF Program!set_autostart
<1> HIDE DEF Program!SaveSettings
<1>3. mishaps \subseteq mishaps' /\ mishaps' \in SUBSET Mishap
  BY <1>2, ProgramTypes DEF Mishap
<1>4. Orderly(proc') /\ SomeHope'
  BY <1>1, <1>3, ProgramTypes DEF ProgramInv, SomeHope, Program!Spared
<1>5. Versions'
  BY <1>1, <1>3, VersionsKeep
<1>6. Entries'
  <2>1. Program!Spared({"failed", "raced", "portable"})' => Program!Spared({"failed", "raced", "portable"})
    BY <1>3 DEF Program!Spared
  <2>2. run_key' = "installed" /\ Program!Spared({"failed", "raced", "portable"})' => installed > 0
    <3>1. installed \in Nat
      BY ProgramTypes, InstallAssumption
    <3> QED
      BY <1>2, <3>1 DEF Program!Spared
  <2>3. "legacy" \in {run_key', uninstall_key'} => legacy > 0 \/ "stale" \in mishaps'
    BY <1>1, <1>2, <1>3 DEF ProgramInv, Entries
  <2>4. Program!Points' => Program!Points \/ run_key' = "installed"
    BY <1>1, <1>2 DEF Program!Points
  <2> QED
    BY <1>1, <2>1, <2>2, <2>3, <2>4 DEF ProgramInv, Entries
<1>7. run_key' \in Pointed
  BY <1>2 DEF Pointed
<1>8. Program!TypeOK'
  BY <1>1, <1>3, <1>4, <1>7, ProgramTypes, ProgramTypesTogether
<1> QED
  BY <1>4, <1>5, <1>6, <1>8 DEF ProgramInv

LEMMA QuitKeeps ==
  ASSUME ProgramInv, NEW p \in Programs, Program!Quit(p)
  PROVE  ProgramInv'
<1> USE DEF Program!Quit
<1>1. /\ proc[p].at \in {"tray", "old"} /\ wanted' = FALSE
      /\ proc[p].at = "tray" => Program!Go(p, "closing")
      /\ proc[p].at = "old" => Program!Ends(p, 0)
      /\ UNCHANGED <<installed, parked, stamp, legacy, run_key, uninstall_key, shortcut,
                     portable, doomed, last, mishaps, p_faults, launches>>
  OBVIOUS
<1> HIDE DEF Program!Quit
<1>2. SomeHope'
  BY <1>1 DEF SomeHope
<1>3. ASSUME proc[p].at = "tray" PROVE Orderly(proc') /\ Entries' /\ Versions'
  <2>1. "closing" \in Program!At \ {"off", "waiting", "relaying"} /\ proc[p].mode = "tray"
    BY <1>3, ProgramTypes DEF Program!At, Orderly, Fits
  <2>2. Fits([proc[p] EXCEPT !.at = "closing"])
    BY <1>3, <2>1, GoneFits
  <2>3. /\ Orderly(proc') /\ \A q \in Programs \ {p} : proc'[q] = proc[q]
        /\ \A q \in Programs : IsDialog(proc'[q]) => IsDialog(proc[q]) /\ proc'[q].ver = proc[q].ver
    BY <1>1, <1>3, <2>1, <2>2, GoKeeps
  <2>4. \A q \in Programs : proc[q].at \in {"dance", "renamed"} => proc'[q].at = proc[q].at
    BY <1>3, <2>3
  <2>5. Entries' /\ Versions'
    BY <1>1, <2>3, <2>4, EntriesKeep, VersionsKeep
  <2> QED
    BY <2>3, <2>5
<1>5. Orderly(proc') /\ Entries' /\ Versions'
  BY <1>1, <1>3, EndsKeeps
<1>6. Program!TypeOK'
  BY <1>1, <1>5, ProgramTypes, ProgramTypesTogether
<1> QED
  BY <1>2, <1>5, <1>6 DEF ProgramInv

LEMMA ClickInstallKeeps ==
  ASSUME ProgramInv, NEW p \in Programs, Program!ClickInstall(p)
  PROVE  ProgramInv'
<1> USE DEF Program!ClickInstall
<1>1. proc[p].at = "dialog" /\ proc[p] \in Program!Process /\ proc[p].mode \in Dialogs
  BY ProgramTypes DEF Orderly, Fits
<1>2. "copying" \in Program!At \ {"off", "waiting", "relaying"}
  BY DEF Program!At
<1>3. Fits([proc[p] EXCEPT !.at = "copying"])
  BY <1>1, <1>2, GoneFits
<1>4. Hopes([proc[p] EXCEPT !.at = "copying"])
  BY <1>1, GoneFields DEF Hopes
<1>5. ASSUME Program!Go(p, "copying"), Program!NoFault \/ Program!Fails, UNCHANGED mishaps
      PROVE  ProgramInv'
  <2>1. Orderly(proc') /\ SomeHope' /\ Entries' /\ Versions'
    BY <1>1, <1>2, <1>3, <1>4, <1>5, GoesQuietly
  <2>2. p_faults' \in 0..MaxFaults
    BY <1>5, ProgramFaults
  <2>3. Program!TypeOK'
    BY <1>5, <2>1, <2>2, ProgramTypes, ProgramTypesTogether
  <2> QED
    BY <2>1, <2>3 DEF ProgramInv
<1>6. ASSUME Program!NoFault,
             proc' = [Program!Without(Program!Others(p), 1) EXCEPT ![p].at = "copying"],
             mishaps' = mishaps \cup Program!Cut(Program!Others(p))
      PROVE  ProgramInv'
  <2>1. mishaps' \in SUBSET Mishap
    BY <1>6, ProgramTypes DEF Program!Cut, Mishap
  <2> QED
    BY <1>1, <1>3, <1>4, <1>6, <2>1, OthersKilled DEF Program!NoFault
<1> QED
  BY <1>5, <1>6

\* Dialog p has put its program in place, and goes on at x.
LEMMA Placed ==
  ASSUME ProgramInv, NEW p \in Programs, NEW x \in {"registering", "dance"},
         proc[p].at \in {"copying", "renamed"}, Program!Go(p, x),
         installed' = proc[p].ver, last' = proc[p].ver,
         stamp' = proc[p].ver \/ (stamp' = stamp /\ (x = "dance" \/ "unstamped" \in mishaps')),
         mishaps \subseteq mishaps', mishaps' \in SUBSET Mishap,
         Program!NoFault \/ Program!Fails,
         UNCHANGED <<parked, legacy, run_key, uninstall_key, shortcut, portable, doomed,
                     wanted, launches>>
  PROVE  ProgramInv'
<1>1. /\ proc[p] \in Program!Process /\ proc[p].mode \in Dialogs /\ proc[p].ver \in 1..Newest
  <2>1. proc[p] \in Program!Process /\ Fits(proc[p])
    BY ProgramTypes DEF Orderly
  <2>2. proc[p].ver \in 0..Newest /\ proc[p].ver > 0 /\ proc[p].mode \in Dialogs
    BY <2>1, ProcessFields DEF Fits
  <2> QED
    BY <2>1, <2>2
<1>2. x \in Program!At \ {"off", "waiting", "relaying"}
  BY DEF Program!At
<1>3. Fits([proc[p] EXCEPT !.at = x])
  BY <1>1, <1>2, GoneFits
<1>4. /\ Orderly(proc') /\ \A q \in Programs \ {p} : proc'[q] = proc[q]
      /\ proc'[p].at = x /\ proc'[p].ver = proc[p].ver
      /\ \A q \in Programs : IsDialog(proc'[q]) => IsDialog(proc[q]) /\ proc'[q].ver = proc[q].ver
  BY <1>2, <1>3, GoKeeps
<1>5. SomeHope'
  BY <1>4 DEF SomeHope, Hopes
<1>6. Entries'
  BY <1>1 DEF ProgramInv, Entries
<1>7. Versions'
  <2> SUFFICES ASSUME Program!Spared({"failed", "raced", "unstamped"})'
               PROVE  /\ \A r, q \in Programs : IsDialog(proc'[r]) /\ IsDialog(proc'[q]) => r = q
                      /\ stamp' = last' \/ proc'[p].at = "dance"
                      /\ \A q \in Programs : IsDialog(proc'[q]) => proc'[q].ver >= last'
    BY DEF Versions
  <2>1. \A r, q \in Programs : IsDialog(proc[r]) /\ IsDialog(proc[q]) => r = q
    BY DEF ProgramInv, Versions, Program!Spared
  <2>2. IsDialog(proc[p])
    BY <1>1 DEF IsDialog
  <2>3. stamp' = last' \/ proc'[p].at = "dance"
    BY <1>4 DEF Program!Spared
  <2>4. \A q \in Programs : IsDialog(proc'[q]) => q = p
    BY <1>4, <2>1, <2>2
  <2>5. proc'[p].ver >= last'
    BY <1>1, <1>4, InstallAssumption
  <2> QED
    BY <1>4, <2>1, <2>3, <2>4, <2>5
<1>8. Program!TypeOK'
  <2>1. installed' \in 0..Newest /\ last' \in 0..Newest /\ stamp' \in 0..Newest
    BY <1>1, ProgramTypes
  <2>2. p_faults' \in 0..MaxFaults
    BY ProgramFaults
  <2> QED
    BY <1>4, <2>1, <2>2, ProgramTypes, ProgramTypesTogether
<1> QED
  BY <1>4, <1>5, <1>6, <1>7, <1>8 DEF ProgramInv

\* It has failed, and shows its error.
LEMMA FailedKeeps ==
  ASSUME ProgramInv, NEW p \in Programs, proc[p].at \in {"dance", "renamed"},
         Program!Go(p, "dialog"), mishaps' = mishaps \cup {"failed"},
         Program!NoFault \/ Program!Fails,
         UNCHANGED <<installed, parked, stamp, legacy, run_key, uninstall_key, shortcut,
                     portable, doomed, wanted, last, launches>>
  PROVE  ProgramInv'
<1>1. proc[p].mode \in Dialogs /\ "dialog" \in Program!At \ {"off", "waiting", "relaying"}
  BY ProgramTypes DEF Program!At, Orderly, Fits
<1>2. Fits([proc[p] EXCEPT !.at = "dialog"])
  BY <1>1, GoneFits
<1>3. Orderly(proc')
  BY <1>1, <1>2, GoKeeps
<1>4. SomeHope' /\ Versions'
  BY DEF SomeHope, Versions, Program!Spared
<1>5. Entries'
  BY DEF ProgramInv, Entries, Program!Spared
<1>6. p_faults' \in 0..MaxFaults /\ mishaps' \in SUBSET Mishap
  BY ProgramFaults, ProgramTypes DEF Mishap
<1>7. Program!TypeOK'
  BY <1>3, <1>6, ProgramTypes, ProgramTypesTogether
<1> QED
  BY <1>3, <1>4, <1>5, <1>7 DEF ProgramInv

LEMMA InstallExeKeeps ==
  ASSUME ProgramInv, NEW p \in Programs, Program!install_exe(p)
  PROVE  ProgramInv'
<1> USE DEF Program!install_exe
<1>1. proc[p].at = "copying" /\ mishaps' = mishaps /\ mishaps' \in SUBSET Mishap
  BY ProgramTypes
<1>2. ASSUME installed' = proc[p].ver, last' = proc[p].ver,
             \/ stamp' = proc[p].ver /\ Program!Go(p, "registering") /\ Program!NoFault
             \/ Program!Fails /\ Program!Go(p, "dance") /\ UNCHANGED stamp
      PROVE  ProgramInv'
  BY <1>1, <1>2, Placed
<1>3. ASSUME Program!NoFault \/ Program!Fails, Program!Go(p, "dance"),
             UNCHANGED <<installed, stamp, last>>
      PROVE  ProgramInv'
  <2>1. "dance" \in Program!At \ {"off", "waiting", "relaying"} /\ proc[p] \in Program!Process
        /\ proc[p].mode \in Dialogs
    BY <1>1, ProgramTypes DEF Program!At, Orderly, Fits
  <2>2. Fits([proc[p] EXCEPT !.at = "dance"])
    BY <1>1, <2>1, GoneFits
  <2>3. Hopes([proc[p] EXCEPT !.at = "dance"])
    BY <2>1, GoneFields DEF Hopes
  <2>4. Orderly(proc') /\ SomeHope' /\ Entries' /\ Versions'
    BY <1>1, <1>3, <2>1, <2>2, <2>3, GoesQuietly
  <2>5. p_faults' \in 0..MaxFaults
    BY <1>3, ProgramFaults
  <2>6. Program!TypeOK'
    BY <1>1, <1>3, <2>4, <2>5, ProgramTypes, ProgramTypesTogether
  <2> QED
    BY <2>4, <2>6 DEF ProgramInv
<1> QED
  BY <1>2, <1>3

LEMMA CopyNewKeeps ==
  ASSUME ProgramInv, NEW p \in Programs, Program!CopyNew(p)
  PROVE  ProgramInv'
<1> USE DEF Program!CopyNew
<1>1. proc[p].at = "renamed"
  OBVIOUS
<1>2. ASSUME installed' = proc[p].ver, last' = proc[p].ver, Program!Go(p, "registering"),
             \/ stamp' = proc[p].ver /\ Program!NoFault /\ UNCHANGED mishaps
             \/ Program!Fails /\ mishaps' = mishaps \cup {"unstamped"} /\ UNCHANGED stamp
      PROVE  ProgramInv'
  <2>1. /\ mishaps \subseteq mishaps' /\ mishaps' \in SUBSET Mishap
        /\ Program!NoFault \/ Program!Fails
        /\ stamp' = proc[p].ver \/ (stamp' = stamp /\ "unstamped" \in mishaps')
    BY <1>2, ProgramTypes DEF Mishap
  <2> QED
    BY <1>1, <1>2, <2>1, Placed
<1>3. ASSUME Program!Fails, Program!Go(p, "dialog"), mishaps' = mishaps \cup {"failed"},
             UNCHANGED <<installed, stamp, last>>
      PROVE  ProgramInv'
  BY <1>1, <1>3, FailedKeeps
<1> QED
  BY <1>2, <1>3

\* A step that changes several processes, and nobody's child.
LEMMA OrderlyTogether ==
  ASSUME NEW f, Orderly(f), NEW g \in [Programs -> Program!Process],
         \A q \in Programs :
           /\ Fits(g[q]) /\ g[q].child = f[q].child /\ g[q].mode = f[q].mode
           /\ f[q].at \in {"waiting", "relaying"} => g[q].at = f[q].at
           /\ f[q].at # "off" => g[q].at # "off"
           /\ f[q].place \in {"installed", "parked"} => g[q].place \in {"installed", "parked"}
  PROVE  Orderly(g)
<1>1. ASSUME NEW q \in Programs PROVE WaitsIn(g, q)
  <2>1. f[q].child \in Programs \cup {NoProc} /\ WaitsIn(f, q)
    BY ProcessFields DEF Orderly
  <2> QED
    BY <2>1 DEF WaitsIn
<1> QED
  BY <1>1 DEF Orderly

LEMMA RenameOldKeeps ==
  ASSUME ProgramInv, NEW p \in Programs, Program!RenameOld(p)
  PROVE  ProgramInv'
<1> USE DEF Program!RenameOld
<1>1. proc[p].at = "dance" /\ proc[p] \in Program!Process
  BY ProgramTypes
<1>2. ASSUME parked' = IF installed > 0 THEN installed
                       ELSE IF Program!Locked("parked") THEN parked ELSE 0,
             installed' = 0, Program!NoFault, UNCHANGED mishaps,
             proc' = [q \in Programs |->
               IF q = p THEN [proc[q] EXCEPT !.at = "renamed"]
               ELSE IF proc[q].place = "installed" THEN [proc[q] EXCEPT !.place = "parked"]
               ELSE proc[q]]
      PROVE  ProgramInv'
  <2> DEFINE g == [q \in Programs |->
               IF q = p THEN [proc[q] EXCEPT !.at = "renamed"]
               ELSE IF proc[q].place = "installed" THEN [proc[q] EXCEPT !.place = "parked"]
               ELSE proc[q]]
  <2>0. UNCHANGED <<stamp, legacy, run_key, uninstall_key, shortcut, portable, doomed, wanted,
                    last, launches>>
    OBVIOUS
  <2> HIDE DEF Program!RenameOld
  <2>1. ASSUME NEW q \in Programs
        PROVE  /\ g[q] \in Program!Process /\ Fits(g[q])
               /\ g[q].child = proc[q].child /\ g[q].mode = proc[q].mode /\ g[q].ver = proc[q].ver
               /\ q = p => g[q].at = "renamed"
               /\ q # p => g[q].at = proc[q].at
               /\ proc[q].place \in {"installed", "parked"} => g[q].place \in {"installed", "parked"}
    <3>1. proc[q] \in Program!Process /\ Fits(proc[q])
      BY ProgramTypes DEF Orderly
    <3>2. CASE q = p
      <4> DEFINE r == [proc[p] EXCEPT !.at = "renamed"]
      <4>1. "renamed" \in Program!At \ {"off", "waiting", "relaying"} /\ proc[p].mode \in Dialogs
        BY <1>1, ProgramTypes DEF Program!At, Orderly, Fits
      <4>2. Fits(r)
        BY <1>1, <4>1, GoneFits
      <4>3. /\ r \in Program!Process /\ r.child = proc[p].child /\ r.mode = proc[p].mode
            /\ r.ver = proc[p].ver /\ r.at = "renamed" /\ r.place = proc[p].place
        BY <1>1, <4>1 DEF Program!Process
      <4>4. g[q] = r
        BY <3>2
      <4> HIDE DEF r, g
      <4> QED
        BY <3>2, <4>2, <4>3, <4>4
    <3>3. CASE q # p /\ proc[q].place = "installed"
      <4> DEFINE r == [proc[q] EXCEPT !.place = "parked"]
      <4>1. "parked" \in Program!Place
        BY DEF Program!Place
      <4>2. /\ r \in Program!Process /\ r.child = proc[q].child /\ r.mode = proc[q].mode
            /\ r.ver = proc[q].ver /\ r.at = proc[q].at /\ r.place = "parked"
        BY <3>1, <4>1 DEF Program!Process
      <4>3. g[q] = r
        BY <3>3
      <4>4. proc[q].at # "off"
        BY <3>1, <3>3 DEF Fits, Program!Off
      <4> HIDE DEF r, g
      <4>5. Fits(r)
        BY <3>1, <3>3, <4>2, <4>4 DEF Fits
      <4> QED
        BY <3>3, <4>2, <4>3, <4>5
    <3>4. CASE q # p /\ proc[q].place # "installed"
      BY <3>1, <3>4
    <3> QED
      BY <3>2, <3>3, <3>4
  <2>2. proc' = g
    BY <1>2
  <2>3. g \in [Programs -> Program!Process]
    BY <2>1
  <2> HIDE DEF g
  <2>4. Orderly(proc')
    <3>1. Orderly(proc)
      BY ProgramTypes
    <3>2. Orderly(g)
      BY <1>1, <2>1, <2>3, <3>1, OrderlyTogether
    <3> QED
      BY <2>2, <3>2
  <2>5. proc'[p].at = "renamed"
    BY <2>1, <2>2
  <2>6. SomeHope'
    BY <2>5 DEF SomeHope, Hopes
  <2>7. Entries'
    BY <1>2, <2>0, <2>5 DEF ProgramInv, Entries
  <2>8. Versions'
    <3>1. \A q \in Programs : IsDialog(proc'[q]) => IsDialog(proc[q]) /\ proc'[q].ver = proc[q].ver
      BY <2>1, <2>2 DEF IsDialog
    <3> QED
      BY <1>2, <2>0, <2>5, <3>1 DEF ProgramInv, Versions, Program!Spared
  <2>9. installed' \in 0..Newest /\ parked' \in 0..Newest
    BY <1>2, ProgramTypes, InstallAssumption
  <2>10. p_faults' \in 0..MaxFaults
    BY <1>2, ProgramFaults
  <2>11. Program!TypeOK'
    BY <1>2, <2>0, <2>4, <2>9, <2>10, ProgramTypes, ProgramTypesTogether
  <2> QED
    BY <2>4, <2>6, <2>7, <2>8, <2>11 DEF ProgramInv
<1>3. ASSUME Program!NoFault \/ Program!Fails, Program!Go(p, "dialog"),
             mishaps' = mishaps \cup {"failed"}, UNCHANGED <<installed, parked>>
      PROVE  ProgramInv'
  BY <1>1, <1>3, FailedKeeps
<1> QED
  BY <1>2, <1>3

LEMMA RegisterKeeps ==
  ASSUME ProgramInv, NEW p \in Programs, Program!Register(p)
  PROVE  ProgramInv'
<1> USE DEF Program!Register
<1>1. proc[p].at = "registering"
  OBVIOUS
<1>2. /\ UNCHANGED <<installed, parked, stamp, legacy, doomed, wanted, last, launches>>
      /\ portable' = FALSE /\ shortcut' \in {TRUE, shortcut} /\ uninstall_key' = "installed"
      /\ run_key' \in {run_key, "installed", "none"}
  BY DEF Program!set_autostart, Program!create_shortcuts, Program!write_uninstall_registry
<1>3. \/ /\ installed > 0 /\ Program!NoFault /\ UNCHANGED mishaps
         /\ \E q \in Programs :
              /\ proc[q].at = "off"
              /\ proc' = [Program!Without({p}, 0) EXCEPT
                           ![q] = Program!Spawned("installed", installed, "tray", NoProc)]
      \/ /\ Program!NoFault \/ Program!Fails
         /\ mishaps' = mishaps \cup {"failed"}
         /\ Program!Ends(p, 0)
  OBVIOUS
<1> HIDE DEF Program!Register
<1>4. "legacy" \in {run_key', uninstall_key'} => legacy' > 0 \/ "stale" \in mishaps'
  BY <1>2, <1>3 DEF ProgramInv, Entries
<1>5. ASSUME Orderly(proc'), SomeHope', Versions', Entries', mishaps' \in SUBSET Mishap,
             Program!NoFault \/ Program!Fails
      PROVE  ProgramInv'
  <2>1. run_key' \in Pointed /\ uninstall_key' \in Pointed
    BY <1>2, ProgramTypes DEF Pointed
  <2>2. shortcut' \in BOOLEAN /\ portable' \in BOOLEAN
    BY <1>2, ProgramTypes, Zenon
  <2>3. p_faults' \in 0..MaxFaults
    BY <1>5, ProgramFaults
  <2>4. Program!TypeOK'
    BY <1>2, <1>5, <2>1, <2>2, <2>3, ProgramTypes, ProgramTypesTogether
  <2> QED
    BY <1>5, <2>4 DEF ProgramInv
<1>6. ASSUME Program!NoFault \/ Program!Fails, mishaps' = mishaps \cup {"failed"},
             Program!Ends(p, 0)
      PROVE  ProgramInv'
  <2>1. Orderly(proc')
    BY <1>6, EndLeaves
  <2>2. SomeHope' /\ Versions'
    BY <1>6 DEF SomeHope, Versions, Program!Spared
  <2>3. Entries'
    BY <1>4, <1>6 DEF Entries, Program!Spared
  <2>4. mishaps' \in SUBSET Mishap
    BY <1>6, ProgramTypes DEF Mishap
  <2> QED
    BY <1>5, <1>6, <2>1, <2>2, <2>3, <2>4
<1>7. ASSUME installed > 0, Program!NoFault, UNCHANGED mishaps,
             NEW q \in Programs, proc[q].at = "off",
             proc' = [Program!Without({p}, 0) EXCEPT
                       ![q] = Program!Spawned("installed", installed, "tray", NoProc)]
      PROVE  ProgramInv'
  <2> DEFINE S == {p}
             f == Program!Without(S, 0)
             r == Program!Spawned("installed", installed, "tray", NoProc)
  <2>1. S \in SUBSET Programs /\ proc' = [f EXCEPT ![q] = r] /\ \A s : s \in S <=> s = p
    BY <1>7
  <2>2. r \in Program!Process /\ Fits(r) /\ r.child = NoProc /\ r.mode = "tray" /\ Hopes(r)
    <3>1. installed \in 1..Newest /\ NoProc \in Programs \cup {NoProc}
      BY <1>7, ProgramTypes
    <3> QED
      BY <3>1, SpawnedFits
  <2> HIDE DEF S, r
  <2>3. /\ Orderly(f)
        /\ \A s \in Programs : IsDialog(f[s]) => IsDialog(proc[s]) /\ f[s].ver = proc[s].ver
        /\ \A s \in Programs \ S : proc[s].at \notin {"waiting", "relaying"} => f[s].at = proc[s].at
    <3>1. S \in SUBSET Programs
      BY <2>1
    <3> HIDE DEF Program!Spawned
    <3> QED
      BY <3>1, EndsLeaves
  <2>4. f[q].at = "off"
    BY <2>1, <1>7, WithoutEach, OffFits
  <2> HIDE DEF f
  <2>5. Orderly(proc')
    <3>1. Orderly([f EXCEPT ![q] = r])
      BY <2>2, <2>3, <2>4, SpawnedIn
    <3> QED
      BY <2>1, <3>1
  <2>6. proc'[q] = r /\ \A s \in Programs \ {q} : proc'[s] = f[s]
    BY <2>1, <2>3 DEF Orderly
  <2>7. SomeHope'
    BY <2>2, <2>6 DEF SomeHope
  <2>8. Versions'
    <3>1. \A s \in Programs : IsDialog(proc'[s]) => IsDialog(proc[s]) /\ proc'[s].ver = proc[s].ver
      BY <2>2, <2>3, <2>6 DEF IsDialog
    <3>2. \A s \in Programs : proc[s].at \in {"dance", "renamed"} => proc'[s].at = proc[s].at
      <4> SUFFICES ASSUME NEW s \in Programs, proc[s].at \in {"dance", "renamed"}
                   PROVE  proc'[s].at = proc[s].at
        OBVIOUS
      <4>1. s # q /\ s \notin S
        BY <1>1, <1>7, <2>1
      <4> QED
        BY <2>3, <2>6, <4>1
    <3> QED
      BY <1>2, <1>7, <3>1, <3>2, VersionsKeep
  <2>9. Entries'
    BY <1>2, <1>4, <1>7 DEF Entries
  <2> QED
    BY <1>5, <1>7, <2>5, <2>7, <2>8, <2>9, ProgramTypes
<1> QED
  BY <1>3, <1>6, <1>7

LEMMA PortableKeeps ==
  ASSUME ProgramInv, NEW p \in Programs, Program!do_portable(p)
  PROVE  ProgramInv'
<1> USE DEF Program!do_portable
<1>1. /\ proc[p].at = "dialog" /\ Program!Ends(p, 1) /\ portable' \in {TRUE, portable}
      /\ UNCHANGED <<installed, parked, stamp, legacy, run_key, uninstall_key, shortcut,
                     doomed, wanted, last, mishaps, p_faults, launches>>
  OBVIOUS
<1>2. ~Hopes(proc[p])
  BY <1>1, ProgramTypes DEF Hopes, Orderly, Fits
<1>3. Orderly(proc') /\ Entries' /\ Versions' /\ SomeHope'
  BY <1>1, <1>2, EndsKeeps, EndsHope
<1>4. portable' \in BOOLEAN
  BY <1>1, ProgramTypes, Zenon
<1>5. Program!TypeOK'
  BY <1>1, <1>3, <1>4, ProgramTypes, ProgramTypesTogether
<1> QED
  BY <1>3, <1>5 DEF ProgramInv

LEMMA StopInstanceKeeps ==
  ASSUME ProgramInv, NEW p \in Programs, Program!stop_running_instance(p)
  PROVE  ProgramInv'
<1> USE DEF Program!stop_running_instance
<1> DEFINE g == [q \in Programs |-> IF q = p THEN [proc[q] EXCEPT !.at = "unregistering"]
                             ELSE IF proc[q].at = "tray" THEN [proc[q] EXCEPT !.at = "closing"]
                             ELSE proc[q]]
<1>1. /\ proc[p].at = "stopping" /\ proc' = g /\ wanted' = FALSE
      /\ UNCHANGED <<installed, parked, stamp, legacy, run_key, uninstall_key, shortcut,
                     portable, doomed, last, mishaps, p_faults, launches>>
  OBVIOUS
<1> HIDE DEF Program!stop_running_instance
<1>2. ASSUME NEW q \in Programs, NEW x \in {"unregistering", "closing"},
             x = "unregistering" <=> q = p, x = "closing" => proc[q].at = "tray",
             g[q] = [proc[q] EXCEPT !.at = x]
      PROVE  /\ g[q] \in Program!Process /\ Fits(g[q])
             /\ g[q].child = proc[q].child /\ g[q].mode = proc[q].mode /\ g[q].ver = proc[q].ver
             /\ g[q].place = proc[q].place /\ g[q].at = x
  <2> DEFINE r == [proc[q] EXCEPT !.at = x]
  <2>1. /\ proc[q] \in Program!Process /\ x \in Program!At \ {"off", "waiting", "relaying"}
        /\ x = "unregistering" => proc[q].mode = "uninstall"
        /\ x = "closing" => proc[q].mode = "tray"
        /\ proc[q].at # "off"
    BY <1>1, <1>2, ProgramTypes DEF Program!At, Orderly, Fits
  <2>2. Fits(r)
    BY <2>1, GoneFits
  <2>3. r \in Program!Process
    BY <2>1 DEF Program!Process
  <2>4. /\ r.child = proc[q].child /\ r.mode = proc[q].mode /\ r.ver = proc[q].ver
        /\ r.place = proc[q].place /\ r.at = x
    BY <2>1, GoneFields
  <2>5. g[q] = r
    BY <1>2
  <2> HIDE DEF g, r
  <2> QED
    BY <2>2, <2>3, <2>4, <2>5
<1>3. ASSUME NEW q \in Programs
      PROVE  /\ g[q] \in Program!Process /\ Fits(g[q])
             /\ g[q].child = proc[q].child /\ g[q].mode = proc[q].mode /\ g[q].ver = proc[q].ver
             /\ g[q].place = proc[q].place
             /\ g[q].at = proc[q].at
                \/ (proc[q].at \in {"stopping", "tray"} /\ g[q].at \in {"unregistering", "closing"})
  <2>1. CASE q = p
    <3>1. g[q] = [proc[q] EXCEPT !.at = "unregistering"]
      BY <2>1
    <3> HIDE DEF g
    <3> QED
      BY <1>1, <1>2, <2>1, <3>1
  <2>2. CASE q # p /\ proc[q].at = "tray"
    <3>1. g[q] = [proc[q] EXCEPT !.at = "closing"]
      BY <2>2
    <3> HIDE DEF g
    <3> QED
      BY <1>2, <2>2, <3>1
  <2>3. CASE q # p /\ proc[q].at # "tray"
    <3>1. g[q] = proc[q]
      BY <2>3
    <3> QED
      BY <3>1, ProgramTypes DEF Orderly
  <2> QED
    BY <2>1, <2>2, <2>3
<1>4. g \in [Programs -> Program!Process]
  BY <1>3
<1> HIDE DEF g
<1>5. Orderly(proc')
  <2>1. Orderly(proc)
    BY ProgramTypes
  <2>2. Orderly(g)
    BY <1>3, <1>4, <2>1, OrderlyTogether
  <2> QED
    BY <1>1, <2>2
<1>6. SomeHope'
  BY <1>1 DEF SomeHope
<1>7. \A q \in Programs : proc[q].at \in {"dance", "renamed"} => proc'[q].at = proc[q].at
  BY <1>1, <1>3
<1>8. Entries'
  BY <1>1, <1>7, EntriesKeep
<1>9. Versions'
  <2>1. \A q \in Programs : IsDialog(proc'[q]) => IsDialog(proc[q]) /\ proc'[q].ver = proc[q].ver
    BY <1>1, <1>3 DEF IsDialog
  <2> QED
    BY <1>1, <1>7, <2>1, VersionsKeep
<1>10. Program!TypeOK'
  BY <1>1, <1>5, ProgramTypes, ProgramTypesTogether
<1> QED
  BY <1>5, <1>6, <1>8, <1>9, <1>10 DEF ProgramInv

LEMMA RemoveEntriesKeeps ==
  ASSUME ProgramInv, NEW p \in Programs, Program!remove_entries(p)
  PROVE  ProgramInv'
<1> USE DEF Program!remove_entries
<1>1. /\ proc[p].at = "unregistering" /\ Program!Go(p, "unregistered")
      /\ UNCHANGED <<installed, parked, stamp, legacy, portable, doomed, wanted, last, launches>>
      /\ run_key' \in {run_key, "none"} /\ uninstall_key' \in {uninstall_key, "none"}
      /\ shortcut' \in {shortcut, FALSE} /\ mishaps' \in {mishaps, mishaps \cup {"failed"}}
      /\ Program!NoFault \/ Program!Fails
  BY DEF Program!set_autostart, Program!delete_uninstall_registry
<1> HIDE DEF Program!remove_entries
<1>2. "unregistered" \in Program!At \ {"off", "waiting", "relaying"} /\ proc[p] \in Program!Process
      /\ proc[p].mode = "uninstall"
  BY <1>1, ProgramTypes DEF Program!At, Orderly, Fits
<1>3. Fits([proc[p] EXCEPT !.at = "unregistered"])
  BY <1>1, <1>2, GoneFits
<1>4. ~Hopes(proc[p])
  BY <1>1, <1>2 DEF Hopes
<1>5. /\ Orderly(proc') /\ \A q \in Programs \ {p} : proc'[q] = proc[q]
      /\ \A q \in Programs : IsDialog(proc'[q]) => IsDialog(proc[q]) /\ proc'[q].ver = proc[q].ver
  BY <1>1, <1>2, <1>3, GoKeeps
<1>6. mishaps \subseteq mishaps' /\ mishaps' \in SUBSET Mishap
  BY <1>1, ProgramTypes DEF Mishap
<1>7. SomeHope'
  BY <1>1, <1>4, <1>6, HopeGoes
<1>8. \A q \in Programs : proc[q].at \in {"dance", "renamed"} => proc'[q].at = proc[q].at
  BY <1>1, <1>5
<1>9. Versions'
  BY <1>1, <1>5, <1>6, <1>8, VersionsKeep
<1>10. Entries'
  <2>1. Program!Spared({"failed", "raced", "portable"})' => Program!Spared({"failed", "raced", "portable"})
    BY <1>6 DEF Program!Spared
  <2>2. Program!Points' => Program!Points
    BY <1>1 DEF Program!Points
  <2>3. "legacy" \in {run_key', uninstall_key'} => legacy' > 0 \/ "stale" \in mishaps'
    BY <1>1, <1>6 DEF ProgramInv, Entries
  <2> QED
    BY <1>1, <1>8, <2>1, <2>2, <2>3 DEF ProgramInv, Entries
<1>11. run_key' \in Pointed /\ uninstall_key' \in Pointed
  BY <1>1, ProgramTypes DEF Pointed
<1>12. shortcut' \in BOOLEAN
  BY <1>1, ProgramTypes, Zenon
<1>13. p_faults' \in 0..MaxFaults
  BY <1>1, ProgramFaults
<1>14. Program!TypeOK'
  BY <1>1, <1>5, <1>6, <1>11, <1>12, <1>13, ProgramTypes, ProgramTypesTogether
<1> QED
  BY <1>5, <1>7, <1>9, <1>10, <1>14 DEF ProgramInv

LEMMA RmdirKeeps == ProgramInv /\ Program!Rmdir => ProgramInv'
<1> SUFFICES ASSUME ProgramInv, Program!Rmdir PROVE ProgramInv'
  OBVIOUS
<1> USE DEF Program!Rmdir
<1>1. /\ doomed' = FALSE /\ stamp' = 0 /\ installed' \in {installed, 0} /\ parked' \in {parked, 0}
      /\ last' = installed'
      /\ UNCHANGED <<legacy, run_key, uninstall_key, shortcut, portable, proc, wanted,
                     p_faults, launches>>
  OBVIOUS
<1>2. /\ mishaps' \in SUBSET Mishap /\ mishaps \subseteq mishaps'
      /\ Program!Points => "raced" \in mishaps'
      /\ installed' > 0 => "unstamped" \in mishaps'
  BY ProgramTypes DEF Mishap
<1> HIDE DEF Program!Rmdir
<1>3. installed' \in 0..Newest /\ parked' \in 0..Newest /\ stamp' \in 0..Newest
  BY <1>1, ProgramTypes, InstallAssumption
<1>4. SomeHope' /\ Orderly(proc')
  BY <1>1, <1>2, ProgramTypes DEF ProgramInv, SomeHope, Program!Spared
<1>5. Entries'
  BY <1>1, <1>2 DEF ProgramInv, Entries, Program!Spared, Program!Points
<1>6. Versions'
  <2> SUFFICES ASSUME Program!Spared({"failed", "raced", "unstamped"})'
               PROVE  /\ \A r, q \in Programs : IsDialog(proc[r]) /\ IsDialog(proc[q]) => r = q
                      /\ stamp' = last'
                      /\ \A q \in Programs : IsDialog(proc[q]) => proc[q].ver >= last'
    BY <1>1 DEF Versions
  <2>1. installed' = 0
    BY <1>2, <1>3, InstallAssumption DEF Program!Spared
  <2>2. \A q \in Programs : proc[q].ver >= 0
    BY ProgramTypes, ProcessFields, InstallAssumption
  <2>3. \A r, q \in Programs : IsDialog(proc[r]) /\ IsDialog(proc[q]) => r = q
    BY <1>2 DEF ProgramInv, Versions, Program!Spared
  <2> QED
    BY <1>1, <2>1, <2>2, <2>3
<1>7. Program!TypeOK'
  BY <1>1, <1>2, <1>3, <1>4, ProgramTypes, ProgramTypesTogether
<1> QED
  BY <1>4, <1>5, <1>6, <1>7 DEF ProgramInv

LEMMA ProgramUnchanged == ProgramInv /\ UNCHANGED programVars => ProgramInv'
<1> SUFFICES ASSUME ProgramInv, UNCHANGED programVars PROVE ProgramInv'
  OBVIOUS
<1>1. /\ UNCHANGED <<installed, parked, stamp, legacy, run_key, uninstall_key, shortcut,
                     portable, doomed, proc, wanted, last, mishaps, p_faults, launches>>
  BY DEF programVars
<1>2. Orderly(proc') /\ SomeHope'
  BY <1>1, ProgramTypes DEF ProgramInv, SomeHope, Program!Spared
<1>3. Entries'
  BY <1>1, EntriesKeep
<1>4. Versions'
  BY <1>1, VersionsKeep
<1>5. Program!TypeOK'
  BY <1>1, <1>2, ProgramTypes, ProgramTypesTogether
<1> QED
  BY <1>2, <1>3, <1>4, <1>5 DEF ProgramInv

\* Every step of the sum keeps the invariant.
LEMMA ProgramStep == ProgramInv /\ [AllNext]_allVars => ProgramInv'
<1> SUFFICES ASSUME ProgramInv, [AllNext]_allVars PROVE ProgramInv'
  OBVIOUS
<1>1. ASSUME NEW p \in Programs, Program!Start(p) \/ Program!StartUninstall(p)
      PROVE  ProgramInv'
  BY <1>1, StartKeeps, StartUninstallKeeps
<1>2. ASSUME NEW p \in Programs,
             \/ Program!kill_other_immichsync_processes(p) \/ Program!cleanup_legacy_install(p)
             \/ Program!Dispatch(p) \/ Program!install_or_relaunch(p) \/ Program!acquire(p)
      PROVE  ProgramInv'
  BY <1>2, KillOthersKeeps, CleanupKeeps, DispatchKeeps, RelaunchKeeps, AcquireKeeps
<1>3. ASSUME NEW p \in Programs,
             \/ Program!spawn_window_subprocess(p) \/ Program!CloseWindow(p)
             \/ Program!SaveSettings(p) \/ Program!Quit(p) \/ Program!Closed(p)
             \/ Program!schedule_self_delete(p)
      PROVE  ProgramInv'
  BY <1>3, SpawnWindowKeeps, CloseWindowEnds, SaveSettingsKeeps, QuitKeeps
<1>4. ASSUME NEW p \in Programs,
             \/ Program!ClickInstall(p) \/ Program!install_exe(p) \/ Program!RenameOld(p)
             \/ Program!CopyNew(p) \/ Program!Register(p) \/ Program!do_portable(p)
      PROVE  ProgramInv'
  BY <1>4, ClickInstallKeeps, InstallExeKeeps, RenameOldKeeps, CopyNewKeeps, RegisterKeeps,
     PortableKeeps
<1>5. ASSUME NEW p \in Programs, Program!stop_running_instance(p) \/ Program!remove_entries(p)
      PROVE  ProgramInv'
  BY <1>5, StopInstanceKeeps, RemoveEntriesKeeps
<1>6. ProgramNext => ProgramInv'
  BY <1>1, <1>2, <1>3, <1>4, <1>5, RmdirKeeps DEF ProgramNext
<1>7. DataNext \/ StepsNext \/ UNCHANGED allVars => UNCHANGED programVars
  BY DEF DataNext, StepsNext, InData, InSteps, allVars
<1> QED
  BY <1>6, <1>7, ProgramUnchanged DEF AllNext

LEMMA ProgramInvariant == AllSpec => []ProgramInv
<1>1. AllInit => ProgramInv
  BY InitProgram DEF AllInit
<1> QED
  BY <1>1, ProgramStep, PTL DEF AllSpec

\* The step that changes the installed program to another is a dialog's copy.
LEMMA OnlyDialogsInstall ==
  ProgramInv /\ [AllNext]_allVars /\ installed' > 0 /\ installed' # installed =>
    \E p \in Programs : IsDialog(proc[p]) /\ installed' = proc[p].ver
<1> SUFFICES ASSUME ProgramInv, [AllNext]_allVars, installed' > 0, installed' # installed
             PROVE  \E p \in Programs : IsDialog(proc[p]) /\ installed' = proc[p].ver
  OBVIOUS
<1>1. PICK p \in Programs : Program!install_exe(p) \/ Program!CopyNew(p) \/ Program!RenameOld(p)
                            \/ Program!Rmdir
  <2>1. ProgramNext
    BY DEF AllNext, DataNext, StepsNext, InData, InSteps, allVars, programVars
  <2>2. \A p \in Programs :
          /\ ~Program!Start(p) /\ ~Program!StartUninstall(p)
          /\ ~Program!kill_other_immichsync_processes(p) /\ ~Program!cleanup_legacy_install(p)
          /\ ~Program!Dispatch(p) /\ ~Program!install_or_relaunch(p) /\ ~Program!acquire(p)
    BY DEF Program!Start, Program!StartUninstall, Program!kill_other_immichsync_processes,
       Program!cleanup_legacy_install, Program!Dispatch, Program!install_or_relaunch,
       Program!acquire
  <2>3. \A p \in Programs :
          /\ ~Program!spawn_window_subprocess(p) /\ ~Program!CloseWindow(p)
          /\ ~Program!SaveSettings(p) /\ ~Program!Quit(p) /\ ~Program!Closed(p)
          /\ ~Program!ClickInstall(p) /\ ~Program!Register(p) /\ ~Program!do_portable(p)
    BY DEF Program!spawn_window_subprocess, Program!CloseWindow, Program!SaveSettings,
       Program!Quit, Program!Closed, Program!ClickInstall, Program!Register,
       Program!do_portable
  <2>4. \A p \in Programs :
          /\ ~Program!stop_running_instance(p) /\ ~Program!remove_entries(p)
          /\ ~Program!schedule_self_delete(p)
    BY DEF Program!stop_running_instance, Program!remove_entries, Program!schedule_self_delete
  <2>5. ~Program!Rmdir
    BY ProgramTypes, InstallAssumption DEF Program!Rmdir
  <2> QED
    BY <2>1, <2>2, <2>3, <2>4, <2>5 DEF ProgramNext
<1>2. ~Program!Rmdir /\ ~Program!RenameOld(p)
  BY ProgramTypes, InstallAssumption DEF Program!Rmdir, Program!RenameOld
<1>3. proc[p].at \in {"copying", "renamed"} /\ installed' = proc[p].ver
  BY <1>1, <1>2 DEF Program!install_exe, Program!CopyNew
<1>4. IsDialog(proc[p])
  BY <1>3, ProgramTypes DEF Orderly, Fits, IsDialog
<1> QED
  BY <1>3, <1>4

----------------------------------------------------------------------------
(* The theorems about the program on the disk.                             *)

\* The model's type invariant, and who waits for whom (main.rs:259-372).
THEOREM ProgramTypeCorrect == AllSpec => [](Program!TypeOK /\ Orderly(proc))
<1>1. ProgramInv => Program!TypeOK /\ Orderly(proc)
  BY DEF ProgramInv
<1> QED
  BY <1>1, ProgramInvariant, PTL

\* Whoever starts the program has a tray when all is done, for any number of
\* processes, launches and failures: every step of a process that was to become
\* a tray leaves one that still is - itself, its dialog, or the copy that the
\* dialog starts - unless one of the named mishaps has happened.
THEOREM TheProgramComesUp == AllSpec => []ProgramComesUp
<1>1. ProgramInv => ProgramComesUp
  <2> SUFFICES ASSUME ProgramInv, Program!Quiet, wanted,
                      Program!Spared({"orphan", "failed", "late"})
               PROVE  \E q \in Programs : proc[q].at \in {"tray", "old"}
    BY DEF ProgramComesUp, Program!ProgramComesUp
  <2>1. PICK q \in Programs : Hopes(proc[q])
    BY DEF ProgramInv, SomeHope
  <2>2. proc[q].at \in {"off", "tray", "old", "window"} /\ Fits(proc[q])
    BY ProgramTypes DEF Program!Quiet, Orderly
  <2> QED
    BY <2>1, <2>2, OffFits DEF Hopes, Fits
<1> QED
  BY <1>1, ProgramInvariant, PTL

\* The shortcuts, the autostart and the Apps & Features entry point at a
\* program that is there whenever nothing is under way, and none points at a
\* legacy program that is gone unless its own cleanup failed
\* (install.rs:633-745).
THEOREM TheEntriesHaveProgram == AllSpec => []EntriesHaveProgram
<1>1. ProgramInv => EntriesHaveProgram
  <2> SUFFICES ASSUME ProgramInv, Program!Quiet
               PROVE  /\ Program!Spared({"failed", "raced", "portable"}) /\ Program!Points => installed > 0
                      /\ "stale" \notin mishaps /\ "legacy" \in {run_key, uninstall_key} => legacy > 0
    BY DEF EntriesHaveProgram, Program!EntriesHaveProgram, Program!Spared
  <2>1. \A q \in Programs : proc[q].at # "renamed"
    BY DEF Program!Quiet
  <2> QED
    BY <2>1 DEF ProgramInv, Entries
<1> QED
  BY <1>1, ProgramInvariant, PTL

\* No step puts an older program in the place of a newer one, unless two
\* dialogs were up at once or version.txt was not that of the program beside it
\* (install.rs:136-153).
THEOREM NothingIsDowngraded == AllSpec => NoDowngrade
<1>1. ProgramInv /\ [AllNext]_allVars =>
        [installed' > 0 /\ installed' # installed =>
           installed' >= last \/ ~Program!Spared({"failed", "raced", "unstamped"})]_(Program!vars)
  <2> SUFFICES ASSUME ProgramInv, [AllNext]_allVars, installed' > 0, installed' # installed,
                      Program!Spared({"failed", "raced", "unstamped"})
               PROVE  installed' >= last
    OBVIOUS
  <2>1. PICK p \in Programs : IsDialog(proc[p]) /\ installed' = proc[p].ver
    BY OnlyDialogsInstall
  <2> QED
    BY <2>1 DEF ProgramInv, Versions
<1> QED
  BY <1>1, ProgramInvariant, PTL DEF AllSpec, NoDowngrade, Program!NoDowngrade

----------------------------------------------------------------------------
(* And the schema's theorems hold in the sum, which the run checks.        *)

\* The sum's steps are the schema's, or leave it alone.
LEMMA StepsImplement == AllSpec => Spec
<1>1. AllInit => Init
  BY DEF AllInit
<1>2. [AllNext]_allVars => [Next]_vars
  <2>1. StepsNext => Next
    BY DEF StepsNext, InSteps, Next
  <2>2. ProgramNext \/ DataNext \/ UNCHANGED allVars => UNCHANGED vars
    BY DEF ProgramNext, DataNext, InProgram, InData, allVars
  <2> QED
    BY <2>1, <2>2 DEF AllNext
<1> QED
  BY <1>1, <1>2, PTL DEF AllSpec, Spec

\* NeverStuck and SchemaIsThere in the sum.
THEOREM SchemaInTheSum == AllSpec => [](NeverStuck /\ SchemaIsThere)
  BY StepsImplement, NoStartIsStuck, SchemaIsWhole, PTL
=============================================================================
