------------------------------ MODULE MCInstall ------------------------------
(***************************************************************************)
(* Three machines for TLC, one at a time: the schema of the database       *)
(* (Schema), the program on a Windows disk (Installer) and the database on *)
(* its way from a legacy install (Migration).  `part` says which of them   *)
(* moves; they share no state, and each has processes of its own.          *)
(***************************************************************************)
EXTENDS Schema, TLC

CONSTANTS
  Programs,   \* processes of the program; Proc are those that open the database
  NoProc, Newest, MaxLaunches, \* Installer's
  MaxCommits,
  MaxStarts,  \* Migration's MaxLaunches
  x1, x2, x3, q1, q2

ASSUME InstallAssumption ==
  /\ NoProc \notin Programs
  /\ Newest \in Nat /\ Newest >= 2
  /\ {MaxLaunches, MaxCommits, MaxStarts, MaxFaults} \subseteq Nat

VARIABLES
  part,
  installed, parked, stamp, legacy, run_key, uninstall_key, shortcut, portable,
  doomed, proc, wanted, last, mishaps, p_faults, launches,
  m_db, m_wal, m_exe, m_running, m_at, m_window, m_restarted, m_spoilt, m_missed,
  m_damaged, m_faults, m_launches

ThreePrograms == {x1, x2, x3}
TwoOpeners    == {q1, q2}
Symmetry == Permutations(Programs) \cup Permutations(Proc)

Program == INSTANCE Installer WITH Proc <- Programs, faults <- p_faults

Data == INSTANCE Migration WITH
  MaxLaunches <- MaxStarts,
  db <- m_db, wal <- m_wal, exe <- m_exe, running <- m_running, at <- m_at,
  window <- m_window, restarted <- m_restarted, spoilt <- m_spoilt, missed <- m_missed,
  damaged <- m_damaged, faults <- m_faults, launches <- m_launches

programVars == <<installed, parked, stamp, legacy, run_key, uninstall_key, shortcut,
                 portable, doomed, proc, wanted, last, mishaps, p_faults, launches>>
dataVars == <<m_db, m_wal, m_exe, m_running, m_at, m_window, m_restarted,
              m_spoilt, m_missed, m_damaged, m_faults, m_launches>>
allVars == <<part, vars, programVars, dataVars>>

AllInit ==
  /\ part \in {"steps", "program", "data"}
  /\ Init /\ (part = "steps" \/ version = 0)
  /\ Program!Init /\ (part = "program" \/ (legacy = 0 /\ installed = 0))
  /\ Data!Init /\ (part = "data" \/ \A d \in Data!Dir : m_db[d] = Data!None)

InSteps   == part = "steps" /\ UNCHANGED <<part, programVars, dataVars>>
InProgram == part = "program" /\ UNCHANGED <<part, vars, dataVars>>
InData    == part = "data" /\ UNCHANGED <<part, vars, programVars>>

ProgramNext ==
  \/ \E p \in Programs :
       \/ InProgram /\ Program!Start(p)
       \/ InProgram /\ Program!StartUninstall(p)
       \/ InProgram /\ Program!kill_other_immichsync_processes(p)
       \/ InProgram /\ Program!cleanup_legacy_install(p)
       \/ InProgram /\ Program!Dispatch(p)
       \/ InProgram /\ Program!install_or_relaunch(p)
       \/ InProgram /\ Program!acquire(p)
       \/ InProgram /\ Program!spawn_window_subprocess(p)
       \/ InProgram /\ Program!CloseWindow(p)
       \/ InProgram /\ Program!SaveSettings(p)
       \/ InProgram /\ Program!Quit(p)
       \/ InProgram /\ Program!Closed(p)
       \/ InProgram /\ Program!ClickInstall(p)
       \/ InProgram /\ Program!install_exe(p)
       \/ InProgram /\ Program!RenameOld(p)
       \/ InProgram /\ Program!CopyNew(p)
       \/ InProgram /\ Program!Register(p)
       \/ InProgram /\ Program!do_portable(p)
       \/ InProgram /\ Program!stop_running_instance(p)
       \/ InProgram /\ Program!remove_entries(p)
       \/ InProgram /\ Program!schedule_self_delete(p)
  \/ InProgram /\ Program!Rmdir

DataNext ==
  \/ \E d \in Data!Legacy :
       \/ InData /\ Data!LegacyStarts(d)
       \/ InData /\ Data!LegacyCommits(d)
       \/ InData /\ Data!LegacyCheckpoints(d)
       \/ InData /\ Data!LegacyQuits(d)
  \/ \E p \in Proc :
       \/ InData /\ Data!Launch(p)
       \/ InData /\ Data!Kill(p)
       \/ InData /\ Data!Remove(p)
       \/ InData /\ Data!migrate_pre_namespace_layout(p)
       \/ InData /\ Data!migrate_mixed_roaming_layout(p)
       \/ InData /\ Data!Open(p)
       \/ InData /\ Data!NewCommits(p)
       \/ InData /\ Data!NewCheckpoints(p)
       \/ InData /\ Data!CloseWindow(p)
       \/ InData /\ Data!ExitAtOnce(p)

StepsNext ==
  \E p \in Proc :
    \/ InSteps /\ StartTray(p)
    \/ InSteps /\ OpenLog(p)
    \/ InSteps /\ run_migrations(p)
    \/ InSteps /\ apply_migration(p)
    \/ InSteps /\ Opened(p)
    \/ InSteps /\ Exit(p)

\* The three modules' Next, action by action.
AllNext == ProgramNext \/ DataNext \/ StepsNext

AllSpec == AllInit /\ [][AllNext]_allVars

\* Whoever starts the program has a tray when all is done (Installer).
ProgramComesUp == Program!ProgramComesUp

\* Shortcuts and entries point at a program that is there (Installer).
EntriesHaveProgram == Program!EntriesHaveProgram

\* No old download replaces a newer program (Installer).
NoDowngrade == Program!NoDowngrade

\* The history of a legacy install arrives whole (Migration).
HistoryArrives == Data!HistoryArrives

\* No legacy log gets beside the new database (Migration).
NewDataIsKept == Data!NewDataIsKept
=============================================================================
