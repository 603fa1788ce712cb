------------------------------ MODULE Installer ------------------------------
(***************************************************************************)
(* The program on a Windows disk: what a launch does before it is a tray   *)
(* (src/src/main.rs), the cleanup of 0.1.x installs, the install and       *)
(* update dialog, the uninstaller (src/src/platform/install.rs,            *)
(* src/src/ui/install.rs, src/src/platform/uninstall.rs), and the          *)
(* processes that run meanwhile, which kill one another by name.           *)
(*                                                                         *)
(* An executable is a version: 0 is none, 1 is 0.1.x, which knows nothing  *)
(* of this.  A program that runs from a file keeps it from being replaced  *)
(* or removed, not from being renamed.                                     *)
(***************************************************************************)
EXTENDS Naturals, FiniteSets

CONSTANTS
  Proc, NoProc,
  Newest,       \* versions are 1..Newest
  MaxLaunches,  \* bound: programs the user starts
  MaxFaults     \* bound: file operations and spawns that fail

VARIABLES
  installed, parked,  \* immichsync.exe in Programs\immichsync, and its .exe.old
  stamp,              \* version.txt beside it
  legacy,             \* the executable of a legacy install
  run_key,            \* where the autostart entry points
  uninstall_key,      \* where the Apps & Features entry points
  shortcut,           \* one on the desktop or in the Start Menu, to the installed copy
  portable,           \* ui.portable_mode
  doomed,             \* a detached rmdir of the install directory is under way
  proc,               \* the processes
  wanted,             \* ghost: started by the user, and not quit since
  last,               \* ghost: the version last installed
  mishaps,            \* ghost: what went wrong, the properties' exceptions
  faults, launches

files == <<installed, parked, stamp, legacy>>
keys  == <<run_key, uninstall_key, shortcut>>
counts == <<faults, launches>>
vars == <<files, keys, portable, doomed, proc, wanted, last, mishaps, counts>>

Version == 0..Newest
Place   == {"installed", "parked", "legacy", "download"}
Mode    == {"tray", "install", "update", "window", "uninstall"} \* what it was started for
At      == {"off", "started", "killed", "dispatch", "waiting", "relaying", "instance",
            "tray", "closing", "window", "old", "dialog", "copying", "dance", "renamed",
            "registering", "stopping", "unregistering", "unregistered"}
Process == [place : Place, ver : Version, mode : Mode, at : At,
            child : Proc \cup {NoProc}, parent : Proc \cup {NoProc}]

TypeOK ==
  /\ installed \in Version /\ parked \in Version /\ stamp \in Version /\ legacy \in Version
  /\ run_key \in {"none", "legacy", "installed"}
  /\ uninstall_key \in {"none", "legacy", "installed"}
  /\ shortcut \in BOOLEAN /\ portable \in BOOLEAN /\ doomed \in BOOLEAN /\ wanted \in BOOLEAN
  /\ proc \in [Proc -> Process] /\ last \in Version
  /\ mishaps \in SUBSET {"orphan", "failed", "raced", "unstamped", "late", "portable",
                        "stale"}
  /\ faults \in 0..MaxFaults /\ launches \in 0..MaxLaunches

Off == [place |-> "download", ver |-> 0, mode |-> "tray", at |-> "off",
        child |-> NoProc, parent |-> NoProc]

\* A machine with a legacy install - left, or updated in its place by 0.1.x -
\* or with this one, or both, or none.
Init ==
  /\ legacy \in {0, 1, 2} /\ installed \in {0, 2} /\ stamp = installed /\ parked = 0
  /\ run_key \in {"none"} \cup (IF legacy > 0 THEN {"legacy"} ELSE {})
                          \cup (IF installed > 0 THEN {"installed"} ELSE {})
  /\ uninstall_key = IF installed > 0 THEN "installed" ELSE IF legacy > 0 THEN "legacy" ELSE "none"
  /\ shortcut \in {FALSE, installed > 0}
  /\ portable = FALSE /\ doomed = FALSE
  /\ proc = [p \in Proc |-> Off]
  /\ wanted = FALSE /\ last = installed /\ mishaps = {}
  /\ faults = 0 /\ launches = 0

Fails  == faults < MaxFaults /\ faults' = faults + 1
NoFault == faults' = faults

----------------------------------------------------------------------------
(* Processes.                                                              *)

Is(p, at) == proc[p].at = at
Locked(place) == \E p \in Proc : ~Is(p, "off") /\ proc[p].place = place

Go(p, at) == proc' = [proc EXCEPT ![p].at = at]

\* What runs once the processes of S have ended: a parent goes on, and leaves
\* when its dialog has installed or the instance it relaunched has ended.
Without(S, code) ==
  [q \in Proc |->
    IF q \in S THEN Off
    ELSE LET r == proc[q]
             up == IF r.parent \in S THEN NoProc ELSE r.parent
         IN IF r.child \notin S THEN [r EXCEPT !.parent = up]
            ELSE IF r.at = "relaying" \/ code = 0 THEN Off
            ELSE [r EXCEPT !.at = "instance", !.child = NoProc, !.parent = up]]

Ends(p, code) == proc' = Without({p}, code)

\* taskkill /F /FI "PID ne ..." /IM immichsync.exe
Others(p) == {q \in Proc \ {p} : ~Is(q, "off")}

Installing == {"copying", "dance", "renamed", "registering"}

Cut(S) == IF \E q \in S : proc[q].at \in Installing THEN {"raced"} ELSE {}

Spawned(place, ver, mode, parent) ==
  [place |-> place, ver |-> ver, mode |-> mode,
   at |-> IF ver = 1 THEN "old" ELSE "started", child |-> NoProc, parent |-> parent]

Image(place) == IF place = "installed" THEN installed ELSE legacy

\* Autostart is for the installed copy, whoever sets it.
set_autostart(enabled) == run_key' = IF enabled THEN "installed" ELSE "none"

write_uninstall_registry  == uninstall_key' = "installed"
delete_uninstall_registry == uninstall_key' = "none"

\* Where their boxes are ticked, and COM has no error.
create_shortcuts == shortcut' \in {TRUE, shortcut}

detect_legacy_installs == legacy > 0

\* The user, or the logon, starts the program.
Start(p) ==
  /\ Is(p, "off") /\ launches < MaxLaunches /\ launches' = launches + 1
  /\ \/ \E v \in 2..Newest : proc' = [proc EXCEPT ![p] = Spawned("download", v, "tray", NoProc)]
     \/ \E place \in {"installed", "legacy"} :
          /\ Image(place) > 0
          /\ proc' = [proc EXCEPT ![p] = Spawned(place, Image(place), "tray", NoProc)]
  /\ wanted' = TRUE
  /\ UNCHANGED <<files, keys, portable, doomed, last, mishaps, faults>>

\* Uninstall in Apps & Features.
StartUninstall(p) ==
  /\ Is(p, "off") /\ launches < MaxLaunches /\ launches' = launches + 1
  /\ uninstall_key = "installed" /\ installed > 0
  /\ proc' = [proc EXCEPT ![p] = Spawned("installed", installed, "uninstall", NoProc)]
  /\ wanted' = FALSE
  /\ UNCHANGED <<files, keys, portable, doomed, last, mishaps, faults>>

----------------------------------------------------------------------------
(* The start of every process.                                             *)

\* cleanup_legacy_install: where a legacy executable is, every other process
\* is killed, whatever it runs.
kill_other_immichsync_processes(p) ==
  /\ Is(p, "started")
  /\ IF ~detect_legacy_installs THEN Go(p, "dispatch") /\ UNCHANGED <<mishaps, faults>>
     ELSE \/ /\ NoFault
             /\ proc' = [Without(Others(p), 1) EXCEPT ![p].at = "killed"]
             /\ mishaps' = mishaps \cup Cut(Others(p)) \cup
                  (IF proc[p].mode \in {"window", "install", "update"} THEN {"orphan"} ELSE {})
          \/ Fails /\ Go(p, "killed") /\ UNCHANGED mishaps
  /\ UNCHANGED <<files, keys, portable, doomed, wanted, last, launches>>

\* Only what points into a legacy directory.
cleanup_stale_autostart ==
  IF run_key = "legacy" THEN set_autostart(FALSE) ELSE UNCHANGED run_key
cleanup_stale_uninstall_key ==
  IF uninstall_key = "legacy" THEN delete_uninstall_registry ELSE UNCHANGED uninstall_key

\* Mutant: the registry is left alone.
cleanup_binaries(p) ==
  /\ Is(p, "killed")
  /\ legacy' = (IF Locked("legacy") THEN legacy ELSE 0)
  /\ Go(p, "dispatch")
  /\ UNCHANGED <<installed, parked, stamp, keys, portable, doomed, wanted, last, mishaps, counts>>

remove_legacy_binary == legacy' = (IF Locked("legacy") THEN legacy ELSE 0)

\* Half a second later it is removed, and what points at it.  Each of the three
\* may fail, or not be come to by a process that is killed, and the others go
\* on; once the executable is gone no other start comes back to the entries.
cleanup_legacy_install(p) ==
  /\ Is(p, "killed")
  /\ \/ /\ NoFault
        /\ remove_legacy_binary /\ cleanup_stale_autostart /\ cleanup_stale_uninstall_key
     \/ /\ Fails
        /\ UNCHANGED legacy \/ remove_legacy_binary
        /\ UNCHANGED run_key \/ cleanup_stale_autostart
        /\ UNCHANGED uninstall_key \/ cleanup_stale_uninstall_key
  /\ mishaps' = mishaps \cup (IF legacy' = 0 /\ "legacy" \in {run_key', uninstall_key'}
                              THEN {"stale"} ELSE {})
  /\ Go(p, "dispatch")
  /\ UNCHANGED <<installed, parked, stamp, shortcut, portable, doomed, wanted, last, launches>>

\* cleanup_old_exe beside its own executable, and then what it was started for.
Dispatch(p) ==
  /\ Is(p, "dispatch") /\ proc[p].mode # "tray"
  /\ parked' = IF proc[p].place = "installed" /\ ~Locked("parked") THEN 0 ELSE parked
  /\ Go(p, CASE proc[p].mode = "window" -> "window"
             [] proc[p].mode = "uninstall" -> "stopping"
             [] OTHER -> "dialog")
  /\ UNCHANGED <<installed, stamp, legacy, keys, portable, doomed, wanted, last, mishaps, counts>>

is_running_installed(p) == proc[p].place \in {"installed", "parked"}

\* Mutant: any other version will do.
is_other_version(p) == stamp > 0 /\ proc[p].ver # stamp

is_update_available(p) == stamp > 0 /\ proc[p].ver > stamp

\* A copy that is not the installed one.  The dialog and the relaunch are
\* processes of their own, which this one waits for.
install_or_relaunch(p) ==
  /\ Is(p, "dispatch") /\ proc[p].mode = "tray"
  /\ parked' = IF proc[p].place = "installed" /\ ~Locked("parked") THEN 0 ELSE parked
  /\ IF is_running_installed(p) \/ portable THEN Go(p, "instance") /\ NoFault
     ELSE LET mode == IF installed = 0 THEN "install"
                      ELSE IF stamp = 0 \/ is_update_available(p) THEN "update" ELSE "tray"
              child == IF mode = "tray" THEN Spawned("installed", installed, "tray", p)
                       ELSE Spawned(proc[p].place, proc[p].ver, mode, p)
          IN \/ /\ NoFault
                /\ \E q \in Proc :
                     /\ Is(q, "off")
                     /\ proc' = [proc EXCEPT ![q] = child, ![p].child = q,
                                  ![p].at = IF mode = "tray" THEN "relaying" ELSE "waiting"]
             \/ Fails /\ Go(p, "instance")
  /\ mishaps' = mishaps \cup (IF \E q \in Proc : proc[q].mode \in {"install", "update"}
                              THEN {"raced"} ELSE {})
  /\ UNCHANGED <<installed, stamp, legacy, keys, portable, doomed, wanted, last, launches>>

\* SingleInstance::acquire: the mutex is held to the last moment.
acquire(p) ==
  /\ Is(p, "instance")
  /\ LET holder == {q \in Proc : proc[q].at \in {"tray", "closing"}}
     IN /\ IF holder = {} THEN Go(p, "tray") ELSE Ends(p, 1)
        /\ mishaps' = mishaps \cup (IF \E q \in holder : Is(q, "closing") THEN {"late"} ELSE {})
  /\ UNCHANGED <<files, keys, portable, doomed, wanted, last, counts>>

----------------------------------------------------------------------------
(* The tray and its windows.                                               *)

\* Windows run the installed executable if there is one.
spawn_window_subprocess(p) ==
  /\ Is(p, "tray")
  /\ LET place == IF installed > 0 THEN "installed" ELSE proc[p].place
         ver == CASE place = "installed" -> installed
                  [] place = "legacy" -> legacy [] OTHER -> proc[p].ver
     IN /\ place # "parked" /\ ver > 1
        /\ \E q \in Proc :
             /\ Is(q, "off") /\ ~\E r \in Proc : Is(r, "window")
             /\ proc' = [proc EXCEPT ![q] = Spawned(place, ver, "window", p)]
  /\ UNCHANGED <<files, keys, portable, doomed, wanted, last, mishaps, counts>>

CloseWindow(p) ==
  /\ Is(p, "window")
  /\ Ends(p, 0)
  /\ UNCHANGED <<files, keys, portable, doomed, wanted, last, mishaps, counts>>

\* Save in Settings: autostart always points at the installed copy, and the
\* file is written as the form remembers it, which may be an old one.
SaveSettings(p) ==
  /\ Is(p, "window")
  /\ \E autostart \in BOOLEAN : set_autostart(autostart)
  /\ portable' \in BOOLEAN
  /\ mishaps' = mishaps \cup (IF installed = 0 /\ run_key' = "installed" THEN {"portable"} ELSE {})
  /\ UNCHANGED <<files, uninstall_key, shortcut, doomed, proc, wanted, last, counts>>

\* Quit in the tray's menu, and the end of a process that was told to close.
Quit(p) ==
  /\ Is(p, "tray") \/ Is(p, "old")
  /\ wanted' = FALSE
  /\ IF Is(p, "tray") THEN Go(p, "closing") ELSE Ends(p, 0)
  /\ UNCHANGED <<files, keys, portable, doomed, last, mishaps, counts>>

Closed(p) ==
  /\ Is(p, "closing")
  /\ Ends(p, 0)
  /\ UNCHANGED <<files, keys, portable, doomed, wanted, last, mishaps, counts>>

----------------------------------------------------------------------------
(* The dialog.                                                             *)

\* do_install: an update kills every other process first.
ClickInstall(p) ==
  /\ Is(p, "dialog")
  /\ IF proc[p].mode = "update"
     THEN \/ /\ NoFault
             /\ proc' = [Without(Others(p), 1) EXCEPT ![p].at = "copying"]
             /\ mishaps' = mishaps \cup Cut(Others(p))
          \/ Fails /\ Go(p, "copying") /\ UNCHANGED mishaps
     ELSE Go(p, "copying") /\ NoFault /\ UNCHANGED mishaps
  /\ UNCHANGED <<files, keys, portable, doomed, wanted, last, launches>>

\* install_exe: the copy, which fails while the file is in use, and version.txt.
install_exe(p) ==
  /\ Is(p, "copying")
  /\ \/ /\ ~Locked("installed")
        /\ installed' = proc[p].ver /\ last' = proc[p].ver
        /\ \/ stamp' = proc[p].ver /\ Go(p, "registering") /\ NoFault
           \/ Fails /\ Go(p, "dance") /\ UNCHANGED stamp
     \/ /\ IF Locked("installed") THEN NoFault ELSE Fails
        /\ Go(p, "dance")
        /\ UNCHANGED <<installed, stamp, last>>
  /\ UNCHANGED <<parked, legacy, keys, portable, doomed, wanted, mishaps, launches>>

\* install_exe_rename_dance: the executable in use goes to .exe.old,
RenameOld(p) ==
  /\ Is(p, "dance")
  /\ \/ /\ ~Locked("parked") \/ installed = 0
        /\ parked' = IF installed > 0 THEN installed ELSE IF Locked("parked") THEN parked ELSE 0
        /\ installed' = 0
        /\ proc' = [q \in Proc |->
             IF q = p THEN [proc[q] EXCEPT !.at = "renamed"]
             ELSE IF proc[q].place = "installed" THEN [proc[q] EXCEPT !.place = "parked"]
             ELSE proc[q]]
        /\ NoFault /\ UNCHANGED mishaps
     \/ /\ IF Locked("parked") /\ installed > 0 THEN NoFault ELSE Fails
        /\ Go(p, "dialog") /\ mishaps' = mishaps \cup {"failed"}
        /\ UNCHANGED <<installed, parked>>
  /\ UNCHANGED <<stamp, legacy, keys, portable, doomed, wanted, last, launches>>

\* and the new one in its place; nothing is put back when that fails.
CopyNew(p) ==
  /\ Is(p, "renamed")
  /\ \/ /\ installed' = proc[p].ver /\ last' = proc[p].ver
        /\ \/ stamp' = proc[p].ver /\ NoFault /\ UNCHANGED mishaps
           \/ Fails /\ mishaps' = mishaps \cup {"unstamped"} /\ UNCHANGED stamp
        /\ Go(p, "registering")
     \/ /\ Fails
        /\ Go(p, "dialog") /\ mishaps' = mishaps \cup {"failed"}
        /\ UNCHANGED <<installed, stamp, last>>
  /\ UNCHANGED <<parked, legacy, keys, portable, doomed, wanted, launches>>

\* Mutant: the parent is relied on to relaunch.
Register_only(p) ==
  /\ Is(p, "registering")
  /\ IF proc[p].mode = "install" THEN \E autostart \in BOOLEAN : set_autostart(autostart)
     ELSE UNCHANGED run_key
  /\ create_shortcuts /\ write_uninstall_registry /\ portable' = FALSE
  /\ Ends(p, 0)
  /\ UNCHANGED <<files, doomed, wanted, last, mishaps, counts>>

\* Shortcuts, autostart, config and the Apps & Features entry, each at its
\* best; then the installed copy is started and the dialog's process ends.
Register(p) ==
  /\ Is(p, "registering")
  /\ IF proc[p].mode = "install" THEN \E autostart \in BOOLEAN : set_autostart(autostart)
     ELSE UNCHANGED run_key
  /\ create_shortcuts /\ write_uninstall_registry /\ portable' = FALSE
  /\ \/ /\ installed > 0 /\ NoFault /\ UNCHANGED mishaps
        /\ \E q \in Proc :
             /\ Is(q, "off")
             /\ proc' = [Without({p}, 0) EXCEPT ![q] = Spawned("installed", installed, "tray", NoProc)]
     \/ /\ IF installed > 0 THEN Fails ELSE NoFault
        /\ mishaps' = mishaps \cup {"failed"}
        /\ Ends(p, 0)
  /\ UNCHANGED <<files, doomed, wanted, last, launches>>

\* Run Portable is remembered; a closed window isn't.
do_portable(p) ==
  /\ Is(p, "dialog")
  /\ portable' \in {TRUE, portable}
  /\ Ends(p, 1)
  /\ UNCHANGED <<files, keys, doomed, wanted, last, mishaps, counts>>

----------------------------------------------------------------------------
(* The uninstaller.                                                        *)

\* WM_CLOSE to the tray's hidden window.
stop_running_instance(p) ==
  /\ Is(p, "stopping")
  /\ proc' = [q \in Proc |-> IF q = p THEN [proc[q] EXCEPT !.at = "unregistering"]
                             ELSE IF Is(q, "tray") THEN [proc[q] EXCEPT !.at = "closing"]
                             ELSE proc[q]]
  /\ wanted' = FALSE
  /\ UNCHANGED <<files, keys, portable, doomed, last, mishaps, counts>>

\* What can't be removed stays.
remove_entries(p) ==
  /\ Is(p, "unregistering")
  /\ \/ /\ set_autostart(FALSE) /\ delete_uninstall_registry /\ shortcut' = FALSE
        /\ NoFault /\ UNCHANGED mishaps
     \/ /\ Fails /\ mishaps' = mishaps \cup {"failed"}
        /\ run_key' \in {run_key, "none"} /\ uninstall_key' \in {uninstall_key, "none"}
        /\ shortcut' \in {shortcut, FALSE}
  /\ Go(p, "unregistered")
  /\ UNCHANGED <<files, portable, doomed, wanted, last, launches>>

\* The message box has been answered.
schedule_self_delete(p) ==
  /\ Is(p, "unregistered")
  /\ Ends(p, 0)
  /\ \/ doomed' = TRUE /\ NoFault
     \/ Fails /\ UNCHANGED doomed
  /\ UNCHANGED <<files, keys, portable, wanted, last, mishaps, launches>>

\* Something points at the installed copy.
Points == "installed" \in {run_key, uninstall_key} \/ shortcut

\* rmdir takes what nobody uses.
Rmdir ==
  /\ doomed /\ doomed' = FALSE
  /\ stamp' = 0
  /\ installed' = IF Locked("installed") THEN installed ELSE 0
  /\ parked' = IF Locked("parked") THEN parked ELSE 0
  /\ last' = installed'
  /\ mishaps' = mishaps \cup (IF Points \/ \E p \in Proc : proc[p].at \in Installing
                              THEN {"raced"} ELSE {})
                        \cup (IF installed' > 0 THEN {"unstamped"} ELSE {})
  /\ UNCHANGED <<legacy, keys, portable, proc, wanted, counts>>

Step(p) ==
  \/ kill_other_immichsync_processes(p) \/ cleanup_legacy_install(p)
  \/ Dispatch(p) \/ install_or_relaunch(p) \/ acquire(p)
  \/ spawn_window_subprocess(p) \/ CloseWindow(p) \/ Quit(p) \/ Closed(p)
  \/ ClickInstall(p) \/ install_exe(p) \/ RenameOld(p) \/ CopyNew(p) \/ Register(p)
  \/ do_portable(p) \/ SaveSettings(p)
  \/ stop_running_instance(p) \/ remove_entries(p) \/ schedule_self_delete(p)

Next == (\E p \in Proc : Start(p) \/ StartUninstall(p) \/ Step(p)) \/ Rmdir

Spec == Init /\ [][Next]_vars

----------------------------------------------------------------------------
(* Properties.                                                             *)

\* Nothing is under way.
Quiet == \A p \in Proc : proc[p].at \in {"off", "tray", "old", "window"}

Spared(kinds) == mishaps \cap kinds = {}

\* Whoever starts the program has a tray when all is done, whatever dialogs,
\* relaunches and kills lie between (main.rs:153-172, 259-372, ui/install.rs:154-234).
\* Not so where a window's or dialog's cleanup killed the tray or the parent
\* that waited for it, where the install failed after its kill, or where the
\* mutex was still held by a tray on its way out.
ProgramComesUp ==
  Quiet /\ wanted /\ Spared({"orphan", "failed", "late"}) =>
    \E p \in Proc : proc[p].at \in {"tray", "old"}

\* The shortcuts, the autostart and the Apps & Features entry never point at a
\* program that isn't there (install.rs:680-745, uninstall.rs:40-87).  Not so
\* after a rename dance or a removal that failed half-way, a kill or an rmdir in
\* the middle of an install or a save, or a Save in Settings without an installed
\* copy; nor for a legacy entry whose cleanup failed when the executable's did
\* not: that one stays for ever (install.rs:636, 707-709, 717-719, 741-743).
EntriesHaveProgram ==
  Quiet =>
    /\ Spared({"failed", "raced", "portable"}) => (Points => installed > 0)
    /\ Spared({"stale"}) => ("legacy" \in {run_key, uninstall_key} => legacy > 0)

\* A launch of an old download never replaces a newer installed program
\* (install.rs:136-153, main.rs:290-341).  Not so when two dialogs are up at
\* once, when version.txt could not be written or was left behind, or after an
\* install that failed half-way, where it is not that of the program beside it.
NoDowngrade ==
  [][installed' > 0 /\ installed' # installed =>
       installed' >= last \/ ~Spared({"failed", "raced", "unstamped"})]_vars
=============================================================================
