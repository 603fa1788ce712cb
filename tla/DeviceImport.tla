---------------------------- MODULE DeviceImport ----------------------------
(***************************************************************************)
(* Removable media: from a volume that is mounted to a watched folder      *)
(* whose files are scanned (src/src/platform/macos/volumes.rs,             *)
(* src/src/platform/device.rs, src/src/platform/drives.rs,                 *)
(* src/src/watch/device.rs, src/src/app.rs).                               *)
(*                                                                         *)
(* The system tells the monitor's thread of mounts (a DiskArbitration      *)
(* callback, a WM_DEVICECHANGE message), the thread sends VolumeEvents to  *)
(* the main loop, and the main loop makes a folder row and converges the   *)
(* engine.  Volumes come and go at any point of this.  Watchers that fail  *)
(* and engines lock by lock are WatchEngine's.                             *)
(***************************************************************************)
EXTENDS Naturals, Sequences, FiniteSets

CONSTANTS
  Volume, Root,  \* volumes, and where they can be mounted: E:\, /Volumes/CARD
  NoRoot,
  Dcim,          \* volumes with a DCIM directory
  Removable,     \* those the OS calls removable or ejectable, and no disk image
  Share,         \* network volumes
  MaxMoves       \* bound: mounts, launches, and changes in Settings

VARIABLES
  mac,           \* which of the two platforms
  look_for_dcim, \* [devices]: DCIM only, or the whole volume
  auto,          \* [devices]: auto_watch, and on_insert is "auto"
  at,            \* where each volume is mounted
  monitor,       \* off, launched, swept, on, failed
  mounted,       \* the callbacks' last mount point of each volume
  notices,       \* what the system is about to tell the monitor's thread
  queue,         \* the channel to the main loop
  batch, busy,   \* the events the main loop has taken, and that it is at them
  rows,          \* folder rows: none, on, off (disabled)
  engine,        \* watched_paths
  scanned,       \* volumes an initial scan has covered since they were mounted
  missed,        \* ghost: volumes that go without an import for a known reason
  moves

config     == <<mac, look_for_dcim, auto>>
monitorVars == <<monitor, mounted, notices>>
loopVars   == <<batch, busy>>
engineVars == <<engine, scanned>>
vars == <<config, at, monitorVars, queue, loopVars, rows, engineVars, missed, moves>>

Folder == Root \X {"DCIM", "whole"}
Event  == [root : Root, removable : BOOLEAN, is_mount : BOOLEAN]
Notice == [volume : Volume, root : Root, arrival : BOOLEAN]

TypeOK ==
  /\ mac \in BOOLEAN /\ look_for_dcim \in BOOLEAN /\ auto \in BOOLEAN
  /\ at \in [Volume -> Root \cup {NoRoot}]
  /\ monitor \in {"off", "launched", "swept", "on", "failed"}
  /\ mounted \in [Volume -> Root \cup {NoRoot}]
  /\ notices \in Seq(Notice) /\ queue \in Seq(Event) /\ batch \in Seq(Event)
  /\ busy \in BOOLEAN
  /\ rows \in [Folder -> {"none", "on", "off"}]
  /\ engine \in SUBSET Folder
  /\ scanned \in SUBSET Volume /\ missed \in SUBSET Volume
  /\ moves \in 0..MaxMoves

NoMounts == [v \in Volume |-> NoRoot]

Init ==
  /\ mac \in BOOLEAN /\ look_for_dcim \in BOOLEAN /\ auto \in BOOLEAN
  /\ at = NoMounts /\ mounted = NoMounts
  /\ monitor = "off" /\ notices = <<>> /\ queue = <<>>
  /\ batch = <<>> /\ busy = FALSE
  /\ rows = [f \in Folder |-> "none"]
  /\ engine = {} /\ scanned = {} /\ missed = {}
  /\ moves = 0

Move == moves < MaxMoves /\ moves' = moves + 1

At(r) == {v \in Volume : at[v] = r}

----------------------------------------------------------------------------
(* Volumes.                                                                *)

\* The folders a volume can become.
FolderOf(r) == <<r, IF look_for_dcim THEN "DCIM" ELSE "whole">>

\* A volume no callback or message is about: a share has no BSD name on macOS
\* and is flagged DBTF_NET on Windows.
Tell(v, r, arrival) ==
  notices' = IF monitor = "on" /\ v \notin Share
             THEN Append(notices, [volume |-> v, root |-> r, arrival |-> arrival])
             ELSE notices

\* A volume mounted where another, or itself, was a moment before makes no
\* drift: the engine still has the folder.
Mount(v, r) ==
  /\ at[v] = NoRoot /\ At(r) = {} /\ Move
  /\ at' = [at EXCEPT ![v] = r]
  /\ Tell(v, r, TRUE)
  /\ scanned' = scanned \ {v}
  /\ missed' = IF monitor = "swept" \/ FolderOf(r) \in engine
               THEN missed \cup {v} ELSE missed \ {v}
  /\ UNCHANGED <<config, monitor, mounted, queue, loopVars, rows, engine>>

Unmount(v) ==
  /\ at[v] # NoRoot
  /\ at' = [at EXCEPT ![v] = NoRoot]
  /\ Tell(v, at[v], FALSE)
  /\ UNCHANGED <<config, monitor, mounted, queue, loopVars, rows, engineVars, missed, moves>>

----------------------------------------------------------------------------
(* The engine, as far as it depends on volumes.                            *)

exists(f) == \E v \in At(f[1]) : f[2] = "DCIM" => v \in Dcim

WatchPaths == {f \in Folder : rows[f] = "on" /\ exists(f)}

\* The initial scan covers every folder that is watched.
start_watch_engine ==
  /\ engine' = WatchPaths
  /\ scanned' = scanned \cup {v \in Volume : \E f \in WatchPaths : f[1] = at[v]}

\* Mutant: only folders that are no longer wanted count.
drift_of_removed == engine \ WatchPaths # {}

compute_watch_drift == WatchPaths # engine

converge_watch_folders ==
  IF compute_watch_drift THEN start_watch_engine ELSE UNCHANGED engineVars

----------------------------------------------------------------------------
(* The monitor.                                                            *)

\* App::init: first the engine.
Launch ==
  /\ monitor = "off" /\ Move
  /\ monitor' = "launched"
  /\ start_watch_engine
  /\ UNCHANGED <<config, at, mounted, notices, queue, loopVars, rows, missed>>

mounted_event(r, removable) == [root |-> r, removable |-> removable, is_mount |-> TRUE]
unmounted_event(r) == [root |-> r, removable |-> FALSE, is_mount |-> FALSE]

\* Some order of the elements of a set.
Orders(S) == {s \in [1..Cardinality(S) -> S] : \A i, j \in DOMAIN s : s[i] = s[j] => i = j}
Present == {v \in Volume \ Share : at[v] # NoRoot}

\* VolumeMonitor::start on Windows: drives that are there are sent at once.
list_drives ==
  /\ ~mac /\ monitor = "launched"
  /\ \E s \in Orders(Present) :
       queue' = [i \in DOMAIN s |-> mounted_event(at[s[i]], s[i] \in Removable)]
  /\ monitor' = "swept"
  /\ UNCHANGED <<config, at, mounted, notices, loopVars, rows, engineVars, missed, moves>>

\* Only then is the window there that hears of more; without it the channel
\* is dropped.
create_window ==
  /\ monitor = "swept"
  /\ \/ monitor' = "on" /\ UNCHANGED queue
     \/ monitor' = "failed" /\ queue' = <<>>
  /\ UNCHANGED <<config, at, mounted, notices, loopVars, rows, engineVars, missed, moves>>

\* On macOS the callbacks are registered, and come for every disk there is.
register_callbacks ==
  /\ mac /\ monitor = "launched"
  /\ \/ /\ monitor' = "on"
        /\ \E s \in Orders(Present) :
             notices' = [i \in DOMAIN s |->
                          [volume |-> s[i], root |-> at[s[i]], arrival |-> TRUE]]
     \/ monitor' = "failed" /\ UNCHANGED notices
  /\ UNCHANGED <<config, at, mounted, queue, loopVars, rows, engineVars, missed, moves>>

\* WM_DEVICECHANGE: the drive is asked what it is when the message is handled.
device_wnd_proc ==
  /\ ~mac /\ monitor = "on" /\ notices # <<>>
  /\ LET n == Head(notices)
         event == IF n.arrival THEN mounted_event(n.root, At(n.root) \cap Removable # {})
                  ELSE unmounted_event(n.root)
     IN queue' = Append(queue, event)
  /\ notices' = Tail(notices)
  /\ UNCHANGED <<config, at, monitor, mounted, loopVars, rows, engineVars, missed, moves>>

\* A callback: the mount point it brings against the last one seen.
reconcile_disk ==
  /\ mac /\ monitor = "on" /\ notices # <<>>
  /\ LET n == Head(notices)
         v == n.volume
         before == mounted[v]
         now == IF n.arrival THEN n.root ELSE NoRoot
         gone == IF before = NoRoot THEN <<>> ELSE <<unmounted_event(before)>>
         here == IF now = NoRoot THEN <<>> ELSE <<mounted_event(now, v \in Removable)>>
     IN /\ mounted' = [mounted EXCEPT ![v] = now]
        /\ queue' = IF before = now THEN queue ELSE queue \o gone \o here
  /\ notices' = Tail(notices)
  /\ UNCHANGED <<config, at, monitor, loopVars, rows, engineVars, missed, moves>>

----------------------------------------------------------------------------
(* The main loop.                                                          *)

Running == monitor \in {"on", "failed"}

\* decide_mount, with the DCIM of whatever is mounted there now.
Watches(e) ==
  /\ e.is_mount /\ auto
  /\ IF look_for_dcim THEN exists(<<e.root, "DCIM">>) ELSE e.removable

\* A known row is left as it is; an error of the database loses the mount.
register_mount(f) ==
  IF rows[f] # "none" THEN UNCHANGED <<rows, missed>>
  ELSE \/ rows' = [rows EXCEPT ![f] = "on"] /\ UNCHANGED missed
       \/ missed' = missed \cup At(f[1]) /\ UNCHANGED rows

\* poll_volume_events takes all there is,
poll_volume_events ==
  /\ monitor = "on" /\ ~busy /\ queue # <<>>
  /\ batch' = queue /\ queue' = <<>> /\ busy' = TRUE
  /\ UNCHANGED <<config, at, monitorVars, rows, engineVars, missed, moves>>

\* handles one after the other,
HandleEvent ==
  /\ busy /\ batch # <<>>
  /\ LET e == Head(batch)
     IN IF Watches(e) THEN register_mount(FolderOf(e.root)) ELSE UNCHANGED <<rows, missed>>
  /\ batch' = Tail(batch)
  /\ UNCHANGED <<config, at, monitorVars, queue, busy, engineVars, moves>>

\* and converges.
EventsHandled ==
  /\ busy /\ batch = <<>>
  /\ busy' = FALSE
  /\ converge_watch_folders
  /\ UNCHANGED <<config, at, monitorVars, queue, batch, rows, missed, moves>>

\* Every FOLDER_RECONCILE_INTERVAL it converges without events.
reconcile_watch_folders ==
  /\ Running /\ ~busy
  /\ converge_watch_folders
  /\ UNCHANGED <<config, at, monitorVars, queue, loopVars, rows, missed, moves>>

\* The process ends; volumes and rows stay.
Quit ==
  /\ Running /\ moves < MaxMoves \* it may be launched again
  /\ monitor' = "off" /\ notices' = <<>> /\ queue' = <<>> /\ batch' = <<>> /\ busy' = FALSE
  /\ mounted' = NoMounts
  /\ engine' = {} /\ scanned' = {} /\ missed' = {}
  /\ UNCHANGED <<config, at, rows, moves>>

----------------------------------------------------------------------------
(* Settings, another process.                                              *)

\* A folder is added by hand - by Settings as a disabled row that its Save
\* enables, by the wizard enabled - disabled, enabled again, or removed: who
\* removes an inserted card's row will not see it back before the next mount.
SetRow(f) ==
  /\ Move
  /\ \E to \in {"none", "on", "off"} \ {rows[f]} :
       /\ rows' = [rows EXCEPT ![f] = to]
       /\ missed' = IF to = "none" THEN missed \cup At(f[1]) ELSE missed
  /\ UNCHANGED <<config, at, monitorVars, queue, loopVars, engineVars>>

\* Volumes that are in when the setting is turned on stay as they are.
SetAuto ==
  /\ Move
  /\ auto' = ~auto
  /\ missed' = missed \cup {v \in Volume : at[v] # NoRoot}
  /\ UNCHANGED <<mac, look_for_dcim, at, monitorVars, queue, loopVars, rows, engineVars>>

VolumeStep(v) == (\E r \in Root : Mount(v, r)) \/ Unmount(v)
MonitorStep == \/ list_drives \/ create_window \/ register_callbacks
               \/ device_wnd_proc \/ reconcile_disk
LoopStep == poll_volume_events \/ HandleEvent \/ EventsHandled

Next ==
  \/ \E v \in Volume : VolumeStep(v)
  \/ MonitorStep \/ LoopStep \/ reconcile_watch_folders
  \/ Launch \/ Quit
  \/ (\E f \in Folder : SetRow(f)) \/ SetAuto

\* The monitor's thread and the main loop go on.
Fairness == WF_vars(MonitorStep) /\ WF_vars(LoopStep) /\ WF_vars(reconcile_watch_folders)

Spec == Init /\ [][Next]_vars /\ Fairness

----------------------------------------------------------------------------
(* Properties.                                                             *)

Due(v) ==
  /\ at[v] # NoRoot /\ v \notin missed \cup Share
  /\ auto /\ monitor \in {"swept", "on"}
  /\ IF look_for_dcim THEN v \in Dcim ELSE v \in Removable
  /\ rows[FolderOf(at[v])] # "off"

\* An event that makes a folder of what is mounted at r.
MountOf(e, r) == e.is_mount /\ e.root = r /\ (look_for_dcim \/ e.removable)

\* Somebody has yet to hear of the mount of v, or to handle it.
Announced(v) ==
  \/ \E i \in DOMAIN notices : /\ notices[i].arrival /\ notices[i].root = at[v]
                               /\ mac => notices[i].volume = v
  \/ \E i \in DOMAIN queue : MountOf(queue[i], at[v])
  \/ \E i \in DOMAIN batch : MountOf(batch[i], at[v])

\* No mount gets lost on its way: a card that is due and not scanned yet is
\* announced, whatever was mounted there and gone between a notice, its event
\* and the loop's look at the drive, or has a row that the engine does not
\* watch yet, which is drift for the next convergence.
CardIsOnItsWay ==
  \A v \in Volume : Due(v) /\ v \notin scanned =>
    IF rows[FolderOf(at[v])] = "on" THEN FolderOf(at[v]) \notin engine ELSE Announced(v)

\* A card that is inserted is imported: its folder is watched and scanned from
\* the mount on, without anybody opening Settings (watch/device.rs), as long
\* as it stays in - unless it was mounted between the sweep and the window, or
\* where the engine still had the folder of an earlier volume, or its row was
\* refused by the database or removed.
CardIsImported == \A v \in Volume : Due(v) ~> (v \in scanned \/ ~Due(v))
=============================================================================
