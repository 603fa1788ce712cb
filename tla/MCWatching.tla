----------------------------- MODULE MCWatching -----------------------------
(***************************************************************************)
(* Three machines for TLC, one at a time: the engine (WatchEngine), one    *)
(* watcher of it (FolderWatcher) and the removable media that make folders *)
(* for it (DeviceImport).  `part` says which of them moves; they share no  *)
(* state, and each sees the others only as what may happen to it.          *)
(***************************************************************************)
EXTENDS WatchEngine, TLC

CONSTANTS
  p1, g1, g2,             \* folders and engines
  Files, Photos,          \* FolderWatcher's File and Media
  f1,
  card, disk, share, r1,  \* volumes and where they are mounted
  Volumes, Roots,         \* DeviceImport's Volume and Root
  Cards, Shares,          \* and its Dcim and Removable, and its Share
  NoRoot, MaxMoves,
  MaxWrites, MaxTries, MaxChecks, MaxStarts

ASSUME WatchingAssumption ==
  /\ {MaxWrites, MaxTries, MaxChecks, MaxStarts, MaxMoves} \subseteq Nat
  /\ IsFiniteSet(Volumes) /\ NoRoot \notin Roots

VARIABLES
  part,
  f_network, f_deaf, f_there, f_writes, f_writing, f_locked, f_mode, f_starting,
  f_window, f_checks, f_ready, f_lost, f_starts,
  d_mac, d_look_for_dcim, d_auto, d_at, d_monitor, d_mounted, d_notices, d_queue,
  d_batch, d_busy, d_rows, d_engine, d_scanned, d_missed, d_moves

OneFolder  == {p1}
TwoEngines == {g1, g2}

\* A folder of files, local or on a share that may be deaf.
File == INSTANCE FolderWatcher WITH
  File <- Files, Media <- Photos,
  network <- f_network, deaf <- f_deaf, there <- f_there, writes <- f_writes,
  writing <- f_writing, locked <- f_locked, mode <- f_mode, starting <- f_starting,
  window <- f_window, checks <- f_checks, ready <- f_ready, lost <- f_lost,
  starts <- f_starts

\* A camera card, a fixed disk and a share take turns at one mount point.
Media == INSTANCE DeviceImport WITH
  Volume <- Volumes, Root <- Roots,
  Dcim <- Cards, Removable <- Cards, Share <- Shares,
  mac <- d_mac, look_for_dcim <- d_look_for_dcim, auto <- d_auto, at <- d_at,
  monitor <- d_monitor, mounted <- d_mounted, notices <- d_notices, queue <- d_queue,
  batch <- d_batch, busy <- d_busy, rows <- d_rows, engine <- d_engine,
  scanned <- d_scanned, missed <- d_missed, moves <- d_moves

fileWatchVars == <<f_network, f_deaf, f_there, f_writes, f_writing, f_locked, f_mode,
                   f_starting, f_window, f_checks, f_ready, f_lost, f_starts>>
mediaVars == <<d_mac, d_look_for_dcim, d_auto, d_at, d_monitor, d_mounted, d_notices,
               d_queue, d_batch, d_busy, d_rows, d_engine, d_scanned, d_missed, d_moves>>
allVars == <<part, vars, fileWatchVars, mediaVars>>

AllInit ==
  /\ part \in {"engine", "file", "media"}
  /\ Init /\ (part = "engine" \/ (enabled = {} /\ present = {}))
  /\ File!Init /\ (part = "file" \/ ~f_network)
  /\ Media!Init /\ (part = "media" \/ ~(d_mac \/ d_look_for_dcim \/ d_auto))

InEngine == part = "engine" /\ UNCHANGED <<part, fileWatchVars, mediaVars>>
InFile   == part = "file" /\ UNCHANGED <<part, vars, mediaVars>>
InMedia  == part = "media" /\ UNCHANGED <<part, vars, fileWatchVars>>

EngineNext ==
  \/ InEngine /\ StartEngine
  \/ InEngine /\ Reconcile
  \/ InEngine /\ RestartWatchEngine
  \/ \E p \in Path :
       \/ InEngine /\ Scan(p)
       \/ InEngine /\ SetEnabled(p)
       \/ InEngine /\ Mount(p)
       \/ InEngine /\ Unmount(p)
       \/ InEngine /\ GoDeaf(p)
       \/ InEngine /\ FileArrives(p)
  \/ \E g \in Engine :
       \/ InEngine /\ Tick(g)
       \/ InEngine /\ TickOver(g)
       \/ \E p \in Path :
            \/ InEngine /\ Probe(g, p)
            \/ InEngine /\ ProbeHeard(g, p)
            \/ InEngine /\ ProbeMissed(g, p)
            \/ InEngine /\ TakeWatcher(g, p)
            \/ InEngine /\ StartWatcher(g, p)
            \/ InEngine /\ PutWatcher(g, p)
            \/ InEngine /\ RestartFailed(g, p)

FileNext ==
  \/ \E f \in Files :
       \/ InFile /\ File!Create(f)
       \/ InFile /\ File!Write(f)
       \/ InFile /\ File!Close(f)
       \/ InFile /\ File!Remove(f)
       \/ InFile /\ File!MoveDirectoryIn(f)
       \/ InFile /\ File!Flush(f)
  \/ \E c \in f_checks :
       \/ InFile /\ File!FirstSample(c)
       \/ InFile /\ File!SecondSample(c)
       \/ InFile /\ File!Open(c)
  \/ InFile /\ File!start_folder
  \/ InFile /\ File!run_health_check
  \/ InFile /\ File!ChooseMode
  \/ InFile /\ File!stop

MediaNext ==
  \/ \E v \in Volumes :
       \/ \E r \in Roots : InMedia /\ Media!Mount(v, r)
       \/ InMedia /\ Media!Unmount(v)
  \/ InMedia /\ Media!list_drives
  \/ InMedia /\ Media!create_window
  \/ InMedia /\ Media!register_callbacks
  \/ InMedia /\ Media!device_wnd_proc
  \/ InMedia /\ Media!reconcile_disk
  \/ InMedia /\ Media!poll_volume_events
  \/ InMedia /\ Media!HandleEvent
  \/ InMedia /\ Media!EventsHandled
  \/ InMedia /\ Media!reconcile_watch_folders
  \/ InMedia /\ Media!Launch
  \/ InMedia /\ Media!Quit
  \/ \E f \in Media!Folder : InMedia /\ Media!SetRow(f)
  \/ InMedia /\ Media!SetAuto

\* The three modules' Next, action by action.
AllNext == EngineNext \/ FileNext \/ MediaNext

\* The fairness of WatchEngine and of DeviceImport, each in its part.
AllFairness ==
  /\ WF_allVars(InEngine /\ StartEngine)
  /\ WF_allVars(InEngine /\ Reconcile)
  /\ \A p \in Path : WF_allVars(InEngine /\ Scan(p))
  /\ \A g \in Engine : WF_allVars(InEngine /\ MonitorNext(g))
  /\ WF_allVars(InMedia /\ Media!MonitorStep)
  /\ WF_allVars(InMedia /\ Media!LoopStep)
  /\ WF_allVars(InMedia /\ Media!reconcile_watch_folders)

AllSpec == AllInit /\ [][AllNext]_allVars /\ AllFairness

\* No finished photo slips through a running watcher (FolderWatcher).
NothingSlips == File!NothingSlips

\* A card that is due is announced, or drift (DeviceImport).
CardIsOnItsWay == Media!CardIsOnItsWay

\* A card that is inserted is watched and scanned (DeviceImport).
CardIsImported == Media!CardIsImported
=============================================================================
