----------------------------- MODULE WatchEngine -----------------------------
(***************************************************************************)
(* Watched folders: the engine's slots and the health monitor that probes  *)
(* and restarts their watchers (src/src/watch/mod.rs), and the application *)
(* code that starts an engine, scans its folders, and replaces the engine  *)
(* when the database or the disk disagree with it (src/src/app.rs).        *)
(*                                                                         *)
(* An engine is stopped and dropped as a whole, so only the current one    *)
(* has slots; but its monitor ends at its own pace, and may be in the      *)
(* middle of a probe or a restart when the next engine is already running. *)
(* The upload pipeline is assumed to exist (without one, nothing listens). *)
(***************************************************************************)
EXTENDS Naturals, FiniteSets

CONSTANTS
  Path,          \* folders in the database
  Engine,        \* identities of engines, reused when their monitor is gone
  NoEngine,      \* `self.watch_engine == None`
  NoPath,        \* a monitor between two folders
  MissThreshold, \* PROBE_MISS_THRESHOLD
  MaxRestarts    \* MAX_RESTART_ATTEMPTS

ASSUME EngineAssumption ==
  /\ IsFiniteSet(Path)
  /\ NoEngine \notin Engine
  /\ NoPath \notin Path
  /\ MissThreshold \in Nat \ {0}
  /\ MaxRestarts \in Nat \ {0}

VARIABLES
  enabled,  \* folders enabled in the database
  present,  \* folders that exist on disk
  engine,   \* the current engine
  slots,    \* its slots, by canonical path
  monitor,  \* each engine's health monitor: where it is
  todo,     \* the folders left in its tick
  at,       \* the folder it is working on
  running,  \* watchers started and not stopped, by engine and folder
  deaf,     \* folders whose current watcher gets no events any more
  toScan,   \* folders an initial scan has yet to walk
  unseen,   \* folders with a file that nobody reported
  gap       \* folders unwatched, or deaf, at some time since the engine started

monitorVars == <<monitor, todo, at>>
folderVars  == <<enabled, present>>
fileVars    == <<toScan, unseen, gap>>
vars == <<folderVars, engine, slots, monitorVars, running, deaf, fileVars>>

Health == {"Healthy", "Degraded", "Failed"}
Slot == [watcher : BOOLEAN, consecutive_misses : 0..MissThreshold,
         consecutive_restart_failures : 0..MaxRestarts, health : Health]
NoSlot == [watcher |-> FALSE, consecutive_misses |-> 0,
           consecutive_restart_failures |-> 0, health |-> "none"]
Monitor == {"none", "idle", "tick", "probing", "restart", "starting",
            "started", "failed"}

TypeOK ==
  /\ enabled \subseteq Path
  /\ present \subseteq Path
  /\ engine \in Engine \cup {NoEngine}
  /\ slots \in [Path -> Slot \cup {NoSlot}]
  /\ monitor \in [Engine -> Monitor]
  /\ todo \in [Engine -> SUBSET Path]
  /\ at \in [Engine -> Path \cup {NoPath}]
  /\ running \in [Engine -> [Path -> 0..1]]
  /\ deaf \subseteq Path
  /\ toScan \subseteq Path
  /\ unseen \subseteq Path
  /\ gap \subseteq Path

Init ==
  /\ enabled \in SUBSET Path
  /\ present \in SUBSET Path
  /\ engine = NoEngine
  /\ slots = [p \in Path |-> NoSlot]
  /\ monitor = [g \in Engine |-> "none"]
  /\ todo = [g \in Engine |-> {}]
  /\ at = [g \in Engine |-> NoPath]
  /\ running = [g \in Engine |-> [p \in Path |-> 0]]
  /\ deaf = {}
  /\ toScan = {}
  /\ unseen = {}
  /\ gap = {}

\* The keys of the current engine's map.
watched_paths == {p \in Path : slots[p] # NoSlot}

\* What engine g's map holds for p: nothing once g was stopped.
SlotOf(g, p) == IF g = engine THEN slots[p] ELSE NoSlot

\* compute_watch_drift's database side, and start_watch_engine's filter.
Wanted == enabled \cap present

----------------------------------------------------------------------------
(* The application.                                                        *)

\* Mutant: the watchers start, but nothing scans their folders.
StartEngineWithoutScan ==
  /\ engine = NoEngine
  /\ \E g \in Engine, started \in SUBSET Wanted :
       /\ monitor[g] = "none"
       /\ engine' = g
       /\ slots' = [p \in Path |->
            IF p \in started
            THEN [watcher |-> TRUE, consecutive_misses |-> 0,
                  consecutive_restart_failures |-> 0, health |-> "Healthy"]
            ELSE NoSlot]
       /\ running' = [running EXCEPT ![g] = [p \in Path |->
                        IF p \in started THEN 1 ELSE 0]]
       /\ monitor' = [monitor EXCEPT ![g] = IF started = {} THEN "none" ELSE "idle"]
       /\ toScan' = toScan
       /\ gap' = Path \ started
  /\ deaf' = {}
  /\ UNCHANGED <<folderVars, todo, at, unseen>>

\* start_watch_engine: a watcher for every wanted folder, those that fail to
\* start being left out; then the monitor, and a scan of the watched folders.
StartEngine ==
  /\ engine = NoEngine
  /\ \E g \in Engine, started \in SUBSET Wanted :
       /\ monitor[g] = "none"
       /\ engine' = g
       /\ slots' = [p \in Path |->
            IF p \in started
            THEN [watcher |-> TRUE, consecutive_misses |-> 0,
                  consecutive_restart_failures |-> 0, health |-> "Healthy"]
            ELSE NoSlot]
       /\ running' = [running EXCEPT ![g] = [p \in Path |->
                        IF p \in started THEN 1 ELSE 0]]
       /\ monitor' = [monitor EXCEPT ![g] = IF started = {} THEN "none" ELSE "idle"]
       /\ toScan' = toScan \cup started
       /\ gap' = Path \ started
  /\ deaf' = {}
  /\ UNCHANGED <<folderVars, todo, at, unseen>>

\* stop_all and the drop of the engine: every slot's watcher stops, the map is
\* empty.  A watcher that the monitor is just starting is in no slot.
StopAll ==
  /\ running' = [running EXCEPT ![engine] = [p \in Path |->
                   running[engine][p] - (IF slots[p].watcher THEN 1 ELSE 0)]]
  /\ slots' = [p \in Path |-> NoSlot]
  /\ engine' = NoEngine
  /\ deaf' = {}
  /\ UNCHANGED <<folderVars, monitorVars, toScan, unseen, gap>>

\* Mutant: only a folder that is not watched yet counts as drift.
ReconcileAddedOnly ==
  /\ engine # NoEngine
  /\ Wanted \ watched_paths # {}
  /\ StopAll

\* converge_watch_folders, every 2 seconds: the map's keys are not the
\* folders wanted, so stop the engine and start it again.
Reconcile ==
  /\ engine # NoEngine
  /\ watched_paths # Wanted
  /\ StopAll

\* The same restart for Upload Now and a saved configuration.
RestartWatchEngine ==
  /\ engine # NoEngine
  /\ StopAll

\* The initial scan walks a folder; a folder that is gone can't be read.
Scan(p) ==
  /\ p \in toScan
  /\ toScan' = toScan \ {p}
  /\ unseen' = IF p \in present THEN unseen \ {p} ELSE unseen
  /\ UNCHANGED <<folderVars, engine, slots, monitorVars, running, deaf, gap>>

----------------------------------------------------------------------------
(* The database, the disk and the operating system.                        *)

\* The Settings window, another process, enables or disables a folder.
SetEnabled(p) ==
  /\ enabled' = IF p \in enabled THEN enabled \ {p} ELSE enabled \cup {p}
  /\ UNCHANGED <<present, engine, slots, monitorVars, running, deaf, fileVars>>

\* A volume or a share goes, and takes the notifications with it, or returns.
Unmount(p) ==
  /\ p \in present
  /\ present' = present \ {p}
  /\ deaf' = deaf \cup ({p} \cap watched_paths)
  /\ gap' = gap \cup {p}
  /\ UNCHANGED <<enabled, engine, slots, monitorVars, running, toScan, unseen>>

Mount(p) ==
  /\ p \notin present
  /\ present' = present \cup {p}
  /\ UNCHANGED <<enabled, engine, slots, monitorVars, running, deaf, fileVars>>

\* A watcher silently stops getting events.
GoDeaf(p) ==
  /\ slots[p].watcher
  /\ p \notin deaf
  /\ deaf' = deaf \cup {p}
  /\ gap' = gap \cup {p}
  /\ UNCHANGED <<folderVars, engine, slots, monitorVars, running, toScan, unseen>>

\* A file arrives: a watcher that hears it hands it to the queue.
FileArrives(p) ==
  /\ p \in present
  /\ ~ (engine # NoEngine /\ running[engine][p] > 0 /\ p \notin deaf)
  /\ unseen' = unseen \cup {p}
  /\ UNCHANGED <<folderVars, engine, slots, monitorVars, running, deaf, toScan, gap>>

----------------------------------------------------------------------------
(* The health monitor of engine g, from lock to lock.                      *)

MonitorStep(g, pc) == monitor' = [monitor EXCEPT ![g] = pc]

\* The next folder of the tick, or the wait for the next tick.
NextFolder(g, p) ==
  /\ MonitorStep(g, "tick")
  /\ todo' = [todo EXCEPT ![g] = @ \ {p}]
  /\ at' = [at EXCEPT ![g] = NoPath]

SetSlot(p, slot) == slots' = [slots EXCEPT ![p] = slot]

FolderUnchanged == UNCHANGED <<folderVars, engine, toScan, unseen>>

\* Mutant: the tick skips degraded folders, not only failed ones.
TickHealthyOnly(g) ==
  /\ monitor[g] = "idle"
  /\ IF g # engine
     THEN MonitorStep(g, "none") /\ UNCHANGED todo
     ELSE /\ MonitorStep(g, "tick")
          /\ todo' = [todo EXCEPT ![g] =
               {p \in watched_paths : slots[p].health = "Healthy" /\ slots[p].watcher}]
  /\ UNCHANGED <<at, slots, running, deaf, gap>>
  /\ FolderUnchanged

\* A tick: the stop flag, then the snapshot of the folders to probe.
Tick(g) ==
  /\ monitor[g] = "idle"
  /\ IF g # engine
     THEN MonitorStep(g, "none") /\ UNCHANGED todo
     ELSE /\ MonitorStep(g, "tick")
          /\ todo' = [todo EXCEPT ![g] =
               {p \in watched_paths : slots[p].health # "Failed" /\ slots[p].watcher}]
  /\ UNCHANGED <<at, slots, running, deaf, gap>>
  /\ FolderUnchanged

\* Clone the watcher's handle and probe, or skip a folder that lost it.
Probe(g, p) ==
  /\ monitor[g] = "tick"
  /\ p \in todo[g]
  /\ IF SlotOf(g, p).watcher
     THEN /\ MonitorStep(g, "probing")
          /\ at' = [at EXCEPT ![g] = p]
          /\ UNCHANGED todo
     ELSE NextFolder(g, p)
  /\ UNCHANGED <<slots, running, deaf, gap>>
  /\ FolderUnchanged

TickOver(g) ==
  /\ monitor[g] = "tick"
  /\ todo[g] = {}
  /\ MonitorStep(g, "idle")
  /\ UNCHANGED <<todo, at, slots, running, deaf, gap>>
  /\ FolderUnchanged

\* The probe file came back as an event.
ProbeHeard(g, p) ==
  /\ monitor[g] = "probing"
  /\ at[g] = p
  /\ p \notin deaf
  /\ IF SlotOf(g, p) = NoSlot
     THEN UNCHANGED slots
     ELSE SetSlot(p, [slots[p] EXCEPT !.consecutive_misses = 0,
                                      !.consecutive_restart_failures = 0,
                                      !.health = "Healthy"])
  /\ NextFolder(g, p)
  /\ UNCHANGED <<running, deaf, gap>>
  /\ FolderUnchanged

\* It did not, in time, or could not be written.
ProbeMissed(g, p) ==
  /\ monitor[g] = "probing"
  /\ at[g] = p
  /\ IF SlotOf(g, p) = NoSlot
     THEN UNCHANGED slots /\ NextFolder(g, p)
     ELSE LET misses == slots[p].consecutive_misses + 1 IN
          /\ SetSlot(p, [slots[p] EXCEPT !.consecutive_misses = misses,
                                         !.health = "Degraded"])
          /\ IF misses >= MissThreshold
             THEN MonitorStep(g, "restart") /\ UNCHANGED <<todo, at>>
             ELSE NextFolder(g, p)
  /\ UNCHANGED <<running, deaf, gap>>
  /\ FolderUnchanged

\* restart_slot: take the watcher out of its slot and stop it.
TakeWatcher(g, p) ==
  /\ monitor[g] = "restart"
  /\ at[g] = p
  /\ IF \/ SlotOf(g, p) = NoSlot
        \/ slots[p].consecutive_restart_failures >= MaxRestarts
     THEN NextFolder(g, p) /\ UNCHANGED <<slots, running, gap>>
     ELSE /\ SetSlot(p, [slots[p] EXCEPT !.watcher = FALSE])
          /\ running' = [running EXCEPT ![g][p] =
                           @ - (IF slots[p].watcher THEN 1 ELSE 0)]
          /\ gap' = gap \cup {p}
          /\ MonitorStep(g, "starting")
          /\ UNCHANGED <<todo, at>>
  /\ UNCHANGED deaf
  /\ FolderUnchanged

\* ... start a new one, without the lock, ...
StartWatcher(g, p) ==
  /\ monitor[g] = "starting"
  /\ at[g] = p
  /\ \/ /\ p \in present
        /\ running' = [running EXCEPT ![g][p] = @ + 1]
        /\ deaf' = IF g = engine THEN deaf \ {p} ELSE deaf
        /\ MonitorStep(g, "started")
     \/ /\ MonitorStep(g, "failed")
        /\ UNCHANGED <<running, deaf>>
  /\ UNCHANGED <<todo, at, slots, gap>>
  /\ FolderUnchanged

\* Mutant: a watcher whose slot is gone is dropped without a stop.
PutWatcherUnstopped(g, p) ==
  /\ monitor[g] = "started"
  /\ at[g] = p
  /\ IF SlotOf(g, p) = NoSlot
     THEN /\ UNCHANGED running
          /\ UNCHANGED slots
     ELSE /\ SetSlot(p, [watcher |-> TRUE, consecutive_misses |-> 0,
                         consecutive_restart_failures |-> 0, health |-> "Degraded"])
          /\ UNCHANGED running
  /\ NextFolder(g, p)
  /\ UNCHANGED <<deaf, gap>>
  /\ FolderUnchanged

\* ... and put it into the slot, or stop it if the slot is gone, ...
PutWatcher(g, p) ==
  /\ monitor[g] = "started"
  /\ at[g] = p
  /\ IF SlotOf(g, p) = NoSlot
     THEN /\ running' = [running EXCEPT ![g][p] = @ - 1]
          /\ UNCHANGED slots
     ELSE /\ SetSlot(p, [watcher |-> TRUE, consecutive_misses |-> 0,
                         consecutive_restart_failures |-> 0, health |-> "Degraded"])
          /\ UNCHANGED running
  /\ NextFolder(g, p)
  /\ UNCHANGED <<deaf, gap>>
  /\ FolderUnchanged

\* ... or count the failed attempt.
RestartFailed(g, p) ==
  /\ monitor[g] = "failed"
  /\ at[g] = p
  /\ IF SlotOf(g, p) = NoSlot
     THEN UNCHANGED slots
     ELSE LET failures == slots[p].consecutive_restart_failures + 1 IN
          SetSlot(p, [slots[p] EXCEPT
            !.consecutive_restart_failures = failures,
            !.health = IF failures >= MaxRestarts THEN "Failed" ELSE "Degraded"])
  /\ NextFolder(g, p)
  /\ UNCHANGED <<running, deaf, gap>>
  /\ FolderUnchanged

----------------------------------------------------------------------------

MonitorNext(g) ==
  \/ Tick(g) \/ TickOver(g)
  \/ \E p \in Path :
       \/ Probe(g, p) \/ ProbeHeard(g, p) \/ ProbeMissed(g, p)
       \/ TakeWatcher(g, p) \/ StartWatcher(g, p) \/ PutWatcher(g, p)
       \/ RestartFailed(g, p)

Next ==
  \/ StartEngine \/ Reconcile \/ RestartWatchEngine
  \/ \E p \in Path : Scan(p) \/ SetEnabled(p) \/ Mount(p) \/ Unmount(p)
                     \/ GoDeaf(p) \/ FileArrives(p)
  \/ \E g \in Engine : MonitorNext(g)

Spec == Init /\ [][Next]_vars

\* Timers fire, probes end, the main thread ticks, and scans run.
Fairness ==
  /\ WF_vars(StartEngine)
  /\ WF_vars(Reconcile)
  /\ \A p \in Path : WF_vars(Scan(p))
  /\ \A g \in Engine : WF_vars(MonitorNext(g))

FairSpec == Spec /\ Fairness

----------------------------------------------------------------------------
(* Properties.                                                             *)

\* A watcher that runs is the one in the slot of its folder, or the one the
\* monitor has just started and not yet put there: however stop_all and a
\* restart interleave, no watcher runs that nobody can stop.
NoLeakedWatcher ==
  \A g \in Engine, p \in Path :
    running[g][p] = (IF SlotOf(g, p).watcher THEN 1 ELSE 0)
                  + (IF monitor[g] = "started" /\ at[g] = p THEN 1 ELSE 0)

\* A slot called healthy has its watcher: one that lost it in a restart is not.
HealthyIsWatched ==
  \A p \in Path : slots[p].health = "Healthy" => slots[p].watcher

\* A file nobody reported, in a folder watched and heard ever since the engine
\* started, is in a folder that the initial scan has yet to walk.
NoGapNoLoss ==
  \A p \in unseen \cap watched_paths : p \in gap \cup toScan

\* A watcher that went deaf is found out and taken down, or its engine is.
DeafIsTakenDown ==
  \A p \in Path : [](p \in deaf /\ slots[p].watcher =>
                        <>(p \notin deaf \/ ~ slots[p].watcher))

\* A folder disabled, or gone from the disk, is not watched for ever.
UnwantedIsDropped ==
  \A p \in Path : [](p \in watched_paths \ Wanted =>
                        <>(p \notin watched_paths \/ p \in Wanted))

=============================================================================
