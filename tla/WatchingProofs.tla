--------------------------- MODULE WatchingProofs ---------------------------
(***************************************************************************)
(* The watch engine for any number of folders and engines and any          *)
(* thresholds: its types, that no watcher leaks, that a healthy slot has   *)
(* its watcher, and that only a gap loses files; and one watcher in it,    *)
(* for any number of files, writes and checks: no finished photo slips     *)
(* through; and the media, for any number of volumes and mount points: no  *)
(* mount gets lost on its way.                                             *)
(*                                                                         *)
(* The engine's invariant says where the monitor of the current engine is  *)
(* relative to the slot it works on; an old engine's monitor has no slot   *)
(* to disturb.                                                             *)
(***************************************************************************)
EXTENDS MCWatching, Sequences, FiniteSetTheorems, FunctionTheorems, TLAPS

\* While it probes a folder whose slot is still there, the slot has a watcher
\* and has not reached the threshold.
ProbingHasWatcher ==
  \A g \in Engine, p \in Path :
    monitor[g] = "probing" /\ at[g] = p /\ SlotOf(g, p) # NoSlot =>
      slots[p].watcher

\* A watcher that missed as many probes as the threshold is about to be
\* restarted.
MissesBelowThreshold ==
  \A p \in Path :
    slots[p].watcher /\ slots[p].consecutive_misses >= MissThreshold =>
      \E g \in Engine : g = engine /\ monitor[g] = "restart" /\ at[g] = p

\* Only a slot without a watcher has used up its restarts.
RestartsLeft ==
  \A p \in Path :
    /\ slots[p].watcher => slots[p].consecutive_restart_failures < MaxRestarts
    /\ \A g \in Engine :
         /\ monitor[g] \in {"starting", "started", "failed"}
         /\ at[g] = p
         /\ SlotOf(g, p) # NoSlot
         => /\ ~ slots[p].watcher
            /\ slots[p].consecutive_restart_failures < MaxRestarts
            /\ slots[p].health # "Healthy"

\* In the middle of a restart the slot, if any, has missed its probes.
RestartDegraded ==
  \A g \in Engine, p \in Path :
    monitor[g] = "restart" /\ at[g] = p /\ SlotOf(g, p) # NoSlot =>
      slots[p].health # "Healthy"

\* A watched folder that is deaf, gone, or without its watcher is a gap.
GapsKnown ==
  \A p \in watched_paths :
    p \in deaf \/ p \notin present \/ ~ slots[p].watcher => p \in gap

\* Without an engine there are no slots.
NoEngineNoSlots == engine = NoEngine => watched_paths = {}

\* What relates the slots, the monitors and the running watchers, ...
SlotInv ==
  /\ NoLeakedWatcher
  /\ HealthyIsWatched
  /\ ProbingHasWatcher
  /\ MissesBelowThreshold
  /\ RestartsLeft
  /\ RestartDegraded
  /\ NoEngineNoSlots

\* ... and what relates the slots and the files.
FileInv ==
  /\ NoGapNoLoss
  /\ GapsKnown

IInv == TypeOK /\ SlotInv /\ FileInv

----------------------------------------------------------------------------
(* Steps that leave one half of the invariant alone.                       *)

LEMMA SlotInvUntouched ==
  ASSUME SlotInv, UNCHANGED <<engine, slots, monitor, at, running>>
  PROVE  SlotInv'
BY DEF SlotInv, NoLeakedWatcher, HealthyIsWatched, ProbingHasWatcher,
       MissesBelowThreshold, RestartsLeft, RestartDegraded, NoEngineNoSlots,
       SlotOf, watched_paths

LEMMA FileInvUntouched ==
  ASSUME FileInv, UNCHANGED <<slots, present, deaf, toScan, unseen, gap>>
  PROVE  FileInv'
BY DEF FileInv, NoGapNoLoss, GapsKnown, watched_paths

\* A folder in the map has a slot with all its fields.
LEMMA SlotTyped ==
  ASSUME TypeOK, NEW p \in Path, slots[p] # NoSlot
  PROVE  /\ slots[p] \in Slot
         /\ slots[p].watcher \in BOOLEAN
         /\ slots[p].consecutive_misses \in 0..MissThreshold
         /\ slots[p].consecutive_restart_failures \in 0..MaxRestarts
         /\ slots[p].health \in Health
BY DEF TypeOK, Slot

\* SetSlot replaces one slot of the map, and the map keeps its keys.
LEMMA SetSlotEffect ==
  ASSUME TypeOK, NEW p \in Path, slots[p] # NoSlot,
         NEW s \in Slot, SetSlot(p, s)
  PROVE  /\ slots' \in [Path -> Slot \cup {NoSlot}]
         /\ slots'[p] = s
         /\ \A q \in Path \ {p} : slots'[q] = slots[q]
         /\ watched_paths' = watched_paths
<1>1. s # NoSlot
  BY DEF Slot, NoSlot, Health
<1>2. /\ slots' \in [Path -> Slot \cup {NoSlot}]
      /\ slots'[p] = s
      /\ \A q \in Path \ {p} : slots'[q] = slots[q]
  BY DEF TypeOK, SetSlot
<1> QED BY <1>1, <1>2 DEF watched_paths

\* A slot seen through engine g belongs to the current engine.
LEMMA SlotIsCurrent ==
  ASSUME NEW g \in Engine, NEW p \in Path, SlotOf(g, p) # NoSlot
  PROVE  g = engine /\ slots[p] # NoSlot /\ SlotOf(g, p) = slots[p]
BY DEF SlotOf

----------------------------------------------------------------------------
(* The application, the disk and the operating system.                     *)

LEMMA StartEngineKeeps == ASSUME IInv, StartEngine PROVE IInv'
<1> USE EngineAssumption DEF IInv, StartEngine, watched_paths, NoSlot, folderVars
<1>1. TypeOK'
  <2>1. PICK g \in Engine, started \in SUBSET Wanted :
          /\ engine' = g
          /\ slots' = [p \in Path |->
               IF p \in started
               THEN [watcher |-> TRUE, consecutive_misses |-> 0,
                     consecutive_restart_failures |-> 0, health |-> "Healthy"]
               ELSE NoSlot]
          /\ running' = [running EXCEPT ![g] = [p \in Path |->
                           IF p \in started THEN 1 ELSE 0]]
          /\ monitor' = [monitor EXCEPT ![g] =
                           IF started = {} THEN "none" ELSE "idle"]
          /\ toScan' = toScan \cup started
          /\ gap' = Path \ started
    OBVIOUS
  <2>2. started \subseteq Path
    BY DEF TypeOK, Wanted
  <2>3. [watcher |-> TRUE, consecutive_misses |-> 0,
         consecutive_restart_failures |-> 0, health |-> "Healthy"] \in Slot
    BY DEF Slot, Health
  <2>4. slots' \in [Path -> Slot \cup {NoSlot}]
    BY <2>1, <2>3
  <2>5. running' \in [Engine -> [Path -> 0..1]]
    BY <2>1 DEF TypeOK
  <2>6. monitor' \in [Engine -> Monitor]
    BY <2>1 DEF TypeOK, Monitor
  <2> QED BY <2>1, <2>2, <2>4, <2>5, <2>6 DEF TypeOK
<1>2. NoLeakedWatcher'
  BY DEF TypeOK, SlotInv, NoLeakedWatcher, SlotOf
<1>3. HealthyIsWatched'
  BY DEF TypeOK, HealthyIsWatched
<1>4. ProbingHasWatcher' /\ RestartDegraded'
  BY DEF TypeOK, SlotInv, ProbingHasWatcher, RestartDegraded, SlotOf
<1>5. MissesBelowThreshold'
  BY DEF TypeOK, MissesBelowThreshold
<1>6. RestartsLeft'
  BY DEF TypeOK, SlotInv, RestartsLeft, SlotOf
<1>7. NoEngineNoSlots'
  BY DEF TypeOK, NoEngineNoSlots
<1>8. FileInv'
  BY DEF TypeOK, FileInv, NoGapNoLoss, GapsKnown, Wanted
<1> QED BY <1>1, <1>2, <1>3, <1>4, <1>5, <1>6, <1>7, <1>8 DEF SlotInv

LEMMA StopAllKeeps ==
  ASSUME IInv, engine # NoEngine, StopAll PROVE IInv'
<1> USE EngineAssumption DEF IInv, StopAll, NoSlot
<1>1. running' \in [Engine -> [Path -> 0..1]]
  <2>1. \A p \in Path : running[engine][p] - (IF slots[p].watcher THEN 1 ELSE 0) \in 0..1
    BY DEF TypeOK, SlotInv, NoLeakedWatcher, SlotOf
  <2> QED BY <2>1 DEF TypeOK
<1>2. TypeOK'
  BY <1>1 DEF TypeOK, folderVars, monitorVars
<1>3. NoLeakedWatcher'
  BY DEF TypeOK, SlotInv, NoLeakedWatcher, SlotOf, monitorVars
<1>4. HealthyIsWatched' /\ MissesBelowThreshold' /\ NoEngineNoSlots'
  BY DEF HealthyIsWatched, MissesBelowThreshold, NoEngineNoSlots, watched_paths
<1>5. ProbingHasWatcher' /\ RestartDegraded' /\ RestartsLeft'
  BY DEF ProbingHasWatcher, RestartDegraded, RestartsLeft, SlotOf
<1>6. FileInv'
  BY DEF FileInv, NoGapNoLoss, GapsKnown, watched_paths
<1> QED BY <1>2, <1>3, <1>4, <1>5, <1>6 DEF SlotInv

LEMMA ScanKeeps == ASSUME IInv, NEW p \in Path, Scan(p) PROVE IInv'
<1> USE DEF IInv, Scan, folderVars, monitorVars, fileVars
<1>1. TypeOK'
  BY DEF TypeOK
<1>2. SlotInv'
  BY SlotInvUntouched
<1>3. FileInv'
  BY DEF FileInv, NoGapNoLoss, GapsKnown, watched_paths
<1> QED BY <1>1, <1>2, <1>3

LEMMA SetEnabledKeeps == ASSUME IInv, NEW p \in Path, SetEnabled(p) PROVE IInv'
<1> USE DEF IInv, SetEnabled, folderVars, monitorVars, fileVars
<1>1. TypeOK'
  BY DEF TypeOK
<1>2. SlotInv'
  BY SlotInvUntouched
<1>3. FileInv'
  BY DEF FileInv, NoGapNoLoss, GapsKnown, watched_paths
<1> QED BY <1>1, <1>2, <1>3

LEMMA MountKeeps == ASSUME IInv, NEW p \in Path, Mount(p) PROVE IInv'
<1> USE DEF IInv, Mount, folderVars, monitorVars, fileVars
<1>1. TypeOK'
  BY DEF TypeOK
<1>2. SlotInv'
  BY SlotInvUntouched
<1>3. FileInv'
  BY DEF FileInv, NoGapNoLoss, GapsKnown, watched_paths
<1> QED BY <1>1, <1>2, <1>3

LEMMA UnmountKeeps == ASSUME IInv, NEW p \in Path, Unmount(p) PROVE IInv'
<1> USE DEF IInv, Unmount, folderVars, monitorVars, fileVars
<1>1. TypeOK'
  BY DEF TypeOK
<1>2. SlotInv'
  BY SlotInvUntouched
<1>3. FileInv'
  BY DEF FileInv, NoGapNoLoss, GapsKnown, watched_paths
<1> QED BY <1>1, <1>2, <1>3

LEMMA GoDeafKeeps == ASSUME IInv, NEW p \in Path, GoDeaf(p) PROVE IInv'
<1> USE DEF IInv, GoDeaf, folderVars, monitorVars, fileVars
<1>1. TypeOK'
  BY DEF TypeOK
<1>2. SlotInv'
  BY SlotInvUntouched
<1>3. FileInv'
  BY DEF FileInv, NoGapNoLoss, GapsKnown, watched_paths
<1> QED BY <1>1, <1>2, <1>3

\* A file that nobody hears is in a gap: the watcher of its folder is deaf, or
\* the folder's slot has none.
LEMMA FileArrivesKeeps ==
  ASSUME IInv, NEW p \in Path, FileArrives(p) PROVE IInv'
<1> USE DEF IInv, FileArrives, folderVars, monitorVars
<1>1. TypeOK'
  BY DEF TypeOK
<1>2. SlotInv'
  BY SlotInvUntouched
<1>3. p \in watched_paths => p \in gap
  <2>1. SUFFICES ASSUME p \in watched_paths, p \notin deaf
                 PROVE  ~ slots[p].watcher
    BY DEF FileInv, GapsKnown
  <2>2. engine \in Engine
    BY <2>1 DEF TypeOK, SlotInv, NoEngineNoSlots
  <2>3. running[engine][p] = 0
    BY <2>1, <2>2, EngineAssumption DEF TypeOK
  <2> QED BY <2>2, <2>3 DEF TypeOK, SlotInv, NoLeakedWatcher, SlotOf
<1>4. FileInv'
  BY <1>3 DEF FileInv, NoGapNoLoss, GapsKnown, watched_paths
<1> QED BY <1>1, <1>2, <1>4

----------------------------------------------------------------------------
(* The health monitor.                                                     *)

LEMMA TickKeeps ==
  ASSUME IInv, NEW g \in Engine, Tick(g) PROVE IInv'
<1> USE DEF IInv, Tick, MonitorStep, NextFolder, FolderUnchanged, folderVars
<1>1. TypeOK'
  <2>1. todo' \in [Engine -> SUBSET Path]
    BY DEF TypeOK, watched_paths
  <2>2. monitor' \in [Engine -> Monitor]
    BY DEF TypeOK, Monitor
  <2> QED BY <2>1, <2>2 DEF TypeOK
<1>2. NoLeakedWatcher'
  BY DEF TypeOK, SlotInv, NoLeakedWatcher, SlotOf
<1>3. HealthyIsWatched' /\ NoEngineNoSlots'
  BY DEF SlotInv, HealthyIsWatched, NoEngineNoSlots, watched_paths
<1>4. ProbingHasWatcher' /\ RestartDegraded'
  BY DEF TypeOK, SlotInv, ProbingHasWatcher, RestartDegraded, SlotOf, NoSlot
<1>5. MissesBelowThreshold'
  BY DEF TypeOK, SlotInv, MissesBelowThreshold
<1>6. RestartsLeft'
  BY DEF TypeOK, SlotInv, RestartsLeft, SlotOf
<1>7. FileInv'
  BY FileInvUntouched
<1> QED BY <1>1, <1>2, <1>3, <1>4, <1>5, <1>6, <1>7 DEF SlotInv

LEMMA TickOverKeeps ==
  ASSUME IInv, NEW g \in Engine, TickOver(g) PROVE IInv'
<1> USE DEF IInv, TickOver, MonitorStep, NextFolder, FolderUnchanged, folderVars
<1>1. TypeOK'
  BY DEF TypeOK, Monitor
<1>2. NoLeakedWatcher'
  BY DEF TypeOK, SlotInv, NoLeakedWatcher, SlotOf
<1>3. HealthyIsWatched' /\ NoEngineNoSlots'
  BY DEF SlotInv, HealthyIsWatched, NoEngineNoSlots, watched_paths
<1>4. ProbingHasWatcher' /\ RestartDegraded'
  BY DEF TypeOK, SlotInv, ProbingHasWatcher, RestartDegraded, SlotOf, NoSlot
<1>5. MissesBelowThreshold'
  BY DEF TypeOK, SlotInv, MissesBelowThreshold
<1>6. RestartsLeft'
  BY DEF TypeOK, SlotInv, RestartsLeft, SlotOf
<1>7. FileInv'
  BY FileInvUntouched
<1> QED BY <1>1, <1>2, <1>3, <1>4, <1>5, <1>6, <1>7 DEF SlotInv

LEMMA ProbeKeeps ==
  ASSUME IInv, NEW g \in Engine, NEW p \in Path, Probe(g, p) PROVE IInv'
<1> USE DEF IInv, Probe, MonitorStep, NextFolder, FolderUnchanged, folderVars
<1>1. TypeOK'
  BY DEF TypeOK, Monitor
<1>2. NoLeakedWatcher'
  BY DEF TypeOK, SlotInv, NoLeakedWatcher, SlotOf
<1>3. HealthyIsWatched' /\ NoEngineNoSlots'
  BY DEF SlotInv, HealthyIsWatched, NoEngineNoSlots, watched_paths
<1>4. ProbingHasWatcher' /\ RestartDegraded'
  BY DEF TypeOK, SlotInv, ProbingHasWatcher, RestartDegraded, SlotOf, NoSlot
<1>5. MissesBelowThreshold'
  BY DEF TypeOK, SlotInv, MissesBelowThreshold
<1>6. RestartsLeft'
  BY DEF TypeOK, SlotInv, RestartsLeft, SlotOf
<1>7. FileInv'
  BY FileInvUntouched
<1> QED BY <1>1, <1>2, <1>3, <1>4, <1>5, <1>6, <1>7 DEF SlotInv

(* What the monitor's steps that touch a slot have in common.              *)

\* A monitor that goes on to the next folder keeps its types.
LEMMA NextFolderTyped ==
  ASSUME TypeOK, NEW g \in Engine, NEW p \in Path, NextFolder(g, p)
  PROVE  /\ monitor' \in [Engine -> Monitor]
         /\ todo' \in [Engine -> SUBSET Path]
         /\ at' \in [Engine -> Path \cup {NoPath}]
BY DEF TypeOK, NextFolder, MonitorStep, Monitor

\* The slot is gone: the monitor goes on, and nothing else happens.
LEMMA SlotGone ==
  ASSUME TypeOK, SlotInv, NEW g \in Engine, NEW p \in Path,
         at[g] = p, monitor[g] # "started", SlotOf(g, p) = NoSlot,
         NextFolder(g, p), UNCHANGED <<engine, slots, running>>
  PROVE  SlotInv'
<1> USE DEF NextFolder, MonitorStep
<1>1. NoLeakedWatcher'
  BY DEF TypeOK, SlotInv, NoLeakedWatcher, SlotOf
<1>2. HealthyIsWatched' /\ NoEngineNoSlots'
  BY DEF SlotInv, HealthyIsWatched, NoEngineNoSlots, watched_paths
<1>3. ProbingHasWatcher' /\ RestartDegraded'
  BY DEF TypeOK, SlotInv, ProbingHasWatcher, RestartDegraded, SlotOf
<1>4. MissesBelowThreshold'
  BY DEF TypeOK, SlotInv, MissesBelowThreshold, SlotOf, NoSlot
<1>5. RestartsLeft'
  BY DEF TypeOK, SlotInv, RestartsLeft, SlotOf
<1> QED BY <1>1, <1>2, <1>3, <1>4, <1>5 DEF SlotInv

\* The slot gets new counters, and the monitor goes on.
LEMMA SlotRewritten ==
  ASSUME TypeOK, SlotInv, NEW g \in Engine, NEW p \in Path, NEW s \in Slot,
         g = engine, slots[p] # NoSlot, at[g] = p,
         s.health = "Healthy" => s.watcher,
         s.watcher => s.consecutive_misses < MissThreshold,
         s.watcher => s.consecutive_restart_failures < MaxRestarts,
         running[g][p] = IF s.watcher THEN 1 ELSE 0,
         SetSlot(p, s), NextFolder(g, p), UNCHANGED <<engine, running>>
  PROVE  SlotInv'
<1>1. /\ slots'[p] = s
      /\ \A q \in Path \ {p} : slots'[q] = slots[q]
      /\ watched_paths' = watched_paths
  BY SetSlotEffect
<1>2. /\ monitor'[g] = "tick" /\ at'[g] \notin Path
      /\ \A h \in Engine \ {g} : monitor'[h] = monitor[h] /\ at'[h] = at[h]
  BY EngineAssumption DEF TypeOK, NextFolder, MonitorStep
<1>3. NoLeakedWatcher'
  BY <1>1, <1>2 DEF SlotInv, NoLeakedWatcher, SlotOf
<1>4. HealthyIsWatched'
  BY <1>1 DEF SlotInv, HealthyIsWatched
<1>5. ProbingHasWatcher' /\ RestartDegraded'
  BY <1>2 DEF ProbingHasWatcher, RestartDegraded, SlotOf
<1>6. MissesBelowThreshold'
  BY <1>1, <1>2, EngineAssumption DEF Slot, SlotInv, MissesBelowThreshold
<1>7. RestartsLeft'
  BY <1>1, <1>2 DEF SlotInv, RestartsLeft, SlotOf
<1>8. NoEngineNoSlots'
  BY <1>1 DEF SlotInv, NoEngineNoSlots
<1> QED BY <1>3, <1>4, <1>5, <1>6, <1>7, <1>8 DEF SlotInv

\* No file is lost when a slot changes, but by a watcher taken from it.
LEMMA FilesKept ==
  ASSUME TypeOK, FileInv, NEW p \in Path, NEW s \in Slot, slots[p] # NoSlot,
         SetSlot(p, s), slots[p].watcher => s.watcher,
         UNCHANGED <<present, deaf, toScan, unseen, gap>>
  PROVE  FileInv'
<1>1. /\ slots'[p] = s
      /\ \A q \in Path \ {p} : slots'[q] = slots[q]
      /\ watched_paths' = watched_paths
  BY SetSlotEffect
<1>2. watched_paths \subseteq Path
  BY DEF watched_paths
<1> QED BY <1>1, <1>2 DEF FileInv, NoGapNoLoss, GapsKnown

(* The steps.                                                              *)

LEMMA ProbeHeardKeeps ==
  ASSUME IInv, NEW g \in Engine, NEW p \in Path, ProbeHeard(g, p) PROVE IInv'
<1> USE DEF IInv, ProbeHeard, FolderUnchanged, folderVars
<1>1. CASE SlotOf(g, p) = NoSlot
  BY <1>1, SlotGone, FileInvUntouched, NextFolderTyped DEF TypeOK
<1>2. CASE SlotOf(g, p) # NoSlot
  <2> DEFINE s == [slots[p] EXCEPT !.consecutive_misses = 0,
                                   !.consecutive_restart_failures = 0,
                                   !.health = "Healthy"]
  <2>1. g = engine /\ slots[p] # NoSlot /\ slots[p].watcher
    BY <1>2, SlotIsCurrent DEF SlotInv, ProbingHasWatcher
  <2>2. /\ s \in Slot /\ s.watcher
        /\ s.consecutive_misses < MissThreshold
        /\ s.consecutive_restart_failures < MaxRestarts
    <3>1. slots[p] \in Slot
      BY <2>1, SlotTyped
    <3>2. s \in Slot
      <4>1. 0 \in 0..MissThreshold /\ 0 \in 0..MaxRestarts /\ "Healthy" \in Health
        BY EngineAssumption DEF Health
      <4> QED BY <3>1, <4>1 DEF Slot
    <3>3. s.watcher = slots[p].watcher
      BY <3>1 DEF Slot
    <3>4. s.consecutive_misses = 0 /\ s.consecutive_restart_failures = 0
      BY <3>1 DEF Slot
    <3> QED BY <2>1, <3>2, <3>3, <3>4, EngineAssumption
  <2>3. SetSlot(p, s)
    BY <1>2
  <2> HIDE DEF s
  <2>4. running[g][p] = 1
    BY <2>1 DEF SlotInv, NoLeakedWatcher, SlotOf
  <2>5. SlotInv' /\ FileInv'
    BY <2>1, <2>2, <2>3, <2>4, SlotRewritten, FilesKept
  <2>6. TypeOK'
    BY <2>1, <2>2, <2>3, SetSlotEffect, NextFolderTyped DEF TypeOK
  <2> QED BY <2>5, <2>6
<1> QED BY <1>1, <1>2

\* The miss that reaches the threshold finds the slot with its watcher, which
\* keeps the counter within its bound.
LEMMA ProbeMissedKeeps ==
  ASSUME IInv, NEW g \in Engine, NEW p \in Path, ProbeMissed(g, p) PROVE IInv'
<1> USE DEF IInv, ProbeMissed, FolderUnchanged, folderVars
<1>1. CASE SlotOf(g, p) = NoSlot
  BY <1>1, SlotGone, FileInvUntouched, NextFolderTyped DEF TypeOK
<1>2. CASE SlotOf(g, p) # NoSlot
  <2> DEFINE misses == slots[p].consecutive_misses + 1
             s == [slots[p] EXCEPT !.consecutive_misses = misses,
                                   !.health = "Degraded"]
  <2>1. g = engine /\ slots[p] # NoSlot /\ slots[p].watcher
    BY <1>2, SlotIsCurrent DEF SlotInv, ProbingHasWatcher
  <2>2. misses \in 1..MissThreshold
    BY <2>1, SlotTyped, EngineAssumption DEF SlotInv, MissesBelowThreshold
  <2>3. slots[p].consecutive_restart_failures < MaxRestarts
    BY <2>1 DEF SlotInv, RestartsLeft
  <2>4. /\ s \in Slot /\ s.watcher /\ s.health = "Degraded"
        /\ s.consecutive_misses = misses
        /\ s.consecutive_restart_failures < MaxRestarts
    <3>1. slots[p] \in Slot
      BY <2>1, SlotTyped
    <3>2. s \in Slot
      <4>1. misses \in 0..MissThreshold /\ "Degraded" \in Health
        BY <2>2, EngineAssumption DEF Health
      <4> HIDE DEF misses
      <4> QED BY <3>1, <4>1 DEF Slot
    <3>3. s.watcher = slots[p].watcher
      BY <3>1 DEF Slot
    <3>4. /\ s.health = "Degraded"
          /\ s.consecutive_misses = misses
          /\ s.consecutive_restart_failures = slots[p].consecutive_restart_failures
      BY <3>1 DEF Slot
    <3> QED BY <2>1, <2>3, <3>2, <3>3, <3>4
  <2>5. SetSlot(p, s)
    BY <1>2
  <2>6. running[g][p] = 1
    BY <2>1 DEF SlotInv, NoLeakedWatcher, SlotOf
  <2>7. IF misses >= MissThreshold
        THEN MonitorStep(g, "restart") /\ UNCHANGED <<todo, at>>
        ELSE NextFolder(g, p)
    BY <1>2
  <2> HIDE DEF s, misses
  <2>8. FileInv'
    BY <2>1, <2>4, <2>5, FilesKept
  <2>9. CASE ~ (misses >= MissThreshold)
    <3>1. NextFolder(g, p) /\ misses < MissThreshold
      BY <2>2, <2>7, <2>9, EngineAssumption
    <3>2. SlotInv'
      BY <2>1, <2>4, <2>5, <2>6, <3>1, SlotRewritten
    <3>3. TypeOK'
      BY <2>1, <2>4, <2>5, <3>1, SetSlotEffect, NextFolderTyped DEF TypeOK
    <3> QED BY <2>8, <3>2, <3>3
  <2>10. CASE misses >= MissThreshold
    <3>1. /\ monitor'[g] = "restart"
          /\ \A h \in Engine \ {g} : monitor'[h] = monitor[h]
          /\ monitor' \in [Engine -> Monitor]
          /\ UNCHANGED <<todo, at>>
      BY <2>7, <2>10 DEF TypeOK, MonitorStep, Monitor
    <3>2. /\ slots' \in [Path -> Slot \cup {NoSlot}]
          /\ slots'[p] = s
          /\ \A q \in Path \ {p} : slots'[q] = slots[q]
          /\ watched_paths' = watched_paths
      BY <2>1, <2>4, <2>5, SetSlotEffect
    <3>3. TypeOK'
      BY <3>1, <3>2 DEF TypeOK
    <3>4. NoLeakedWatcher'
      BY <2>1, <2>4, <3>1, <3>2 DEF SlotInv, NoLeakedWatcher, SlotOf
    <3>5. HealthyIsWatched' /\ NoEngineNoSlots'
      BY <2>4, <3>2 DEF SlotInv, HealthyIsWatched, NoEngineNoSlots
    <3>6. ProbingHasWatcher'
      BY <2>1, <3>1, <3>2 DEF SlotInv, ProbingHasWatcher, SlotOf
    <3>7. RestartDegraded'
      BY <2>1, <2>4, <3>1, <3>2 DEF SlotInv, RestartDegraded, SlotOf
    <3>8. MissesBelowThreshold'
      BY <2>1, <3>1, <3>2 DEF SlotInv, MissesBelowThreshold
    <3>9. RestartsLeft'
      BY <2>1, <2>4, <3>1, <3>2 DEF SlotInv, RestartsLeft, SlotOf
    <3> QED BY <2>8, <3>3, <3>4, <3>5, <3>6, <3>7, <3>8, <3>9 DEF SlotInv
  <2> QED BY <2>9, <2>10
<1> QED BY <1>1, <1>2

LEMMA TakeWatcherKeeps ==
  ASSUME IInv, NEW g \in Engine, NEW p \in Path, TakeWatcher(g, p) PROVE IInv'
<1> USE DEF IInv, TakeWatcher, FolderUnchanged, folderVars
<1>1. CASE SlotOf(g, p) = NoSlot
  BY <1>1, SlotGone, FileInvUntouched, NextFolderTyped DEF TypeOK
<1>2. CASE /\ SlotOf(g, p) # NoSlot
           /\ slots[p].consecutive_restart_failures >= MaxRestarts
  <2>1. g = engine /\ slots[p] # NoSlot
    BY <1>2, SlotIsCurrent
  <2>2. ~ slots[p].watcher
    BY <1>2, <2>1, SlotTyped, EngineAssumption DEF SlotInv, RestartsLeft
  <2>3. NextFolder(g, p) /\ UNCHANGED <<slots, running, gap>>
    BY <1>2
  <2>4. SetSlot(p, slots[p])
    BY <2>3 DEF SetSlot, TypeOK
  <2>5. running[g][p] = 0
    BY <2>1, <2>2 DEF SlotInv, NoLeakedWatcher, SlotOf
  <2>6. slots[p] \in Slot /\ slots[p].health # "Healthy"
    BY <2>1, <2>2, SlotTyped DEF SlotInv, HealthyIsWatched
  <2>7. SlotInv'
    BY <2>1, <2>2, <2>3, <2>4, <2>5, <2>6, SlotRewritten
  <2>8. FileInv'
    BY <2>3, FileInvUntouched
  <2>9. TypeOK'
    BY <2>3, NextFolderTyped DEF TypeOK
  <2> QED BY <2>7, <2>8, <2>9
<1>3. CASE /\ SlotOf(g, p) # NoSlot
           /\ ~ (slots[p].consecutive_restart_failures >= MaxRestarts)
  <2> DEFINE s == [slots[p] EXCEPT !.watcher = FALSE]
  <2>1. g = engine /\ slots[p] # NoSlot
    BY <1>3, SlotIsCurrent
  <2>2. /\ s \in Slot /\ ~ s.watcher /\ s.health # "Healthy"
        /\ s.consecutive_restart_failures < MaxRestarts
    <3>1. slots[p] \in Slot
      BY <2>1, SlotTyped
    <3>2. s \in Slot
      BY <3>1 DEF Slot
    <3>3. s.watcher = FALSE
      BY <3>1 DEF Slot
    <3>4. /\ s.health = slots[p].health
          /\ s.consecutive_restart_failures = slots[p].consecutive_restart_failures
      BY <3>1 DEF Slot
    <3>5. slots[p].health # "Healthy"
      BY <1>3 DEF SlotInv, RestartDegraded
    <3>6. slots[p].consecutive_restart_failures < MaxRestarts
      BY <1>3, <2>1, SlotTyped, EngineAssumption
    <3> QED BY <3>2, <3>3, <3>4, <3>5, <3>6
  <2>3. /\ SetSlot(p, s)
        /\ running' = [running EXCEPT ![g][p] =
                         @ - (IF slots[p].watcher THEN 1 ELSE 0)]
        /\ gap' = gap \cup {p}
        /\ MonitorStep(g, "starting")
        /\ UNCHANGED <<todo, at>>
    BY <1>3
  <2> HIDE DEF s
  <2>4. /\ slots' \in [Path -> Slot \cup {NoSlot}]
        /\ slots'[p] = s
        /\ \A q \in Path \ {p} : slots'[q] = slots[q]
        /\ watched_paths' = watched_paths
    BY <2>1, <2>2, <2>3, SetSlotEffect
  <2>5. /\ monitor'[g] = "starting"
        /\ \A h \in Engine \ {g} : monitor'[h] = monitor[h]
        /\ monitor' \in [Engine -> Monitor]
    BY <2>3 DEF TypeOK, MonitorStep, Monitor
  <2>6. running[g][p] = IF slots[p].watcher THEN 1 ELSE 0
    BY <2>1 DEF SlotInv, NoLeakedWatcher, SlotOf
  <2>7. running' = [running EXCEPT ![g][p] = 0]
    BY <2>3, <2>6 DEF TypeOK
  <2>8. TypeOK'
    <3>1. running' \in [Engine -> [Path -> 0..1]]
      BY <2>7 DEF TypeOK
    <3> QED BY <2>3, <2>4, <2>5, <3>1 DEF TypeOK
  <2>9. NoLeakedWatcher'
    <3>1. running'[g][p] = 0
      BY <2>7 DEF TypeOK
    <3>2. \A h \in Engine, q \in Path :
            h # g \/ q # p => running'[h][q] = running[h][q]
      BY <2>7 DEF TypeOK
    <3> QED BY <2>1, <2>2, <2>3, <2>4, <2>5, <3>1, <3>2
            DEF SlotInv, NoLeakedWatcher, SlotOf
  <2>10. HealthyIsWatched' /\ NoEngineNoSlots'
    BY <2>2, <2>4 DEF SlotInv, HealthyIsWatched, NoEngineNoSlots
  <2>11. ProbingHasWatcher' /\ RestartDegraded'
    BY <2>1, <2>3, <2>4, <2>5
    DEF SlotInv, ProbingHasWatcher, RestartDegraded, SlotOf
  <2>12. MissesBelowThreshold'
    BY <2>1, <2>2, <2>3, <2>4, <2>5 DEF SlotInv, MissesBelowThreshold
  <2>13. RestartsLeft'
    BY <2>1, <2>2, <2>3, <2>4, <2>5 DEF SlotInv, RestartsLeft, SlotOf
  <2>14. FileInv'
    BY <2>3, <2>4 DEF FileInv, NoGapNoLoss, GapsKnown, watched_paths
  <2> QED BY <2>8, <2>9, <2>10, <2>11, <2>12, <2>13, <2>14 DEF SlotInv
<1> QED BY <1>1, <1>2, <1>3

LEMMA StartWatcherKeeps ==
  ASSUME IInv, NEW g \in Engine, NEW p \in Path, StartWatcher(g, p) PROVE IInv'
<1> USE DEF IInv, StartWatcher, MonitorStep, FolderUnchanged, folderVars
<1>1. running[g][p] = 0
  BY DEF SlotInv, NoLeakedWatcher, RestartsLeft, SlotOf, NoSlot
<1>2. TypeOK'
  <2>1. monitor' \in [Engine -> Monitor]
    BY DEF TypeOK, Monitor
  <2>2. running' \in [Engine -> [Path -> 0..1]]
    BY <1>1 DEF TypeOK
  <2> QED BY <2>1, <2>2 DEF TypeOK
<1>3. NoLeakedWatcher'
  BY <1>1 DEF TypeOK, SlotInv, NoLeakedWatcher, SlotOf
<1>4. HealthyIsWatched' /\ NoEngineNoSlots'
  BY DEF SlotInv, HealthyIsWatched, NoEngineNoSlots, watched_paths
<1>5. ProbingHasWatcher' /\ RestartDegraded'
  BY DEF TypeOK, SlotInv, ProbingHasWatcher, RestartDegraded, SlotOf
<1>6. MissesBelowThreshold'
  BY DEF TypeOK, SlotInv, MissesBelowThreshold
<1>7. RestartsLeft'
  BY DEF TypeOK, SlotInv, RestartsLeft, SlotOf
<1>8. FileInv'
  BY DEF FileInv, NoGapNoLoss, GapsKnown, watched_paths
<1> QED BY <1>2, <1>3, <1>4, <1>5, <1>6, <1>7, <1>8 DEF SlotInv

\* The watcher just started goes into the slot, or is stopped: either way the
\* monitor holds none afterwards.
LEMMA PutWatcherKeeps ==
  ASSUME IInv, NEW g \in Engine, NEW p \in Path, PutWatcher(g, p) PROVE IInv'
<1> USE DEF IInv, PutWatcher, FolderUnchanged, folderVars
<1>1. CASE SlotOf(g, p) = NoSlot
  <2>1. /\ running' = [running EXCEPT ![g][p] = @ - 1]
        /\ NextFolder(g, p) /\ UNCHANGED slots
    BY <1>1
  <2>2. running[g][p] = 1
    BY <1>1 DEF SlotInv, NoLeakedWatcher, NoSlot
  <2>3. running' = [running EXCEPT ![g][p] = 0]
    BY <2>1, <2>2 DEF TypeOK
  <2>4. TypeOK'
    BY <2>1, <2>3, NextFolderTyped DEF TypeOK
  <2>5. /\ monitor'[g] = "tick" /\ at'[g] \notin Path
        /\ \A h \in Engine \ {g} : monitor'[h] = monitor[h] /\ at'[h] = at[h]
    BY <2>1, EngineAssumption DEF TypeOK, NextFolder, MonitorStep
  <2>6. NoLeakedWatcher'
    BY <1>1, <2>1, <2>3, <2>5
    DEF TypeOK, SlotInv, NoLeakedWatcher, SlotOf, NoSlot
  <2>7. HealthyIsWatched' /\ NoEngineNoSlots'
    BY <2>1 DEF SlotInv, HealthyIsWatched, NoEngineNoSlots, watched_paths
  <2>8. ProbingHasWatcher' /\ RestartDegraded' /\ RestartsLeft'
    BY <2>1, <2>5
    DEF SlotInv, ProbingHasWatcher, RestartDegraded, RestartsLeft, SlotOf
  <2>9. MissesBelowThreshold'
    BY <2>1, <2>5 DEF SlotInv, MissesBelowThreshold
  <2>10. FileInv'
    BY <2>1, FileInvUntouched
  <2> QED BY <2>4, <2>6, <2>7, <2>8, <2>9, <2>10 DEF SlotInv
<1>2. CASE SlotOf(g, p) # NoSlot
  <2> DEFINE s == [watcher |-> TRUE, consecutive_misses |-> 0,
                   consecutive_restart_failures |-> 0, health |-> "Degraded"]
  <2>1. g = engine /\ slots[p] # NoSlot /\ ~ slots[p].watcher
    BY <1>2, SlotIsCurrent DEF SlotInv, RestartsLeft
  <2>2. /\ s \in Slot /\ s.watcher
        /\ s.consecutive_misses < MissThreshold
        /\ s.consecutive_restart_failures < MaxRestarts
        /\ s.health = "Degraded"
    BY EngineAssumption DEF Slot, Health
  <2>3. SetSlot(p, s) /\ NextFolder(g, p) /\ UNCHANGED running
    BY <1>2
  <2> HIDE DEF s
  <2>4. running[g][p] = 1
    BY <2>1 DEF SlotInv, NoLeakedWatcher, SlotOf
  <2>5. SlotInv'
    BY <2>1, <2>2, <2>3, <2>4, SlotRewritten
  <2>6. FileInv'
    BY <2>1, <2>2, <2>3, FilesKept
  <2>7. TypeOK'
    BY <2>1, <2>2, <2>3, SetSlotEffect, NextFolderTyped DEF TypeOK
  <2> QED BY <2>5, <2>6, <2>7
<1> QED BY <1>1, <1>2

LEMMA RestartFailedKeeps ==
  ASSUME IInv, NEW g \in Engine, NEW p \in Path, RestartFailed(g, p) PROVE IInv'
<1> USE DEF IInv, RestartFailed, FolderUnchanged, folderVars
<1>1. CASE SlotOf(g, p) = NoSlot
  BY <1>1, SlotGone, FileInvUntouched, NextFolderTyped DEF TypeOK
<1>2. CASE SlotOf(g, p) # NoSlot
  <2> DEFINE failures == slots[p].consecutive_restart_failures + 1
             s == [slots[p] EXCEPT
                     !.consecutive_restart_failures = failures,
                     !.health = IF failures >= MaxRestarts THEN "Failed"
                                ELSE "Degraded"]
  <2>1. /\ g = engine /\ slots[p] # NoSlot /\ ~ slots[p].watcher
        /\ slots[p].consecutive_restart_failures < MaxRestarts
    BY <1>2, SlotIsCurrent DEF SlotInv, RestartsLeft
  <2>2. failures \in 0..MaxRestarts
    BY <2>1, SlotTyped, EngineAssumption
  <2>3. s \in Slot /\ ~ s.watcher /\ s.health # "Healthy"
    BY <2>1, <2>2, SlotTyped DEF Slot, Health
  <2>4. SetSlot(p, s) /\ NextFolder(g, p)
    BY <1>2
  <2> HIDE DEF s, failures
  <2>5. running[g][p] = 0
    BY <2>1 DEF SlotInv, NoLeakedWatcher, SlotOf
  <2>6. SlotInv'
    BY <2>1, <2>3, <2>4, <2>5, SlotRewritten
  <2>7. FileInv'
    BY <2>1, <2>3, <2>4, FilesKept
  <2>8. TypeOK'
    BY <2>1, <2>3, <2>4, SetSlotEffect, NextFolderTyped DEF TypeOK
  <2> QED BY <2>6, <2>7, <2>8
<1> QED BY <1>1, <1>2

----------------------------------------------------------------------------

LEMMA InitEstablishes == Init => IInv
<1> SUFFICES ASSUME Init PROVE IInv
  OBVIOUS
<1> USE EngineAssumption DEF Init, NoSlot
<1>1. TypeOK
  BY DEF TypeOK, Monitor, NoSlot
<1>2. SlotInv
  BY DEF SlotInv, NoLeakedWatcher, HealthyIsWatched, ProbingHasWatcher,
         MissesBelowThreshold, RestartsLeft, RestartDegraded, NoEngineNoSlots,
         SlotOf, watched_paths
<1>3. FileInv
  BY DEF FileInv, NoGapNoLoss, GapsKnown, watched_paths
<1> QED BY <1>1, <1>2, <1>3 DEF IInv

LEMMA StepKeeps == IInv /\ [Next]_vars => IInv'
<1> SUFFICES ASSUME IInv, [Next]_vars PROVE IInv'
  OBVIOUS
<1>1. CASE StartEngine
  BY <1>1, StartEngineKeeps
<1>2. CASE Reconcile \/ RestartWatchEngine
  BY <1>2, StopAllKeeps DEF Reconcile, RestartWatchEngine
<1>3. ASSUME NEW p \in Path,
             \/ Scan(p) \/ SetEnabled(p) \/ Mount(p) \/ Unmount(p)
             \/ GoDeaf(p) \/ FileArrives(p)
      PROVE  IInv'
  BY <1>3, ScanKeeps, SetEnabledKeeps, MountKeeps, UnmountKeeps, GoDeafKeeps,
     FileArrivesKeeps
<1>4. ASSUME NEW g \in Engine, MonitorNext(g)
      PROVE  IInv'
  BY <1>4, TickKeeps, TickOverKeeps, ProbeKeeps, ProbeHeardKeeps,
     ProbeMissedKeeps, TakeWatcherKeeps, StartWatcherKeeps, PutWatcherKeeps,
     RestartFailedKeeps DEF MonitorNext
<1>5. CASE UNCHANGED vars
  BY <1>5, SlotInvUntouched, FileInvUntouched
  DEF IInv, TypeOK, vars, folderVars, monitorVars, fileVars
<1> QED BY <1>1, <1>2, <1>3, <1>4, <1>5 DEF Next

\* The invariant holds in every reachable state.
THEOREM EngineInvariantHolds == Spec => []IInv
BY InitEstablishes, StepKeeps, PTL DEF Spec

\* Every variable keeps its type; no slot counts more misses than the
\* threshold, nor more failures than the restarts allowed.
THEOREM EngineTypeCorrect == Spec => []TypeOK
<1>1. IInv => TypeOK
  BY DEF IInv
<1> QED BY <1>1, EngineInvariantHolds, PTL

\* However stop_all, an engine restart and the monitor's own restarts
\* interleave, each running watcher is in its slot or in the monitor's hands.
THEOREM NoWatcherLeaks == Spec => []NoLeakedWatcher
<1>1. IInv => NoLeakedWatcher
  BY DEF IInv, SlotInv
<1> QED BY <1>1, EngineInvariantHolds, PTL

\* A slot that reports `Healthy` has a watcher.
THEOREM HealthIsHonest == Spec => []HealthyIsWatched
<1>1. IInv => HealthyIsWatched
  BY DEF IInv, SlotInv
<1> QED BY <1>1, EngineInvariantHolds, PTL

\* Watching before scanning loses no file: one that is neither reported nor
\* about to be scanned arrived in a folder with a gap in its watch.
THEOREM OnlyGapsLose == Spec => []NoGapNoLoss
<1>1. IInv => NoGapNoLoss
  BY DEF IInv, FileInv
<1> QED BY <1>1, EngineInvariantHolds, PTL

----------------------------------------------------------------------------
(* One watcher (FolderWatcher).  What is on disk and not reported is in the *)
(* window or under a check from the moment of its event, written or not;   *)
(* only the known reasons take it from there unreported.                   *)

USE DEF File!diskVars, File!watchVars, File!folderVars, File!rest, File!checkOnly

\* Which folders can be deaf, and which watcher takes them.
ModeOk ==
  /\ f_deaf => f_network
  /\ f_mode = "native" => ~f_deaf
  /\ f_starting => f_network /\ f_mode = "none"

\* A check past the head of its loop has a round left.
RoundsLeft == \A c \in f_checks : c.at # "head" => c.tries < MaxTries

Followed(f) == f \in f_ready \cup f_window \/ \E c \in f_checks : c.file = f

NoneSlips == \A f \in f_there \ f_lost : Followed(f)

FolderInv ==
  /\ File!TypeOK
  /\ ModeOk
  /\ RoundsLeft
  /\ NoneSlips

LEMMA InitFolder == File!Init => FolderInv
<1> SUFFICES ASSUME File!Init PROVE FolderInv
  OBVIOUS
<1> USE DEF File!Init
<1>1. File!TypeOK
  <2>1. f_network \in BOOLEAN /\ f_deaf \in BOOLEAN /\ f_starting \in BOOLEAN
    OBVIOUS
  <2>2. f_writes \in [Files -> 0..MaxWrites] /\ f_starts \in 0..MaxStarts
    BY WatchingAssumption
  <2> QED
    BY <2>1, <2>2 DEF File!TypeOK
<1>2. ModeOk
  <2>1. f_starting = FALSE /\ f_mode = "none"
    OBVIOUS
  <2>2. f_deaf => f_network
    BY Zenon
  <2> QED
    BY <2>1, <2>2 DEF ModeOk
<1>3. RoundsLeft /\ NoneSlips
  BY DEF RoundsLeft, NoneSlips
<1> QED
  BY <1>1, <1>2, <1>3 DEF FolderInv

\* The disk changes: whoever hears of it has the file in its window.
LEMMA DiskKeeps ==
  ASSUME FolderInv, NEW f \in Files,
         File!Create(f) \/ File!Write(f) \/ File!Close(f) \/ File!Remove(f)
           \/ File!MoveDirectoryIn(f)
  PROVE  FolderInv'
<1> USE DEF FolderInv
<1>1. UNCHANGED <<f_network, f_deaf, f_mode, f_starting, f_starts, f_checks>>
  BY DEF File!Create, File!Write, File!Close, File!Remove, File!MoveDirectoryIn
<1>2. ModeOk' /\ RoundsLeft'
  BY <1>1 DEF ModeOk, RoundsLeft
<1>3. NoneSlips' /\ File!TypeOK'
  <2>1. CASE File!Create(f)
    BY <1>1, <2>1, WatchingAssumption
    DEF File!Create, File!Event, ModeOk, NoneSlips, Followed, File!TypeOK
  <2>2. CASE File!Write(f)
    <3>1. f_writes' \in [Files -> 0..MaxWrites]
      BY <2>2, WatchingAssumption DEF File!Write, File!TypeOK
    <3> QED
      BY <1>1, <2>2, <3>1 DEF File!Write, File!Event, ModeOk, NoneSlips, Followed, File!TypeOK
  <2>3. CASE File!Close(f) \/ File!Remove(f)
    BY <1>1, <2>3 DEF File!Close, File!Remove, NoneSlips, Followed, File!TypeOK
  <2>4. CASE File!MoveDirectoryIn(f)
    BY <1>1, <2>4, WatchingAssumption
    DEF File!MoveDirectoryIn, NoneSlips, Followed, File!TypeOK
  <2> QED
    BY <2>1, <2>2, <2>3, <2>4
<1> QED
  BY <1>2, <1>3

LEMMA StartStopKeeps ==
  ASSUME FolderInv,
         File!start_folder \/ File!run_health_check \/ File!ChooseMode \/ File!stop
  PROVE  FolderInv'
<1> USE DEF FolderInv
<1>1. UNCHANGED <<f_network, f_deaf, f_there, f_writes, f_writing, f_locked, f_checks, f_ready>>
  BY DEF File!start_folder, File!run_health_check, File!ChooseMode, File!stop
<1>2. /\ RoundsLeft'
      /\ NoneSlips'
  BY <1>1 DEF RoundsLeft, NoneSlips, Followed,
     File!start_folder, File!run_health_check, File!ChooseMode, File!stop
<1>3. ModeOk'
  BY <1>1 DEF ModeOk,
     File!start_folder, File!run_health_check, File!ChooseMode, File!stop
<1>4. File!TypeOK'
  <2>1. f_starts' \in 0..MaxStarts
    BY WatchingAssumption
    DEF File!TypeOK, File!start_folder, File!run_health_check, File!ChooseMode, File!stop
  <2>2. f_starting' \in BOOLEAN
    BY DEF File!TypeOK, File!start_folder, File!run_health_check, File!ChooseMode, File!stop
  <2>3. /\ f_mode' \in {"none", "native", "poll"} /\ f_window' \in SUBSET Files
        /\ f_lost' \in SUBSET Files
    BY DEF File!TypeOK, File!start_folder, File!run_health_check, File!ChooseMode, File!stop
  <2> QED
    BY <1>1, <2>1, <2>2, <2>3 DEF File!TypeOK
<1> QED
  BY <1>2, <1>3, <1>4

LEMMA FlushKeeps ==
  ASSUME FolderInv, NEW f \in Files, File!Flush(f)
  PROVE  FolderInv'
<1> USE DEF FolderInv, File!Flush
<1> DEFINE d == [file |-> f, at |-> "head", size |-> 0, tries |-> 0]
<1>1. d \in File!Check /\ d.file = f /\ d.at = "head"
  BY WatchingAssumption DEF File!Check
<1>2. \/ f_checks' = f_checks \cup {d} /\ UNCHANGED f_lost
      \/ f_lost' = f_lost \cup {f} /\ UNCHANGED f_checks
  OBVIOUS
<1>3. /\ UNCHANGED <<f_network, f_deaf, f_there, f_writes, f_writing, f_locked, f_mode,
                     f_starting, f_starts, f_ready>>
      /\ f_window' = f_window \ {f}
  OBVIOUS
<1> HIDE DEF d, File!Flush
<1>4. File!TypeOK'
  BY <1>1, <1>2, <1>3 DEF File!TypeOK
<1>5. ModeOk'
  BY <1>3 DEF ModeOk
<1>6. RoundsLeft'
  BY <1>1, <1>2 DEF RoundsLeft
<1>7. NoneSlips'
  BY <1>1, <1>2, <1>3 DEF NoneSlips, Followed
<1> QED
  BY <1>4, <1>5, <1>6, <1>7

\* A check goes on, or ends with its file reported or known to be lost.
LEMMA CheckKeeps ==
  ASSUME FolderInv, NEW c \in f_checks,
         File!FirstSample(c) \/ File!SecondSample(c) \/ File!Open(c)
  PROVE  FolderInv'
<1> USE DEF FolderInv
<1>1. /\ UNCHANGED <<f_network, f_deaf, f_there, f_writes, f_writing, f_locked, f_mode,
                     f_starting, f_starts, f_window>>
  BY DEF File!FirstSample, File!SecondSample, File!Open
<1>2. /\ c \in File!Check /\ c.file \in Files /\ c.size \in 0..MaxWrites /\ c.tries \in 0..MaxTries
      /\ c.at # "head" => c.tries < MaxTries
  BY DEF File!TypeOK, File!Check, RoundsLeft
<1>3. \/ \E d \in File!Check :
           /\ d.file = c.file
           /\ (d.at # "head" => d.tries < MaxTries)
           /\ f_checks' = (f_checks \ {c}) \cup {d} /\ UNCHANGED <<f_lost, f_ready>>
      \/ /\ f_checks' = f_checks \ {c}
         /\ f_lost' = f_lost \cup {c.file} /\ UNCHANGED f_ready
      \/ /\ f_checks' = f_checks \ {c}
         /\ f_ready' = f_ready \cup {c.file} /\ UNCHANGED f_lost
  <2>1. CASE File!FirstSample(c)
    <3> DEFINE d == [c EXCEPT !.at = "first", !.size = f_writes[c.file]]
    <3>1. f_writes[c.file] \in 0..MaxWrites
      BY <1>2 DEF File!TypeOK
    <3>2. d \in File!Check /\ d.file = c.file /\ d.tries = c.tries
      BY <1>2, <3>1 DEF File!Check
    <3>3. \/ c.tries < MaxTries /\ f_checks' = (f_checks \ {c}) \cup {d} /\ UNCHANGED <<f_lost, f_ready>>
          \/ f_checks' = f_checks \ {c} /\ f_lost' = f_lost \cup {c.file} /\ UNCHANGED f_ready
      BY <2>1 DEF File!FirstSample, File!Becomes, File!Over
    <3> HIDE DEF d
    <3> QED
      BY <3>2, <3>3
  <2>2. ASSUME c.at # "head"
        PROVE  LET d == [c EXCEPT !.at = "head", !.size = 0, !.tries = @ + 1]
               IN  d \in File!Check /\ d.file = c.file /\ d.at = "head"
    <3>1. c.tries + 1 \in 0..MaxTries /\ 0 \in 0..MaxWrites
      BY <1>2, <2>2, WatchingAssumption
    <3> QED
      BY <1>2, <3>1 DEF File!Check
  <2>3. CASE File!SecondSample(c)
    <3> DEFINE d == [c EXCEPT !.at = "second"]
               e == [c EXCEPT !.at = "head", !.size = 0, !.tries = @ + 1]
    <3>1. c.at = "first"
      BY <2>3 DEF File!SecondSample
    <3>2. d \in File!Check /\ d.file = c.file /\ d.tries < MaxTries
      BY <1>2, <3>1 DEF File!Check
    <3>3. e \in File!Check /\ e.file = c.file /\ e.at = "head"
      BY <2>2, <3>1
    <3>4. \/ f_checks' = (f_checks \ {c}) \cup {d} /\ UNCHANGED <<f_lost, f_ready>>
          \/ f_checks' = (f_checks \ {c}) \cup {e} /\ UNCHANGED <<f_lost, f_ready>>
          \/ f_checks' = f_checks \ {c} /\ f_lost' = f_lost \cup {c.file} /\ UNCHANGED f_ready
      BY <2>3 DEF File!SecondSample, File!Becomes, File!Over, File!Again
    <3> HIDE DEF d, e
    <3> QED
      BY <3>2, <3>3, <3>4
  <2>4. CASE File!Open(c)
    <3> DEFINE e == [c EXCEPT !.at = "head", !.size = 0, !.tries = @ + 1]
    <3>1. c.at = "second"
      BY <2>4 DEF File!Open
    <3>2. e \in File!Check /\ e.file = c.file /\ e.at = "head"
      BY <2>2, <3>1
    <3>3. \/ f_checks' = (f_checks \ {c}) \cup {e} /\ UNCHANGED <<f_lost, f_ready>>
          \/ f_checks' = f_checks \ {c} /\ f_ready' = f_ready \cup {c.file} /\ UNCHANGED f_lost
      BY <2>4 DEF File!Open, File!Becomes, File!Over, File!Again
    <3> HIDE DEF e
    <3> QED
      BY <3>2, <3>3
  <2> QED
    BY <2>1, <2>3, <2>4
<1>4. File!TypeOK'
  BY <1>1, <1>2, <1>3 DEF File!TypeOK
<1>5. ModeOk'
  BY <1>1 DEF ModeOk
<1>6. ASSUME NEW d \in File!Check, d.file = c.file, (d.at # "head" => d.tries < MaxTries),
             f_checks' = (f_checks \ {c}) \cup {d}, UNCHANGED <<f_lost, f_ready>>
      PROVE  RoundsLeft' /\ NoneSlips'
  <2>1. RoundsLeft'
    BY <1>6 DEF RoundsLeft
  <2>2. ASSUME NEW f \in f_there \ f_lost PROVE Followed(f)'
    <3>1. f \in f_ready \cup f_window \/ \E x \in f_checks : x.file = f
      BY DEF NoneSlips, Followed
    <3>2. \A x \in f_checks : x.file = f => x \in f_checks' \/ d.file = f
      BY <1>6
    <3>3. d \in f_checks'
      BY <1>6
    <3> QED
      BY <1>1, <1>6, <3>1, <3>2, <3>3 DEF Followed
  <2> QED
    BY <1>1, <1>6, <2>1, <2>2 DEF NoneSlips
<1>7. ASSUME f_checks' = f_checks \ {c},
             \/ f_lost' = f_lost \cup {c.file} /\ UNCHANGED f_ready
             \/ f_ready' = f_ready \cup {c.file} /\ UNCHANGED f_lost
      PROVE  RoundsLeft' /\ NoneSlips'
  <2>1. RoundsLeft'
    BY <1>7 DEF RoundsLeft
  <2>2. ASSUME NEW f \in f_there \ f_lost, f \notin f_lost' PROVE Followed(f)'
    <3>1. f \in f_ready \cup f_window \/ \E x \in f_checks : x.file = f
      BY DEF NoneSlips, Followed
    <3> QED
      BY <1>1, <1>7, <2>2, <3>1 DEF Followed
  <2> QED
    BY <1>1, <1>7, <2>1, <2>2 DEF NoneSlips
<1>8. RoundsLeft' /\ NoneSlips'
  <2>1. CASE \E d \in File!Check :
           /\ d.file = c.file
           /\ (d.at # "head" => d.tries < MaxTries)
           /\ f_checks' = (f_checks \ {c}) \cup {d} /\ UNCHANGED <<f_lost, f_ready>>
    <3>1. PICK d \in File!Check :
            /\ d.file = c.file
            /\ (d.at # "head" => d.tries < MaxTries)
            /\ f_checks' = (f_checks \ {c}) \cup {d} /\ UNCHANGED <<f_lost, f_ready>>
      BY <2>1
    <3> QED
      BY <1>6, <3>1
  <2>2. CASE /\ f_checks' = f_checks \ {c}
             /\ \/ f_lost' = f_lost \cup {c.file} /\ UNCHANGED f_ready
                \/ f_ready' = f_ready \cup {c.file} /\ UNCHANGED f_lost
    BY <1>7, <2>2
  <2> QED
    BY <1>3, <2>1, <2>2
<1> QED
  BY <1>4, <1>5, <1>8

LEMMA FolderUntouched == FolderInv /\ UNCHANGED fileWatchVars => FolderInv'
  BY DEF FolderInv, fileWatchVars, File!TypeOK, ModeOk, RoundsLeft, NoneSlips, Followed

LEMMA FolderStep == FolderInv /\ [AllNext]_allVars => FolderInv'
<1> SUFFICES ASSUME FolderInv, [AllNext]_allVars PROVE FolderInv'
  OBVIOUS
<1>1. FileNext => FolderInv'
  BY DiskKeeps, StartStopKeeps, FlushKeeps, CheckKeeps DEF FileNext
<1>2. EngineNext \/ MediaNext \/ UNCHANGED allVars => UNCHANGED fileWatchVars
  BY DEF EngineNext, MediaNext, InEngine, InMedia, allVars
<1> QED
  BY <1>1, <1>2, FolderUntouched DEF AllNext

\* The watcher's types and its invariant, in the sum that the run checks.
THEOREM FolderInvariantHolds == AllSpec => []FolderInv
<1>1. AllInit => FolderInv
  BY InitFolder DEF AllInit
<1> QED
  BY <1>1, FolderStep, PTL DEF AllSpec

\* No finished photo slips through a running watcher, native or polling, with
\* any number of files written, locked, moved and checked at a time
\* (watch/folder.rs, watch/network.rs).
THEOREM NoPhotoSlips == AllSpec => []NothingSlips
<1>1. FolderInv => NothingSlips
  BY DEF FolderInv, NoneSlips, Followed, NothingSlips, File!NothingSlips
<1> QED
  BY <1>1, FolderInvariantHolds, PTL

----------------------------------------------------------------------------
(* Removable media (DeviceImport).  A card that is due and has no row yet  *)
(* has an event on its way, or a notice, or - where the callbacks compare  *)
(* mount points - whatever they saw last is not where it is now: the next  *)
(* callback will be the card's.                                            *)

Elements(s) == {s[i] : i \in DOMAIN s}

\* The mount point that a notice leaves its volume with.
Now(n) == IF n.arrival THEN n.root ELSE NoRoot

\* n is the last notice of v in s.
LastOf(s, v, n) ==
  \E i \in DOMAIN s : /\ s[i] = n /\ n.volume = v
                      /\ \A j \in DOMAIN s : s[j].volume = v => j <= i

\* What the monitor and the main loop have to be for there to be notices,
\* mount points, events.
ChannelsOk ==
  /\ d_monitor # "on" => d_notices = <<>> /\ d_mounted = Media!NoMounts
  /\ d_monitor \notin {"on", "swept"} => d_queue = <<>>
  /\ d_monitor \notin {"on", "failed"} => ~d_busy
  /\ ~d_busy => d_batch = <<>>
  /\ d_monitor = "swept" => ~d_mac
  /\ \A n \in Elements(d_notices) : n.volume \notin Shares

\* What a volume's last notice says, or the last mount point seen when there
\* is none, is where it is.
LastWord ==
  d_mac /\ d_monitor = "on" => \A v \in Volumes \ Shares :
    \/ d_mounted[v] = d_at[v] /\ \A n \in Elements(d_notices) : n.volume # v
    \/ \E n \in Media!Notice : LastOf(d_notices, v, n) /\ Now(n) = d_at[v]

\* An event makes a folder of v, or a notice or the next one will make one.
Heard(v) ==
  \/ \E e \in Elements(d_queue) \cup Elements(d_batch) : Media!MountOf(e, d_at[v])
  \/ /\ ~d_mac
     /\ \E n \in Elements(d_notices) : n.arrival /\ n.root = d_at[v]
  \/ /\ d_mac
     /\ \/ d_mounted[v] # d_at[v]
        \/ \E n \in Elements(d_notices) : n.volume = v /\ ~n.arrival

\* A card without a row is heard of.
Way ==
  \A v \in Volumes :
    Media!Due(v) /\ v \notin d_scanned /\ d_rows[Media!FolderOf(d_at[v])] = "none" => Heard(v)

\* A card in a folder that is watched has been scanned.
Covered ==
  \A v \in Volumes :
    d_at[v] # NoRoot /\ Media!FolderOf(d_at[v]) \in d_engine /\ v \notin d_missed => v \in d_scanned

MediaInv == Media!TypeOK /\ ChannelsOk /\ LastWord /\ Way /\ Covered

----------------------------------------------------------------------------
(* Sequences.                                                              *)

LEMMA NoElements == Elements(<<>>) = {}
  BY DEF Elements

LEMMA AppendElements ==
  ASSUME NEW S, NEW s \in Seq(S), NEW e \in S
  PROVE  Elements(Append(s, e)) = Elements(s) \cup {e}
<1>1. /\ DOMAIN s = 1..Len(s) /\ Len(s) \in Nat
      /\ DOMAIN Append(s, e) = 1..(Len(s) + 1)
      /\ \A i \in 1..Len(s) : Append(s, e)[i] = s[i]
      /\ Append(s, e)[Len(s) + 1] = e
  OBVIOUS
<1> QED
  BY <1>1, SMTT(30) DEF Elements

LEMMA TailElements ==
  ASSUME NEW S, NEW s \in Seq(S), s # <<>>
  PROVE  /\ Head(s) \in S /\ Tail(s) \in Seq(S)
         /\ Elements(s) = {Head(s)} \cup Elements(Tail(s))
<1>1. /\ DOMAIN s = 1..Len(s) /\ Len(s) \in Nat \ {0}
      /\ DOMAIN Tail(s) = 1..(Len(s) - 1)
      /\ \A i \in 1..(Len(s) - 1) : Tail(s)[i] = s[i + 1]
      /\ Head(s) = s[1]
  OBVIOUS
<1>2. ASSUME NEW i \in DOMAIN s PROVE s[i] \in {Head(s)} \cup Elements(Tail(s))
  <2>1. i = 1 \/ (i - 1 \in DOMAIN Tail(s) /\ Tail(s)[i - 1] = s[i])
    BY <1>1
  <2> QED
    BY <1>1, <2>1 DEF Elements
<1>3. ASSUME NEW i \in DOMAIN Tail(s) PROVE Tail(s)[i] \in Elements(s)
  <2>1. i + 1 \in DOMAIN s /\ Tail(s)[i] = s[i + 1]
    BY <1>1
  <2> QED
    BY <2>1 DEF Elements
<1>4. 1 \in DOMAIN s /\ s[1] = Head(s) /\ Head(s) \in S /\ Tail(s) \in Seq(S)
  BY <1>1
<1>5. Elements(s) \subseteq {Head(s)} \cup Elements(Tail(s))
  BY <1>2 DEF Elements
<1>6. Elements(Tail(s)) \subseteq Elements(s)
  BY <1>3 DEF Elements
<1>7. Head(s) \in Elements(s)
  BY <1>4 DEF Elements
<1> QED
  BY <1>4, <1>5, <1>6, <1>7

LEMMA ConcatElements ==
  ASSUME NEW S, NEW s \in Seq(S), NEW t \in Seq(S)
  PROVE  s \o t \in Seq(S) /\ Elements(s \o t) = Elements(s) \cup Elements(t)
<1>1. /\ DOMAIN s = 1..Len(s) /\ Len(s) \in Nat
      /\ DOMAIN t = 1..Len(t) /\ Len(t) \in Nat
      /\ DOMAIN (s \o t) = 1..(Len(s) + Len(t))
      /\ \A i \in 1..Len(s) : (s \o t)[i] = s[i]
      /\ \A i \in 1..Len(t) : (s \o t)[Len(s) + i] = t[i]
      /\ s \o t \in Seq(S)
  OBVIOUS
<1>2. ASSUME NEW i \in DOMAIN (s \o t) PROVE (s \o t)[i] \in Elements(s) \cup Elements(t)
  <2>1. i \in 1..Len(s) \/ (i - Len(s) \in 1..Len(t) /\ i = Len(s) + (i - Len(s)))
    BY <1>1
  <2>2. CASE i \in 1..Len(s)
    BY <1>1, <2>2 DEF Elements
  <2>3. CASE i - Len(s) \in 1..Len(t) /\ i = Len(s) + (i - Len(s))
    <3>1. (s \o t)[i] = t[i - Len(s)]
      BY <1>1, <2>3
    <3> QED
      BY <1>1, <2>3, <3>1 DEF Elements
  <2> QED
    BY <2>1, <2>2, <2>3
<1>3. Elements(s) \subseteq Elements(s \o t)
  <2>1. \A i \in DOMAIN s : i \in DOMAIN (s \o t) /\ (s \o t)[i] = s[i]
    BY <1>1
  <2> QED
    BY <2>1 DEF Elements
<1>4. Elements(t) \subseteq Elements(s \o t)
  <2>1. \A i \in DOMAIN t : Len(s) + i \in DOMAIN (s \o t) /\ (s \o t)[Len(s) + i] = t[i]
    BY <1>1
  <2> QED
    BY <2>1 DEF Elements
<1>5. Elements(s \o t) \subseteq Elements(s) \cup Elements(t)
  BY <1>2 DEF Elements
<1> QED
  BY <1>1, <1>3, <1>4, <1>5

LEMMA LastAppended ==
  ASSUME NEW S, NEW s \in Seq(S), NEW e \in S, NEW v
  PROVE  /\ e.volume = v => LastOf(Append(s, e), v, e)
         /\ \A n : e.volume # v /\ LastOf(s, v, n) => LastOf(Append(s, e), v, n)
<1>1. /\ DOMAIN s = 1..Len(s) /\ Len(s) \in Nat
      /\ DOMAIN Append(s, e) = 1..(Len(s) + 1)
      /\ \A i \in 1..Len(s) : Append(s, e)[i] = s[i]
      /\ Append(s, e)[Len(s) + 1] = e
  OBVIOUS
<1> DEFINE a == Append(s, e)
<1> HIDE DEF a
<1>2. ASSUME e.volume = v PROVE LastOf(a, v, e)
  <2>1. Len(s) + 1 \in DOMAIN a /\ \A j \in DOMAIN a : j <= Len(s) + 1
    BY <1>1 DEF a
  <2> QED
    BY <1>1, <1>2, <2>1 DEF LastOf, a
<1>3. ASSUME NEW n, e.volume # v, LastOf(s, v, n) PROVE LastOf(a, v, n)
  <2>1. PICK i \in DOMAIN s : s[i] = n /\ n.volume = v /\ \A j \in DOMAIN s : s[j].volume = v => j <= i
    BY <1>3 DEF LastOf
  <2>2. i \in DOMAIN a /\ a[i] = n
    BY <1>1, <2>1 DEF a
  <2>3. ASSUME NEW j \in DOMAIN a, a[j].volume = v PROVE j <= i
    <3>1. j \in 1..Len(s) \/ j = Len(s) + 1
      BY <1>1 DEF a
    <3> QED
      BY <1>1, <1>3, <2>1, <2>3, <3>1 DEF a
  <2> QED
    BY <2>1, <2>2, <2>3 DEF LastOf
<1> QED
  BY <1>2, <1>3 DEF a

LEMMA LastInTail ==
  ASSUME NEW S, NEW s \in Seq(S), s # <<>>, NEW v, NEW n, LastOf(s, v, n)
  PROVE  \/ LastOf(Tail(s), v, n)
         \/ n = Head(s) /\ n.volume = v /\ \A m \in Elements(Tail(s)) : m.volume # v
<1>1. /\ DOMAIN s = 1..Len(s) /\ Len(s) \in Nat \ {0}
      /\ DOMAIN Tail(s) = 1..(Len(s) - 1)
      /\ \A i \in 1..(Len(s) - 1) : Tail(s)[i] = s[i + 1]
      /\ Head(s) = s[1]
  OBVIOUS
<1>2. PICK i \in DOMAIN s : s[i] = n /\ n.volume = v /\ \A j \in DOMAIN s : s[j].volume = v => j <= i
  BY DEF LastOf
<1> DEFINE t == Tail(s)
<1> HIDE DEF t
<1>3. CASE i = 1
  <2>1. ASSUME NEW j \in DOMAIN t PROVE t[j].volume # v
    <3>1. j + 1 \in DOMAIN s /\ t[j] = s[j + 1] /\ ~(j + 1 <= i)
      BY <1>1, <1>3 DEF t
    <3> QED
      BY <1>2, <3>1
  <2> QED
    BY <1>1, <1>2, <1>3, <2>1 DEF Elements, t
<1>4. CASE i # 1
  <2>1. i - 1 \in DOMAIN t /\ t[i - 1] = s[i]
    BY <1>1, <1>4 DEF t
  <2>2. ASSUME NEW j \in DOMAIN t, t[j].volume = v PROVE j <= i - 1
    <3>1. j + 1 \in DOMAIN s /\ t[j] = s[j + 1]
      BY <1>1 DEF t
    <3> QED
      BY <1>1, <1>2, <2>2, <3>1 DEF t
  <2>3. LastOf(t, v, n)
    BY <1>2, <2>1, <2>2 DEF LastOf
  <2> QED
    BY <2>3 DEF t
<1> QED
  BY <1>3, <1>4

LEMMA CardinalitySame == \A S : Media!Cardinality(S) = Cardinality(S)
  BY DEF Media!Cardinality, Cardinality

\* Some order of a finite set has all of its elements, each once.
LEMMA OrdersAreComplete ==
  ASSUME NEW S, IsFiniteSet(S), NEW s \in Media!Orders(S)
  PROVE  /\ DOMAIN s = 1..Cardinality(S) /\ Cardinality(S) \in Nat
         /\ \A i \in DOMAIN s : s[i] \in S
         /\ \A x \in S : \E i \in DOMAIN s : s[i] = x
         /\ \A i, j \in DOMAIN s : s[i] = s[j] => i = j
<1>1. Cardinality(S) \in Nat
  BY FS_CardinalityType
<1> DEFINE N == 1..Cardinality(S)
<1>2. IsFiniteSet(N) /\ Cardinality(N) = Cardinality(S)
  BY <1>1, FS_Interval
<1>3. s \in [N -> S] /\ \A i, j \in DOMAIN s : s[i] = s[j] => i = j
  BY CardinalitySame DEF Media!Orders
<1> HIDE DEF N
<1>4. s \in Injection(N, S)
  BY <1>3, Fun_IsInj
<1>5. s \in Surjection(N, S)
  BY <1>2, <1>4, FS_Injection
<1>6. \A x \in S : \E i \in N : s[i] = x
  BY <1>5, Fun_SurjectionProperties
<1> QED
  BY <1>1, <1>3, <1>6 DEF N

----------------------------------------------------------------------------
(* The volumes.                                                            *)

LEMMA HeardStays ==
  ASSUME NEW v, Heard(v),
         UNCHANGED <<d_mac, d_look_for_dcim>>, d_at'[v] = d_at[v], d_mounted'[v] = d_mounted[v],
         Elements(d_queue) \cup Elements(d_batch) \subseteq Elements(d_queue') \cup Elements(d_batch'),
         Elements(d_notices) \subseteq Elements(d_notices')
  PROVE  Heard(v)'
<1>1. CASE \E e \in Elements(d_queue) \cup Elements(d_batch) : Media!MountOf(e, d_at[v])
  <2>1. PICK e \in Elements(d_queue) \cup Elements(d_batch) : Media!MountOf(e, d_at[v])
    BY <1>1
  <2>2. Media!MountOf(e, d_at[v])' /\ e \in Elements(d_queue') \cup Elements(d_batch')
    BY <2>1 DEF Media!MountOf
  <2> QED
    BY <2>2 DEF Heard, Elements
<1>2. CASE ~d_mac /\ \E n \in Elements(d_notices) : n.arrival /\ n.root = d_at[v]
  BY <1>2 DEF Heard, Elements
<1>3. CASE d_mac /\ (d_mounted[v] # d_at[v] \/ \E n \in Elements(d_notices) : n.volume = v /\ ~n.arrival)
  BY <1>3 DEF Heard, Elements
<1> QED
  BY <1>1, <1>2, <1>3 DEF Heard

LEMMA TellEffect ==
  ASSUME Media!TypeOK, NEW v \in Volumes, NEW r \in Roots, NEW arrival \in BOOLEAN,
         Media!Tell(v, r, arrival)
  PROVE  LET n == [volume |-> v, root |-> r, arrival |-> arrival]
         IN  /\ n \in Media!Notice
             /\ d_notices' \in Seq(Media!Notice)
             /\ Elements(d_notices) \subseteq Elements(d_notices')
             /\ d_monitor = "on" /\ v \notin Shares =>
                  /\ d_notices' = Append(d_notices, n)
                  /\ Elements(d_notices') = Elements(d_notices) \cup {n}
             /\ ~(d_monitor = "on" /\ v \notin Shares) => UNCHANGED d_notices
<1> DEFINE n == [volume |-> v, root |-> r, arrival |-> arrival]
<1>1. n \in Media!Notice
  BY DEF Media!Notice
<1>2. d_notices' = IF d_monitor = "on" /\ v \notin Shares THEN Append(d_notices, n) ELSE d_notices
  BY DEF Media!Tell
<1>3. d_notices \in Seq(Media!Notice)
  BY DEF Media!TypeOK
<1> HIDE DEF n
<1>4. Append(d_notices, n) \in Seq(Media!Notice)
  BY <1>1, <1>3
<1>5. Elements(Append(d_notices, n)) = Elements(d_notices) \cup {n}
  BY <1>1, <1>3, AppendElements
<1> QED
  BY <1>1, <1>2, <1>3, <1>4, <1>5 DEF n

\* A volume moves, and the callbacks will hear of it.
LEMMA LastWordMoves ==
  ASSUME Media!TypeOK, LastWord, NEW v \in Volumes, NEW n \in Media!Notice, n.volume = v,
         d_at' = [d_at EXCEPT ![v] = Now(n)],
         UNCHANGED <<d_mac, d_monitor, d_mounted>>,
         d_monitor = "on" /\ v \notin Shares => d_notices' = Append(d_notices, n),
         v \in Shares => UNCHANGED d_notices
  PROVE  LastWord'
<1> SUFFICES ASSUME d_mac, d_monitor = "on", NEW u \in Volumes \ Shares
             PROVE  \/ d_mounted[u] = d_at'[u] /\ \A m \in Elements(d_notices') : m.volume # u
                    \/ \E m \in Media!Notice : LastOf(d_notices', u, m) /\ Now(m) = d_at'[u]
  BY DEF LastWord, Elements, LastOf, Now
<1>1. d_notices \in Seq(Media!Notice) /\ d_at \in [Volumes -> Roots \cup {NoRoot}]
  BY DEF Media!TypeOK
<1>2. CASE u = v
  <2>1. LastOf(d_notices', v, n)
    BY <1>1, <1>2, LastAppended
  <2> QED
    BY <1>1, <1>2, <2>1
<1>3. CASE u # v
  <2>1. d_at'[u] = d_at[u]
    BY <1>1, <1>3
  <2>2. v \notin Shares => Elements(d_notices') = Elements(d_notices) \cup {n}
    BY <1>1, AppendElements
  <2>3. \A m : LastOf(d_notices, u, m) => LastOf(Append(d_notices, n), u, m)
    BY <1>1, <1>3, LastAppended
  <2>4. d_notices' = Append(d_notices, n) \/ d_notices' = d_notices
    OBVIOUS
  <2> QED
    BY <1>3, <2>1, <2>2, <2>3, <2>4 DEF LastWord
<1> QED
  BY <1>2, <1>3

LEMMA MediaMountKeeps ==
  ASSUME MediaInv, NEW v \in Volumes, NEW r \in Roots, Media!Mount(v, r)
  PROVE  MediaInv'
<1> DEFINE n == [volume |-> v, root |-> r, arrival |-> TRUE]
<1> USE DEF MediaInv
<1>1. /\ d_at[v] = NoRoot /\ d_at' = [d_at EXCEPT ![v] = r]
      /\ Media!Tell(v, r, TRUE)
      /\ d_scanned' = d_scanned \ {v}
      /\ d_missed' = IF d_monitor = "swept" \/ Media!FolderOf(r) \in d_engine
                     THEN d_missed \cup {v} ELSE d_missed \ {v}
      /\ UNCHANGED <<d_mac, d_look_for_dcim, d_auto, d_monitor, d_mounted, d_queue,
                     d_batch, d_busy, d_rows, d_engine>>
      /\ d_moves < MaxMoves /\ d_moves' = d_moves + 1
  BY DEF Media!Mount, Media!Move, Media!config, Media!loopVars
<1>2. /\ n \in Media!Notice
      /\ d_notices' \in Seq(Media!Notice)
      /\ Elements(d_notices) \subseteq Elements(d_notices')
      /\ d_monitor = "on" /\ v \notin Shares =>
           /\ d_notices' = Append(d_notices, n)
           /\ Elements(d_notices') = Elements(d_notices) \cup {n}
      /\ ~(d_monitor = "on" /\ v \notin Shares) => UNCHANGED d_notices
  BY <1>1, TellEffect
<1>3. n.volume = v /\ n.root = r /\ n.arrival /\ Now(n) = r /\ r # NoRoot
  BY WatchingAssumption DEF Now
<1> HIDE DEF n
<1>4. /\ d_at'[v] = r /\ \A u \in Volumes \ {v} : d_at'[u] = d_at[u]
      /\ d_at' \in [Volumes -> Roots \cup {NoRoot}]
  BY <1>1 DEF Media!TypeOK
<1>5. Media!TypeOK'
  <2>1. d_moves' \in 0..MaxMoves
    BY <1>1, WatchingAssumption DEF Media!TypeOK
  <2> QED
    BY <1>1, <1>2, <1>4, <2>1 DEF Media!TypeOK
<1>6. ChannelsOk'
  <2>1. \A m \in Elements(d_notices') : m.volume \notin Shares
    BY <1>2, <1>3 DEF ChannelsOk
  <2> QED
    BY <1>1, <1>2, <2>1 DEF ChannelsOk, Elements, Media!NoMounts
<1>7. LastWord'
  BY <1>1, <1>2, <1>3, LastWordMoves
<1>8. ASSUME NEW u \in Volumes, Media!Due(u)', u \notin d_scanned',
             (d_rows[Media!FolderOf(d_at[u])] = "none")'
      PROVE  Heard(u)'
  <2>1. CASE u # v
    <3>1. Media!Due(u) /\ u \notin d_scanned /\ d_rows[Media!FolderOf(d_at[u])] = "none"
      BY <1>1, <1>4, <1>8, <2>1 DEF Media!Due, Media!FolderOf
    <3>2. Heard(u)
      BY <3>1 DEF Way
    <3> QED
      BY <1>1, <1>2, <1>4, <2>1, <3>2, HeardStays
  <2>2. CASE u = v
    <3>1. d_monitor = "on" /\ v \notin Shares
      BY <1>1, <1>8, <2>2 DEF Media!Due
    <3>2. n \in Elements(d_notices')
      BY <1>2, <3>1
    <3>3. CASE ~d_mac
      BY <1>1, <1>3, <1>4, <2>2, <3>2, <3>3 DEF Heard, Elements
    <3>4. CASE d_mac /\ d_mounted[v] # r
      BY <1>1, <1>4, <2>2, <3>4 DEF Heard
    <3>5. CASE d_mac /\ d_mounted[v] = r
      <4>1. PICK m \in Media!Notice : LastOf(d_notices, v, m) /\ Now(m) = NoRoot
        BY <1>1, <1>3, <3>1, <3>5 DEF LastWord
      <4>2. m.volume = v /\ ~m.arrival /\ m \in Elements(d_notices')
        BY <1>2, <4>1, WatchingAssumption DEF Now, LastOf, Elements, Media!Notice
      <4> QED
        BY <1>1, <2>2, <3>5, <4>2 DEF Heard, Elements
    <3> QED
      BY <3>3, <3>4, <3>5
  <2> QED
    BY <2>1, <2>2
<1>9. Covered'
  <2> SUFFICES ASSUME NEW u \in Volumes, d_at'[u] # NoRoot, Media!FolderOf(d_at[u])' \in d_engine',
                      u \notin d_missed'
               PROVE  u \in d_scanned'
    BY DEF Covered
  <2>1. u # v
    BY <1>1, <1>4 DEF Media!FolderOf
  <2>2. u \notin d_missed /\ Media!FolderOf(d_at[u]) \in d_engine /\ d_at[u] # NoRoot
    BY <1>1, <1>4, <2>1 DEF Media!FolderOf
  <2> QED
    BY <1>1, <2>1, <2>2 DEF Covered
<1> QED
  BY <1>5, <1>6, <1>7, <1>8, <1>9 DEF Way

LEMMA MediaUnmountKeeps ==
  ASSUME MediaInv, NEW v \in Volumes, Media!Unmount(v)
  PROVE  MediaInv'
<1> DEFINE n == [volume |-> v, root |-> d_at[v], arrival |-> FALSE]
<1> USE DEF MediaInv
<1>1. /\ d_at[v] # NoRoot /\ d_at' = [d_at EXCEPT ![v] = NoRoot]
      /\ Media!Tell(v, d_at[v], FALSE)
      /\ UNCHANGED <<d_mac, d_look_for_dcim, d_auto, d_monitor, d_mounted, d_queue,
                     d_batch, d_busy, d_rows, d_engine, d_scanned, d_missed, d_moves>>
  BY DEF Media!Unmount, Media!config, Media!loopVars, Media!engineVars
<1>2. d_at[v] \in Roots
  BY <1>1 DEF Media!TypeOK
<1>3. /\ n \in Media!Notice
      /\ d_notices' \in Seq(Media!Notice)
      /\ Elements(d_notices) \subseteq Elements(d_notices')
      /\ d_monitor = "on" /\ v \notin Shares =>
           /\ d_notices' = Append(d_notices, n)
           /\ Elements(d_notices') = Elements(d_notices) \cup {n}
      /\ ~(d_monitor = "on" /\ v \notin Shares) => UNCHANGED d_notices
  BY <1>1, <1>2, TellEffect
<1>4. n.volume = v /\ Now(n) = NoRoot
  BY DEF Now
<1> HIDE DEF n
<1>5. /\ d_at'[v] = NoRoot /\ \A u \in Volumes \ {v} : d_at'[u] = d_at[u]
      /\ d_at' \in [Volumes -> Roots \cup {NoRoot}]
  BY <1>1 DEF Media!TypeOK
<1>6. Media!TypeOK'
  BY <1>1, <1>3, <1>5 DEF Media!TypeOK
<1>7. ChannelsOk'
  <2>1. \A m \in Elements(d_notices') : m.volume \notin Shares
    BY <1>3, <1>4 DEF ChannelsOk
  <2> QED
    BY <1>1, <1>3, <2>1 DEF ChannelsOk, Elements, Media!NoMounts
<1>8. LastWord'
  BY <1>1, <1>3, <1>4, LastWordMoves
<1>9. ASSUME NEW u \in Volumes, Media!Due(u)', u \notin d_scanned',
             (d_rows[Media!FolderOf(d_at[u])] = "none")'
      PROVE  Heard(u)'
  <2>1. u # v
    BY <1>5, <1>9 DEF Media!Due
  <2>2. Media!Due(u) /\ u \notin d_scanned /\ d_rows[Media!FolderOf(d_at[u])] = "none"
    BY <1>1, <1>5, <1>9, <2>1 DEF Media!Due, Media!FolderOf
  <2>3. Heard(u)
    BY <2>2 DEF Way
  <2> QED
    BY <1>1, <1>3, <1>5, <2>1, <2>3, HeardStays
<1>10. Covered'
  BY <1>1, <1>5 DEF Covered, Media!FolderOf
<1> QED
  BY <1>6, <1>7, <1>8, <1>9, <1>10 DEF Way

----------------------------------------------------------------------------
(* The monitor.                                                            *)

\* What the sweep and the callbacks' first round are about.
LEMMA PresentOrders ==
  ASSUME NEW s \in Media!Orders(Media!Present)
  PROVE  /\ DOMAIN s = 1..Len(s) /\ Len(s) \in Nat /\ s \in Seq(Volumes)
         /\ \A i \in DOMAIN s : s[i] \in Volumes \ Shares /\ d_at[s[i]] # NoRoot
         /\ \A v \in Volumes \ Shares : d_at[v] # NoRoot => \E i \in DOMAIN s : s[i] = v
         /\ \A i, j \in DOMAIN s : s[i] = s[j] => i = j
<1>1. Media!Present \subseteq Volumes
  BY DEF Media!Present
<1>2. IsFiniteSet(Media!Present)
  BY <1>1, FS_Subset, WatchingAssumption
<1>3. /\ DOMAIN s = 1..Cardinality(Media!Present) /\ Cardinality(Media!Present) \in Nat
      /\ \A i \in DOMAIN s : s[i] \in Media!Present
      /\ \A x \in Media!Present : \E i \in DOMAIN s : s[i] = x
      /\ \A i, j \in DOMAIN s : s[i] = s[j] => i = j
  BY <1>2, OrdersAreComplete
<1> DEFINE c == Cardinality(Media!Present)
<1>4. s \in [1..c -> Media!Present]
  BY CardinalitySame DEF Media!Orders
<1>5. c \in Nat
  BY <1>3
<1> HIDE DEF c
<1>6. s \in Seq(Volumes) /\ Len(s) = c /\ DOMAIN s = 1..c
  BY <1>1, <1>4, <1>5
<1> QED
  BY <1>3, <1>5, <1>6 DEF Media!Present

LEMMA MediaSweepKeeps ==
  ASSUME MediaInv, Media!list_drives
  PROVE  MediaInv'
<1> USE DEF MediaInv
<1>1. /\ ~d_mac /\ d_monitor = "launched" /\ d_monitor' = "swept"
      /\ UNCHANGED <<d_mac, d_look_for_dcim, d_auto, d_at, d_mounted, d_notices,
                     d_batch, d_busy, d_rows, d_engine, d_scanned, d_missed, d_moves>>
  BY DEF Media!list_drives, Media!config, Media!loopVars, Media!engineVars
<1>2. PICK s \in Media!Orders(Media!Present) :
        d_queue' = [i \in DOMAIN s |-> Media!mounted_event(d_at[s[i]], s[i] \in Cards)]
  BY DEF Media!list_drives
<1>3. /\ DOMAIN s = 1..Len(s) /\ Len(s) \in Nat
      /\ \A i \in DOMAIN s : s[i] \in Volumes \ Shares /\ d_at[s[i]] # NoRoot
      /\ \A v \in Volumes \ Shares : d_at[v] # NoRoot => \E i \in DOMAIN s : s[i] = v
  BY PresentOrders
<1>4. \A i \in DOMAIN s : Media!mounted_event(d_at[s[i]], s[i] \in Cards) \in Media!Event
  <2> SUFFICES ASSUME NEW i \in DOMAIN s
               PROVE  Media!mounted_event(d_at[s[i]], s[i] \in Cards) \in Media!Event
    OBVIOUS
  <2>1. d_at[s[i]] \in Roots
    BY <1>3 DEF Media!TypeOK
  <2>2. (s[i] \in Cards) \in BOOLEAN
    OBVIOUS
  <2> QED
    BY <2>1, <2>2 DEF Media!mounted_event, Media!Event
<1>5. d_queue' \in Seq(Media!Event)
  BY <1>2, <1>3, <1>4
<1>6. Media!TypeOK'
  BY <1>1, <1>5 DEF Media!TypeOK
<1>7. ChannelsOk' /\ LastWord' /\ Covered'
  BY <1>1 DEF ChannelsOk, LastWord, Covered, Elements, Media!NoMounts, Media!FolderOf
<1>8. ASSUME NEW v \in Volumes, Media!Due(v)' PROVE Heard(v)'
  <2>1. d_at[v] # NoRoot /\ v \notin Shares /\ (d_look_for_dcim \/ v \in Cards)
    BY <1>1, <1>8 DEF Media!Due
  <2>2. PICK i \in DOMAIN s : s[i] = v
    BY <1>3, <2>1
  <2>3. i \in DOMAIN d_queue' /\ d_queue'[i] = Media!mounted_event(d_at[v], v \in Cards)
    BY <1>2, <2>2
  <2>4. PICK e : e = d_queue'[i]
    OBVIOUS
  <2>5. Media!MountOf(e, d_at[v])'
    <3>1. e = [root |-> d_at[v], removable |-> v \in Cards, is_mount |-> TRUE]
      BY <2>3, <2>4 DEF Media!mounted_event
    <3>2. e.root = d_at[v] /\ e.is_mount = TRUE /\ e.removable = (v \in Cards)
      BY <3>1
    <3>3. v \in Cards => e.removable
      BY <3>2, Zenon
    <3> QED
      BY <1>1, <2>1, <3>2, <3>3 DEF Media!MountOf
  <2>6. e \in Elements(d_queue')
    BY <2>3, <2>4 DEF Elements
  <2> QED
    BY <2>5, <2>6 DEF Heard, Elements
<1> QED
  BY <1>6, <1>7, <1>8 DEF Way

LEMMA MediaWindowKeeps ==
  ASSUME MediaInv, Media!create_window
  PROVE  MediaInv'
<1> USE DEF MediaInv
<1>1. /\ d_monitor = "swept" /\ ~d_mac
      /\ \/ d_monitor' = "on" /\ UNCHANGED d_queue
         \/ d_monitor' = "failed" /\ d_queue' = <<>>
      /\ UNCHANGED <<d_mac, d_look_for_dcim, d_auto, d_at, d_mounted, d_notices,
                     d_batch, d_busy, d_rows, d_engine, d_scanned, d_missed, d_moves>>
  BY DEF Media!create_window, Media!config, Media!loopVars, Media!engineVars, ChannelsOk
<1>2. Media!TypeOK'
  <2>1. <<>> \in Seq(Media!Event)
    OBVIOUS
  <2>2. d_queue' \in Seq(Media!Event)
    BY <1>1, <2>1 DEF Media!TypeOK
  <2> QED
    BY <1>1, <2>2 DEF Media!TypeOK
<1>3. ChannelsOk' /\ LastWord' /\ Covered'
  BY <1>1 DEF ChannelsOk, LastWord, Covered, Elements, Media!NoMounts, Media!FolderOf
<1>4. ASSUME NEW v \in Volumes, Media!Due(v)', v \notin d_scanned',
             (d_rows[Media!FolderOf(d_at[v])] = "none")'
      PROVE  Heard(v)'
  <2>1. d_monitor' = "on" /\ UNCHANGED d_queue
    BY <1>1, <1>4 DEF Media!Due
  <2>2. Media!Due(v) /\ v \notin d_scanned /\ d_rows[Media!FolderOf(d_at[v])] = "none"
    BY <1>1, <1>4 DEF Media!Due, Media!FolderOf
  <2> QED
    BY <1>1, <2>1, <2>2, HeardStays DEF Way
<1> QED
  BY <1>2, <1>3, <1>4 DEF Way

LEMMA MediaCallbacksKeep ==
  ASSUME MediaInv, Media!register_callbacks
  PROVE  MediaInv'
<1> USE DEF MediaInv
<1>1. /\ d_mac /\ d_monitor = "launched" /\ d_mounted = Media!NoMounts
      /\ d_monitor' = "on" \/ (d_monitor' = "failed" /\ UNCHANGED d_notices)
      /\ d_notices = <<>> /\ d_queue = <<>>
      /\ UNCHANGED <<d_mac, d_look_for_dcim, d_auto, d_at, d_mounted, d_queue,
                     d_batch, d_busy, d_rows, d_engine, d_scanned, d_missed, d_moves>>
  BY DEF Media!register_callbacks, Media!config, Media!loopVars, Media!engineVars, ChannelsOk
<1>2. Covered'
  BY <1>1 DEF Covered, Media!FolderOf
<1>3. CASE d_monitor' = "failed" /\ UNCHANGED d_notices
  <2>1. Media!TypeOK' /\ ChannelsOk' /\ LastWord'
    BY <1>1, <1>3 DEF Media!TypeOK, ChannelsOk, LastWord, Elements, Media!NoMounts
  <2>2. Way'
    BY <1>3 DEF Way, Media!Due
  <2> QED
    BY <1>2, <2>1, <2>2
<1>4. CASE d_monitor' = "on"
  <2>1. PICK s \in Media!Orders(Media!Present) :
          d_notices' = [i \in DOMAIN s |->
                         [volume |-> s[i], root |-> d_at[s[i]], arrival |-> TRUE]]
    BY <1>1, <1>4 DEF Media!register_callbacks
  <2>2. /\ DOMAIN s = 1..Len(s) /\ Len(s) \in Nat
        /\ \A i \in DOMAIN s : s[i] \in Volumes \ Shares /\ d_at[s[i]] # NoRoot
        /\ \A v \in Volumes \ Shares : d_at[v] # NoRoot => \E i \in DOMAIN s : s[i] = v
        /\ \A i, j \in DOMAIN s : s[i] = s[j] => i = j
    BY PresentOrders
  <2>3. \A i \in DOMAIN s : [volume |-> s[i], root |-> d_at[s[i]], arrival |-> TRUE] \in Media!Notice
    BY <2>2 DEF Media!TypeOK, Media!Notice
  <2>4. d_notices' \in Seq(Media!Notice)
    BY <2>1, <2>2, <2>3
  <2>5. DOMAIN d_notices' = DOMAIN s
    BY <2>1
  <2>6. \A i \in DOMAIN s :
          /\ d_notices'[i].volume = s[i] /\ d_notices'[i].root = d_at[s[i]]
          /\ d_notices'[i].arrival /\ d_notices'[i] \in Media!Notice
    BY <2>1, <2>3
  <2>7. Media!TypeOK'
    BY <1>1, <1>4, <2>4 DEF Media!TypeOK
  <2>8. ChannelsOk'
    <3>1. \A n \in Elements(d_notices') : n.volume \notin Shares
      BY <2>2, <2>5, <2>6 DEF Elements
    <3> QED
      BY <1>1, <1>4, <3>1 DEF ChannelsOk, Elements
  <2>9. ASSUME NEW v \in Volumes \ Shares
        PROVE  \/ d_mounted[v] = d_at[v] /\ \A n \in Elements(d_notices') : n.volume # v
               \/ \E n \in Media!Notice : LastOf(d_notices', v, n) /\ Now(n) = d_at[v]
    <3>1. CASE d_at[v] = NoRoot
      <4>1. d_mounted[v] = d_at[v]
        BY <1>1, <3>1 DEF Media!NoMounts
      <4>2. \A i \in DOMAIN s : s[i] # v
        BY <2>2, <3>1
      <4>3. \A n \in Elements(d_notices') : n.volume # v
        BY <2>5, <2>6, <4>2 DEF Elements
      <4> QED
        BY <4>1, <4>3
    <3>2. CASE d_at[v] # NoRoot
      <4>1. PICK i \in DOMAIN s : s[i] = v
        BY <2>2, <3>2
      <4>2. \A j \in DOMAIN s : s[j] = v => j <= i
        BY <2>2, <4>1
      <4>3. LastOf(d_notices', v, d_notices'[i])
        BY <2>5, <2>6, <4>1, <4>2 DEF LastOf
      <4>4. d_notices'[i] \in Media!Notice /\ Now(d_notices'[i]) = d_at[v]
        BY <2>6, <4>1 DEF Now
      <4> QED
        BY <4>3, <4>4
    <3> QED
      BY <3>1, <3>2
  <2>10. LastWord'
    BY <1>1, <2>9 DEF LastWord, LastOf, Elements, Now
  <2>11. ASSUME NEW v \in Volumes, Media!Due(v)' PROVE Heard(v)'
    <3>1. d_mounted[v] # d_at[v]
      BY <1>1, <2>11 DEF Media!Due, Media!NoMounts
    <3> QED
      BY <1>1, <3>1 DEF Heard
  <2> QED
    BY <1>2, <2>7, <2>8, <2>10, <2>11 DEF Way
<1> QED
  BY <1>1, <1>3, <1>4

LEMMA MountedEventTyped ==
  ASSUME NEW r \in Roots, NEW removable \in BOOLEAN
  PROVE  /\ Media!mounted_event(r, removable) \in Media!Event
         /\ Media!unmounted_event(r) \in Media!Event
  BY DEF Media!mounted_event, Media!unmounted_event, Media!Event

\* An event of a mount makes a folder when what is mounted is a isCard.
LEMMA MountedEventCounts ==
  ASSUME NEW r, NEW removable \in BOOLEAN, d_look_for_dcim \/ removable
  PROVE  Media!MountOf(Media!mounted_event(r, removable), r)
<1> DEFINE e == Media!mounted_event(r, removable)
<1>1. e = [root |-> r, removable |-> removable, is_mount |-> TRUE]
  BY DEF Media!mounted_event
<1>2. e.root = r /\ e.is_mount /\ e.removable = removable
  BY <1>1
<1> HIDE DEF e
<1>3. removable => e.removable
  BY <1>2, Zenon
<1>4. Media!MountOf(e, r)
  BY <1>2, <1>3 DEF Media!MountOf
<1> QED
  BY <1>4 DEF e

LEMMA MediaMessageKeeps ==
  ASSUME MediaInv, Media!device_wnd_proc
  PROVE  MediaInv'
<1> DEFINE n == Head(d_notices)
           seen == Media!At(n.root) \cap Cards # {}
           event == IF n.arrival THEN Media!mounted_event(n.root, seen)
                    ELSE Media!unmounted_event(n.root)
<1> USE DEF MediaInv
<1>1. /\ ~d_mac /\ d_monitor = "on" /\ d_notices # <<>>
      /\ d_queue' = Append(d_queue, event)
      /\ d_notices' = Tail(d_notices)
      /\ UNCHANGED <<d_mac, d_look_for_dcim, d_auto, d_at, d_monitor, d_mounted,
                     d_batch, d_busy, d_rows, d_engine, d_scanned, d_missed, d_moves>>
  BY DEF Media!device_wnd_proc, Media!config, Media!loopVars, Media!engineVars
<1>2. d_notices \in Seq(Media!Notice) /\ d_queue \in Seq(Media!Event)
  BY DEF Media!TypeOK
<1>3. /\ n \in Media!Notice /\ d_notices' \in Seq(Media!Notice)
      /\ Elements(d_notices) = {n} \cup Elements(d_notices')
  BY <1>1, <1>2, TailElements
<1>4. n.root \in Roots /\ n.arrival \in BOOLEAN /\ seen \in BOOLEAN
  BY <1>3 DEF Media!Notice
<1> HIDE DEF seen
<1>5. event \in Media!Event
  BY <1>4, MountedEventTyped
<1>6. n.arrival => event = Media!mounted_event(n.root, seen)
  OBVIOUS
<1> HIDE DEF n, event
<1>7. d_queue' \in Seq(Media!Event) /\ Elements(d_queue') = Elements(d_queue) \cup {event}
  BY <1>1, <1>2, <1>5, AppendElements
<1>8. Media!TypeOK'
  BY <1>1, <1>3, <1>7 DEF Media!TypeOK
<1>9. ChannelsOk'
  <2>1. \A m \in Elements(d_notices') : m.volume \notin Shares
    BY <1>3 DEF ChannelsOk
  <2> QED
    BY <1>1, <2>1 DEF ChannelsOk, Elements
<1>10. LastWord' /\ Covered'
  BY <1>1 DEF LastWord, Covered, Media!FolderOf
<1>11. ASSUME NEW v \in Volumes, Media!Due(v)', v \notin d_scanned',
              (d_rows[Media!FolderOf(d_at[v])] = "none")'
       PROVE  Heard(v)'
  <2>1. Media!Due(v) /\ v \notin d_scanned /\ d_rows[Media!FolderOf(d_at[v])] = "none"
    BY <1>1, <1>11 DEF Media!Due, Media!FolderOf
  <2>2. Heard(v)
    BY <2>1 DEF Way
  <2>3. CASE \E e \in Elements(d_queue) \cup Elements(d_batch) : Media!MountOf(e, d_at[v])
    <3>1. PICK e \in Elements(d_queue) \cup Elements(d_batch) : Media!MountOf(e, d_at[v])
      BY <2>3
    <3>2. Media!MountOf(e, d_at[v])'
      BY <1>1, <3>1 DEF Media!MountOf
    <3>3. e \in Elements(d_queue') \cup Elements(d_batch')
      BY <1>1, <1>7, <3>1
    <3> QED
      BY <3>2, <3>3 DEF Heard, Elements
  <2>4. CASE n.arrival /\ n.root = d_at[v]
    <3>1. v \in Media!At(n.root)
      BY <2>4 DEF Media!At
    <3>2. d_look_for_dcim \/ seen
      BY <2>1, <3>1 DEF Media!Due, seen
    <3>3. Media!MountOf(event, d_at[v])
      BY <1>4, <1>6, <2>4, <3>2, MountedEventCounts
    <3>4. PICK e : e = event
      OBVIOUS
    <3>5. Media!MountOf(e, d_at[v])' /\ e \in Elements(d_queue')
      BY <1>1, <1>7, <3>3, <3>4 DEF Media!MountOf
    <3> QED
      BY <3>5 DEF Heard, Elements
  <2>5. CASE \E m \in Elements(d_notices') : m.arrival /\ m.root = d_at[v]
    BY <1>1, <2>5 DEF Heard, Elements
  <2> QED
    BY <1>1, <1>3, <2>2, <2>3, <2>4, <2>5 DEF Heard
<1> QED
  BY <1>8, <1>9, <1>10, <1>11 DEF Way

LEMMA MediaCallbackKeeps ==
  ASSUME MediaInv, Media!reconcile_disk
  PROVE  MediaInv'
<1> DEFINE n == Head(d_notices)
           v == n.volume
           before == d_mounted[v]
           now == IF n.arrival THEN n.root ELSE NoRoot
           isCard == (v \in Cards)
           gone == IF before = NoRoot THEN <<>> ELSE <<Media!unmounted_event(before)>>
           here == IF now = NoRoot THEN <<>> ELSE <<Media!mounted_event(now, isCard)>>
<1> USE DEF MediaInv
<1>1. /\ d_mac /\ d_monitor = "on" /\ d_notices # <<>>
      /\ d_mounted' = [d_mounted EXCEPT ![v] = now]
      /\ d_queue' = IF before = now THEN d_queue ELSE d_queue \o gone \o here
      /\ d_notices' = Tail(d_notices)
      /\ UNCHANGED <<d_mac, d_look_for_dcim, d_auto, d_at, d_monitor,
                     d_batch, d_busy, d_rows, d_engine, d_scanned, d_missed, d_moves>>
  BY DEF Media!reconcile_disk, Media!config, Media!loopVars, Media!engineVars
<1>2. d_notices \in Seq(Media!Notice) /\ d_queue \in Seq(Media!Event)
  BY DEF Media!TypeOK
<1>3. /\ n \in Media!Notice /\ d_notices' \in Seq(Media!Notice)
      /\ Elements(d_notices) = {n} \cup Elements(d_notices')
  BY <1>1, <1>2, TailElements
<1>4. /\ n.root \in Roots /\ n.arrival \in BOOLEAN /\ v \in Volumes /\ isCard \in BOOLEAN
      /\ before \in Roots \cup {NoRoot} /\ now \in Roots \cup {NoRoot}
      /\ now = Now(n)
  BY <1>3 DEF Media!Notice, Media!TypeOK, Now
<1>5. d_mounted'[v] = now /\ \A u \in Volumes \ {v} : d_mounted'[u] = d_mounted[u]
  BY <1>1, <1>4 DEF Media!TypeOK
<1> HIDE DEF isCard
<1>6. gone \in Seq(Media!Event)
  BY <1>4, MountedEventTyped
<1>7. /\ here \in Seq(Media!Event)
      /\ now # NoRoot => Media!mounted_event(now, isCard) \in Elements(here)
  <2>1. CASE now = NoRoot
    BY <2>1
  <2>2. CASE now # NoRoot
    <3>1. Media!mounted_event(now, isCard) \in Media!Event
      BY <1>4, <2>2, MountedEventTyped
    <3>2. here = <<Media!mounted_event(now, isCard)>>
      BY <2>2
    <3> HIDE DEF here
    <3> QED
      BY <3>1, <3>2 DEF Elements
  <2> QED
    BY <2>1, <2>2
<1> HIDE DEF gone, here, before, now, v, n
<1>8. /\ d_queue' \in Seq(Media!Event)
      /\ Elements(d_queue) \subseteq Elements(d_queue')
      /\ before # now /\ now # NoRoot => Media!mounted_event(now, isCard) \in Elements(d_queue')
  <2>1. d_queue \o gone \in Seq(Media!Event) /\ Elements(d_queue \o gone) = Elements(d_queue) \cup Elements(gone)
    BY <1>2, <1>6, ConcatElements
  <2>2. PICK first \in Seq(Media!Event) : first = d_queue \o gone
    BY <2>1
  <2>3. here \in Seq(Media!Event)
    BY <1>7
  <2>4. /\ first \o here \in Seq(Media!Event)
        /\ Elements(first \o here) = Elements(first) \cup Elements(here)
    BY <2>3, ConcatElements
  <2>5. d_queue' = IF before = now THEN d_queue ELSE first \o here
    BY <1>1, <2>2
  <2> QED
    BY <1>2, <1>7, <2>1, <2>2, <2>4, <2>5
<1>9. Media!TypeOK'
  <2>1. d_mounted' \in [Volumes -> Roots \cup {NoRoot}]
    BY <1>1, <1>4 DEF Media!TypeOK
  <2> QED
    BY <1>1, <1>3, <1>8, <2>1 DEF Media!TypeOK
<1>10. ChannelsOk'
  <2>1. \A m \in Elements(d_notices') : m.volume \notin Shares
    BY <1>3 DEF ChannelsOk
  <2> QED
    BY <1>1, <2>1 DEF ChannelsOk, Elements
<1>11. Covered'
  BY <1>1 DEF Covered, Media!FolderOf
<1>12. ASSUME NEW u \in Volumes \ Shares
       PROVE  \/ d_mounted'[u] = d_at[u] /\ \A m \in Elements(d_notices') : m.volume # u
              \/ \E m \in Media!Notice : LastOf(d_notices', u, m) /\ Now(m) = d_at[u]
  <2>1. CASE d_mounted[u] = d_at[u] /\ \A m \in Elements(d_notices) : m.volume # u
    <3>1. u # v
      BY <1>3, <2>1 DEF v
    <3> QED
      BY <1>3, <1>5, <2>1, <3>1
  <2>2. CASE \E m \in Media!Notice : LastOf(d_notices, u, m) /\ Now(m) = d_at[u]
    <3>1. PICK m \in Media!Notice : LastOf(d_notices, u, m) /\ Now(m) = d_at[u]
      BY <2>2
    <3>2. \/ LastOf(d_notices', u, m)
          \/ m = n /\ m.volume = u /\ \A k \in Elements(d_notices') : k.volume # u
      BY <1>1, <1>2, <3>1, LastInTail DEF n
    <3>3. m = n /\ m.volume = u => d_mounted'[u] = d_at[u]
      BY <1>4, <1>5, <3>1 DEF v
    <3> QED
      BY <3>1, <3>2, <3>3
  <2> QED
    BY <1>1, <2>1, <2>2 DEF LastWord
<1>13. LastWord'
  BY <1>1, <1>12 DEF LastWord, LastOf, Elements, Now
<1>14. ASSUME NEW u \in Volumes, Media!Due(u)', u \notin d_scanned',
              (d_rows[Media!FolderOf(d_at[u])] = "none")'
       PROVE  Heard(u)'
  <2>1. Media!Due(u) /\ u \notin d_scanned /\ d_rows[Media!FolderOf(d_at[u])] = "none"
    BY <1>1, <1>14 DEF Media!Due, Media!FolderOf
  <2>2. Heard(u)
    BY <2>1 DEF Way
  <2>3. CASE \E e \in Elements(d_queue) \cup Elements(d_batch) : Media!MountOf(e, d_at[u])
    <3>1. PICK e \in Elements(d_queue) \cup Elements(d_batch) : Media!MountOf(e, d_at[u])
      BY <2>3
    <3>2. Media!MountOf(e, d_at[u])'
      BY <1>1, <3>1 DEF Media!MountOf
    <3>3. e \in Elements(d_queue') \cup Elements(d_batch')
      BY <1>1, <1>8, <3>1
    <3> QED
      BY <3>2, <3>3 DEF Heard, Elements
  <2>4. CASE d_mounted'[u] # d_at[u]
    BY <1>1, <2>4 DEF Heard
  <2>5. CASE \E m \in Elements(d_notices') : m.volume = u /\ ~m.arrival
    BY <1>1, <2>5 DEF Heard, Elements
  <2>6. CASE /\ d_mounted'[u] = d_at[u]
             /\ d_mounted[u] # d_at[u] \/ (n.volume = u /\ ~n.arrival)
    <3>1. u = v
      BY <1>5, <2>6 DEF v
    <3>2. now = d_at[u] /\ now # NoRoot
      BY <1>5, <2>1, <2>6, <3>1 DEF Media!Due
    <3>3. n.arrival
      BY <1>4, <3>2 DEF Now
    <3>4. before # now
      BY <2>6, <3>1, <3>2, <3>3 DEF before
    <3>5. Media!MountOf(Media!mounted_event(now, isCard), now)
      BY <1>4, <2>1, <3>1, MountedEventCounts DEF Media!Due, isCard
    <3>6. PICK e : e = Media!mounted_event(now, isCard)
      OBVIOUS
    <3>7. Media!MountOf(e, d_at[u])' /\ e \in Elements(d_queue')
      BY <1>1, <1>8, <3>2, <3>4, <3>5, <3>6 DEF Media!MountOf
    <3> QED
      BY <3>7 DEF Heard, Elements
  <2> QED
    BY <1>1, <1>3, <2>2, <2>3, <2>4, <2>5, <2>6 DEF Heard
<1> QED
  BY <1>9, <1>10, <1>11, <1>13, <1>14 DEF Way

----------------------------------------------------------------------------
(* The engine and the main loop.                                           *)

LEMMA StartCovers ==
  ASSUME Media!TypeOK, Media!start_watch_engine, UNCHANGED <<d_look_for_dcim, d_at, d_missed>>
  PROVE  /\ d_engine' \subseteq Media!Folder
         /\ d_scanned \subseteq d_scanned' /\ d_scanned' \subseteq Volumes
         /\ Covered'
<1>1. /\ d_engine' = Media!WatchPaths
      /\ d_scanned' = d_scanned \cup {v \in Volumes : \E f \in Media!WatchPaths : f[1] = d_at[v]}
  BY DEF Media!start_watch_engine
<1>2. Media!WatchPaths \subseteq Media!Folder
  BY DEF Media!WatchPaths
<1>3. ASSUME NEW v \in Volumes, Media!FolderOf(d_at[v])' \in d_engine' PROVE v \in d_scanned'
  <2>1. Media!FolderOf(d_at[v])[1] = d_at[v] /\ Media!FolderOf(d_at[v])' = Media!FolderOf(d_at[v])
    BY DEF Media!FolderOf
  <2> QED
    BY <1>1, <1>3, <2>1
<1>4. Covered'
  BY <1>3 DEF Covered
<1> QED
  BY <1>1, <1>2, <1>4 DEF Media!TypeOK

LEMMA ConvergeCovers ==
  ASSUME Media!TypeOK, Covered, Media!converge_watch_folders,
         UNCHANGED <<d_look_for_dcim, d_at, d_missed>>
  PROVE  /\ d_engine' \subseteq Media!Folder
         /\ d_scanned \subseteq d_scanned' /\ d_scanned' \subseteq Volumes
         /\ Covered'
<1>1. Media!start_watch_engine \/ UNCHANGED <<d_engine, d_scanned>>
  BY DEF Media!converge_watch_folders, Media!engineVars
<1>2. CASE UNCHANGED <<d_engine, d_scanned>>
  BY <1>2 DEF Covered, Media!FolderOf, Media!TypeOK
<1> QED
  BY <1>1, <1>2, StartCovers

LEMMA MediaPollKeeps ==
  ASSUME MediaInv, Media!poll_volume_events
  PROVE  MediaInv'
<1> USE DEF MediaInv
<1>1. /\ d_monitor = "on" /\ ~d_busy /\ d_batch = <<>>
      /\ d_batch' = d_queue /\ d_queue' = <<>> /\ d_busy' = TRUE
      /\ UNCHANGED <<d_mac, d_look_for_dcim, d_auto, d_at, d_monitor, d_mounted, d_notices,
                     d_rows, d_engine, d_scanned, d_missed, d_moves>>
  BY DEF Media!poll_volume_events, Media!config, Media!monitorVars, Media!engineVars, ChannelsOk
<1>2. Media!TypeOK'
  BY <1>1 DEF Media!TypeOK
<1>3. ChannelsOk' /\ LastWord' /\ Covered'
  BY <1>1 DEF ChannelsOk, LastWord, Covered, Elements, Media!FolderOf
<1>4. Elements(d_queue) \cup Elements(d_batch) \subseteq Elements(d_queue') \cup Elements(d_batch')
  BY <1>1, NoElements
<1>5. ASSUME NEW v \in Volumes, Media!Due(v)', v \notin d_scanned',
             (d_rows[Media!FolderOf(d_at[v])] = "none")'
      PROVE  Heard(v)'
  <2>1. Media!Due(v) /\ v \notin d_scanned /\ d_rows[Media!FolderOf(d_at[v])] = "none"
    BY <1>1, <1>5 DEF Media!Due, Media!FolderOf
  <2> QED
    BY <1>1, <1>4, <2>1, HeardStays DEF Way
<1> QED
  BY <1>2, <1>3, <1>5 DEF Way

LEMMA MediaHandleKeeps ==
  ASSUME MediaInv, Media!HandleEvent
  PROVE  MediaInv'
<1> DEFINE e == Head(d_batch)
           f == Media!FolderOf(e.root)
<1> USE DEF MediaInv
<1>1. /\ d_busy /\ d_batch # <<>>
      /\ IF Media!Watches(e) THEN Media!register_mount(f) ELSE UNCHANGED <<d_rows, d_missed>>
      /\ d_batch' = Tail(d_batch)
      /\ UNCHANGED <<d_mac, d_look_for_dcim, d_auto, d_at, d_monitor, d_mounted, d_notices,
                     d_queue, d_busy, d_engine, d_scanned, d_moves>>
  BY DEF Media!HandleEvent, Media!config, Media!monitorVars, Media!engineVars
<1>2. d_batch \in Seq(Media!Event)
  BY DEF Media!TypeOK
<1>3. e \in Media!Event /\ d_batch' \in Seq(Media!Event) /\ Elements(d_batch) = {e} \cup Elements(d_batch')
  BY <1>1, <1>2, TailElements
<1>4. f \in Media!Folder /\ f[1] = e.root
  BY <1>3 DEF Media!Folder, Media!FolderOf, Media!Event
<1> HIDE DEF e, f
<1>5. /\ \/ UNCHANGED <<d_rows, d_missed>>
         \/ d_rows[f] = "none" /\ d_rows' = [d_rows EXCEPT ![f] = "on"] /\ UNCHANGED d_missed
         \/ d_missed' = d_missed \cup Media!At(f[1]) /\ UNCHANGED d_rows
      /\ Media!Watches(e) /\ d_rows[f] = "none" =>
           \/ d_rows' = [d_rows EXCEPT ![f] = "on"]
           \/ d_missed' = d_missed \cup Media!At(f[1])
  BY <1>1 DEF Media!register_mount
<1>6. /\ d_rows' \in [Media!Folder -> {"none", "on", "off"}]
      /\ \A g \in Media!Folder : d_rows'[g] = d_rows[g] \/ (d_rows[g] = "none" /\ d_rows'[g] = "on")
      /\ d_missed \subseteq d_missed' /\ d_missed' \subseteq Volumes
  BY <1>4, <1>5 DEF Media!TypeOK, Media!At
<1>7. Media!TypeOK'
  BY <1>1, <1>3, <1>6 DEF Media!TypeOK
<1>8. ChannelsOk' /\ LastWord' /\ Covered'
  BY <1>1, <1>6 DEF ChannelsOk, LastWord, Covered, Elements, Media!FolderOf
<1>9. ASSUME NEW v \in Volumes, Media!Due(v)', v \notin d_scanned',
             (d_rows[Media!FolderOf(d_at[v])] = "none")'
      PROVE  Heard(v)'
  <2>1. d_at[v] \in Roots /\ Media!FolderOf(d_at[v]) \in Media!Folder
    BY <1>1, <1>9 DEF Media!Due, Media!TypeOK, Media!FolderOf, Media!Folder
  <2>2. /\ d_rows'[Media!FolderOf(d_at[v])] = "none" /\ d_rows[Media!FolderOf(d_at[v])] = "none"
        /\ Media!Due(v) /\ v \notin d_scanned /\ v \notin d_missed'
    BY <1>1, <1>6, <1>9, <2>1 DEF Media!Due, Media!FolderOf
  <2>3. Heard(v)
    BY <2>2 DEF Way
  <2>4. ~Media!MountOf(e, d_at[v])
    <3> SUFFICES ASSUME Media!MountOf(e, d_at[v]) PROVE FALSE
      OBVIOUS
    <3>1. e.is_mount /\ e.root = d_at[v] /\ (d_look_for_dcim \/ e.removable)
      BY DEF Media!MountOf
    <3>2. d_look_for_dcim => Media!exists(<<e.root, "DCIM">>)
      BY <2>2, <3>1 DEF Media!exists, Media!At, Media!Due
    <3>3. Media!Watches(e)
      BY <2>2, <3>1, <3>2 DEF Media!Watches, Media!Due
    <3>4. f = Media!FolderOf(d_at[v])
      BY <3>1 DEF f
    <3>5. v \in Media!At(f[1])
      BY <1>4, <3>1 DEF Media!At
    <3>6. d_rows' # [d_rows EXCEPT ![f] = "on"]
      BY <2>1, <2>2, <3>4 DEF Media!TypeOK
    <3> QED
      BY <1>5, <2>2, <3>3, <3>4, <3>5, <3>6
  <2>5. CASE \E x \in Elements(d_queue) \cup Elements(d_batch) : Media!MountOf(x, d_at[v])
    <3>1. PICK x \in Elements(d_queue) \cup Elements(d_batch) : Media!MountOf(x, d_at[v])
      BY <2>5
    <3>2. Media!MountOf(x, d_at[v])'
      BY <1>1, <3>1 DEF Media!MountOf
    <3>3. x \in Elements(d_queue') \cup Elements(d_batch')
      BY <1>1, <1>3, <2>4, <3>1
    <3> QED
      BY <3>2, <3>3 DEF Heard, Elements
  <2> QED
    BY <1>1, <2>3, <2>5 DEF Heard, Elements
<1> QED
  BY <1>7, <1>8, <1>9 DEF Way

LEMMA MediaConvergeKeeps ==
  ASSUME MediaInv, Media!EventsHandled \/ Media!reconcile_watch_folders
  PROVE  MediaInv'
<1> USE DEF MediaInv
<1>1. /\ Media!converge_watch_folders
      /\ d_busy' \in BOOLEAN /\ (d_busy' => d_busy) /\ (~d_busy' => d_batch = <<>>)
      /\ UNCHANGED <<d_mac, d_look_for_dcim, d_auto, d_at, d_monitor, d_mounted, d_notices,
                     d_queue, d_batch, d_rows, d_missed, d_moves>>
  <2>1. CASE Media!EventsHandled
    BY <2>1 DEF Media!EventsHandled, Media!config, Media!monitorVars
  <2>2. CASE Media!reconcile_watch_folders
    BY <2>2 DEF Media!reconcile_watch_folders, Media!config, Media!monitorVars,
                Media!loopVars, Media!TypeOK, ChannelsOk
  <2> QED
    BY <2>1, <2>2
<1>2. /\ d_engine' \subseteq Media!Folder
      /\ d_scanned \subseteq d_scanned' /\ d_scanned' \subseteq Volumes
      /\ Covered'
  BY <1>1, ConvergeCovers
<1>3. Media!TypeOK'
  BY <1>1, <1>2 DEF Media!TypeOK
<1>4. ChannelsOk' /\ LastWord'
  BY <1>1 DEF ChannelsOk, LastWord, Elements
<1>5. ASSUME NEW v \in Volumes, Media!Due(v)', v \notin d_scanned',
             (d_rows[Media!FolderOf(d_at[v])] = "none")'
      PROVE  Heard(v)'
  <2>1. Media!Due(v) /\ v \notin d_scanned /\ d_rows[Media!FolderOf(d_at[v])] = "none"
    BY <1>1, <1>2, <1>5 DEF Media!Due, Media!FolderOf
  <2> QED
    BY <1>1, <2>1, HeardStays DEF Way
<1> QED
  BY <1>2, <1>3, <1>4, <1>5 DEF Way

----------------------------------------------------------------------------
(* The process, and Settings.                                              *)

LEMMA MediaLaunchKeeps ==
  ASSUME MediaInv, Media!Launch
  PROVE  MediaInv'
<1> USE DEF MediaInv
<1>1. /\ d_monitor = "off" /\ d_monitor' = "launched"
      /\ Media!start_watch_engine
      /\ d_moves < MaxMoves /\ d_moves' = d_moves + 1
      /\ UNCHANGED <<d_mac, d_look_for_dcim, d_auto, d_at, d_mounted, d_notices, d_queue,
                     d_batch, d_busy, d_rows, d_missed>>
  BY DEF Media!Launch, Media!Move, Media!config, Media!loopVars
<1>2. /\ d_engine' \subseteq Media!Folder /\ d_scanned' \subseteq Volumes /\ Covered'
  BY <1>1, StartCovers
<1>3. Media!TypeOK'
  <2>1. d_moves' \in 0..MaxMoves
    BY <1>1, WatchingAssumption DEF Media!TypeOK
  <2> QED
    BY <1>1, <1>2, <2>1 DEF Media!TypeOK
<1>4. ChannelsOk' /\ LastWord' /\ Way'
  BY <1>1 DEF ChannelsOk, LastWord, Way, Media!Due, Elements, Media!NoMounts
<1> QED
  BY <1>2, <1>3, <1>4

LEMMA MediaQuitKeeps ==
  ASSUME MediaInv, Media!Quit
  PROVE  MediaInv'
<1> USE DEF MediaInv
<1>1. /\ d_monitor' = "off" /\ d_notices' = <<>> /\ d_queue' = <<>> /\ d_batch' = <<>>
      /\ d_busy' = FALSE /\ d_mounted' = Media!NoMounts
      /\ d_engine' = {} /\ d_scanned' = {} /\ d_missed' = {}
      /\ UNCHANGED <<d_mac, d_look_for_dcim, d_auto, d_at, d_rows, d_moves>>
  BY DEF Media!Quit, Media!config
<1>2. Media!TypeOK'
  <2>1. Media!NoMounts \in [Volumes -> Roots \cup {NoRoot}]
    BY DEF Media!NoMounts
  <2>2. d_notices' \in Seq(Media!Notice) /\ d_queue' \in Seq(Media!Event) /\ d_batch' \in Seq(Media!Event)
    BY <1>1
  <2> QED
    BY <1>1, <2>1, <2>2 DEF Media!TypeOK
<1>3. ChannelsOk'
  <2>1. Elements(d_notices') = {}
    BY <1>1, NoElements
  <2> QED
    BY <1>1, <2>1 DEF ChannelsOk, Elements, Media!NoMounts
<1>4. LastWord' /\ Way' /\ Covered'
  BY <1>1 DEF LastWord, Way, Covered, Media!Due
<1> QED
  BY <1>2, <1>3, <1>4

LEMMA MediaSetRowKeeps ==
  ASSUME MediaInv, NEW f \in Media!Folder, Media!SetRow(f)
  PROVE  MediaInv'
<1> USE DEF MediaInv
<1>1. /\ d_moves < MaxMoves /\ d_moves' = d_moves + 1
      /\ UNCHANGED <<d_mac, d_look_for_dcim, d_auto, d_at, d_monitor, d_mounted, d_notices,
                     d_queue, d_batch, d_busy, d_engine, d_scanned>>
  BY DEF Media!SetRow, Media!Move, Media!config, Media!monitorVars, Media!loopVars, Media!engineVars
<1>2. PICK to \in {"none", "on", "off"} :
        /\ d_rows' = [d_rows EXCEPT ![f] = to]
        /\ d_missed' = IF to = "none" THEN d_missed \cup Media!At(f[1]) ELSE d_missed
  BY DEF Media!SetRow
<1>3. /\ d_rows' \in [Media!Folder -> {"none", "on", "off"}]
      /\ d_rows'[f] = to /\ \A g \in Media!Folder \ {f} : d_rows'[g] = d_rows[g]
      /\ d_missed \subseteq d_missed' /\ d_missed' \subseteq Volumes
  BY <1>2 DEF Media!TypeOK, Media!At
<1>4. Media!TypeOK'
  <2>1. d_moves' \in 0..MaxMoves
    BY <1>1, WatchingAssumption DEF Media!TypeOK
  <2> QED
    BY <1>1, <1>3, <2>1 DEF Media!TypeOK
<1>5. ChannelsOk' /\ LastWord' /\ Covered'
  BY <1>1, <1>3 DEF ChannelsOk, LastWord, Covered, Elements, Media!FolderOf
<1>6. ASSUME NEW v \in Volumes, Media!Due(v)', v \notin d_scanned',
             (d_rows[Media!FolderOf(d_at[v])] = "none")'
      PROVE  Heard(v)'
  <2> DEFINE g == Media!FolderOf(d_at[v])
  <2>1. d_at[v] \in Roots /\ g \in Media!Folder /\ g[1] = d_at[v]
    BY <1>1, <1>6 DEF Media!Due, Media!TypeOK, Media!FolderOf, Media!Folder
  <2>2. d_rows'[g] = "none" /\ v \notin d_missed'
    BY <1>1, <1>6 DEF Media!Due, Media!FolderOf
  <2>3. g # f
    BY <1>2, <1>3, <2>1, <2>2 DEF Media!At
  <2>4. Media!Due(v) /\ v \notin d_scanned /\ d_rows[g] = "none"
    BY <1>1, <1>3, <1>6, <2>1, <2>2, <2>3 DEF Media!Due
  <2> QED
    BY <1>1, <2>4, HeardStays DEF Way
<1> QED
  BY <1>4, <1>5, <1>6 DEF Way

LEMMA MediaSetAutoKeeps ==
  ASSUME MediaInv, Media!SetAuto
  PROVE  MediaInv'
<1> USE DEF MediaInv
<1>1. /\ d_moves < MaxMoves /\ d_moves' = d_moves + 1
      /\ d_auto' = ~d_auto
      /\ d_missed' = d_missed \cup {v \in Volumes : d_at[v] # NoRoot}
      /\ UNCHANGED <<d_mac, d_look_for_dcim, d_at, d_monitor, d_mounted, d_notices,
                     d_queue, d_batch, d_busy, d_rows, d_engine, d_scanned>>
  BY DEF Media!SetAuto, Media!Move, Media!config, Media!monitorVars, Media!loopVars, Media!engineVars
<1>2. Media!TypeOK'
  <2>1. d_moves' \in 0..MaxMoves
    BY <1>1, WatchingAssumption DEF Media!TypeOK
  <2>2. d_auto' \in BOOLEAN
    BY <1>1
  <2> QED
    BY <1>1, <2>1, <2>2 DEF Media!TypeOK
<1>3. ChannelsOk' /\ LastWord' /\ Covered'
  BY <1>1 DEF ChannelsOk, LastWord, Covered, Elements, Media!FolderOf
<1>4. Way'
  BY <1>1 DEF Way, Media!Due
<1> QED
  BY <1>2, <1>3, <1>4

LEMMA MediaUntouched == MediaInv /\ UNCHANGED mediaVars => MediaInv'
<1> SUFFICES ASSUME MediaInv, UNCHANGED mediaVars PROVE MediaInv'
  OBVIOUS
<1> USE DEF MediaInv, mediaVars
<1>1. Media!TypeOK' /\ ChannelsOk'
  BY DEF Media!TypeOK, ChannelsOk, Elements, Media!NoMounts
<1>2. LastWord' /\ Covered'
  BY DEF LastWord, Covered, Elements, LastOf, Now, Media!FolderOf
<1>3. ASSUME NEW v \in Volumes, Media!Due(v)', v \notin d_scanned',
             (d_rows[Media!FolderOf(d_at[v])] = "none")'
      PROVE  Heard(v)'
  <2>1. Media!Due(v) /\ v \notin d_scanned /\ d_rows[Media!FolderOf(d_at[v])] = "none"
    BY <1>3 DEF Media!Due, Media!FolderOf
  <2> QED
    BY <2>1, HeardStays DEF Way
<1> QED
  BY <1>1, <1>2, <1>3 DEF Way

LEMMA InitMedia == Media!Init => MediaInv
<1> SUFFICES ASSUME Media!Init PROVE MediaInv
  OBVIOUS
<1>1. Media!TypeOK
  <2>1. Media!NoMounts \in [Volumes -> Roots \cup {NoRoot}]
    BY DEF Media!NoMounts
  <2>2. d_notices \in Seq(Media!Notice) /\ d_queue \in Seq(Media!Event) /\ d_batch \in Seq(Media!Event)
    BY DEF Media!Init
  <2>3. d_moves \in 0..MaxMoves
    BY WatchingAssumption DEF Media!Init
  <2> QED
    BY <2>1, <2>2, <2>3 DEF Media!Init, Media!TypeOK
<1>2. ChannelsOk
  BY NoElements DEF Media!Init, ChannelsOk
<1>3. LastWord /\ Way /\ Covered
  BY DEF Media!Init, LastWord, Way, Covered, Media!Due, Media!NoMounts
<1> QED
  BY <1>1, <1>2, <1>3 DEF MediaInv

LEMMA MediaStep == MediaInv /\ [AllNext]_allVars => MediaInv'
<1> SUFFICES ASSUME MediaInv, [AllNext]_allVars PROVE MediaInv'
  OBVIOUS
<1>1. CASE MediaNext
  BY <1>1, MediaMountKeeps, MediaUnmountKeeps, MediaSweepKeeps, MediaWindowKeeps,
     MediaCallbacksKeep, MediaMessageKeeps, MediaCallbackKeeps, MediaPollKeeps,
     MediaHandleKeeps, MediaConvergeKeeps, MediaLaunchKeeps, MediaQuitKeeps,
     MediaSetRowKeeps, MediaSetAutoKeeps
  DEF MediaNext
<1>2. EngineNext \/ FileNext \/ UNCHANGED allVars => UNCHANGED mediaVars
  BY DEF EngineNext, FileNext, InEngine, InFile, allVars
<1> QED
  BY <1>1, <1>2, MediaUntouched DEF AllNext

\* The media's types and their invariant, in the sum that the run checks.
THEOREM MediaInvariantHolds == AllSpec => []MediaInv
<1>1. AllInit => MediaInv
  BY InitMedia DEF AllInit
<1> QED
  BY <1>1, MediaStep, PTL DEF AllSpec

\* No mount gets lost on its way, on either platform, with any number of
\* volumes that come and go at any number of mount points: a card that is due
\* and not scanned yet has an announcement that nobody has handled, or is
\* drift for the next convergence (platform/macos/volumes.rs, watch/device.rs,
\* app.rs).
THEOREM NoMountIsLost == AllSpec => []CardIsOnItsWay
<1>1. MediaInv => CardIsOnItsWay
  <2> SUFFICES ASSUME MediaInv, NEW v \in Volumes, Media!Due(v), v \notin d_scanned
               PROVE  IF d_rows[Media!FolderOf(d_at[v])] = "on"
                      THEN Media!FolderOf(d_at[v]) \notin d_engine ELSE Media!Announced(v)
    BY DEF CardIsOnItsWay, Media!CardIsOnItsWay
  <2> USE DEF MediaInv
  <2>1. /\ d_at[v] # NoRoot /\ d_at[v] \in Roots /\ v \notin d_missed /\ v \notin Shares
        /\ d_monitor \in {"swept", "on"}
        /\ Media!FolderOf(d_at[v]) \in Media!Folder /\ d_rows[Media!FolderOf(d_at[v])] # "off"
    BY DEF Media!Due, Media!TypeOK, Media!FolderOf, Media!Folder
  <2>2. CASE d_rows[Media!FolderOf(d_at[v])] = "on"
    BY <2>1, <2>2 DEF Covered
  <2>3. CASE d_rows[Media!FolderOf(d_at[v])] # "on"
    <3>1. d_rows[Media!FolderOf(d_at[v])] = "none"
      BY <2>1, <2>3 DEF Media!TypeOK
    <3>2. Heard(v)
      BY <3>1 DEF Way
    <3>3. CASE \E e \in Elements(d_queue) \cup Elements(d_batch) : Media!MountOf(e, d_at[v])
      BY <2>3, <3>3 DEF Media!Announced, Elements
    <3>4. CASE ~d_mac /\ \E n \in Elements(d_notices) : n.arrival /\ n.root = d_at[v]
      BY <2>3, <3>4 DEF Media!Announced, Elements
    <3>5. CASE /\ d_mac
               /\ \/ d_mounted[v] # d_at[v]
                  \/ \E n \in Elements(d_notices) : n.volume = v /\ ~n.arrival
      <4>1. d_monitor = "on"
        BY <2>1, <3>5 DEF ChannelsOk
      <4>2. PICK n \in Media!Notice : LastOf(d_notices, v, n) /\ Now(n) = d_at[v]
        BY <2>1, <3>5, <4>1 DEF LastWord
      <4>3. n.arrival /\ n.root = d_at[v] /\ n.volume = v
        BY <2>1, <4>2 DEF Now, LastOf
      <4> QED
        BY <2>3, <4>2, <4>3 DEF Media!Announced, LastOf
    <3> QED
      BY <3>2, <3>3, <3>4, <3>5 DEF Heard
  <2> QED
    BY <2>2, <2>3
<1> QED
  BY <1>1, MediaInvariantHolds, PTL

----------------------------------------------------------------------------
(* And the engine's theorems hold in the sum.                              *)

\* The sum's steps are the engine's, or leave it alone.
LEMMA EngineSteps == AllSpec => Spec
<1>1. AllInit => Init
  BY DEF AllInit
<1>2. [AllNext]_allVars => [Next]_vars
  <2>1. EngineNext => Next
    BY DEF EngineNext, InEngine, Next, MonitorNext
  <2>2. FileNext \/ MediaNext \/ UNCHANGED allVars => UNCHANGED vars
    BY DEF FileNext, MediaNext, InFile, InMedia, allVars
  <2> QED
    BY <2>1, <2>2 DEF AllNext
<1> QED
  BY <1>1, <1>2, PTL DEF AllSpec, Spec

\* NoLeakedWatcher and NoGapNoLoss in the sum.
THEOREM EngineInTheSum == AllSpec => [](NoLeakedWatcher /\ NoGapNoLoss)
  BY EngineSteps, NoWatcherLeaks, OnlyGapsLose, PTL

=============================================================================
