---------------------------- MODULE FolderWatcher ----------------------------
(***************************************************************************)
(* One watcher of one folder, inside the engine of WatchEngine: from the   *)
(* operating system's events, through the debouncer, the filter and the    *)
(* write-completion check, to FileReady (src/src/watch/folder.rs,          *)
(* src/src/watch/network.rs, src/src/watch/filter.rs).                     *)
(*                                                                         *)
(* Files are written by programs that pause, hold locks and take as long   *)
(* as they want; a network share may never send an event.  What a file is  *)
(* called and what the patterns say is settled by `Media`; its size, which *)
(* changes while it is written, is not.  Probes are WatchEngine's.         *)
(***************************************************************************)
EXTENDS Naturals, FiniteSets

CONSTANTS
  File,      \* paths under the folder
  Media,     \* those that its name, directory and patterns let through
  MaxWrites, \* bound: writes to one file
  MaxTries,  \* bound: rounds of one write-completion check
  MaxChecks, \* bound: checks at one time
  MaxStarts  \* bound: starts of the watcher

VARIABLES
  network,  \* the engine took a NetworkWatcher for it, not a FolderWatcher
  deaf,     \* the folder's file system sends no events
  there,    \* files on disk
  writes,   \* times each was written: its size, 0 being below 1 KB
  writing,  \* files whose program is not done
  locked,   \* files that cannot be opened
  mode,     \* the running watcher: none, native or polling
  starting, \* start() waits for its health-check event
  window,   \* files in the debouncer's window
  checks,   \* write-completion checks in progress
  ready,    \* files reported by FileReady since their last write
  lost,     \* ghost: files whose last event led nowhere for a known reason
  starts

diskVars  == <<there, writes, writing, locked>>
watchVars == <<mode, starting, starts>>
folderVars == <<network, deaf>>
vars == <<folderVars, diskVars, watchVars, window, checks, ready, lost>>

\* The steps of a round: the two samples of the size, and the open.
Check == [file : File, at : {"head", "first", "second"}, size : 0..MaxWrites,
          tries : 0..MaxTries]

TypeOK ==
  /\ network \in BOOLEAN
  /\ deaf \in BOOLEAN
  /\ there \in SUBSET File
  /\ writes \in [File -> 0..MaxWrites]
  /\ writing \in SUBSET File
  /\ locked \in SUBSET File
  /\ mode \in {"none", "native", "poll"}
  /\ starting \in BOOLEAN
  /\ window \in SUBSET File
  /\ checks \in SUBSET Check
  /\ ready \in SUBSET File
  /\ lost \in SUBSET File
  /\ starts \in 0..MaxStarts

Init ==
  /\ network \in BOOLEAN
  /\ deaf \in {FALSE, network}
  /\ there = {}
  /\ writes = [f \in File |-> 0]
  /\ writing = {}
  /\ locked = {}
  /\ mode = "none"
  /\ starting = FALSE
  /\ window = {}
  /\ checks = {}
  /\ ready = {}
  /\ lost = {}
  /\ starts = 0

----------------------------------------------------------------------------
(* The disk.                                                               *)

\* A watcher that hears of a change has the file in its window; a polling one
\* finds it with its next round.  Without a watcher nobody hears: files are
\* left to the initial scan.
Event(f) ==
  /\ window' = IF mode = "poll" \/ (mode = "native" /\ ~deaf)
               THEN window \cup {f} ELSE window
  /\ lost' = IF mode = "none" THEN lost \cup {f} ELSE lost \ {f}

rest == UNCHANGED <<folderVars, watchVars, checks>>

\* A program creates a file.
Create(f) ==
  /\ f \notin there
  /\ there' = there \cup {f}
  /\ writes' = [writes EXCEPT ![f] = 0]
  /\ writing' = writing \cup {f}
  /\ locked' \in {locked, locked \cup {f}}
  /\ Event(f)
  /\ ready' = ready \ {f}
  /\ rest

\* It writes some more.
Write(f) ==
  /\ f \in writing
  /\ writes[f] < MaxWrites
  /\ writes' = [writes EXCEPT ![f] = @ + 1]
  /\ Event(f)
  /\ ready' = ready \ {f}
  /\ rest
  /\ UNCHANGED <<there, writing, locked>>

\* It is done, and closes the file, which is no event.
Close(f) ==
  /\ f \in writing
  /\ writes[f] > 0
  /\ writing' = writing \ {f}
  /\ locked' = locked \ {f}
  /\ rest
  /\ UNCHANGED <<there, writes, window, lost, ready>>

\* A file is deleted or moved away.
Remove(f) ==
  /\ f \in there \ writing
  /\ there' = there \ {f}
  /\ rest
  /\ UNCHANGED <<writes, writing, locked, window, lost, ready>>

\* A directory with a complete file in it is moved into the folder: the event
\* is the directory's, which is no file.
MoveDirectoryIn(f) ==
  /\ f \notin there
  /\ there' = there \cup {f}
  /\ writes' = [writes EXCEPT ![f] = MaxWrites]
  /\ lost' = IF mode = "poll" THEN lost \ {f} ELSE lost \cup {f}
  /\ window' = IF mode = "poll" THEN window \cup {f} ELSE window
  /\ ready' = ready \ {f}
  /\ UNCHANGED <<folderVars, writing, locked, watchVars, checks>>

----------------------------------------------------------------------------
(* Start and stop.                                                         *)

\* FolderWatcher::start registers the folder and is done.
start_folder ==
  /\ ~network /\ mode = "none"
  /\ starts < MaxStarts /\ starts' = starts + 1
  /\ mode' = "native"
  /\ UNCHANGED <<folderVars, diskVars, starting, window, checks, ready, lost>>

\* NetworkWatcher::start: run_health_check writes the probe file and waits;
\* a folder it cannot write to is polled.
run_health_check ==
  /\ network /\ mode = "none" /\ ~starting
  /\ starts < MaxStarts /\ starts' = starts + 1
  /\ \/ starting' = TRUE /\ UNCHANGED mode
     \/ mode' = "poll" /\ UNCHANGED starting
  /\ UNCHANGED <<folderVars, diskVars, window, checks, ready, lost>>

\* Mutant: native whether or not the event came.
ChooseNative ==
  /\ starting
  /\ mode' = "native"
  /\ starting' = FALSE
  /\ UNCHANGED <<folderVars, diskVars, starts, window, checks, ready, lost>>

\* The event came within HEALTH_CHECK_TIMEOUT, or it did not.
ChooseMode ==
  /\ starting
  /\ \/ ~deaf /\ mode' = "native"
     \/ mode' = "poll"
  /\ starting' = FALSE
  /\ UNCHANGED <<folderVars, diskVars, starts, window, checks, ready, lost>>

\* stop() drops the debouncer and its window; checks that run go on.
stop ==
  /\ mode # "none"
  /\ mode' = "none"
  /\ lost' = lost \cup window
  /\ window' = {}
  /\ UNCHANGED <<folderVars, diskVars, starting, starts, checks, ready>>

----------------------------------------------------------------------------
(* The handler and the check.                                              *)

\* should_include: the name, and a size and an attribute as they are now.
should_include(f) == f \in Media /\ writes[f] > 0

\* DEBOUNCE_WINDOW is over: the handler drops what is not a file or is
\* filtered out, and spawns a check for the rest.
Flush(f) ==
  /\ f \in window
  /\ window' = window \ {f}
  /\ Cardinality(checks) < MaxChecks
  /\ IF f \in there /\ should_include(f)
     THEN /\ checks' = checks \cup {[file |-> f, at |-> "head", size |-> 0, tries |-> 0]}
          /\ UNCHANGED lost
     ELSE lost' = lost \cup {f} /\ UNCHANGED checks
  /\ UNCHANGED <<folderVars, diskVars, watchVars, ready>>

Becomes(c, d) == checks' = (checks \ {c}) \cup {d}
Over(c)       == checks' = checks \ {c}
Again(c)      == Becomes(c, [c EXCEPT !.at = "head", !.size = 0, !.tries = @ + 1])

checkOnly == UNCHANGED <<folderVars, diskVars, watchVars, window>>

\* The head of the loop: MAX_WRITE_WAIT, once a round has failed, or the
\* first sample, after which a file that is gone needs no check.
FirstSample(c) ==
  /\ c.at = "head"
  /\ \/ /\ c.tries > 0
        /\ Over(c)
        /\ lost' = lost \cup {c.file}
     \/ /\ c.tries < MaxTries
        /\ IF c.file \in there
           THEN Becomes(c, [c EXCEPT !.at = "first", !.size = writes[c.file]]) /\ UNCHANGED lost
           ELSE Over(c) /\ lost' = lost \cup {c.file}
  /\ checkOnly
  /\ UNCHANGED ready

\* STABILITY_POLL_INTERVAL later, the second sample.
SecondSample(c) ==
  /\ c.at = "first"
  /\ IF c.file \notin there THEN Over(c) /\ lost' = lost \cup {c.file}
     ELSE IF writes[c.file] # c.size THEN Again(c) /\ UNCHANGED lost
     ELSE Becomes(c, [c EXCEPT !.at = "second"]) /\ UNCHANGED lost
  /\ checkOnly
  /\ UNCHANGED ready

\* Mutant: a file that cannot be opened is left to its next event.
OpenOrDrop(c) ==
  /\ c.at = "second"
  /\ Over(c)
  /\ ready' = IF c.file \in there \ locked
              THEN ready \cup {c.file} ELSE ready
  /\ checkOnly
  /\ UNCHANGED lost

\* The open: ready, or another round.
Open(c) ==
  /\ c.at = "second"
  /\ IF c.file \in there \ locked
     THEN Over(c) /\ ready' = ready \cup {c.file}
     ELSE Again(c) /\ UNCHANGED ready
  /\ checkOnly
  /\ UNCHANGED lost

CheckStep(f) ==
  \E c \in {x \in checks : x.file = f} : FirstSample(c) \/ SecondSample(c) \/ Open(c)

DiskStep(f) == Create(f) \/ Write(f) \/ Close(f) \/ Remove(f) \/ MoveDirectoryIn(f)

Next ==
  \/ \E f \in File : DiskStep(f) \/ Flush(f) \/ CheckStep(f)
  \/ start_folder \/ run_health_check \/ ChooseMode \/ stop

Spec == Init /\ [][Next]_vars

----------------------------------------------------------------------------
(* Properties.                                                             *)

\* No finished photo slips through a running watcher: it was reported as it
\* is now, however often it was reported before it was finished, or its last
\* change is in the window or under a check - unless that change came with no
\* watcher there, with its directory, or was given up after MAX_WRITE_WAIT.
NothingSlips ==
  mode # "none" =>
    \A f \in there \ (writing \cup lost) :
      should_include(f) =>
        \/ f \in ready
        \/ f \in window
        \/ \E c \in checks : c.file = f
=============================================================================
