------------------------------- MODULE Updater -------------------------------
(***************************************************************************)
(* The self-updater (src/src/updater.rs, src/src/ui/update.rs,             *)
(* src/src/platform/macos/bundle_update.rs) with the processes that drive  *)
(* it: the tray instance, whose background download applies on its own,    *)
(* the update dialog, a process of its own, and on Windows the dialog a    *)
(* launch shows before it takes the single-instance lock                   *)
(* (src/src/main.rs, src/src/app.rs).                                      *)
(*                                                                         *)
(* Nothing excludes these appliers from one another: they share one        *)
(* download file, one staging directory and one parked image.              *)
(* A version is a number; an image on disk is a version, NoImage or Bad,   *)
(* a file or bundle that is incomplete or damaged.                         *)
(***************************************************************************)
EXTENDS Integers

CONSTANTS
  Proc,        \* launches of the program
  MaxRelease,  \* bound: releases published
  MaxFaults,   \* bound: failed requests and file operations
  MaxLaunches  \* bound: times the program is started

ASSUME UpdaterAssumption ==
  /\ MaxRelease \in Nat /\ MaxFaults \in Nat /\ MaxLaunches \in Nat
  /\ Proc \cap {"background", "dialog"} = {}

VARIABLES
  macOS,     \* the macOS build, else the Windows one
  digests,   \* the releases carry their asset's digest
  published, \* the newest release
  app,       \* the image at the program's path
  parked,    \* the image put aside: .exe.old, .ImmichSync.app.old
  staged,    \* the bundle unpacked beside the program (macOS)
  download,  \* the downloaded asset
  noted,     \* version.txt (Windows)
  proc,      \* each launch: where it is, and the version it runs
  tray,      \* what the tray instance knows
  job,       \* the appliers
  faults, launches,
  spoilt     \* ghost: appliers overlapped, or one died or failed twice in a swap

disk == <<app, parked, staged, download, noted>>
build == <<macOS, digests>>
counts == <<faults, launches>>
updaterVars == <<build, published, disk, proc, tray, job, counts, spoilt>>

NoImage == -1
Bad     == -2
Version == 0..MaxRelease
Image   == Version \cup {NoImage, Bad}

\* The background download, the tray's dialog, and a launch's own dialog.
Applier == {"background", "dialog"} \cup Proc

\* A dialog is "open" until the user clicks Update Now.
JobAt == {"none", "open", "start", "download", "downloaded", "verified", "parked",
          "done", "failed"}

Off      == [at |-> "off", run |-> 0]
NoJob    == [at |-> "none", ver |-> 0, run |-> 0, owned |-> FALSE]
NewTray  == [ready |-> FALSE, previous |-> FALSE, menu |-> FALSE, pending |-> 0,
             asked |-> FALSE]

UpdaterTypeOK ==
  /\ macOS \in BOOLEAN /\ digests \in BOOLEAN
  /\ published \in Version
  /\ {app, parked, staged, download} \subseteq Image
  /\ noted \in Version
  /\ proc \in [Proc -> [at : {"off", "check", "lock", "tray"}, run : Version]]
  /\ tray \in [ready : BOOLEAN, previous : BOOLEAN, menu : BOOLEAN, pending : Version,
               asked : BOOLEAN]
  /\ job \in [Applier -> [at : JobAt, ver : Version, run : Version, owned : BOOLEAN]]
  /\ faults \in 0..MaxFaults /\ launches \in 0..MaxLaunches
  /\ spoilt \in BOOLEAN

-----------------------------------------------------------------------------
IsTray(p) == proc[p].at = "tray"

\* At work on the shared files.
Busy(a) == job[a].at \in {"download", "downloaded", "verified", "parked"}

\* Between the two renames: the program's path is empty.
Swapping == \E a \in Applier : job[a].at = "parked"

\* Windows locks the image of every running process.
InUse(image) ==
  ~macOS /\ \/ \E p \in Proc : proc[p].at # "off" /\ proc[p].run = image
            \/ \E a \in Applier \ {"background"} : job[a].at # "none" /\ job[a].run = image

Fault == faults < MaxFaults /\ faults' = faults + 1

UpdaterInit ==
  /\ macOS \in BOOLEAN /\ digests \in BOOLEAN
  /\ published = 0
  /\ app = 0 /\ parked = NoImage /\ staged = NoImage /\ download = NoImage /\ noted = 0
  /\ proc = [p \in Proc |-> Off]
  /\ tray = NewTray
  /\ job = [a \in Applier |-> NoJob]
  /\ faults = 0 /\ launches = 0
  /\ spoilt = FALSE

Publish ==
  /\ published < MaxRelease
  /\ published' = published + 1
  /\ UNCHANGED <<build, disk, proc, tray, job, counts, spoilt>>

-----------------------------------------------------------------------------
(* Launches.                                                               *)

\* cleanup_old_exe and cleanup_old_bundle run before the single-instance
\* check, so a second launch cleans up beside a running tray.
Launch(p) ==
  /\ proc[p].at = "off" /\ app \in Version
  /\ launches < MaxLaunches /\ launches' = launches + 1
  /\ proc' = [proc EXCEPT ![p] = [at |-> IF macOS THEN "lock" ELSE "check", run |-> app]]
  /\ parked' = IF InUse(parked) THEN parked ELSE NoImage
  /\ staged' = IF macOS THEN NoImage ELSE staged
  /\ UNCHANGED <<build, published, app, download, noted, tray, job, faults, spoilt>>

\* check_for_update_on_startup: nothing newer, checks off or failed, or the
\* dialog, which this launch waits for.
check_for_update_on_startup(p) ==
  /\ proc[p].at = "check" /\ job[p].at = "none"
  /\ \/ /\ proc' = [proc EXCEPT ![p].at = "lock"]
        /\ UNCHANGED job
     \/ /\ published > proc[p].run /\ app \in Version
        /\ job' = [job EXCEPT ![p] = [at |-> "open", ver |-> published, run |-> app,
                                      owned |-> TRUE]]
        /\ UNCHANGED proc
  /\ UNCHANGED <<build, published, disk, tray, counts, spoilt>>

\* version_on_disk: version.txt, or the Info.plist of the bundle.
version_on_disk == IF macOS THEN app ELSE noted

\* Everything a process does in the background dies with it; a dialog of the
\* tray lives on with nobody to tell.  Relaunching is a Launch.
Ends(p) ==
  /\ proc' = [proc EXCEPT ![p] = Off]
  /\ IF IsTray(p)
       THEN /\ job' = [job EXCEPT !["background"] = NoJob, !["dialog"].owned = FALSE]
            /\ spoilt' = (spoilt \/ job["background"].at = "parked")
            /\ tray' = NewTray
       ELSE UNCHANGED <<job, spoilt, tray>>

\* SingleInstance::acquire, then App::new and init.
acquire(p) ==
  /\ proc[p].at = "lock"
  /\ IF \E q \in Proc : IsTray(q)
       THEN Ends(p)
       ELSE LET pending_restart == version_on_disk > proc[p].run
            IN  /\ proc' = [proc EXCEPT ![p].at = "tray"]
                /\ tray' = [NewTray EXCEPT !.ready = pending_restart,
                                           !.previous = pending_restart,
                                           !.asked = ~pending_restart]
                /\ UNCHANGED <<job, spoilt>>
  /\ UNCHANGED <<build, published, disk, counts>>

\* Quit, a crash, and RestartToUpdate once an update waits.
Exit(p) ==
  /\ IsTray(p)
  /\ Ends(p)
  /\ UNCHANGED <<build, published, disk, counts>>

-----------------------------------------------------------------------------
(* The tray instance: app.rs.                                              *)

\* Check for Updates, or the interval; skipped while an update waits for its
\* restart and while a check or a download is under way.
schedule_update_check ==
  /\ \E p \in Proc : IsTray(p)
  /\ ~tray.ready /\ ~tray.asked /\ job["background"].at = "none"
  /\ tray' = [tray EXCEPT !.asked = TRUE]
  /\ UNCHANGED <<build, published, disk, proc, job, counts, spoilt>>

\* The answer arrives.  An update starts the background download, whatever
\* the dialog has reported meanwhile.
poll_update_check ==
  \E p \in Proc :
    /\ IsTray(p) /\ tray.asked
    /\ \/ /\ Fault
          /\ tray' = [tray EXCEPT !.asked = FALSE]
          /\ UNCHANGED job
       \/ /\ published <= proc[p].run
          /\ tray' = [tray EXCEPT !.asked = FALSE]
          /\ UNCHANGED <<job, faults>>
       \/ /\ published > proc[p].run
          /\ tray' = [tray EXCEPT !.asked = FALSE, !.pending = published]
          /\ job' = [job EXCEPT !["background"] = [NoJob EXCEPT !.at = "start",
                                                                !.ver = published]]
          /\ UNCHANGED faults
    /\ UNCHANGED <<build, published, disk, proc, launches, spoilt>>

\* Mutant: a failed download stays in flight.
poll_download_keeping_it ==
  /\ \/ /\ job["background"].at = "done"
        /\ tray' = [tray EXCEPT !.ready = TRUE, !.previous = TRUE, !.menu = FALSE]
        /\ job' = [job EXCEPT !["background"] = NoJob]
     \/ /\ job["background"].at = "failed" /\ ~tray.menu
        /\ tray' = [tray EXCEPT !.menu = TRUE]
        /\ UNCHANGED job
  /\ UNCHANGED <<build, published, disk, proc, counts, spoilt>>

poll_update_download ==
  /\ \/ /\ job["background"].at = "done"
        /\ tray' = [tray EXCEPT !.ready = TRUE, !.previous = TRUE, !.menu = FALSE]
     \/ /\ job["background"].at = "failed"
        /\ tray' = [tray EXCEPT !.menu = TRUE]
  /\ job' = [job EXCEPT !["background"] = NoJob]
  /\ UNCHANGED <<build, published, disk, proc, counts, spoilt>>

\* One dialog of the tray at a time; it shows the pending update as it is
\* now, and the background keeps checking behind it.
open_update_dialog ==
  /\ \E p \in Proc : IsTray(p)
  /\ tray.menu /\ tray.pending # 0 /\ app \in Version
  /\ job["dialog"].at = "none"
  /\ job' = [job EXCEPT !["dialog"] = [at |-> "open", ver |-> tray.pending, run |-> app,
                                       owned |-> TRUE]]
  /\ UNCHANGED <<build, published, disk, proc, tray, counts, spoilt>>

-----------------------------------------------------------------------------
(* The dialogs: ui/update.rs.                                              *)

Update(a) ==
  /\ a # "background" /\ job[a].at = "open"
  /\ job' = [job EXCEPT ![a].at = "start"]
  /\ UNCHANGED <<build, published, disk, proc, tray, counts, spoilt>>

\* Later, or the window closed, after the update was applied.
Later(a) ==
  /\ a # "background" /\ job[a].at = "done"
  /\ IF a = "dialog" /\ job[a].owned
       THEN tray' = [tray EXCEPT !.ready = TRUE, !.previous = TRUE, !.menu = FALSE]
       ELSE UNCHANGED tray
  /\ proc' = IF a \in Proc THEN [proc EXCEPT ![a].at = "lock"] ELSE proc
  /\ job' = [job EXCEPT ![a] = NoJob]
  /\ UNCHANGED <<build, published, disk, counts, spoilt>>

\* Restart Now: the tray shuts down and relaunches; a launch just does.
RestartNow(a) ==
  /\ a # "background" /\ job[a].at = "done"
  /\ proc' = [p \in Proc |->
                IF p = a \/ (a = "dialog" /\ job[a].owned /\ IsTray(p)) THEN Off ELSE proc[p]]
  /\ IF a = "dialog" /\ job[a].owned
       THEN /\ job' = [job EXCEPT ![a] = NoJob, !["background"] = NoJob]
            /\ spoilt' = (spoilt \/ job["background"].at = "parked")
            /\ tray' = NewTray
       ELSE /\ job' = [job EXCEPT ![a] = NoJob]
            /\ UNCHANGED <<spoilt, tray>>
  /\ UNCHANGED <<build, published, disk, counts>>

\* Skip, Close, the window closed at any moment, or the process killed.
CloseDialog(a) ==
  /\ a # "background" /\ job[a].at # "none"
  /\ job' = [job EXCEPT ![a] = NoJob]
  /\ proc' = IF a \in Proc THEN [proc EXCEPT ![a].at = "lock"] ELSE proc
  /\ spoilt' = (spoilt \/ job[a].at = "parked")
  /\ UNCHANGED <<build, published, disk, tray, counts>>

-----------------------------------------------------------------------------
(* An applier: download_update_blocking and apply_update.                  *)

At(a, at) == job' = [job EXCEPT ![a].at = at]

\* apply_update on macOS always removes the zip, and a failed apply_zip its
\* staging directory.
GiveUp(a) == At(a, "failed")
LeaveNothing == download' = NoImage /\ staged' = NoImage

\* download_dest (with the macOS preflight) and the file, created or emptied.
Begin(a) ==
  /\ job[a].at = "start"
  /\ \/ /\ Fault /\ GiveUp(a) /\ UNCHANGED <<download, spoilt>>
     \/ /\ At(a, "download") /\ download' = Bad /\ UNCHANGED faults
        /\ spoilt' = (spoilt \/ \E b \in Applier \ {a} : Busy(b))
  /\ UNCHANGED <<build, published, app, parked, staged, noted, proc, tray, launches>>

\* The bytes arrive, perhaps damaged; check_digest compares what arrived, if
\* the release says what that should be, and deletes a file that differs.
check_digest(good) == good \/ ~digests

Download(a) ==
  /\ job[a].at = "download"
  /\ \E good \in BOOLEAN :
       /\ IF good THEN UNCHANGED faults ELSE Fault
       /\ \/ /\ check_digest(good)
             /\ At(a, "downloaded")
             /\ download' = IF good THEN job[a].ver ELSE Bad
          \/ /\ ~check_digest(good)
             /\ GiveUp(a)
             /\ download' = NoImage
          \/ /\ ~good \* the request fails half-way
             /\ GiveUp(a)
             /\ UNCHANGED download
  /\ UNCHANGED <<build, published, app, parked, staged, noted, proc, tray, launches,
                 spoilt>>

\* apply_zip up to the swap: a fresh staging directory, codesign and bundle id.
\* Mutant: the bundle is taken as it was unpacked.
unpack_unverified(a) ==
  /\ macOS /\ job[a].at = "downloaded"
  /\ staged' = download /\ At(a, "verified")
  /\ UNCHANGED <<build, published, app, parked, download, noted, proc, tray, counts, spoilt>>

unpack(a) ==
  /\ macOS /\ job[a].at = "downloaded"
  /\ \/ /\ download \in Version /\ staged' = download
        /\ At(a, "verified")
        /\ UNCHANGED <<download, faults>>
     \/ /\ download \notin Version
        /\ GiveUp(a) /\ LeaveNothing /\ UNCHANGED faults
     \/ /\ Fault
        /\ GiveUp(a) /\ LeaveNothing
  /\ UNCHANGED <<build, published, app, parked, noted, proc, tray, launches, spoilt>>

\* The first half of swap: what is parked is removed, the program parked.
park(a) ==
  /\ macOS /\ job[a].at = "verified"
  /\ \/ /\ app # NoImage
        /\ parked' = app /\ app' = NoImage
        /\ At(a, "parked")
        /\ UNCHANGED <<download, staged, faults>>
     \/ /\ \/ Fault
           \/ app = NoImage /\ UNCHANGED faults
        /\ parked' = NoImage
        /\ GiveUp(a) /\ LeaveNothing /\ UNCHANGED app
  /\ UNCHANGED <<build, published, noted, proc, tray, launches, spoilt>>

\* The second half: the new bundle in, or the old one back.
\* Mutant: the old bundle is not put back.
move_in_or_give_up(a) ==
  /\ macOS /\ job[a].at = "parked"
  /\ \/ /\ staged # NoImage /\ app = NoImage
        /\ app' = staged
        /\ At(a, "done")
        /\ UNCHANGED faults
     \/ /\ \/ Fault
           \/ (staged = NoImage \/ app # NoImage) /\ UNCHANGED faults
        /\ GiveUp(a) /\ UNCHANGED app
  /\ LeaveNothing
  /\ UNCHANGED <<build, published, parked, noted, proc, tray, launches, spoilt>>

move_in(a) ==
  /\ macOS /\ job[a].at = "parked"
  /\ \/ /\ staged # NoImage /\ app = NoImage
        /\ app' = staged
        /\ At(a, "done")
        /\ UNCHANGED <<parked, faults, spoilt>>
     \/ /\ \/ Fault
           \/ (staged = NoImage \/ app # NoImage) /\ UNCHANGED faults
        /\ GiveUp(a)
        /\ \/ /\ parked # NoImage /\ app = NoImage
              /\ app' = parked /\ parked' = NoImage
              /\ UNCHANGED spoilt
           \/ /\ spoilt' = TRUE
              /\ UNCHANGED <<app, parked>>
  /\ LeaveNothing
  /\ UNCHANGED <<build, published, noted, proc, tray, launches>>

\* The same in Windows: a parked image in use can be neither removed nor
\* replaced, and nothing puts the program back.
park_exe(a) ==
  /\ ~macOS /\ job[a].at = "downloaded"
  /\ \/ /\ app # NoImage /\ (parked = NoImage \/ ~InUse(parked))
        /\ parked' = app /\ app' = NoImage
        /\ At(a, "parked")
        /\ UNCHANGED faults
     \/ /\ \/ Fault
           \/ (app = NoImage \/ InUse(parked)) /\ UNCHANGED faults
        /\ parked' = IF InUse(parked) THEN parked ELSE NoImage
        /\ GiveUp(a) /\ UNCHANGED app
  /\ UNCHANGED <<build, published, staged, download, noted, proc, tray, launches,
                 spoilt>>

move_in_exe(a) ==
  /\ ~macOS /\ job[a].at = "parked"
  /\ \/ /\ download # NoImage
        /\ app' = download /\ download' = NoImage
        /\ noted' = job[a].ver
        /\ At(a, "done")
        /\ UNCHANGED <<faults, spoilt>>
     \/ /\ \/ Fault
           \/ download = NoImage /\ UNCHANGED faults
        /\ GiveUp(a) /\ UNCHANGED <<app, download, noted, spoilt>>
  /\ UNCHANGED <<build, published, parked, staged, proc, tray, launches>>

apply(a) == unpack(a) \/ park(a) \/ move_in(a) \/ park_exe(a) \/ move_in_exe(a)

-----------------------------------------------------------------------------
UpdaterNext ==
  \/ Publish
  \/ schedule_update_check \/ poll_update_check \/ poll_update_download
  \/ open_update_dialog
  \/ \E p \in Proc : Launch(p) \/ check_for_update_on_startup(p) \/ acquire(p) \/ Exit(p)
  \/ \E a \in Applier : Update(a) \/ Later(a) \/ RestartNow(a) \/ CloseDialog(a) \/ Begin(a)
                        \/ Download(a) \/ apply(a)

UpdaterSpec == UpdaterInit /\ [][UpdaterNext]_updaterVars

\* The interval comes round, and the main loop and the threads keep running;
\* what the user does, and whether a dialog is ever closed, is not promised.
Fairness ==
  /\ WF_updaterVars(schedule_update_check)
  /\ WF_updaterVars(poll_update_check)
  /\ WF_updaterVars(poll_update_download)
  /\ WF_updaterVars(Begin("background"))
  /\ WF_updaterVars(Download("background"))
  /\ WF_updaterVars(apply("background"))

FairSpec == UpdaterSpec /\ Fairness

-----------------------------------------------------------------------------
(* Properties.                                                             *)

\* swap, "so a failure never leaves the user without an app" (macOS): with
\* one applier at a time, none dying between its renames and no second
\* failure on the way back, there is a program to launch whenever nobody is
\* between the two renames.
NeverWithoutApp == macOS /\ ~spoilt /\ ~Swapping => app # NoImage

\* check_digest, and codesign on macOS, before anything is replaced: what is
\* put in the program's place is a whole release wherever one of the two can
\* tell, as long as two appliers don't share the download.
WholeRelease == (macOS \/ digests) /\ ~spoilt => app # Bad

\* A failed check, download or swap is tried again: a tray that keeps running
\* (macOS), once no dialog interferes, comes to offer the restart for a newer
\* release, unless the program's path was left empty.
UpdateArrives ==
  LET Quiet == \A a \in Applier \ {"background"} : job[a].at = "none"
  IN  macOS /\ <>[]Quiet =>
        \A p \in Proc : IsTray(p) /\ published > proc[p].run
                          ~> tray.ready \/ ~IsTray(p) \/ app = NoImage

=============================================================================
