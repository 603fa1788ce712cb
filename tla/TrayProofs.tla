------------------------------ MODULE TrayProofs ------------------------------
(***************************************************************************)
(* Proofs about two things the tray shares with processes it does not      *)
(* wait for: the program's own image (Updater), and the server and its key *)
(* (ServerKey).                                                            *)
(***************************************************************************)
EXTENDS ServerKey, Updater, TLAPS

----------------------------------------------------------------------------
(* Updater.  Whoever overlaps another applier, or dies in a swap, spoils   *)
(* the two promises; so at most one is at work as long as they hold, and   *)
(* the images it leaves at each step are those it put there.               *)

Alone == ~spoilt => \A a, b \in Applier : Busy(a) /\ Busy(b) => a = b

\* A launch's own dialog keeps it from going on, so it is not the tray's.
OwnDialog == \A p \in Proc : job[p].at # "none" => proc[p].at = "check"

\* There is no background download without a tray, nor while it asks.
TrayOwns ==
  /\ (\E p \in Proc : IsTray(p)) \/ (~tray.asked /\ job["background"].at = "none")
  /\ tray.asked => job["background"].at = "none"

\* In the swap there is a way back, and before and after it a program.
Somewhere ==
  macOS /\ ~spoilt =>
    IF Swapping THEN app = NoImage /\ parked # NoImage ELSE app # NoImage

\* Nothing that is put at the program's path is damaged.
Whole ==
  /\ macOS => staged # Bad
  /\ (macOS \/ digests) /\ ~spoilt =>
       /\ app # Bad /\ parked # Bad
       /\ ~macOS => \A a \in Applier : job[a].at \in {"downloaded", "parked"} => download # Bad

UpdaterInv == UpdaterTypeOK /\ Alone /\ OwnDialog /\ TrayOwns /\ Somewhere /\ Whole

AnyJob == [at : JobAt, ver : Version, run : Version, owned : BOOLEAN]

\* A job is as it was, but for its step.
LEMMA JobAtFields ==
  ASSUME job \in [Applier -> AnyJob], NEW a \in Applier, NEW s \in JobAt, At(a, s)
  PROVE  /\ job' \in [Applier -> AnyJob]
         /\ job'[a].at = s
         /\ \A b \in Applier \ {a} : job'[b] = job[b]
<1> DEFINE j == [job[a] EXCEPT !.at = s]
<1>1. j \in AnyJob /\ j.at = s
  BY DEF AnyJob
<1>2. job' = [job EXCEPT ![a] = j]
  BY DEF At
<1> HIDE DEF j
<1> QED
  BY <1>1, <1>2

\* A job is replaced.
LEMMA JobFields ==
  ASSUME job \in [Applier -> AnyJob], NEW a \in Applier, NEW j \in AnyJob,
         job' = [job EXCEPT ![a] = j]
  PROVE  /\ job' \in [Applier -> AnyJob]
         /\ job'[a] = j
         /\ \A b \in Applier \ {a} : job'[b] = job[b]
  OBVIOUS

LEMMA NoJobFields == NoJob \in AnyJob /\ NoJob.at = "none"
  BY UpdaterAssumption DEF NoJob, AnyJob, JobAt, Version

LEMMA InitUpdater == UpdaterInit => UpdaterInv
<1> SUFFICES ASSUME UpdaterInit PROVE UpdaterInv
  OBVIOUS
<1> USE DEF UpdaterInit
<1>1. 0 \in Version /\ Version \subseteq Int /\ NoImage \in Image
  BY UpdaterAssumption DEF Version, Image
<1>2. job \in [Applier -> AnyJob] /\ \A a \in Applier : job[a].at = "none"
  BY NoJobFields
<1>3. proc \in [Proc -> [at : {"off", "check", "lock", "tray"}, run : Version]]
  BY <1>1 DEF Off
<1>4. tray \in [ready : BOOLEAN, previous : BOOLEAN, menu : BOOLEAN, pending : Version,
               asked : BOOLEAN] /\ ~tray.asked
  BY <1>1 DEF NewTray
<1>5. UpdaterTypeOK
  <2>1. {app, parked, staged, download} \subseteq Image /\ {published, noted} \subseteq Version
    BY <1>1 DEF Image
  <2>2. faults \in 0..MaxFaults /\ launches \in 0..MaxLaunches
    BY UpdaterAssumption
  <2> QED
    BY <1>2, <1>3, <1>4, <2>1, <2>2 DEF UpdaterTypeOK, AnyJob
<1>6. {"background", "dialog"} \cup Proc = Applier
  BY DEF Applier
<1>7. Alone /\ OwnDialog /\ TrayOwns
  BY <1>2, <1>4, <1>6 DEF Alone, OwnDialog, TrayOwns, Busy
<1>8. ~Swapping /\ app = 0 /\ parked = NoImage /\ staged = NoImage
  BY <1>2 DEF Swapping
<1>9. Somewhere /\ Whole
  BY <1>2, <1>8 DEF Somewhere, Whole, NoImage, Bad
<1> QED
  BY <1>5, <1>7, <1>9 DEF UpdaterInv

\* A step beside the work of the appliers: nobody starts any, who leaves the
\* swap spoils it, and what is cleaned up is not needed.
LEMMA BesideTheWork ==
  ASSUME UpdaterInv, UpdaterTypeOK', UNCHANGED <<build, app, download>>,
         spoilt => spoilt',
         \A a \in Applier : Busy(a)' => job'[a].at = job[a].at,
         \A a \in Applier : job[a].at = "parked" => job'[a].at = "parked" \/ spoilt',
         parked' = parked \/ (parked' = NoImage /\ app # NoImage),
         staged' \in {staged, NoImage},
         OwnDialog', TrayOwns'
  PROVE  UpdaterInv'
<1>1. Alone'
  BY DEF UpdaterInv, Alone, Busy
<1>2. \A a \in Applier : job'[a].at \in {"downloaded", "parked"} => job[a].at = job'[a].at
  BY DEF Busy
<1>3. ~spoilt' => (Swapping' <=> Swapping)
  BY <1>2 DEF Swapping
<1>4. Somewhere'
  BY <1>3 DEF UpdaterInv, Somewhere, build
<1>5. Whole'
  BY <1>2 DEF UpdaterInv, Whole, build, NoImage, Bad
<1> QED
  BY <1>1, <1>4, <1>5 DEF UpdaterInv

\* An applier at work disturbs neither its dialog's launch nor the tray.
LEMMA WorkOwns ==
  ASSUME UpdaterInv, NEW a \in Applier, job[a].at # "none", NEW s \in JobAt, At(a, s),
         UNCHANGED <<proc, tray>>
  PROVE  OwnDialog' /\ TrayOwns'
<1>1. job' \in [Applier -> AnyJob] /\ \A b \in Applier \ {a} : job'[b] = job[b]
  BY JobAtFields DEF UpdaterInv, UpdaterTypeOK, AnyJob
<1>2. OwnDialog'
  BY <1>1 DEF UpdaterInv, OwnDialog, Applier
<1>3. "background" \in Applier
  BY DEF Applier
<1>4. TrayOwns'
  <2>1. CASE a = "background"
    BY <2>1 DEF UpdaterInv, TrayOwns, IsTray
  <2>2. CASE a # "background"
    BY <1>1, <1>3, <2>2 DEF UpdaterInv, TrayOwns, IsTray
  <2> QED
    BY <2>1, <2>2
<1> QED
  BY <1>2, <1>4

AnyProc == [at : {"off", "check", "lock", "tray"}, run : Version]
AnyTray == [ready : BOOLEAN, previous : BOOLEAN, menu : BOOLEAN, pending : Version,
            asked : BOOLEAN]

LEMMA UpdaterTypes ==
  ASSUME UpdaterInv
  PROVE  /\ published \in Version /\ noted \in Version
         /\ app \in Image /\ parked \in Image /\ staged \in Image /\ download \in Image
         /\ proc \in [Proc -> AnyProc] /\ tray \in AnyTray /\ job \in [Applier -> AnyJob]
         /\ faults \in Nat /\ launches \in Nat /\ spoilt \in BOOLEAN
         /\ 0 \in Version /\ Version \subseteq Nat /\ Version \subseteq Image
         /\ NoImage \in Image /\ Bad \in Image
         /\ NewTray \in AnyTray /\ ~NewTray.asked /\ Off \in AnyProc /\ Off.at = "off"
<1> USE UpdaterAssumption DEF UpdaterInv, UpdaterTypeOK
<1>1. /\ published \in Version /\ noted \in Version
      /\ app \in Image /\ parked \in Image /\ staged \in Image /\ download \in Image
  OBVIOUS
<1>2. proc \in [Proc -> AnyProc] /\ tray \in AnyTray /\ job \in [Applier -> AnyJob]
  BY DEF AnyProc, AnyTray, AnyJob
<1>3. faults \in Nat /\ launches \in Nat /\ spoilt \in BOOLEAN
  OBVIOUS
<1>4. /\ 0 \in Version /\ Version \subseteq Nat /\ Version \subseteq Image
      /\ NoImage \in Image /\ Bad \in Image
  BY DEF Version, Image
<1>5. NewTray \in AnyTray /\ ~NewTray.asked /\ Off \in AnyProc /\ Off.at = "off"
  BY <1>4 DEF NewTray, AnyTray, Off, AnyProc
<1> QED
  BY <1>1, <1>2, <1>3, <1>4, <1>5

\* The types of a step that leaves the disk, but for what is cleaned up.
LEMMA TypesBeside ==
  ASSUME UpdaterInv, UNCHANGED <<build, app, download, noted>>,
         published' \in Version, parked' \in Image, staged' \in Image,
         proc' \in [Proc -> AnyProc], tray' \in AnyTray, job' \in [Applier -> AnyJob],
         faults' \in 0..MaxFaults, launches' \in 0..MaxLaunches, spoilt' \in BOOLEAN
  PROVE  UpdaterTypeOK'
  BY DEF UpdaterInv, UpdaterTypeOK, build, AnyProc, AnyTray, AnyJob

\* Nobody's step but that of applier a changes, from one beside the work to
\* another.
LEMMA OneJobBeside ==
  ASSUME UpdaterInv, NEW a \in Applier, NEW j \in AnyJob, job' = [job EXCEPT ![a] = j],
         j.at \notin {"download", "downloaded", "verified", "parked"},
         job[a].at = "parked" => spoilt'
  PROVE  /\ job' \in [Applier -> AnyJob]
         /\ \A b \in Applier : Busy(b)' => job'[b].at = job[b].at
         /\ \A b \in Applier : job[b].at = "parked" => job'[b].at = "parked" \/ spoilt'
<1>1. /\ job' \in [Applier -> AnyJob] /\ job'[a] = j
      /\ \A b \in Applier \ {a} : job'[b] = job[b]
  BY JobFields, UpdaterTypes
<1> QED
  BY <1>1 DEF Busy

LEMMA PublishKeeps == UpdaterInv /\ Publish => UpdaterInv'
<1> SUFFICES ASSUME UpdaterInv, Publish PROVE UpdaterInv'
  OBVIOUS
<1> USE UpdaterTypes DEF Publish, disk, counts
<1>1. published' \in Version
  BY UpdaterAssumption DEF Version
<1>2. UpdaterTypeOK'
  BY <1>1, TypesBeside DEF UpdaterInv, UpdaterTypeOK
<1>3. OwnDialog' /\ TrayOwns'
  BY DEF UpdaterInv, OwnDialog, TrayOwns, IsTray
<1> QED
  BY <1>2, <1>3, BesideTheWork

LEMMA AskKeeps == UpdaterInv /\ schedule_update_check => UpdaterInv'
<1> SUFFICES ASSUME UpdaterInv, schedule_update_check PROVE UpdaterInv'
  OBVIOUS
<1> USE UpdaterTypes DEF schedule_update_check, disk, counts
<1>1. tray' \in AnyTray
  BY DEF AnyTray
<1>2. UpdaterTypeOK'
  BY <1>1, TypesBeside DEF UpdaterInv, UpdaterTypeOK
<1>3. OwnDialog' /\ TrayOwns'
  BY DEF UpdaterInv, OwnDialog, TrayOwns, IsTray
<1> QED
  BY <1>2, <1>3, BesideTheWork

\* The tray's own download starts from nothing.
LEMMA AnswerKeeps == UpdaterInv /\ poll_update_check => UpdaterInv'
<1> SUFFICES ASSUME UpdaterInv, NEW p \in Proc, IsTray(p), tray.asked,
               \/ tray' = [tray EXCEPT !.asked = FALSE] /\ UNCHANGED job
               \/ /\ tray' = [tray EXCEPT !.asked = FALSE, !.pending = published]
                  /\ job' = [job EXCEPT !["background"] = [NoJob EXCEPT !.at = "start",
                                                                        !.ver = published]],
               faults' \in 0..MaxFaults,
               UNCHANGED <<build, published, disk, proc, launches, spoilt>>
      PROVE  UpdaterInv'
  BY UpdaterAssumption DEF poll_update_check, Fault, UpdaterInv, UpdaterTypeOK
<1> USE UpdaterTypes DEF disk
<1>1. tray' \in AnyTray /\ ~tray'.asked
  BY DEF AnyTray
<1>2. job["background"].at = "none" /\ "background" \in Applier /\ "background" \notin Proc
  BY UpdaterAssumption DEF UpdaterInv, TrayOwns, Applier
<1>3. /\ job' \in [Applier -> AnyJob]
      /\ \A b \in Applier : Busy(b)' => job'[b].at = job[b].at
      /\ \A b \in Applier : job[b].at = "parked" => job'[b].at = "parked"
      /\ \A b \in Applier \ {"background"} : job'[b] = job[b]
  <2>1. CASE UNCHANGED job
    BY <2>1 DEF Busy
  <2>2. CASE ~UNCHANGED job
    <3> DEFINE j == [NoJob EXCEPT !.at = "start", !.ver = published]
    <3>1. j \in AnyJob /\ j.at = "start"
      BY NoJobFields DEF AnyJob, JobAt
    <3>2. job' = [job EXCEPT !["background"] = j]
      BY <2>2
    <3> HIDE DEF j
    <3> QED
      BY <1>2, <3>1, <3>2, JobFields DEF Busy
  <2> QED
    BY <2>1, <2>2
<1>4. UpdaterTypeOK'
  BY <1>1, <1>3, TypesBeside DEF UpdaterInv, UpdaterTypeOK
<1>5. OwnDialog' /\ TrayOwns'
  BY <1>1, <1>2, <1>3 DEF UpdaterInv, OwnDialog, TrayOwns, IsTray, Applier
<1> QED
  BY <1>3, <1>4, <1>5, BesideTheWork

LEMMA OutcomeKeeps == UpdaterInv /\ poll_update_download => UpdaterInv'
<1> SUFFICES ASSUME UpdaterInv, poll_update_download PROVE UpdaterInv'
  OBVIOUS
<1> USE UpdaterTypes, NoJobFields DEF poll_update_download, disk, counts
<1>1. tray' \in AnyTray /\ tray'.asked = tray.asked
  BY DEF AnyTray
<1>2. job["background"].at # "none" /\ job["background"].at # "parked"
      /\ "background" \in Applier /\ "background" \notin Proc
  BY UpdaterAssumption DEF Applier
<1>3. /\ job' \in [Applier -> AnyJob] /\ job'["background"] = NoJob
      /\ \A b \in Applier \ {"background"} : job'[b] = job[b]
  BY <1>2, JobFields
<1>4. UpdaterTypeOK'
  BY <1>1, <1>3, TypesBeside DEF UpdaterInv, UpdaterTypeOK
<1>5. OwnDialog' /\ TrayOwns'
  BY <1>1, <1>2, <1>3 DEF UpdaterInv, OwnDialog, TrayOwns, IsTray, Applier
<1> QED
  BY <1>2, <1>3, <1>4, <1>5, BesideTheWork, OneJobBeside

LEMMA DialogKeeps == UpdaterInv /\ open_update_dialog => UpdaterInv'
<1> SUFFICES ASSUME UpdaterInv, open_update_dialog PROVE UpdaterInv'
  OBVIOUS
<1> USE UpdaterTypes DEF open_update_dialog, disk, counts
<1> DEFINE j == [at |-> "open", ver |-> tray.pending, run |-> app, owned |-> TRUE]
<1>1. j \in AnyJob /\ j.at = "open"
  BY DEF AnyJob, JobAt, AnyTray
<1>2. job' = [job EXCEPT !["dialog"] = j] /\ job["dialog"].at = "none"
  OBVIOUS
<1> HIDE DEF j
<1>3. "dialog" \in Applier /\ "background" \in Applier /\ "dialog" \notin Proc
  BY UpdaterAssumption DEF Applier
<1>4. /\ job' \in [Applier -> AnyJob]
      /\ \A b \in Applier \ {"dialog"} : job'[b] = job[b]
  BY <1>1, <1>2, <1>3, JobFields
<1>5. UpdaterTypeOK'
  BY <1>4, TypesBeside DEF UpdaterInv, UpdaterTypeOK
<1>6. OwnDialog' /\ TrayOwns'
  BY <1>3, <1>4 DEF UpdaterInv, OwnDialog, TrayOwns, IsTray, Applier
<1> QED
  BY <1>1, <1>2, <1>3, <1>5, <1>6, BesideTheWork, OneJobBeside

\* A launch cleans up beside a running tray, but not in a swap: then there is
\* no program to launch.
LEMMA LaunchKeeps == ASSUME UpdaterInv, NEW p \in Proc, Launch(p) PROVE UpdaterInv'
<1> USE UpdaterTypes DEF Launch
<1> DEFINE l == [at |-> IF macOS THEN "lock" ELSE "check", run |-> app]
<1>1. l \in AnyProc /\ proc' = [proc EXCEPT ![p] = l] /\ proc[p].at = "off"
  BY DEF AnyProc
<1> HIDE DEF l
<1>2. proc' \in [Proc -> AnyProc] /\ \A q \in Proc \ {p} : proc'[q] = proc[q]
  BY <1>1
<1>3. launches' \in 0..MaxLaunches /\ app # NoImage
  BY UpdaterAssumption DEF NoImage
<1>4. UpdaterTypeOK'
  BY <1>2, <1>3, TypesBeside DEF UpdaterInv, UpdaterTypeOK
<1>5. OwnDialog' /\ TrayOwns'
  BY <1>1, <1>2 DEF UpdaterInv, OwnDialog, TrayOwns, IsTray
<1> QED
  BY <1>3, <1>4, <1>5, BesideTheWork DEF Busy

LEMMA StartupCheckKeeps ==
  ASSUME UpdaterInv, NEW p \in Proc, check_for_update_on_startup(p) PROVE UpdaterInv'
<1> USE UpdaterTypes DEF check_for_update_on_startup, disk, counts
<1>1. p \in Applier /\ p # "background" /\ "background" \in Applier
  BY UpdaterAssumption DEF Applier
<1>2. CASE proc' = [proc EXCEPT ![p].at = "lock"] /\ UNCHANGED job
  <2> DEFINE l == [proc[p] EXCEPT !.at = "lock"]
  <2>1. l \in AnyProc /\ l.at = "lock" /\ proc' = [proc EXCEPT ![p] = l]
    BY <1>2 DEF AnyProc
  <2> HIDE DEF l
  <2>2. proc' \in [Proc -> AnyProc] /\ proc'[p].at = "lock"
        /\ \A q \in Proc \ {p} : proc'[q] = proc[q]
    BY <2>1
  <2>3. UpdaterTypeOK'
    BY <1>2, <2>2, TypesBeside DEF UpdaterInv, UpdaterTypeOK
  <2>4. OwnDialog' /\ TrayOwns'
    BY <1>2, <2>2 DEF UpdaterInv, OwnDialog, TrayOwns, IsTray
  <2> QED
    BY <1>2, <2>3, <2>4, BesideTheWork DEF Busy
<1>3. CASE /\ app \in Version /\ UNCHANGED proc
           /\ job' = [job EXCEPT ![p] = [at |-> "open", ver |-> published, run |-> app,
                                         owned |-> TRUE]]
  <2> DEFINE j == [at |-> "open", ver |-> published, run |-> app, owned |-> TRUE]
  <2>1. j \in AnyJob /\ j.at = "open" /\ job' = [job EXCEPT ![p] = j]
    BY <1>3 DEF AnyJob, JobAt
  <2> HIDE DEF j
  <2>2. job' \in [Applier -> AnyJob] /\ \A b \in Applier \ {p} : job'[b] = job[b]
    BY <1>1, <2>1, JobFields
  <2>3. UpdaterTypeOK'
    BY <1>3, <2>2, TypesBeside DEF UpdaterInv, UpdaterTypeOK
  <2>4. OwnDialog' /\ TrayOwns'
    BY <1>1, <1>3, <2>2 DEF UpdaterInv, OwnDialog, TrayOwns, IsTray, Applier
  <2>5. job[p].at # "parked"
    OBVIOUS
  <2> QED
    BY <1>1, <1>3, <2>1, <2>3, <2>4, <2>5, BesideTheWork, OneJobBeside
<1> QED
  BY <1>2, <1>3

\* What a process that ends takes with it, and with it a swap of the tray's.
LEMMA EndsKeeps ==
  ASSUME UpdaterInv, NEW p \in Proc, proc[p].at \in {"lock", "tray"}, Ends(p),
         UNCHANGED <<build, published, disk, counts>>
  PROVE  UpdaterInv'
<1> USE UpdaterTypes, NoJobFields DEF disk, counts
<1>1. proc' = [proc EXCEPT ![p] = Off]
  BY DEF Ends
<1>2. proc' \in [Proc -> AnyProc] /\ \A q \in Proc \ {p} : proc'[q] = proc[q]
  BY <1>1
<1>3. job[p].at = "none" /\ {p, "background", "dialog"} \subseteq Applier
      /\ p # "background" /\ p # "dialog"
  BY UpdaterAssumption DEF UpdaterInv, OwnDialog, Applier
<1>4. CASE IsTray(p)
  <2> DEFINE j == [job["dialog"] EXCEPT !.owned = FALSE]
             half == [job EXCEPT !["background"] = NoJob]
  <2>1. j \in AnyJob /\ j.at = job["dialog"].at
    BY <1>3 DEF AnyJob
  <2>2. half \in [Applier -> AnyJob] /\ half["dialog"] = job["dialog"]
    BY <1>3
  <2>3. job' = [half EXCEPT !["dialog"] = [half["dialog"] EXCEPT !.owned = FALSE]]
    BY <1>4, <2>2 DEF Ends
  <2>4. job' = [half EXCEPT !["dialog"] = j]
    BY <2>2, <2>3
  <2>5. half["background"] = NoJob
        /\ \A b \in Applier \ {"background"} : half[b] = job[b]
    BY <1>3
  <2> HIDE DEF half, j
  <2>6. job' \in [Applier -> AnyJob] /\ job'["background"] = NoJob
        /\ \A b \in Applier \ {"background"} : job'[b].at = job[b].at
    BY <1>3, <2>1, <2>2, <2>4, <2>5
  <2>7. tray' = NewTray /\ spoilt' = (spoilt \/ job["background"].at = "parked")
    BY <1>4 DEF Ends
  <2>8. UpdaterTypeOK'
    BY <1>2, <2>6, <2>7, TypesBeside DEF UpdaterInv, UpdaterTypeOK
  <2>9. OwnDialog' /\ TrayOwns'
    BY <1>2, <1>3, <2>6, <2>7, UpdaterAssumption
    DEF UpdaterInv, OwnDialog, TrayOwns, IsTray, Applier
  <2>10. /\ \A b \in Applier : Busy(b)' => job'[b].at = job[b].at
         /\ \A b \in Applier : job[b].at = "parked" => job'[b].at = "parked" \/ spoilt'
    BY <2>6, <2>7 DEF Busy
  <2> QED
    BY <2>7, <2>8, <2>9, <2>10, BesideTheWork
<1>5. CASE ~IsTray(p)
  <2>1. UNCHANGED <<job, spoilt, tray>>
    BY <1>5 DEF Ends
  <2>2. UpdaterTypeOK'
    BY <1>2, <2>1, TypesBeside DEF UpdaterInv, UpdaterTypeOK
  <2>3. OwnDialog' /\ TrayOwns'
    BY <1>2, <1>3, <1>5, <2>1 DEF UpdaterInv, OwnDialog, TrayOwns, IsTray
  <2> QED
    BY <2>1, <2>2, <2>3, BesideTheWork DEF Busy
<1> QED
  BY <1>4, <1>5

LEMMA AcquireKeeps == ASSUME UpdaterInv, NEW p \in Proc, acquire(p) PROVE UpdaterInv'
<1> USE UpdaterTypes
<1>1. proc[p].at = "lock" /\ UNCHANGED <<build, published, disk, counts>>
  BY DEF acquire
<1>2. CASE \E q \in Proc : IsTray(q)
  BY <1>1, <1>2, EndsKeeps DEF acquire
<1>3. CASE ~\E q \in Proc : IsTray(q)
  <2> DEFINE l == [proc[p] EXCEPT !.at = "tray"]
             waits == version_on_disk > proc[p].run
             t == [NewTray EXCEPT !.ready = waits, !.previous = waits, !.asked = ~waits]
  <2>1. l \in AnyProc /\ l.at = "tray" /\ proc' = [proc EXCEPT ![p] = l]
    BY <1>3 DEF acquire, AnyProc
  <2>2. tray' = t /\ UNCHANGED <<job, spoilt>>
    BY <1>3 DEF acquire
  <2> HIDE DEF waits
  <2>3. waits \in BOOLEAN
    BY DEF waits
  <2>4. t \in AnyTray
    BY <2>3 DEF AnyTray
  <2> HIDE DEF l, t
  <2>5. proc' \in [Proc -> AnyProc] /\ proc'[p].at = "tray"
        /\ \A q \in Proc \ {p} : proc'[q] = proc[q]
    BY <2>1
  <2>6. UpdaterTypeOK'
    BY <1>1, <2>2, <2>4, <2>5, TypesBeside DEF UpdaterInv, UpdaterTypeOK, disk, counts
  <2>7. OwnDialog' /\ TrayOwns'
    BY <1>1, <1>3, <2>2, <2>5 DEF UpdaterInv, OwnDialog, TrayOwns, IsTray
  <2> QED
    BY <1>1, <2>2, <2>6, <2>7, BesideTheWork DEF Busy, disk
<1> QED
  BY <1>2, <1>3

LEMMA ExitKeeps == ASSUME UpdaterInv, NEW p \in Proc, Exit(p) PROVE UpdaterInv'
  BY EndsKeeps DEF Exit, IsTray

LEMMA UpdateKeeps == ASSUME UpdaterInv, NEW a \in Applier, Update(a) PROVE UpdaterInv'
<1> USE UpdaterTypes DEF Update, disk, counts
<1>1. At(a, "start") /\ "start" \in JobAt /\ job[a].at = "open"
  BY DEF At, JobAt
<1>2. /\ job' \in [Applier -> AnyJob] /\ job'[a].at = "start"
      /\ \A b \in Applier \ {a} : job'[b] = job[b]
  BY <1>1, JobAtFields
<1>3. UpdaterTypeOK'
  BY <1>2, TypesBeside DEF UpdaterInv, UpdaterTypeOK
<1>4. OwnDialog' /\ TrayOwns'
  BY <1>1, WorkOwns
<1> QED
  BY <1>1, <1>2, <1>3, <1>4, BesideTheWork DEF Busy

\* A dialog that closes, and with it a swap it was in.
LEMMA DialogEnds ==
  ASSUME UpdaterInv, NEW a \in Applier \ {"background"}, job[a].at # "none",
         job' = [job EXCEPT ![a] = NoJob],
         proc' = IF a \in Proc THEN [proc EXCEPT ![a].at = "lock"] ELSE proc,
         tray' \in AnyTray, tray'.asked = tray.asked,
         spoilt' \in BOOLEAN, spoilt \/ job[a].at = "parked" => spoilt',
         UNCHANGED <<build, published, disk, counts>>
  PROVE  UpdaterInv'
<1> USE UpdaterTypes, NoJobFields DEF disk, counts
<1>1. /\ job' \in [Applier -> AnyJob] /\ job'[a] = NoJob
      /\ \A b \in Applier \ {a} : job'[b] = job[b]
  BY JobFields
<1>2. /\ proc' \in [Proc -> AnyProc] /\ \A q \in Proc \ {a} : proc'[q] = proc[q]
      /\ a \in Proc => proc[a].at = "check"
  <2>1. CASE a \in Proc
    <3> DEFINE l == [proc[a] EXCEPT !.at = "lock"]
    <3>1. l \in AnyProc /\ proc' = [proc EXCEPT ![a] = l]
      BY <2>1 DEF AnyProc
    <3> HIDE DEF l
    <3> QED
      BY <2>1, <3>1 DEF UpdaterInv, OwnDialog
  <2>2. CASE a \notin Proc
    BY <2>2
  <2> QED
    BY <2>1, <2>2
<1>3. UpdaterTypeOK'
  BY <1>1, <1>2, TypesBeside DEF UpdaterInv, UpdaterTypeOK
<1>4. "background" \in Applier /\ "background" \notin Proc
  BY UpdaterAssumption DEF Applier
<1>5. ASSUME NEW q \in Proc, IsTray(q) PROVE IsTray(q)'
  BY <1>2, <1>5 DEF IsTray
<1>6. OwnDialog' /\ TrayOwns'
  BY <1>1, <1>2, <1>4, <1>5 DEF UpdaterInv, OwnDialog, TrayOwns, Applier
<1> QED
  BY <1>1, <1>3, <1>6, BesideTheWork, OneJobBeside

LEMMA LaterKeeps == ASSUME UpdaterInv, NEW a \in Applier, Later(a) PROVE UpdaterInv'
<1>1. tray' \in AnyTray /\ tray'.asked = tray.asked
  BY UpdaterTypes DEF Later, AnyTray
<1>2. spoilt' \in BOOLEAN /\ (spoilt \/ job[a].at = "parked" => spoilt')
  BY UpdaterTypes DEF Later
<1> QED
  BY <1>1, <1>2, DialogEnds DEF Later

LEMMA CloseKeeps == ASSUME UpdaterInv, NEW a \in Applier, CloseDialog(a) PROVE UpdaterInv'
<1>1. tray' \in AnyTray /\ tray'.asked = tray.asked
  BY UpdaterTypes DEF CloseDialog
<1>2. spoilt' \in BOOLEAN /\ (spoilt \/ job[a].at = "parked" => spoilt')
  BY UpdaterTypes DEF CloseDialog
<1> QED
  BY <1>1, <1>2, DialogEnds DEF CloseDialog

\* A restart from the dialog ends the tray, with what it does in the background.
LEMMA RestartKeeps == ASSUME UpdaterInv, NEW a \in Applier, RestartNow(a) PROVE UpdaterInv'
<1> USE UpdaterTypes, NoJobFields DEF disk, counts
<1>1. /\ a # "background" /\ job[a].at = "done" /\ UNCHANGED <<build, published, disk, counts>>
      /\ proc' = [p \in Proc |->
                    IF p = a \/ (a = "dialog" /\ job[a].owned /\ IsTray(p)) THEN Off ELSE proc[p]]
  BY DEF RestartNow
<1>2. proc' \in [Proc -> AnyProc]
  BY <1>1
<1>3. "background" \in Applier /\ "background" \notin Proc /\ "dialog" \notin Proc
  BY UpdaterAssumption DEF Applier
<1>4. a \in Proc => proc[a].at = "check"
  BY <1>1 DEF UpdaterInv, OwnDialog
<1>5. CASE a = "dialog" /\ job[a].owned
  <2>1. /\ job' = [job EXCEPT ![a] = NoJob, !["background"] = NoJob]
        /\ spoilt' = (spoilt \/ job["background"].at = "parked") /\ tray' = NewTray
    BY <1>5 DEF RestartNow
  <2>2. /\ job' \in [Applier -> AnyJob] /\ job'[a] = NoJob /\ job'["background"] = NoJob
        /\ \A b \in Applier \ {a, "background"} : job'[b] = job[b]
    BY <1>3, <2>1
  <2>3. UpdaterTypeOK'
    BY <1>1, <1>2, <2>1, <2>2, TypesBeside DEF UpdaterInv, UpdaterTypeOK
  <2>4. OwnDialog' /\ TrayOwns'
    BY <1>1, <1>2, <1>3, <1>5, <2>1, <2>2 DEF UpdaterInv, OwnDialog, TrayOwns, IsTray, Applier
  <2>5. /\ \A b \in Applier : Busy(b)' => job'[b].at = job[b].at
        /\ \A b \in Applier : job[b].at = "parked" => job'[b].at = "parked" \/ spoilt'
    BY <1>1, <2>1, <2>2 DEF Busy
  <2> QED
    BY <1>1, <2>1, <2>3, <2>4, <2>5, BesideTheWork
<1>6. CASE ~(a = "dialog" /\ job[a].owned)
  <2>1. job' = [job EXCEPT ![a] = NoJob] /\ UNCHANGED <<spoilt, tray>>
    BY <1>6 DEF RestartNow
  <2>2. /\ job' \in [Applier -> AnyJob] /\ job'[a] = NoJob
        /\ \A b \in Applier \ {a} : job'[b] = job[b]
    BY <2>1, JobFields
  <2>3. \A q \in Proc \ {a} : proc'[q] = proc[q]
    BY <1>1, <1>6
  <2>4. UpdaterTypeOK'
    BY <1>1, <1>2, <2>1, <2>2, TypesBeside DEF UpdaterInv, UpdaterTypeOK
  <2>5. (\E q \in Proc : IsTray(q)) => (\E q \in Proc : IsTray(q))'
    BY <1>4, <2>3 DEF IsTray
  <2>6. OwnDialog' /\ TrayOwns'
    BY <1>1, <1>3, <2>1, <2>2, <2>3, <2>5 DEF UpdaterInv, OwnDialog, TrayOwns, Applier
  <2> QED
    BY <1>1, <2>1, <2>2, <2>4, <2>6, BesideTheWork, OneJobBeside
<1> QED
  BY <1>5, <1>6

\* What the step of an applier at work has to keep.
LEMMA AtWork ==
  ASSUME UpdaterInv, NEW a \in Applier, job[a].at # "none", NEW s \in JobAt, At(a, s),
         UNCHANGED <<build, published, proc, tray, launches>>,
         app' \in Image, parked' \in Image, staged' \in Image, download' \in Image,
         noted' \in Version, faults' \in 0..MaxFaults, spoilt' \in BOOLEAN,
         spoilt => spoilt',
         ~spoilt' => Busy(a) \/ \A b \in Applier \ {a} : ~Busy(b),
         Somewhere', Whole'
  PROVE  UpdaterInv'
<1>1. /\ job' \in [Applier -> AnyJob] /\ \A b \in Applier \ {a} : job'[b] = job[b]
  BY UpdaterTypes, JobAtFields
<1>2. UpdaterTypeOK'
  BY <1>1 DEF UpdaterInv, UpdaterTypeOK, AnyJob, build
<1>3. ~spoilt' => \A b \in Applier \ {a} : ~Busy(b)
  BY DEF UpdaterInv, Alone
<1>4. Alone'
  BY <1>1, <1>3 DEF Alone, Busy
<1>5. OwnDialog' /\ TrayOwns'
  BY WorkOwns
<1> QED
  BY <1>2, <1>4, <1>5 DEF UpdaterInv

\* At work alone: no one else is between the renames, or has a download.
LEMMA AloneAtWork ==
  ASSUME UpdaterInv, NEW a \in Applier, Busy(a), ~spoilt
  PROVE  \A b \in Applier \ {a} : job[b].at \notin {"download", "downloaded", "verified", "parked"}
  BY DEF UpdaterInv, Alone, Busy

\* A second applier begins, and from then on nothing is promised.
LEMMA BeginKeeps == ASSUME UpdaterInv, NEW a \in Applier, Begin(a) PROVE UpdaterInv'
<1> USE UpdaterTypes DEF Begin
<1>1. job[a].at = "start" /\ ~Busy(a) /\ {"failed", "download"} \subseteq JobAt
  BY DEF Busy, JobAt
<1>2. CASE Fault /\ GiveUp(a) /\ UNCHANGED <<download, spoilt>>
  <2>1. At(a, "failed") /\ faults' \in 0..MaxFaults
    BY <1>2, UpdaterAssumption DEF GiveUp, Fault
  <2>2. /\ job' \in [Applier -> AnyJob] /\ job'[a].at = "failed"
        /\ \A b \in Applier \ {a} : job'[b] = job[b]
    BY <1>1, <2>1, JobAtFields
  <2>3. UpdaterTypeOK'
    BY <1>2, <2>1, <2>2, TypesBeside DEF UpdaterInv, UpdaterTypeOK
  <2>4. OwnDialog' /\ TrayOwns'
    BY <1>1, <2>1, WorkOwns
  <2> QED
    BY <1>1, <1>2, <2>2, <2>3, <2>4, BesideTheWork DEF Busy
<1>3. CASE /\ At(a, "download") /\ download' = Bad /\ UNCHANGED faults
           /\ spoilt' = (spoilt \/ \E b \in Applier \ {a} : Busy(b))
  <2>1. /\ job'[a].at = "download"
        /\ \A b \in Applier \ {a} : job'[b] = job[b]
    BY <1>1, <1>3, JobAtFields
  <2>2. spoilt' \in BOOLEAN /\ (spoilt => spoilt')
        /\ (~spoilt' => \A b \in Applier \ {a} : ~Busy(b))
    BY <1>3
  <2>3. Swapping' <=> Swapping
    BY <1>1, <2>1 DEF Swapping
  <2>4. Somewhere'
    BY <2>2, <2>3 DEF UpdaterInv, Somewhere, build
  <2>5. ~spoilt' => \A b \in Applier : job'[b].at \notin {"downloaded", "parked"}
    BY <2>1, <2>2 DEF Busy
  <2>6. Whole'
    BY <2>2, <2>5 DEF UpdaterInv, Whole, build
  <2>7. faults' \in 0..MaxFaults
    BY <1>3 DEF UpdaterInv, UpdaterTypeOK
  <2> QED
    BY <1>1, <1>3, <2>2, <2>4, <2>6, <2>7, AtWork
<1> QED
  BY <1>2, <1>3

\* Without a digest a damaged download is taken for a whole one.
LEMMA DownloadKeeps == ASSUME UpdaterInv, NEW a \in Applier, Download(a) PROVE UpdaterInv'
<1> USE UpdaterTypes
<1>1. PICK s \in {"downloaded", "failed"} :
        /\ At(a, s) /\ download' \in Image
        /\ s = "downloaded" => download' # Bad \/ ~digests
  <2>1. PICK good \in BOOLEAN :
          \/ /\ check_digest(good)
             /\ At(a, "downloaded")
             /\ download' = IF good THEN job[a].ver ELSE Bad
          \/ GiveUp(a) /\ download' \in {NoImage, download}
    BY DEF Download
  <2>2. job[a].ver \in Version
    BY DEF AnyJob
  <2> QED
    BY <2>1, <2>2 DEF check_digest, GiveUp, Version, Bad
<1>2. faults' \in 0..MaxFaults /\ job[a].at = "download" /\ Busy(a)
      /\ UNCHANGED <<build, published, app, parked, staged, noted, proc, tray, launches, spoilt>>
  BY UpdaterAssumption DEF Download, Fault, UpdaterInv, UpdaterTypeOK, Busy
<1>3. s \in JobAt
  BY DEF JobAt
<1>4. job'[a].at = s /\ \A b \in Applier \ {a} : job'[b] = job[b]
  BY <1>1, <1>3, JobAtFields
<1>5. Swapping' <=> Swapping
  BY <1>2, <1>4 DEF Swapping
<1>6. Somewhere'
  BY <1>2, <1>5 DEF UpdaterInv, Somewhere, build
<1>7. ~spoilt /\ digests => \A b \in Applier : job'[b].at \in {"downloaded", "parked"} => download' # Bad
  BY <1>1, <1>2, <1>4, AloneAtWork
<1>8. Whole'
  BY <1>2, <1>7 DEF UpdaterInv, Whole, build
<1> QED
  BY <1>1, <1>2, <1>3, <1>6, <1>8, AtWork

\* Only what the signature allows is staged.
LEMMA UnpackKeeps == ASSUME UpdaterInv, NEW a \in Applier, unpack(a) PROVE UpdaterInv'
<1> USE UpdaterTypes
<1>1. /\ macOS /\ job[a].at = "downloaded" /\ Busy(a)
      /\ UNCHANGED <<build, published, app, parked, noted, proc, tray, launches, spoilt>>
  BY DEF unpack, Busy
<1>2. PICK s \in {"verified", "failed"} : At(a, s)
  BY DEF unpack, GiveUp
<1>3. /\ staged' \in Image \ {Bad} /\ download' \in Image
      /\ faults' \in 0..MaxFaults
  <2>1. NoImage # Bad /\ \A v \in Version : v # Bad
    BY DEF NoImage, Bad
  <2>2. faults' \in 0..MaxFaults
    BY UpdaterAssumption DEF unpack, Fault, UpdaterInv, UpdaterTypeOK
  <2>3. \/ download \in Version /\ staged' = download /\ download' = download
        \/ staged' = NoImage /\ download' = NoImage
    BY DEF unpack, LeaveNothing
  <2> QED
    BY <2>1, <2>2, <2>3
<1>4. s \in JobAt
  BY DEF JobAt
<1>5. job'[a].at = s /\ \A b \in Applier \ {a} : job'[b] = job[b]
  BY <1>2, <1>4, JobAtFields
<1>6. Swapping' <=> Swapping
  BY <1>1, <1>5 DEF Swapping
<1>7. Somewhere' /\ Whole'
  BY <1>1, <1>3, <1>6 DEF UpdaterInv, Somewhere, Whole, build
<1> QED
  BY <1>1, <1>2, <1>3, <1>4, <1>7, AtWork

\* The program is put aside, or nothing is done.
LEMMA ParkKeeps == ASSUME UpdaterInv, NEW a \in Applier, park(a) PROVE UpdaterInv'
<1> USE UpdaterTypes
<1>1. /\ macOS /\ job[a].at = "verified" /\ Busy(a)
      /\ UNCHANGED <<build, published, noted, proc, tray, launches, spoilt>>
  BY DEF park, Busy
<1>2. faults' \in 0..MaxFaults
  BY UpdaterAssumption DEF park, Fault, UpdaterInv, UpdaterTypeOK
<1>3. "parked" \in JobAt /\ "failed" \in JobAt
  BY DEF JobAt
<1>4. ~spoilt => ~Swapping
  BY <1>1, AloneAtWork DEF Swapping
<1>5. CASE /\ app # NoImage /\ parked' = app /\ app' = NoImage
           /\ At(a, "parked") /\ UNCHANGED <<download, staged>>
  <2>1. job'[a].at = "parked"
    BY <1>3, <1>5, JobAtFields
  <2>2. Somewhere'
    BY <1>5, <2>1 DEF Somewhere, Swapping
  <2>3. Whole'
    BY <1>1, <1>5 DEF UpdaterInv, Whole, build, NoImage, Bad
  <2> QED
    BY <1>1, <1>2, <1>3, <1>5, <2>2, <2>3, AtWork
<1>6. CASE parked' = NoImage /\ GiveUp(a) /\ LeaveNothing /\ UNCHANGED app
  <2>1. At(a, "failed") /\ staged' = NoImage /\ download' = NoImage
    BY <1>6 DEF GiveUp, LeaveNothing
  <2>2. job'[a].at = "failed" /\ \A b \in Applier \ {a} : job'[b] = job[b]
    BY <1>3, <2>1, JobAtFields
  <2>3. Swapping' => Swapping
    BY <2>2 DEF Swapping
  <2>4. Somewhere'
    BY <1>1, <1>4, <1>6, <2>3 DEF UpdaterInv, Somewhere, build
  <2>5. Whole'
    BY <1>1, <1>6, <2>1 DEF UpdaterInv, Whole, build, NoImage, Bad
  <2> QED
    BY <1>1, <1>2, <1>3, <1>6, <2>1, <2>4, <2>5, AtWork
<1> QED
  BY <1>5, <1>6 DEF park

\* The new bundle, or the old one, takes the place that is empty.
LEMMA MoveInKeeps == ASSUME UpdaterInv, NEW a \in Applier, move_in(a) PROVE UpdaterInv'
<1> USE UpdaterTypes
<1>1. /\ macOS /\ job[a].at = "parked" /\ Busy(a)
      /\ UNCHANGED <<build, published, noted, proc, tray, launches>>
      /\ staged' = NoImage /\ download' = NoImage
  BY DEF move_in, Busy, LeaveNothing
<1>2. faults' \in 0..MaxFaults
  BY UpdaterAssumption DEF move_in, Fault, UpdaterInv, UpdaterTypeOK
<1>3. PICK s \in {"done", "failed"} : At(a, s)
  BY DEF move_in, GiveUp
<1>4. s \in JobAt
  BY DEF JobAt
<1>5. job'[a].at = s /\ \A b \in Applier \ {a} : job'[b] = job[b]
  BY <1>3, <1>4, JobAtFields
<1>6. \/ staged # NoImage /\ app = NoImage /\ app' = staged /\ UNCHANGED <<parked, spoilt>>
      \/ /\ parked # NoImage /\ app = NoImage
         /\ app' = parked /\ parked' = NoImage /\ UNCHANGED spoilt
      \/ spoilt' = TRUE /\ UNCHANGED <<app, parked>>
  BY DEF move_in
<1>7. ~spoilt => ~Swapping'
  BY <1>1, <1>5, AloneAtWork DEF Swapping
<1>8. Somewhere'
  BY <1>6, <1>7 DEF Somewhere
<1>9. Whole'
  BY <1>1, <1>6 DEF UpdaterInv, Whole, build, NoImage, Bad
<1>10. app' \in Image /\ parked' \in Image /\ spoilt' \in BOOLEAN /\ (spoilt => spoilt')
  BY <1>6
<1> QED
  BY <1>1, <1>2, <1>3, <1>4, <1>8, <1>9, <1>10, AtWork

\* In Windows the program is put aside while the download waits for its place.
LEMMA ParkExeKeeps == ASSUME UpdaterInv, NEW a \in Applier, park_exe(a) PROVE UpdaterInv'
<1> USE UpdaterTypes
<1>1. /\ ~macOS /\ job[a].at = "downloaded" /\ Busy(a)
      /\ UNCHANGED <<build, published, staged, download, noted, proc, tray, launches, spoilt>>
  BY DEF park_exe, Busy
<1>2. faults' \in 0..MaxFaults
  BY UpdaterAssumption DEF park_exe, Fault, UpdaterInv, UpdaterTypeOK
<1>3. PICK s \in {"parked", "failed"} : At(a, s)
  BY DEF park_exe, GiveUp
<1>4. s \in JobAt
  BY DEF JobAt
<1>5. job'[a].at = s /\ \A b \in Applier \ {a} : job'[b] = job[b]
  BY <1>3, <1>4, JobAtFields
<1>6. app' \in {app, NoImage} /\ parked' \in {app, parked, NoImage}
  BY DEF park_exe
<1>7. Somewhere'
  BY <1>1 DEF Somewhere, build
<1>8. digests /\ ~spoilt => download # Bad
  BY <1>1 DEF UpdaterInv, Whole
<1>9. Whole'
  BY <1>1, <1>6, <1>8 DEF UpdaterInv, Whole, build, NoImage, Bad
<1> QED
  BY <1>1, <1>2, <1>3, <1>4, <1>6, <1>7, <1>9, AtWork

\* The download moves into the program's place: it is nobody else's.
LEMMA MoveInExeKeeps == ASSUME UpdaterInv, NEW a \in Applier, move_in_exe(a) PROVE UpdaterInv'
<1> USE UpdaterTypes
<1>1. /\ ~macOS /\ job[a].at = "parked" /\ Busy(a)
      /\ UNCHANGED <<build, published, parked, staged, proc, tray, launches, spoilt>>
  BY DEF move_in_exe, Busy
<1>2. faults' \in 0..MaxFaults
  BY UpdaterAssumption DEF move_in_exe, Fault, UpdaterInv, UpdaterTypeOK
<1>3. PICK s \in {"done", "failed"} : At(a, s)
  BY DEF move_in_exe, GiveUp
<1>4. s \in JobAt
  BY DEF JobAt
<1>5. job'[a].at = s /\ \A b \in Applier \ {a} : job'[b] = job[b]
  BY <1>3, <1>4, JobAtFields
<1>6. noted' \in Version /\ app' \in {app, download} /\ download' \in {download, NoImage}
  BY DEF move_in_exe, AnyJob
<1>7. Somewhere'
  BY <1>1 DEF Somewhere, build
<1>8. digests /\ ~spoilt => download # Bad
  BY <1>1 DEF UpdaterInv, Whole
<1>9. Whole'
  BY <1>1, <1>6, <1>8 DEF UpdaterInv, Whole, build, NoImage, Bad
<1> QED
  BY <1>1, <1>2, <1>3, <1>4, <1>6, <1>7, <1>9, AtWork

LEMMA UpdaterStep == UpdaterInv /\ [UpdaterNext]_updaterVars => UpdaterInv'
<1> SUFFICES ASSUME UpdaterInv, [UpdaterNext]_updaterVars PROVE UpdaterInv'
  OBVIOUS
<1>1. CASE Publish \/ schedule_update_check \/ poll_update_check \/ poll_update_download
           \/ open_update_dialog
  BY <1>1, PublishKeeps, AskKeeps, AnswerKeeps, OutcomeKeeps, DialogKeeps
<1>2. CASE \E p \in Proc : Launch(p) \/ check_for_update_on_startup(p) \/ acquire(p) \/ Exit(p)
  BY <1>2, LaunchKeeps, StartupCheckKeeps, AcquireKeeps, ExitKeeps
<1>3. CASE \E a \in Applier : Update(a) \/ Later(a) \/ RestartNow(a) \/ CloseDialog(a)
                              \/ Begin(a) \/ Download(a) \/ apply(a)
  <2>1. PICK a \in Applier : Update(a) \/ Later(a) \/ RestartNow(a) \/ CloseDialog(a)
                             \/ Begin(a) \/ Download(a) \/ apply(a)
    BY <1>3
  <2>2. apply(a) => UpdaterInv'
    BY UnpackKeeps, ParkKeeps, MoveInKeeps, ParkExeKeeps, MoveInExeKeeps DEF apply
  <2> QED
    BY <2>1, <2>2, UpdateKeeps, LaterKeeps, RestartKeeps, CloseKeeps, BeginKeeps, DownloadKeeps
<1>4. CASE UNCHANGED updaterVars
  BY <1>4
  DEF UpdaterInv, UpdaterTypeOK, Alone, OwnDialog, TrayOwns, Somewhere, Whole, Busy, IsTray,
      Swapping, updaterVars, build, disk, counts
<1> QED
  BY <1>1, <1>2, <1>3, <1>4 DEF UpdaterNext

\* The updater's types, and its invariant.
THEOREM UpdaterInvariant == UpdaterSpec => []UpdaterInv
  BY InitUpdater, UpdaterStep, PTL DEF UpdaterSpec

\* Unless two appliers overlap, or one dies or fails twice in its swap, there
\* is a program at its path whenever nobody is between the two renames
\* (swap in bundle_update.rs), with any number of processes and failures.
THEOREM NeverWithoutProgram == UpdaterSpec => []NeverWithoutApp
<1>1. UpdaterInv => NeverWithoutApp
  BY DEF UpdaterInv, Somewhere, NeverWithoutApp
<1> QED
  BY <1>1, UpdaterInvariant, PTL

\* No damaged download becomes the program where a digest or a signature can
\* tell (check_digest in updater.rs, codesign in bundle_update.rs).
THEOREM OnlyWholeReleases == UpdaterSpec => []WholeRelease
<1>1. UpdaterInv => WholeRelease
  BY DEF UpdaterInv, Whole, WholeRelease
<1> QED
  BY <1>1, UpdaterInvariant, PTL

----------------------------------------------------------------------------
(* ServerKey, the keys.  As long as one window is open at a time, what a   *)
(* window would store is known from the moment its form is filled: it      *)
(* holds the minted keys that the file holds, and is not nothing unless    *)
(* the file has nothing.  Each step of a save hands that on: from the form *)
(* to what is sealed, to the temporary file, to the file.                  *)

\* Minted, and not given up.
Live == made \ gone

\* The keys that are anywhere on this computer.
Known == made \cup Pasted \cup {NoKey}

\* A sealed or plain key is a key; a marker and nothing are none.
Normal == {s \in Stored : s.form \in {"none", "keychain"} <=> s.key = NoKey}

KeysKnown ==
  /\ made \cap Pasted = {} /\ env \in Pasted \cup {NoKey}
  /\ file.key \in Normal /\ file.key.key \in Known /\ keychain \in Known
  /\ tmp # NoFile => tmp.key \in Normal /\ tmp.key.key \in Known
  /\ \A w \in Window :
       /\ win[w].key \in Known /\ win[w].flow.key \in Known
       /\ win[w].unreadable \in Normal /\ win[w].unreadable.form # "plain"
       /\ win[w].unreadable.key \in Known
       /\ win[w].out.key \in Normal /\ win[w].out.key.key \in Known

\* A sign-in's key is its result, in a window that is there.
FlowsOk ==
  \A w \in Window : win[w].flow.key # NoKey => win[w].flow.at = "result" /\ Alive(w)

OneWindow == ~overlapped => \A v, w \in Window : Alive(v) /\ Alive(w) => v = w

\* Key k is what s stands for.
StoredHolds(s, k) == IF s = Marker THEN keychain = k ELSE s.key = k

\* What seal_api_key makes of s.
SealedAs(s, o) ==
  IF s.form = "plain" THEN o \in {s, Blob(s.key)} \/ (o = Marker /\ keychain = s.key)
  ELSE o = s

\* A window from which a save can come: a wizard's has to have its key.
Filled(c) ==
  /\ c.at \in {"form", "seal", "write", "rename"}
  /\ c.wizard /\ c.at = "form" => c.key # NoKey

\* A save that could not read the file for its key is to empty it.  No live key
\* is at stake: those there were count as given up.
Emptied(c, o) ==
  unread /\ o = Nothing /\ c.key \in Pasted /\ \A k \in Live : ~Holds(k)

WindowKeeps(c) ==
  /\ Filled(c) =>
       /\ \A k \in Live : Holds(k) => StoredHolds(ToStore(c), k)
       /\ file.key # Nothing /\ ~cleared => ToStore(c) # Nothing
  /\ c.at = "write" => SealedAs(ToStore(c), c.out.key) \/ Emptied(c, c.out.key)
  /\ c.at = "rename" => /\ SealedAs(ToStore(c), tmp.key) \/ Emptied(c, tmp.key)
                        /\ tmp # NoFile

Keeps ==
  ~overlapped =>
    /\ \A k \in Live : Holds(k) \/ \E w \in Window : InHand(w, k)
    /\ \A w \in Window : WindowKeeps(win[w])

DiskTypes ==
  /\ mac \in BOOLEAN /\ env \in KeyOrNone
  /\ file \in File /\ tmp \in File /\ keychain \in KeyOrNone
  /\ win \in [Window -> Win]
  /\ made \subseteq Key /\ gone \subseteq Key
  /\ cleared \in BOOLEAN /\ overlapped \in BOOLEAN /\ unread \in BOOLEAN

KeyInv == DiskTypes /\ KeysKnown /\ FlowsOk /\ OneWindow /\ Keeps

keyVars == <<mac, env, file, tmp, keychain, win, made, gone, cleared, overlapped, unread>>

LEMMA StoredForms ==
  /\ Nothing \in Normal /\ Nothing.form = "none" /\ Nothing.key = NoKey
  /\ Marker \in Normal /\ Marker.form = "keychain" /\ Marker.key = NoKey
  /\ \A k \in Key : /\ Plain(k) \in Normal /\ Plain(k).form = "plain" /\ Plain(k).key = k
                    /\ Blob(k) \in Normal /\ Blob(k).form = "blob" /\ Blob(k).key = k
  /\ Plain(NoKey) = Nothing
  /\ \A s \in Normal : /\ s.form = "none" => s = Nothing
                       /\ s.form = "keychain" => s = Marker
                       /\ s.form = "plain" => s = Plain(s.key) /\ s.key \in Key
                       /\ s.form = "blob" => s = Blob(s.key) /\ s.key \in Key
                       /\ s \in Stored /\ s.key \in KeyOrNone
<1> USE KeyAssumption
<1>1. /\ Nothing \in Normal /\ Nothing.form = "none" /\ Nothing.key = NoKey
      /\ Marker \in Normal /\ Marker.form = "keychain" /\ Marker.key = NoKey
      /\ Plain(NoKey) = Nothing
  BY DEF Nothing, Marker, Plain, Normal, Stored, KeyOrNone
<1>2. ASSUME NEW k \in Key
      PROVE  /\ Plain(k) \in Normal /\ Plain(k).form = "plain" /\ Plain(k).key = k
             /\ Blob(k) \in Normal /\ Blob(k).form = "blob" /\ Blob(k).key = k
  BY <1>2 DEF Plain, Blob, Normal, Stored, KeyOrNone
<1>3. ASSUME NEW s \in Normal
      PROVE  /\ s.form = "none" => s = Nothing
             /\ s.form = "keychain" => s = Marker
             /\ s.form = "plain" => s = Plain(s.key) /\ s.key \in Key
             /\ s.form = "blob" => s = Blob(s.key) /\ s.key \in Key
             /\ s \in Stored /\ s.key \in KeyOrNone
  BY <1>3 DEF Nothing, Marker, Plain, Blob, Normal, Stored, KeyOrNone
<1> QED
  BY <1>1, <1>2, <1>3

LEMMA NoFileIsNone == ASSUME NEW f \in File, f.key \in Normal PROVE f # NoFile
  BY KeyAssumption DEF NoFile, Blob, Normal

\* What a window stores, case by case.
LEMMA ToStoreIs ==
  ASSUME NEW c \in Win, c.unreadable \in Normal, c.unreadable.form # "plain",
         env \in KeyOrNone
  PROVE  ToStore(c) = IF c.key = NoKey THEN c.unreadable
                      ELSE IF c.key = env THEN file.key ELSE Plain(c.key)
<1>1. c.key \in KeyOrNone /\ NoKey \notin Key
  BY KeyAssumption DEF Win
<1>2. CASE c.key = NoKey
  <2>1. key_to_persist(c) = c.unreadable
    BY <1>2, StoredForms DEF key_to_persist
  <2>2. env # NoKey => c.unreadable # Plain(env)
    BY StoredForms DEF KeyOrNone
  <2> QED
    BY <1>2, <2>1, <2>2 DEF ToStore, FromEnv
<1>3. CASE c.key # NoKey
  <2>1. key_to_persist(c) = Plain(c.key)
    BY <1>3 DEF key_to_persist
  <2>2. Plain(c.key).key = c.key /\ (env # NoKey => Plain(env).key = env)
    BY <1>1, <1>3, StoredForms DEF KeyOrNone
  <2> QED
    BY <1>3, <2>1, <2>2 DEF ToStore, FromEnv
<1> QED
  BY <1>2, <1>3

LEMMA WinFields ==
  ASSUME win \in [Window -> Win], NEW w \in Window, NEW c \in Win, win' = [win EXCEPT ![w] = c]
  PROVE  /\ win' \in [Window -> Win] /\ win'[w] = c
         /\ \A v \in Window \ {w} : win'[v] = win[v]
  OBVIOUS

LEMMA NoWinFields ==
  /\ NoWin \in Win /\ NoWin.at = "none" /\ ~NoWin.wizard /\ ~NoWin.orphan
  /\ NoWin.key = NoKey /\ NoWin.unreadable = Nothing /\ NoWin.out.key = Nothing
  /\ NoWin.flow = NoFlow /\ NoFlow \in Flow /\ NoFlow.key = NoKey
<1>1. Nothing \in Stored
  BY StoredForms
<1>2. Empty \in File /\ Empty.key = Nothing /\ NoFlow \in Flow /\ NoFlow.key = NoKey
  BY <1>1 DEF Empty, File, UrlOrNone, NoFlow, Flow, KeyOrNone
<1> QED
  BY <1>1, <1>2 DEF NoWin, Win, UrlOrNone, KeyOrNone

LEMMA InitKeys == Init => KeyInv
<1> SUFFICES ASSUME Init PROVE KeyInv
  OBVIOUS
<1> USE DEF Init
<1>1. /\ file \in File /\ file.key \in Normal /\ file.key.key \in Pasted \cup {NoKey}
      /\ env \in Pasted \cup {NoKey}
  <2>1. Pasted \subseteq Key
    BY KeyAssumption
  <2>2. CASE file = Empty
    BY <2>2, StoredForms DEF Empty, File, UrlOrNone
  <2>3. CASE file # Empty
    <3>1. PICK u \in Url, s \in Stored :
            file = [url |-> u, key |-> s] /\ s \in Normal /\ s.key \in Pasted \cup {NoKey}
      <4>1. PICK u \in Url, k \in Pasted \cup {NoKey} :
              \/ file = [url |-> u, key |-> Plain(k)]
              \/ file = [url |-> u, key |-> Blob(k)] /\ k \in Pasted
        BY <2>3
      <4> QED
        BY <2>1, <4>1, StoredForms
    <3> QED
      BY <3>1 DEF File, UrlOrNone
  <2> QED
    BY <2>2, <2>3
<1>2. NoFile \in File
  BY DEF NoFile, File, UrlOrNone, Blob, Stored, KeyOrNone
<1>3. \A w \in Window : win[w] = NoWin
  OBVIOUS
<1>4. win \in [Window -> Win]
  BY NoWinFields
<1>5. DiskTypes
  <2>1. mac \in BOOLEAN /\ cleared = FALSE /\ overlapped = FALSE /\ unread = FALSE
    OBVIOUS
  <2>2. env \in KeyOrNone /\ keychain \in KeyOrNone /\ tmp \in File
        /\ made \subseteq Key /\ gone \subseteq Key
    BY <1>1, <1>2, KeyAssumption DEF KeyOrNone
  <2>3. cleared \in BOOLEAN /\ overlapped \in BOOLEAN /\ unread \in BOOLEAN
    <3> HIDE DEF Init
    <3> QED
      BY <2>1
  <2> QED
    BY <1>1, <1>4, <2>1, <2>2, <2>3 DEF DiskTypes
<1>6. KeysKnown
  BY <1>1, <1>3, NoWinFields, StoredForms DEF KeysKnown, Known
<1>7. FlowsOk /\ OneWindow
  BY <1>3, NoWinFields DEF FlowsOk, OneWindow, Alive
<1>8. Keeps
  BY <1>3, NoWinFields DEF Keeps, Live, WindowKeeps, Filled
<1> QED
  BY <1>5, <1>6, <1>7, <1>8 DEF KeyInv

\* What a window keeps depends on what it shows and has written, on the disk
\* and on the keys that are live.
LEMMA KeepsAlike ==
  ASSUME KeyInv, NEW c \in Win, NEW e \in Win, WindowKeeps(c),
         e.key = c.key, e.unreadable = c.unreadable, e.out = c.out,
         Filled(e) => Filled(c),
         e.at \in {"write", "rename"} => e.at = c.at,
         UNCHANGED <<env, file, tmp, keychain>>, cleared => cleared', unread => unread',
         \A k \in Live' : k \in Live \/ ~Holds(k)
  PROVE  WindowKeeps(e)'
<1>1. ToStore(e)' = ToStore(c)
  BY DEF ToStore, FromEnv, key_to_persist
<1>2. Filled(e)' = Filled(e)
  BY DEF Filled
<1>3. \A k : StoredHolds(ToStore(e), k)' = StoredHolds(ToStore(c), k)
  BY <1>1 DEF StoredHolds
<1>4. \A k : Holds(k)' = Holds(k)
  BY DEF Holds
<1> QED
  BY <1>1, <1>2, <1>3, <1>4 DEF WindowKeeps, SealedAs, Emptied

\* A step of one window that leaves the disk as it is.
LEMMA WindowStep ==
  ASSUME KeyInv, NEW w \in Window, NEW c \in Win, win' = [win EXCEPT ![w] = c],
         UNCHANGED <<mac, env, file, tmp, keychain>>,
         made' \subseteq Key, gone' \subseteq Key, made \subseteq made', made' \cap Pasted = {},
         cleared' \in BOOLEAN, overlapped' \in BOOLEAN, overlapped => overlapped',
         cleared => cleared', unread' \in BOOLEAN, unread => unread',
         c.key \in Known', c.flow.key \in Known', c.unreadable \in Normal,
         c.unreadable.form # "plain", c.unreadable.key \in Known',
         c.out.key \in Normal, c.out.key.key \in Known',
         c.flow.key # NoKey => c.flow.at = "result" /\ Alive(w)',
         Alive(w)' /\ ~overlapped' => Alive(w) \/ \A v \in Window : ~Alive(v),
         Alive(w) \/ \A k \in Live' : k \in Live \/ ~Holds(k),
         \A k \in Live' : k \notin Live \/ InHand(w, k) => Holds(k) \/ InHand(w, k)',
         ~overlapped' => WindowKeeps(c)'
  PROVE  KeyInv'
<1>1. /\ win' \in [Window -> Win] /\ win'[w] = c
      /\ \A v \in Window \ {w} : win'[v] = win[v]
  BY WinFields DEF KeyInv, DiskTypes
<1>2. DiskTypes'
  BY <1>1 DEF KeyInv, DiskTypes
<1>3. Known \subseteq Known'
  BY DEF Known
<1>4. KeysKnown'
  BY <1>1, <1>3 DEF KeyInv, KeysKnown, Known
<1>5. FlowsOk'
  BY <1>1 DEF KeyInv, FlowsOk, Alive
<1>6. OneWindow'
  BY <1>1 DEF KeyInv, OneWindow, Alive
<1>7. ASSUME ~overlapped', NEW k \in Live' PROVE (Holds(k) \/ \E v \in Window : InHand(v, k))'
  <2>1. Holds(k)' = Holds(k)
    BY DEF Holds
  <2>2. ~overlapped
    BY <1>7
  <2>3. CASE k \in Live
    <3>1. Holds(k) \/ \E v \in Window : InHand(v, k)
      BY <2>2, <2>3 DEF KeyInv, Keeps
    <3>2. \A v \in Window \ {w} : InHand(v, k) => InHand(v, k)'
      BY <1>1 DEF InHand
    <3> QED
      BY <1>7, <2>1, <3>1, <3>2
  <2>4. CASE k \notin Live
    BY <1>7, <2>1, <2>4
  <2> QED
    BY <2>3, <2>4
<1>8. ASSUME ~overlapped', NEW v \in Window PROVE WindowKeeps(win[v])'
  <2>1. CASE v = w
    BY <1>1, <1>8, <2>1
  <2>2. CASE v # w
    <3>1. win'[v] = win[v] /\ win[v] \in Win
      BY <1>1, <2>2 DEF KeyInv, DiskTypes
    <3>2. WindowKeeps(win[v])
      BY <1>8 DEF KeyInv, Keeps
    <3>3. CASE Alive(w)
      <4>1. ~Alive(v)
        BY <1>8, <2>2, <3>3 DEF KeyInv, OneWindow
      <4> QED
        BY <3>1, <4>1 DEF WindowKeeps, Filled, Alive
    <3>4. CASE ~Alive(w)
      <4> DEFINE e == win[v]
      <4>1. ToStore(e)' = ToStore(e)
        BY <3>1 DEF ToStore, FromEnv, key_to_persist
      <4>2. \A k : /\ StoredHolds(ToStore(e), k)' = StoredHolds(ToStore(e), k)
                   /\ Holds(k)' = Holds(k)
        BY <4>1 DEF StoredHolds, Holds
      <4>3. Filled(e)' = Filled(e)
        BY <3>1 DEF Filled
      <4> QED
        BY <3>1, <3>2, <3>4, <4>1, <4>2, <4>3 DEF WindowKeeps, SealedAs, Emptied
    <3> QED
      BY <3>3, <3>4
  <2> QED
    BY <2>1, <2>2
<1>9. Keeps'
  BY <1>7, <1>8 DEF Keeps
<1> QED
  BY <1>2, <1>4, <1>5, <1>6, <1>9 DEF KeyInv

LEMMA KeysUntouched == KeyInv /\ UNCHANGED keyVars => KeyInv'
<1> SUFFICES ASSUME KeyInv, UNCHANGED keyVars PROVE KeyInv'
  OBVIOUS
<1> USE DEF keyVars
<1>1. DiskTypes' /\ KeysKnown' /\ FlowsOk' /\ OneWindow'
  BY DEF KeyInv, DiskTypes, KeysKnown, Known, FlowsOk, OneWindow, Alive
<1>2. \A k : /\ Holds(k)' = Holds(k) /\ \A w : InHand(w, k)' = InHand(w, k)
  BY DEF Holds, InHand
<1>3. \A w \in Window : WindowKeeps(win[w])' = WindowKeeps(win[w])
  BY DEF WindowKeeps, Filled, Live, Holds, StoredHolds, SealedAs, Emptied, ToStore, FromEnv,
     key_to_persist
<1>4. Keeps'
  BY <1>2, <1>3 DEF KeyInv, Keeps, Live
<1> QED
  BY <1>1, <1>4 DEF KeyInv

LEMMA WindowTypes ==
  ASSUME KeyInv, NEW w \in Window
  PROVE  /\ win[w] \in Win /\ win[w].key \in Known /\ win[w].flow \in Flow
         /\ win[w].unreadable \in Normal /\ win[w].unreadable.form # "plain"
         /\ win[w].unreadable.key \in Known
         /\ win[w].out.key \in Normal /\ win[w].out.key.key \in Known
         /\ win[w].flow.key # NoKey => win[w].flow.at = "result" /\ Alive(w)
         /\ ~overlapped => WindowKeeps(win[w])
         /\ Known \subseteq KeyOrNone /\ env \in KeyOrNone
         /\ \A k \in Live : k \in Key /\ k # NoKey /\ k \notin Pasted
<1>1. win[w] \in Win
  BY DEF KeyInv, DiskTypes
<1> QED
  BY <1>1, KeyAssumption
  DEF KeyInv, DiskTypes, KeysKnown, FlowsOk, Keeps, Win, Known, Live, KeyOrNone

\* A step that changes nothing a save would write.
LEMMA AlikeStep ==
  ASSUME KeyInv, NEW w \in Window, NEW c \in Win, win' = [win EXCEPT ![w] = c],
         UNCHANGED <<mac, env, file, tmp, keychain, made, cleared, overlapped, unread>>,
         gone \subseteq gone', gone' \subseteq Key,
         c.key = win[w].key, c.unreadable = win[w].unreadable, c.out = win[w].out,
         c.flow.key \in {NoKey, win[w].flow.key},
         c.flow.key # NoKey => c.flow.at = "result" /\ Alive(w)',
         Alive(w)' => Alive(w),
         Filled(c) => Filled(win[w]),
         c.at \in {"write", "rename"} => c.at = win[w].at,
         \A k \in Live' : InHand(w, k) => InHand(w, k)'
  PROVE  KeyInv'
<1>1. Live' \subseteq Live /\ Known' = Known
  BY DEF Live, Known
<1>2. PICK e \in Win : e = win[w]
  BY WindowTypes
<1>3. ~overlapped => WindowKeeps(c)'
  <2>1. ~overlapped => WindowKeeps(e)
    BY <1>2, WindowTypes
  <2> QED
    BY <1>1, <1>2, <2>1, KeepsAlike
<1>4. made' \subseteq Key /\ made' \cap Pasted = {}
      /\ cleared' \in BOOLEAN /\ overlapped' \in BOOLEAN /\ unread' \in BOOLEAN
  BY DEF KeyInv, DiskTypes, KeysKnown
<1>5. /\ c.key \in Known' /\ c.flow.key \in Known' /\ c.unreadable \in Normal
      /\ c.unreadable.form # "plain" /\ c.unreadable.key \in Known'
      /\ c.out.key \in Normal /\ c.out.key.key \in Known'
  <2>1. win[w].flow.key \in Known /\ NoKey \in Known
    BY DEF KeyInv, KeysKnown, Known
  <2> QED
    BY <1>1, <2>1, WindowTypes
<1> QED
  BY <1>1, <1>3, <1>4, <1>5, WindowStep

\* A window that opens shows nothing yet; if another is open, they overlap.
LEMMA SpawnKeeps ==
  ASSUME KeyInv, NEW w \in Window, win[w].at = "none", NEW wizard \in BOOLEAN,
         Spawn(w, wizard), UNCHANGED <<mac, env, file, tmp, keychain, made, gone, cleared, unread>>
  PROVE  KeyInv'
<1>1. PICK c \in Win :
        /\ win' = [win EXCEPT ![w] = c]
        /\ (c.at = "form" /\ c.wizard) \/ c.at = "load"
        /\ c.key = NoKey /\ c.unreadable = Nothing /\ c.out.key = Nothing /\ c.flow.key = NoKey
  <2> DEFINE f == [NoWin EXCEPT !.at = "form", !.wizard = TRUE]
             l == [NoWin EXCEPT !.at = "load"]
  <2>1. f \in Win /\ f.at = "form" /\ f.wizard
        /\ f.key = NoKey /\ f.unreadable = Nothing /\ f.out.key = Nothing /\ f.flow.key = NoKey
    BY NoWinFields DEF Win
  <2>2. l \in Win /\ l.at = "load"
        /\ l.key = NoKey /\ l.unreadable = Nothing /\ l.out.key = Nothing /\ l.flow.key = NoKey
    BY NoWinFields DEF Win
  <2>3. win' = [win EXCEPT ![w] = f] \/ win' = [win EXCEPT ![w] = l]
    BY DEF Spawn
  <2> HIDE DEF f, l
  <2> QED
    BY <2>1, <2>2, <2>3
<1>2. overlapped' = (overlapped \/ \E v \in Window : Alive(v))
  BY DEF Spawn
<1>3. overlapped' \in BOOLEAN /\ (overlapped => overlapped')
      /\ (~overlapped' => \A v \in Window : ~Alive(v))
  BY <1>2
<1>4. WindowKeeps(c)'
  BY <1>1 DEF WindowKeeps, Filled
<1>5. \A k \in Live' : k \in Live /\ ~InHand(w, k)
  BY WindowTypes DEF Live, InHand, Alive
<1>6. made' \subseteq Key /\ gone' \subseteq Key /\ made' \cap Pasted = {} /\ cleared' \in BOOLEAN
      /\ unread' \in BOOLEAN
  BY DEF KeyInv, DiskTypes, KeysKnown
<1>7. NoKey \in Known' /\ Nothing \in Normal /\ Nothing.key = NoKey /\ Nothing.form # "plain"
  BY StoredForms DEF Known
<1> QED
  BY <1>1, <1>3, <1>4, <1>5, <1>6, <1>7, WindowStep

\* The windows of a tray that quits live on as they are.
LEMMA QuitKeeps ==
  ASSUME KeyInv, UNCHANGED <<mac, env, file, tmp, keychain, made, gone, cleared, overlapped, unread>>,
         win' = [w \in Window |-> IF Alive(w) THEN [win[w] EXCEPT !.orphan = TRUE] ELSE NoWin]
  PROVE  KeyInv'
<1>1. ASSUME NEW w \in Window, Alive(w)
      PROVE  /\ win'[w] \in Win /\ win'[w].at = win[w].at /\ win'[w].wizard = win[w].wizard
             /\ win'[w].key = win[w].key /\ win'[w].unreadable = win[w].unreadable
             /\ win'[w].out = win[w].out /\ win'[w].flow = win[w].flow
  <2>1. win'[w] = [win[w] EXCEPT !.orphan = TRUE] /\ win[w] \in Win
    BY <1>1, WindowTypes
  <2> QED
    BY <2>1 DEF Win
<1>2. ASSUME NEW w \in Window, ~Alive(w) PROVE win'[w] = NoWin
  BY <1>2
<1>3. win' \in [Window -> Win]
  <2>1. \A w \in Window : win'[w] \in Win
    BY <1>1, <1>2, NoWinFields
  <2> QED
    BY <2>1
<1>4. \A w \in Window : Alive(w)' <=> Alive(w)
  BY <1>1, <1>2, NoWinFields DEF Alive
<1>5. DiskTypes'
  BY <1>3 DEF KeyInv, DiskTypes
<1>6. KeysKnown'
  <2>1. \A w \in Window :
          /\ win'[w].key \in Known /\ win'[w].flow.key \in Known
          /\ win'[w].unreadable \in Normal /\ win'[w].unreadable.form # "plain"
          /\ win'[w].unreadable.key \in Known
          /\ win'[w].out.key \in Normal /\ win'[w].out.key.key \in Known
    BY <1>1, <1>2, NoWinFields, StoredForms DEF KeyInv, KeysKnown, Known
  <2> QED
    BY <2>1 DEF KeyInv, KeysKnown, Known
<1>7. FlowsOk' /\ OneWindow'
  BY <1>1, <1>2, <1>4, NoWinFields DEF KeyInv, FlowsOk, OneWindow
<1>8. ASSUME ~overlapped, NEW w \in Window PROVE WindowKeeps(win[w])'
  <2>1. PICK c \in Win, e \in Win : c = win[w] /\ e = win'[w]
    BY <1>3, WindowTypes
  <2>2. CASE Alive(w)
    <3>1. WindowKeeps(c)
      BY <1>8, <2>1, WindowTypes
    <3>2. Filled(e) = Filled(c)
      BY <1>1, <2>1, <2>2 DEF Filled
    <3>3. WindowKeeps(e)'
      BY <1>1, <2>1, <2>2, <3>1, <3>2, KeepsAlike DEF Live
    <3> QED
      BY <2>1, <3>3
  <2>3. CASE ~Alive(w)
    BY <1>2, <2>3, NoWinFields DEF WindowKeeps, Filled
  <2> QED
    BY <2>2, <2>3
<1>9. ASSUME ~overlapped, NEW k \in Live PROVE (Holds(k) \/ \E w \in Window : InHand(w, k))'
  <2>1. Holds(k) \/ \E w \in Window : InHand(w, k)
    BY <1>9 DEF KeyInv, Keeps
  <2>2. \A w \in Window : InHand(w, k) => Alive(w)
    BY WindowTypes DEF InHand, Alive
  <2>3. \A w \in Window : InHand(w, k) => InHand(w, k)'
    BY <1>1, <2>2 DEF InHand
  <2> QED
    BY <2>1, <2>3 DEF Holds
<1>10. Keeps'
  BY <1>8, <1>9 DEF Keeps, Live
<1> QED
  BY <1>5, <1>6, <1>7, <1>10 DEF KeyInv

\* What a load finds is what the form would store again.
LEMMA LoadShows ==
  ASSUME KeyInv, NEW c \in Loaded(file)
  PROVE  /\ c \in Config /\ c.key \in Known
         /\ c.unreadable \in Normal /\ c.unreadable.form # "plain" /\ c.unreadable.key \in Known
         /\ \/ c.key = env /\ env # NoKey
            \/ c.key = NoKey /\ c.unreadable = file.key
            \/ c.key \in Key /\ c.unreadable = Nothing
               /\ c.key = (IF file.key = Marker THEN keychain ELSE file.key.key)
<1>1. /\ file \in File /\ file.key \in Normal /\ file.key.key \in Known /\ keychain \in Known
      /\ env \in Known /\ env \in KeyOrNone /\ Known \subseteq KeyOrNone /\ NoKey \in Known
      /\ NoKey \notin Key /\ file.url \in UrlOrNone
  BY KeyAssumption DEF KeyInv, DiskTypes, KeysKnown, Known, KeyOrNone, File
<1>2. PICK o \in open_stored_key(file.key) :
        c = [url |-> file.url, key |-> IF env # NoKey THEN env ELSE o.key,
             unreadable |-> o.unreadable]
  BY DEF Loaded
<1>3. \/ o.key = NoKey /\ o.unreadable = file.key /\ file.key.form # "plain"
      \/ o.key \in Key /\ o.unreadable = Nothing
         /\ o.key = (IF file.key = Marker THEN keychain ELSE file.key.key)
  <2>1. CASE file.key.form = "none"
    <3>1. o = [key |-> file.key.key, unreadable |-> Nothing]
      BY <2>1 DEF open_stored_key
    <3> QED
      BY <1>1, <2>1, <3>1, StoredForms
  <2>2. CASE file.key.form = "plain"
    <3>1. o = [key |-> file.key.key, unreadable |-> Nothing]
      BY <2>2 DEF open_stored_key
    <3> QED
      BY <1>1, <2>2, <3>1, StoredForms
  <2>3. CASE file.key.form = "blob"
    <3>1. \/ o = [key |-> NoKey, unreadable |-> file.key]
          \/ o = [key |-> file.key.key, unreadable |-> Nothing]
      BY <2>3 DEF open_stored_key, decrypt_api_key, dpapi_unprotect
    <3> QED
      BY <1>1, <2>3, <3>1, StoredForms
  <2>4. CASE file.key.form = "keychain"
    <3>1. \/ o = [key |-> NoKey, unreadable |-> file.key]
          \/ keychain # NoKey /\ o = [key |-> keychain, unreadable |-> Nothing]
      BY <2>4 DEF open_stored_key, decrypt_api_key
    <3>2. keychain # NoKey => keychain \in Key
      BY <1>1 DEF KeyOrNone
    <3> QED
      BY <1>1, <2>4, <3>1, <3>2, StoredForms
  <2> QED
    BY <1>1, <2>1, <2>2, <2>3, <2>4 DEF Normal, Stored
<1>4. o.key \in Known /\ o.unreadable \in Normal /\ o.unreadable.form # "plain"
      /\ o.unreadable.key \in Known
  BY <1>1, <1>3, StoredForms
<1>5. c.key = (IF env # NoKey THEN env ELSE o.key) /\ c.unreadable = o.unreadable
      /\ c.url = file.url
  BY <1>2
<1>6. c.key \in KeyOrNone /\ c.unreadable \in Stored
  BY <1>1, <1>4, <1>5, StoredForms
<1>7. c \in Config
  BY <1>1, <1>2, <1>6 DEF Config
<1> QED
  BY <1>1, <1>3, <1>4, <1>5, <1>7

LEMMA ShowKeeps == ASSUME KeyInv, NEW w \in Window, show_settings(w) PROVE KeyInv'
<1> USE DEF show_settings
<1>1. PICK c \in Load :
        win' = [win EXCEPT ![w].at = "form", ![w].url = c.url, ![w].key = c.key,
                           ![w].unreadable = c.unreadable]
  OBVIOUS
<1>2. win[w].at = "load" /\ Alive(w) /\ UNCHANGED <<mac, env, file, tmp, keychain, made, gone,
                                                    cleared, overlapped, unread>>
  BY DEF winOnly, fixed, diskVars, ghosts, Alive
<1>3. /\ c \in Config /\ c.key \in Known
      /\ c.unreadable \in Normal /\ c.unreadable.form # "plain" /\ c.unreadable.key \in Known
  BY LoadShows DEF Load
<1> DEFINE x == [win[w] EXCEPT !.at = "form", !.url = c.url, !.key = c.key,
                               !.unreadable = c.unreadable]
<1>4. /\ x \in Win /\ x.at = "form" /\ x.key = c.key /\ x.unreadable = c.unreadable
      /\ x.out = win[w].out /\ x.flow = win[w].flow
  BY <1>3, WindowTypes DEF Win, Config
<1>5. win' = [win EXCEPT ![w] = x]
  BY <1>1, WindowTypes
<1> HIDE DEF x
<1>6. PICK e \in Win : e = x
  BY <1>4
<1>7. /\ \A k \in Live : Holds(k) => StoredHolds(ToStore(e), k)
      /\ file.key # Nothing => ToStore(e) # Nothing
  <2>1. ToStore(e) = IF c.key = NoKey THEN c.unreadable
                     ELSE IF c.key = env THEN file.key ELSE Plain(c.key)
    BY <1>3, <1>4, <1>6, ToStoreIs, WindowTypes
  <2>2. file.key \in Normal
    BY DEF KeyInv, KeysKnown
  <2>3. CASE ToStore(e) = file.key
    BY <2>3 DEF Holds, StoredHolds
  <2>4. CASE c.key \in Key /\ c.key = (IF file.key = Marker THEN keychain ELSE file.key.key)
             /\ ToStore(e) = Plain(c.key)
    <3>1. Plain(c.key).key = c.key /\ Plain(c.key) # Marker /\ Plain(c.key) # Nothing
      BY <2>4, StoredForms
    <3> QED
      BY <2>4, <3>1 DEF Holds, StoredHolds
  <2>5. NoKey \notin Key
    BY KeyAssumption
  <2> QED
    BY <2>1, <2>3, <2>4, <2>5, LoadShows DEF Load
<1>8. WindowKeeps(e)
  BY <1>4, <1>6, <1>7 DEF WindowKeeps
<1>9. WindowKeeps(e)'
  BY <1>2, <1>4, <1>6, <1>8, KeepsAlike DEF Live
<1>10. Alive(w)' <=> e.at \in {"load", "form", "seal", "write", "rename", "closing"}
  BY <1>5, <1>6, WinFields DEF Alive, KeyInv, DiskTypes
<1>11. \A k \in Live' : k \in Live /\ (InHand(w, k) => InHand(w, k)')
  <2>1. win'[w] = e
    BY <1>5, <1>6, WinFields DEF KeyInv, DiskTypes
  <2> QED
    BY <1>2, <1>4, <1>6, <2>1 DEF InHand, Live
<1>12. /\ made' \subseteq Key /\ gone' \subseteq Key /\ made' \cap Pasted = {} /\ Known' = Known
       /\ cleared' \in BOOLEAN /\ overlapped' \in BOOLEAN /\ unread' \in BOOLEAN
  BY <1>2 DEF KeyInv, DiskTypes, KeysKnown, Known
<1>13. /\ e.flow.key \in Known' /\ (e.flow.key # NoKey => e.flow.at = "result")
       /\ e.out.key \in Normal /\ e.out.key.key \in Known'
  BY <1>4, <1>6, <1>12, WindowTypes DEF KeyInv, KeysKnown
<1>14. win' = [win EXCEPT ![w] = e]
  BY <1>5, <1>6
<1> HIDE DEF show_settings
<1> QED
  BY <1>2, <1>3, <1>4, <1>6, <1>9, <1>10, <1>11, <1>12, <1>13, <1>14, WindowStep

LEMMA EditUrlKeeps == ASSUME KeyInv, NEW w \in Window, EditUrl(w) PROVE KeyInv'
<1>1. PICK u \in UrlOrNone : win' = [win EXCEPT ![w].url = u]
  BY DEF EditUrl
<1>2. win[w].at = "form" /\ Alive(w) /\ UNCHANGED <<mac, env, file, tmp, keychain, made, gone,
                                                    cleared, overlapped, unread>>
  BY DEF EditUrl, winOnly, fixed, diskVars, ghosts, Alive
<1> DEFINE x == [win[w] EXCEPT !.url = u]
<1>3. /\ x \in Win /\ x.at = win[w].at /\ x.wizard = win[w].wizard /\ x.key = win[w].key
      /\ x.unreadable = win[w].unreadable /\ x.out = win[w].out /\ x.flow = win[w].flow
  BY WindowTypes DEF Win
<1>4. win' = [win EXCEPT ![w] = x]
  BY <1>1, WindowTypes
<1> HIDE DEF x
<1>5. PICK e \in Win : e = x
  BY <1>3
<1>6. win' = [win EXCEPT ![w] = e] /\ win'[w] = e
  BY <1>4, <1>5, WinFields DEF KeyInv, DiskTypes
<1>7. Alive(w)' /\ \A k \in Live' : InHand(w, k) => InHand(w, k)'
  BY <1>2, <1>3, <1>5, <1>6 DEF Alive, InHand
<1>8. (Filled(e) => Filled(win[w])) /\ (e.flow.key # NoKey => e.flow.at = "result")
  BY <1>3, <1>5, WindowTypes DEF Filled
<1>9. gone' \subseteq Key
  BY <1>2 DEF KeyInv, DiskTypes
<1> QED
  BY <1>2, <1>3, <1>5, <1>6, <1>7, <1>8, <1>9, AlikeStep

\* A pasted key, or an emptied field, gives all minted keys up.
LEMMA EditKeyKeeps == ASSUME KeyInv, NEW w \in Window, EditKey(w) PROVE KeyInv'
<1>1. PICK p \in Pasted \cup {NoKey} :
        win' = [win EXCEPT ![w].key = p] /\ cleared' = (cleared \/ p = NoKey)
  BY DEF EditKey
<1>2. win[w].at = "form" /\ Alive(w) /\ gone' = made
      /\ UNCHANGED <<mac, env, file, tmp, keychain, made, overlapped, unread>>
  BY DEF EditKey, winOnly, fixed, diskVars, Alive
<1> DEFINE x == [win[w] EXCEPT !.key = p]
<1>3. p \in KeyOrNone /\ p \in Known
  BY KeyAssumption DEF Known, KeyOrNone
<1>4. /\ x \in Win /\ x.at = win[w].at /\ x.key = p /\ x.unreadable = win[w].unreadable
      /\ x.out = win[w].out /\ x.flow = win[w].flow
  BY <1>3, WindowTypes DEF Win
<1>5. win' = [win EXCEPT ![w] = x]
  BY <1>1, WindowTypes
<1> HIDE DEF x
<1>6. PICK e \in Win : e = x
  BY <1>4
<1>7. win' = [win EXCEPT ![w] = e] /\ win'[w] = e
  BY <1>5, <1>6, WinFields DEF KeyInv, DiskTypes
<1>8. Live' = {} /\ Known' = Known
  BY <1>2 DEF Live, Known
<1>9. ~cleared' /\ file.key # Nothing => ToStore(e) # Nothing
  <2>1. ToStore(e) = IF p = NoKey THEN e.unreadable
                     ELSE IF p = env THEN file.key ELSE Plain(p)
    BY <1>4, <1>6, ToStoreIs, WindowTypes
  <2>2. p # NoKey => p \in Key
    BY <1>3 DEF KeyOrNone
  <2>3. p # NoKey => Plain(p) # Nothing
    BY <2>2, StoredForms
  <2> QED
    BY <1>1, <2>1, <2>3
<1>10. WindowKeeps(e)'
  <2>1. ToStore(e)' = ToStore(e)
    BY <1>2 DEF ToStore, FromEnv, key_to_persist
  <2> QED
    BY <1>2, <1>4, <1>6, <1>8, <1>9, <2>1 DEF WindowKeeps
<1>11. Alive(w)'
  BY <1>2, <1>4, <1>6, <1>7 DEF Alive
<1>12. /\ made' \subseteq Key /\ gone' \subseteq Key /\ made' \cap Pasted = {}
       /\ overlapped' \in BOOLEAN /\ unread' \in BOOLEAN
  BY <1>2 DEF KeyInv, DiskTypes, KeysKnown
<1>13. cleared' \in BOOLEAN /\ (cleared => cleared')
  BY <1>1
<1>14. /\ e.flow.key \in Known' /\ (e.flow.key # NoKey => e.flow.at = "result")
       /\ e.unreadable \in Normal /\ e.unreadable.form # "plain" /\ e.unreadable.key \in Known'
       /\ e.out.key \in Normal /\ e.out.key.key \in Known'
  BY <1>4, <1>6, <1>8, WindowTypes DEF KeyInv, KeysKnown
<1> QED
  BY <1>2, <1>3, <1>4, <1>6, <1>7, <1>8, <1>10, <1>11, <1>12, <1>13, <1>14, WindowStep

\* A step of the sign-in that brings no key.
LEMMA KeylessFlow ==
  ASSUME KeyInv, NEW w \in Window, NEW f \in Flow, f.key = NoKey, win[w].flow.key = NoKey,
         FlowTo(w, f),
         UNCHANGED <<mac, env, file, tmp, keychain, made, gone, cleared, overlapped, unread>>
  PROVE  KeyInv'
<1> DEFINE x == [win[w] EXCEPT !.flow = f]
<1>1. /\ x \in Win /\ x.at = win[w].at /\ x.wizard = win[w].wizard /\ x.key = win[w].key
      /\ x.unreadable = win[w].unreadable /\ x.out = win[w].out /\ x.flow = f
  BY WindowTypes DEF Win
<1>2. win' = [win EXCEPT ![w] = x]
  BY WindowTypes DEF FlowTo
<1> HIDE DEF x
<1>3. PICK e \in Win : e = x
  BY <1>1
<1>4. win' = [win EXCEPT ![w] = e] /\ win'[w] = e
  BY <1>2, <1>3, WinFields DEF KeyInv, DiskTypes
<1>5. (Alive(w)' => Alive(w)) /\ \A k \in Live' : InHand(w, k) => InHand(w, k)'
  <2>1. \A k \in Live' : k # NoKey
    BY WindowTypes DEF Live
  <2> QED
    BY <1>1, <1>3, <1>4, <2>1 DEF Alive, InHand
<1>6. Filled(e) => Filled(win[w])
  BY <1>1, <1>3 DEF Filled
<1>7. gone' \subseteq Key
  BY DEF KeyInv, DiskTypes
<1> QED
  BY <1>1, <1>3, <1>4, <1>5, <1>6, <1>7, AlikeStep

LEMMA FlowForms ==
  /\ NoFlow \in Flow /\ NoFlow.key = NoKey
  /\ \A s \in {"browser", "exchange", "create"} :
       [NoFlow EXCEPT !.at = s] \in Flow /\ [NoFlow EXCEPT !.at = s].key = NoKey
  /\ \A k \in KeyOrNone : /\ Result(k) \in Flow /\ Result(k).at = "result" /\ Result(k).key = k
  /\ Result(NoKey) \in Flow /\ Result(NoKey).key = NoKey
  BY DEF NoFlow, Flow, Result, KeyOrNone

LEMMA FlowStepsKeep ==
  ASSUME KeyInv, NEW w \in Window, start(w) \/ wait_for_callback(w) \/ exchange(w)
  PROVE  KeyInv'
<1>1. UNCHANGED <<mac, env, file, tmp, keychain, made, gone, cleared, overlapped, unread>>
  BY DEF start, wait_for_callback, exchange, flowOnly, winOnly, fixed, diskVars, ghosts
<1>2. win[w].flow.at # "result"
  BY DEF start, wait_for_callback, exchange, FlowAt
<1>3. PICK f \in Flow : f.key = NoKey /\ FlowTo(w, f)
  BY FlowForms DEF start, wait_for_callback, exchange
<1> QED
  BY <1>1, <1>2, <1>3, KeylessFlow, WindowTypes

\* The server's new key is nowhere on this computer yet but in the sign-in's hand.
LEMMA CreateKeeps == ASSUME KeyInv, NEW w \in Window, create_api_key(w) PROVE KeyInv'
<1>1. /\ Alive(w) /\ win[w].flow.at = "create"
      /\ UNCHANGED <<mac, env, file, tmp, keychain, cleared, overlapped, unread>>
  BY DEF create_api_key, FlowAt, winOnly, fixed, diskVars
<1>2. win[w].flow.key = NoKey
  BY <1>1, WindowTypes
<1>3. CASE FlowTo(w, Result(NoKey)) /\ UNCHANGED <<made, gone>>
  BY <1>1, <1>2, <1>3, FlowForms, KeylessFlow
<1>4. CASE \E k \in Key \ (Pasted \cup made) :
             /\ made' = made \cup {k}
             /\ \/ FlowTo(w, Result(k)) /\ UNCHANGED gone
                \/ FlowTo(w, Result(NoKey)) /\ gone' = gone \cup {k}
  <2>1. PICK k \in Key \ (Pasted \cup made) :
          /\ made' = made \cup {k}
          /\ \/ FlowTo(w, Result(k)) /\ UNCHANGED gone
             \/ FlowTo(w, Result(NoKey)) /\ gone' = gone \cup {k}
    BY <1>4
  <2>2. k \in KeyOrNone /\ k # NoKey
    BY KeyAssumption DEF KeyOrNone
  <2>3. PICK f \in Flow : /\ FlowTo(w, f) /\ f.key \in {k, NoKey}
                          /\ f.key # NoKey => f.at = "result"
                          /\ f.key = k \/ k \in gone'
    BY <2>1, <2>2, FlowForms
  <2> DEFINE x == [win[w] EXCEPT !.flow = f]
  <2>4. /\ x \in Win /\ x.at = win[w].at /\ x.wizard = win[w].wizard /\ x.key = win[w].key
        /\ x.unreadable = win[w].unreadable /\ x.out = win[w].out /\ x.flow = f
    BY WindowTypes DEF Win
  <2>5. win' = [win EXCEPT ![w] = x]
    BY <2>3, WindowTypes DEF FlowTo
  <2> HIDE DEF x
  <2>6. PICK e \in Win, c \in Win : e = x /\ c = win[w]
    BY <2>4, WindowTypes
  <2>7. win' = [win EXCEPT ![w] = e] /\ win'[w] = e
    BY <2>5, <2>6, WinFields DEF KeyInv, DiskTypes
  <2>8. Known' = Known \cup {k} /\ k \in Known'
    BY <2>1 DEF Known
  <2>9. ~Holds(k)
    <3>1. k \notin Known
      BY <2>2 DEF Known
    <3> QED
      BY <3>1 DEF KeyInv, KeysKnown, Holds
  <2>10. \A q \in Live' : q \in Live \/ q = k
    BY <2>1 DEF Live
  <2>11. ~overlapped => WindowKeeps(e)'
    <3>1. ~overlapped => WindowKeeps(c)
      BY <2>6, WindowTypes
    <3>2. Filled(e) => Filled(c)
      BY <2>4, <2>6 DEF Filled
    <3> QED
      BY <1>1, <2>4, <2>6, <2>9, <2>10, <3>1, <3>2, KeepsAlike
  <2>12. Alive(w)'
    BY <1>1, <2>4, <2>6, <2>7 DEF Alive
  <2>13. \A q \in Live' : q \notin Live \/ InHand(w, q) => Holds(q) \/ InHand(w, q)'
    <3>1. ASSUME NEW q \in Live', q \notin Live PROVE InHand(w, q)'
      <4>1. q = k /\ k \notin gone'
        BY <2>10, <3>1 DEF Live
      <4> QED
        BY <2>3, <2>4, <2>6, <2>7, <4>1 DEF InHand
    <3>2. ASSUME NEW q \in Live, InHand(w, q) PROVE InHand(w, q)'
      <4>1. q # NoKey
        BY <3>2, WindowTypes
      <4> QED
        BY <1>2, <2>4, <2>6, <2>7, <3>2, <4>1 DEF InHand
    <3> QED
      BY <3>1, <3>2
  <2>14. /\ made' \subseteq Key /\ gone' \subseteq Key /\ made' \cap Pasted = {} /\ made \subseteq made'
    BY <2>1 DEF KeyInv, DiskTypes, KeysKnown
  <2>15. cleared' \in BOOLEAN /\ overlapped' \in BOOLEAN /\ unread' \in BOOLEAN
    BY <1>1 DEF KeyInv, DiskTypes
  <2>16. /\ e.key \in Known' /\ e.flow.key \in Known' /\ NoKey \in Known'
         /\ e.unreadable \in Normal /\ e.unreadable.form # "plain" /\ e.unreadable.key \in Known'
         /\ e.out.key \in Normal /\ e.out.key.key \in Known'
    <3>1. NoKey \in Known'
      BY DEF Known
    <3> QED
      BY <2>3, <2>4, <2>6, <2>8, <3>1, WindowTypes
  <2> QED
    BY <1>1, <2>3, <2>4, <2>6, <2>7, <2>9, <2>10, <2>11, <2>12, <2>13, <2>14, <2>15, <2>16,
       WindowStep
<1> QED
  BY <1>3, <1>4 DEF create_api_key

\* A sign-in's key takes the form's, and gives the earlier ones up.
LEMMA PollFlowKeeps == ASSUME KeyInv, NEW w \in Window, poll_flow(w) PROVE KeyInv'
<1>1. /\ win[w].at = "form" /\ Alive(w)
      /\ UNCHANGED <<mac, env, file, tmp, keychain, made, cleared, overlapped, unread>>
  BY DEF poll_flow, winOnly, fixed, diskVars, Alive
<1>2. CASE win[w].flow.key = NoKey
  <2>1. FlowTo(w, NoFlow) /\ UNCHANGED gone
    BY <1>2 DEF poll_flow
  <2> QED
    BY <1>1, <1>2, <2>1, FlowForms, KeylessFlow
<1>3. CASE win[w].flow.key # NoKey
  <2>1. win[w].flow.key \in Known /\ win[w].flow.key \in Key
    BY <1>3, WindowTypes DEF KeyInv, KeysKnown, KeyOrNone
  <2>2. PICK q \in Key : q = win[w].flow.key
    BY <2>1
  <2> DEFINE x == [win[w] EXCEPT !.flow = NoFlow, !.key = q, !.unreadable = Nothing,
                                 !.at = "seal", !.closes = FALSE]
  <2>3. /\ win' = [win EXCEPT ![w].flow = NoFlow, ![w].key = q, ![w].unreadable = Nothing,
                              ![w].at = "seal", ![w].closes = FALSE]
        /\ gone' = made \ {q}
    BY <1>3, <2>2 DEF poll_flow, persist_signed_in_key
  <2>4. /\ x \in Win /\ x.at = "seal" /\ x.key = q /\ x.unreadable = Nothing
        /\ x.out = win[w].out /\ x.flow = NoFlow
    <3>1. win[w] \in Win /\ Nothing \in Stored /\ NoFlow \in Flow /\ q \in KeyOrNone
      BY WindowTypes, FlowForms, StoredForms DEF KeyOrNone
    <3> QED
      BY <3>1 DEF Win
  <2>5. win' = [win EXCEPT ![w] = x]
    BY <2>3, WindowTypes
  <2>6. q \in Known /\ gone' = made \ {q} /\ Known' = Known
    BY <1>1, <2>1, <2>2, <2>3 DEF Known
  <2>7. \A v \in Live : InHand(w, v) => v = q \/ v = win[w].key
    BY <1>1, <2>2 DEF InHand
  <2> HIDE DEF x
  <2>8. PICK e \in Win : e = x
    BY <2>4
  <2>9. win' = [win EXCEPT ![w] = e] /\ win'[w] = e
    BY <2>5, <2>8, WinFields DEF KeyInv, DiskTypes
  <2>10. Live' \subseteq {q} /\ (q \in Live' => q \notin Pasted)
    BY <1>1, <2>6 DEF Live, KeyInv, KeysKnown
  <2>11. ToStore(e) = IF q = env THEN file.key ELSE Plain(q)
    <3>1. q # NoKey /\ Nothing \in Normal /\ Nothing.form # "plain"
      BY KeyAssumption, StoredForms
    <3> QED
      BY <2>4, <2>8, <3>1, ToStoreIs, WindowTypes
  <2>12. WindowKeeps(e)'
    <3>1. ToStore(e)' = ToStore(e)
      BY <1>1 DEF ToStore, FromEnv, key_to_persist
    <3>2. Plain(q).key = q /\ Plain(q) # Marker /\ Plain(q) # Nothing
      BY StoredForms
    <3>3. \A v \in Live' : v = q /\ v # env
      BY <2>6, <2>10, KeyAssumption DEF KeyInv, KeysKnown
    <3>4. \A v \in Live' : StoredHolds(ToStore(e), v)'
      BY <2>11, <3>1, <3>2, <3>3 DEF StoredHolds
    <3>5. file.key # Nothing => ToStore(e) # Nothing
      BY <2>11, <3>2
    <3> QED
      BY <1>1, <2>4, <2>8, <3>1, <3>4, <3>5 DEF WindowKeeps
  <2>13. Alive(w)' /\ \A v \in Live' : InHand(w, v)'
    BY <2>4, <2>8, <2>9, <2>10 DEF Alive, InHand
  <2>14. /\ made' \subseteq Key /\ gone' \subseteq Key /\ made' \cap Pasted = {}
         /\ cleared' \in BOOLEAN /\ overlapped' \in BOOLEAN /\ unread' \in BOOLEAN
    BY <1>1, <2>6 DEF KeyInv, DiskTypes, KeysKnown
  <2>15. /\ e.key \in Known' /\ e.flow.key = NoKey /\ NoKey \in Known'
         /\ e.unreadable \in Normal /\ e.unreadable.form # "plain" /\ e.unreadable.key \in Known'
         /\ e.out.key \in Normal /\ e.out.key.key \in Known'
    <3>1. NoKey \in Known'
      BY DEF Known
    <3> QED
      BY <2>4, <2>6, <2>8, <3>1, WindowTypes, FlowForms, StoredForms
  <2> QED
    BY <1>1, <2>9, <2>12, <2>13, <2>14, <2>15, WindowStep
<1> QED
  BY <1>2, <1>3

LEMMA SaveBeginsKeeps ==
  ASSUME KeyInv, NEW w \in Window, save_config(w) \/ show_done(w)
  PROVE  KeyInv'
<1>1. /\ win[w].at = "form" /\ Alive(w) /\ (win[w].wizard => win[w].key # NoKey)
      /\ UNCHANGED <<mac, env, file, tmp, keychain, made, gone, cleared, overlapped, unread>>
  BY DEF save_config, show_done, can_proceed, flowOnly, winOnly, fixed, diskVars, ghosts, Alive
<1> DEFINE x == [win[w] EXCEPT !.at = "seal", !.closes = TRUE]
<1>2. /\ x \in Win /\ x.at = "seal" /\ x.key = win[w].key
      /\ x.unreadable = win[w].unreadable /\ x.out = win[w].out /\ x.flow = win[w].flow
  BY WindowTypes DEF Win
<1>3. win' = [win EXCEPT ![w] = x]
  BY WindowTypes DEF save_config, show_done
<1> HIDE DEF x
<1>4. PICK e \in Win : e = x
  BY <1>2
<1>5. win' = [win EXCEPT ![w] = e] /\ win'[w] = e
  BY <1>3, <1>4, WinFields DEF KeyInv, DiskTypes
<1>6. Alive(w)' /\ \A k \in Live' : InHand(w, k) => InHand(w, k)'
  BY <1>1, <1>2, <1>4, <1>5 DEF Alive, InHand
<1>7. Filled(win[w]) /\ (e.flow.key # NoKey => e.flow.at = "result")
  BY <1>1, <1>2, <1>4, WindowTypes DEF Filled
<1>8. gone' \subseteq Key
  BY <1>1 DEF KeyInv, DiskTypes
<1> QED
  BY <1>1, <1>2, <1>4, <1>5, <1>6, <1>7, <1>8, AlikeStep

\* The form, and the disk, are as they were before the save.
LEMMA SaveFailsKeeps == ASSUME KeyInv, NEW w \in Window, save_fails(w) PROVE KeyInv'
<1>1. /\ win[w].at \in {"seal", "write", "rename"} /\ Alive(w)
      /\ gone' = gone \cup (made \cap {win[w].key})
      /\ UNCHANGED <<mac, env, file, tmp, keychain, made, cleared, overlapped, unread>>
  BY DEF save_fails, saveOnly, fixed, diskVars, Alive
<1>2. PICK a \in {"closing", "form"} : win' = [win EXCEPT ![w].at = a]
  BY DEF save_fails
<1> DEFINE x == [win[w] EXCEPT !.at = a]
<1>3. /\ x \in Win /\ x.at = a /\ x.key = win[w].key
      /\ x.unreadable = win[w].unreadable /\ x.out = win[w].out /\ x.flow = win[w].flow
  BY WindowTypes DEF Win
<1>4. win' = [win EXCEPT ![w] = x]
  BY <1>2, WindowTypes
<1> HIDE DEF x
<1>5. PICK e \in Win : e = x
  BY <1>3
<1>6. win' = [win EXCEPT ![w] = e] /\ win'[w] = e
  BY <1>4, <1>5, WinFields DEF KeyInv, DiskTypes
<1>7. \A k \in Live' : InHand(w, k) => InHand(w, k)'
  BY <1>1, <1>3, <1>5, <1>6 DEF InHand, Live
<1>8. Alive(w)' /\ Filled(win[w]) /\ e.at \notin {"write", "rename"}
  BY <1>1, <1>3, <1>5, <1>6 DEF Alive, Filled
<1>9. gone' \subseteq Key /\ (e.flow.key # NoKey => e.flow.at = "result")
  BY <1>1, <1>3, <1>5, WindowTypes DEF KeyInv, DiskTypes
<1> QED
  BY <1>1, <1>3, <1>5, <1>6, <1>7, <1>8, <1>9, AlikeStep

\* A window ends with no live key in its hand.
LEMMA EndedKeeps ==
  ASSUME KeyInv, NEW w \in Window, NEW c \in Win, win' = [win EXCEPT ![w] = c],
         c.at \in {"none", "exited"}, c.key = NoKey, c.unreadable = Nothing,
         c.out.key = Nothing, c.flow.key = NoKey,
         UNCHANGED <<mac, env, file, tmp, keychain, made, cleared, overlapped, unread>>,
         gone \subseteq gone', gone' \subseteq Key,
         \A k \in Live' : ~InHand(w, k)
  PROVE  KeyInv'
<1>1. Live' \subseteq Live /\ Known' = Known
  BY DEF Live, Known
<1>2. ~Alive(w)'
  <2>1. win'[w] = c
    BY WinFields DEF KeyInv, DiskTypes
  <2> QED
    BY <2>1 DEF Alive
<1>3. WindowKeeps(c)'
  BY DEF WindowKeeps, Filled
<1>4. made' \subseteq Key /\ made' \cap Pasted = {}
      /\ cleared' \in BOOLEAN /\ overlapped' \in BOOLEAN /\ unread' \in BOOLEAN
  BY DEF KeyInv, DiskTypes, KeysKnown
<1>5. NoKey \in Known' /\ Nothing \in Normal /\ Nothing.form # "plain" /\ Nothing.key = NoKey
  BY StoredForms DEF Known
<1> QED
  BY <1>1, <1>2, <1>3, <1>4, <1>5, WindowStep

LEMMA EndKeeps == ASSUME KeyInv, NEW w \in Window, Close(w) \/ Crash(w) PROVE KeyInv'
<1>1. UNCHANGED <<mac, env, file, tmp, keychain, made, cleared, overlapped, unread>>
  BY DEF Close, Crash, exitOnly, fixed, diskVars
<1>2. PICK c \in {NoWin, [NoWin EXCEPT !.at = "exited"]} : win' = [win EXCEPT ![w] = c]
  BY DEF Close, Crash, Ended
<1>3. /\ c \in Win /\ c.at \in {"none", "exited"} /\ c.key = NoKey /\ c.unreadable = Nothing
      /\ c.out.key = Nothing /\ c.flow.key = NoKey
  BY NoWinFields DEF Win
<1>4. gone \subseteq gone' /\ gone' \subseteq Key
  <2>1. gone \subseteq Key /\ made \subseteq Key
    BY DEF KeyInv, DiskTypes
  <2> QED
    BY <2>1 DEF Close, Crash
<1>5. \A k \in Live' : ~InHand(w, k)
  <2>1. CASE Close(w)
    BY <1>1, <2>1 DEF Close, InHand, Live
  <2>2. CASE Crash(w)
    BY <1>1, <2>2 DEF Crash, InHand, Live
  <2> QED
    BY <2>1, <2>2
<1> QED
  BY <1>1, <1>2, <1>3, <1>4, <1>5, EndedKeeps

LEMMA WaiterKeeps == ASSUME KeyInv, NEW w \in Window, WaiterLoads(w) \/ WaiterEnds(w) PROVE KeyInv'
<1>1. /\ win[w].at \in {"exited", "sent"} /\ ~Alive(w)
      /\ UNCHANGED <<mac, env, file, tmp, keychain, made, gone, cleared, overlapped, unread>>
  BY DEF WaiterLoads, WaiterEnds, fixed, diskVars, ghosts, Alive
<1>2. win[w].flow.key = NoKey
  BY <1>1, WindowTypes
<1>3. \A k \in Live : ~InHand(w, k)
  BY <1>1, <1>2, WindowTypes DEF InHand
<1>4. gone' \subseteq Key /\ Live' = Live
  BY <1>1 DEF KeyInv, DiskTypes, Live
<1>5. CASE WaiterLoads(w)
  <2> DEFINE x == [win[w] EXCEPT !.at = "sent"]
  <2>1. /\ x \in Win /\ x.at = "sent" /\ x.key = win[w].key
        /\ x.unreadable = win[w].unreadable /\ x.out = win[w].out /\ x.flow = win[w].flow
    BY WindowTypes DEF Win
  <2>2. win' = [win EXCEPT ![w] = x]
    BY <1>5, WindowTypes DEF WaiterLoads
  <2> HIDE DEF x
  <2>3. PICK e \in Win : e = x
    BY <2>1
  <2>4. win' = [win EXCEPT ![w] = e] /\ win'[w] = e
    BY <2>2, <2>3, WinFields DEF KeyInv, DiskTypes
  <2>5. ~Alive(w)' /\ ~Filled(e)
    BY <2>1, <2>3, <2>4 DEF Alive, Filled
  <2> QED
    BY <1>1, <1>2, <1>3, <1>4, <2>1, <2>3, <2>4, <2>5, AlikeStep
<1>6. CASE WaiterEnds(w)
  <2>1. win' = [win EXCEPT ![w] = NoWin]
    BY <1>6 DEF WaiterEnds
  <2> QED
    BY <1>1, <1>3, <1>4, <2>1, NoWinFields, EndedKeeps
<1> QED
  BY <1>5, <1>6

\* What has been sealed stands for the same key.
LEMMA SealedHolds ==
  ASSUME NEW s \in Normal, NEW o \in Normal, SealedAs(s, o)
  PROVE  /\ \A k : StoredHolds(s, k) <=> StoredHolds(o, k)
         /\ s = Nothing <=> o = Nothing
<1>1. CASE s.form = "plain"
  <2>1. s.key \in Key /\ s = Plain(s.key) /\ s # Marker /\ s # Nothing
    BY <1>1, StoredForms
  <2>2. /\ Blob(s.key) # Marker /\ Blob(s.key) # Nothing /\ Blob(s.key).key = s.key
        /\ Marker # Nothing
    BY <2>1, StoredForms
  <2> QED
    BY <1>1, <2>1, <2>2 DEF SealedAs, StoredHolds
<1>2. CASE s.form # "plain"
  BY <1>2 DEF SealedAs
<1> QED
  BY <1>1, <1>2

LEMMA ToStoreTypes ==
  ASSUME KeyInv, NEW w \in Window, NEW c \in Win, c = win[w]
  PROVE  /\ ToStore(c) = IF c.key = NoKey THEN c.unreadable
                         ELSE IF c.key = env THEN file.key ELSE Plain(c.key)
         /\ ToStore(c) \in Normal /\ ToStore(c).key \in Known
         /\ \A k \in Live : c.key = k => ToStore(c) = Plain(k) /\ StoredHolds(ToStore(c), k)
<1>1. ToStore(c) = IF c.key = NoKey THEN c.unreadable
                   ELSE IF c.key = env THEN file.key ELSE Plain(c.key)
  BY ToStoreIs, WindowTypes
<1>2. /\ c.key \in Known /\ c.unreadable \in Normal /\ c.unreadable.key \in Known
      /\ Known \subseteq KeyOrNone
  BY WindowTypes
<1>3. file.key \in Normal /\ file.key.key \in Known /\ env \in Pasted \cup {NoKey}
  BY DEF KeyInv, KeysKnown
<1>4. c.key # NoKey => Plain(c.key) \in Normal /\ Plain(c.key).key = c.key
  BY <1>2, StoredForms DEF KeyOrNone
<1>5. ASSUME NEW k \in Live, c.key = k
      PROVE  ToStore(c) = Plain(k) /\ StoredHolds(ToStore(c), k)
  <2>1. k \in Key /\ k # NoKey /\ k # env
    BY <1>3, WindowTypes
  <2>2. Plain(k).key = k /\ Plain(k) # Marker
    BY <2>1, StoredForms
  <2> QED
    BY <1>1, <1>5, <2>1, <2>2 DEF StoredHolds
<1> QED
  BY <1>1, <1>2, <1>3, <1>4, <1>5

\* A step of a save, which holds on to what the disk and the window hold.
LEMMA SavingStep ==
  ASSUME KeyInv, NEW w \in Window, NEW c \in Win, win' = [win EXCEPT ![w] = c],
         Alive(w), Alive(w)',
         UNCHANGED <<mac, env, made, gone, cleared, overlapped, unread>>,
         file' \in File, file'.key \in Normal, file'.key.key \in Known,
         tmp' \in File, tmp' # NoFile => tmp'.key \in Normal /\ tmp'.key.key \in Known,
         keychain' \in Known,
         c.key = win[w].key, c.unreadable = win[w].unreadable, c.flow = win[w].flow,
         c.out.key \in Normal, c.out.key.key \in Known,
         ~overlapped =>
           /\ \A k \in Live : Holds(k) \/ InHand(w, k) => Holds(k)' \/ InHand(w, k)'
           /\ WindowKeeps(c)'
  PROVE  KeyInv'
<1>1. /\ win' \in [Window -> Win] /\ win'[w] = c
      /\ \A v \in Window \ {w} : win'[v] = win[v]
  BY WinFields DEF KeyInv, DiskTypes
<1>2. Known' = Known /\ Live' = Live
  BY DEF Known, Live
<1>3. DiskTypes'
  <2>1. keychain' \in KeyOrNone
    BY WindowTypes
  <2> QED
    BY <1>1, <2>1 DEF KeyInv, DiskTypes
<1>4. KeysKnown'
  <2>1. /\ c.key \in Known /\ c.flow.key \in Known /\ c.unreadable \in Normal
        /\ c.unreadable.form # "plain" /\ c.unreadable.key \in Known
    BY DEF KeyInv, KeysKnown
  <2> QED
    BY <1>1, <1>2, <2>1 DEF KeyInv, KeysKnown
<1>5. FlowsOk' /\ OneWindow'
  BY <1>1 DEF KeyInv, FlowsOk, OneWindow, Alive
<1>6. Keeps'
  <2> SUFFICES ASSUME ~overlapped PROVE Keeps'
    BY DEF Keeps
  <2>1. \A v \in Window \ {w} : ~Alive(v) /\ win'[v] = win[v]
    BY <1>1 DEF KeyInv, OneWindow
  <2>2. ASSUME NEW k \in Live PROVE (Holds(k) \/ \E v \in Window : InHand(v, k))'
    <3>1. \A v \in Window \ {w} : InHand(v, k) => InHand(v, k)'
      BY <2>1 DEF InHand
    <3>2. Holds(k) \/ \E v \in Window : InHand(v, k)
      BY <2>2 DEF KeyInv, Keeps
    <3> QED
      BY <2>2, <3>1, <3>2
  <2>3. \A v \in Window \ {w} : WindowKeeps(win[v])'
    BY <2>1 DEF WindowKeeps, Filled, Alive
  <2> QED
    BY <1>1, <1>2, <2>2, <2>3 DEF Keeps
<1> QED
  BY <1>3, <1>4, <1>5, <1>6 DEF KeyInv

\* The step of a save that takes the file to have no key.
Forgets(w) ==
  /\ stored_api_key_fails(win[w]) /\ UNCHANGED keychain
  /\ win' = [win EXCEPT ![w].at = "write", ![w].out = [url |-> win[w].url, key |-> Nothing]]

LEMMA SealKeeps ==
  ASSUME KeyInv, NEW w \in Window, seal_api_key(w), ~Forgets(w)
  PROVE  KeyInv'
<1>1. /\ win[w].at = "seal" /\ Alive(w)
      /\ UNCHANGED <<mac, env, file, tmp, made, gone, cleared, overlapped, unread>>
  BY DEF seal_api_key, Forgets, saveOnly, fixed, Alive
<1>2. PICK c \in Win : c = win[w]
  BY WindowTypes
<1>3. PICK s \in Normal : s = ToStore(c) /\ s.key \in Known
  BY <1>2, ToStoreTypes
<1>4. PICK o \in Normal :
        /\ win' = [win EXCEPT ![w].at = "write", ![w].out = [url |-> c.url, key |-> o]]
        /\ o.key \in Known
        /\ \/ UNCHANGED keychain
           \/ s.form = "plain" /\ keychain' = s.key
        /\ SealedAs(s, o)'
  <2> DEFINE Out(k) == win' = [win EXCEPT ![w].at = "write", ![w].out = [url |-> c.url, key |-> k]]
  <2>1. IF s.form # "plain" THEN Out(s) /\ UNCHANGED keychain
        ELSE IF mac THEN Out(Marker) /\ keychain' = s.key
        ELSE (Out(Blob(s.key)) \/ Out(s)) /\ UNCHANGED keychain
    BY <1>2, <1>3 DEF seal_api_key, Forgets
  <2> HIDE DEF Out
  <2>2. PICK o \in {s, Marker, Blob(s.key)} :
          /\ Out(o)
          /\ o = s \/ s.form = "plain"
          /\ UNCHANGED keychain \/ (s.form = "plain" /\ keychain' = s.key)
          /\ SealedAs(s, o)'
    <3>1. CASE Out(s) /\ UNCHANGED keychain
      BY <3>1 DEF SealedAs
    <3>2. CASE Out(Marker) /\ s.form = "plain" /\ keychain' = s.key
      BY <3>2 DEF SealedAs
    <3>3. CASE Out(Blob(s.key)) /\ s.form = "plain" /\ UNCHANGED keychain
      BY <3>3 DEF SealedAs
    <3> QED
      BY <2>1, <3>1, <3>2, <3>3
  <2>3. /\ NoKey \in Known /\ Marker \in Normal /\ Marker.key = NoKey
        /\ (s.form = "plain" => Blob(s.key) \in Normal /\ Blob(s.key).key = s.key)
    BY StoredForms DEF Known
  <2>4. o \in Normal /\ o.key \in Known
    BY <1>3, <2>2, <2>3
  <2> QED
    BY <2>2, <2>4 DEF Out
<1> DEFINE x == [win[w] EXCEPT !.at = "write", !.out = [url |-> c.url, key |-> o]]
<1>5. /\ x \in Win /\ x.at = "write" /\ x.key = c.key /\ x.wizard = c.wizard
      /\ x.unreadable = c.unreadable /\ x.flow = c.flow /\ x.out.key = o
  <2>1. o \in Stored
    BY StoredForms
  <2> QED
    BY <1>2, <2>1 DEF Win, File
<1>6. win' = [win EXCEPT ![w] = x]
  BY <1>4, WindowTypes
<1> HIDE DEF x
<1>7. PICK e \in Win : e = x
  BY <1>5
<1>8. win' = [win EXCEPT ![w] = e] /\ win'[w] = e
  BY <1>6, <1>7, WinFields DEF KeyInv, DiskTypes
<1>9. Alive(w)'
  BY <1>5, <1>7, <1>8 DEF Alive
<1>10. /\ keychain' \in Known /\ file' \in File /\ file'.key \in Normal
       /\ file'.key.key \in Known /\ tmp' \in File
       /\ tmp' # NoFile => tmp'.key \in Normal /\ tmp'.key.key \in Known
  BY <1>1, <1>3, <1>4 DEF KeyInv, DiskTypes, KeysKnown
<1>11. ASSUME ~overlapped
       PROVE  /\ \A k \in Live : Holds(k) \/ InHand(w, k) => Holds(k)' \/ InHand(w, k)'
              /\ WindowKeeps(e)'
  <2>1. /\ \A k \in Live : Holds(k) => StoredHolds(s, k)
        /\ file.key # Nothing /\ ~cleared => s # Nothing
    BY <1>1, <1>2, <1>3, <1>11, WindowTypes DEF WindowKeeps, Filled
  <2>2. s.form = "plain" => s # Marker
    BY StoredForms
  <2>3. \A k \in Live : Holds(k) => Holds(k)'
    BY <1>1, <1>4, <2>1, <2>2 DEF Holds, StoredHolds
  <2>4. \A k \in Live : InHand(w, k) => InHand(w, k)'
    BY <1>1, <1>2, <1>5, <1>7, <1>8 DEF InHand
  <2>5. ToStore(e)' = s
    BY <1>1, <1>3, <1>5, <1>7 DEF ToStore, FromEnv, key_to_persist
  <2>6. \A k \in Live : Holds(k)' => StoredHolds(s, k)'
    BY <1>1, <1>4, <2>1, <2>2 DEF Holds, StoredHolds
  <2>7. Live' = Live
    BY <1>1 DEF Live
  <2>8. WindowKeeps(e)'
    BY <1>1, <1>4, <1>5, <1>7, <2>1, <2>5, <2>6, <2>7 DEF WindowKeeps
  <2> QED
    BY <2>3, <2>4, <2>8
<1> QED
  BY <1>1, <1>2, <1>4, <1>5, <1>7, <1>8, <1>9, <1>10, <1>11, SavingStep

LEMMA SealFailsKeeps ==
  ASSUME KeyInv, NEW w \in Window, seal_api_key(w), Forgets(w)
  PROVE  KeyInv'
<1>1. /\ win[w].at = "seal" /\ Alive(w) /\ FromEnv(win[w]) /\ unread' /\ gone' = made
      /\ UNCHANGED <<mac, env, file, tmp, made, cleared, overlapped>>
  BY DEF seal_api_key, Forgets, stored_api_key_fails, saveOnly, fixed, Alive
<1>2. PICK c \in Win : c = win[w]
  BY WindowTypes
<1> DEFINE o == [url |-> c.url, key |-> Nothing]
           x == [win[w] EXCEPT !.at = "write", !.out = o]
<1>3. /\ UNCHANGED keychain
      /\ win' = [win EXCEPT ![w].at = "write", ![w].out = o]
  BY <1>2 DEF Forgets
<1>4. /\ Nothing \in Normal /\ Nothing.key = NoKey /\ NoKey \in Known
      /\ o \in File /\ o.key = Nothing
  BY <1>2, StoredForms DEF Known, Win, File
<1>5. /\ x \in Win /\ x.at = "write" /\ x.key = c.key /\ x.wizard = c.wizard
      /\ x.unreadable = c.unreadable /\ x.flow = c.flow /\ x.out = o
  BY <1>2, <1>4 DEF Win
<1>6. win' = [win EXCEPT ![w] = x]
  BY <1>3, WindowTypes
<1> HIDE DEF x, o
<1>7. PICK e \in Win : e = x
  BY <1>5
<1>8. win' = [win EXCEPT ![w] = e] /\ win'[w] = e
  BY <1>6, <1>7, WinFields DEF KeyInv, DiskTypes
<1>9. Alive(w)' /\ Live' = {} /\ Known' = Known
  BY <1>1, <1>5, <1>7, <1>8 DEF Alive, Live, Known
<1>10. c.key = env /\ env \in Pasted
  <2>1. c.key \in KeyOrNone /\ c.unreadable \in Normal /\ c.unreadable.form # "plain"
    BY <1>2, WindowTypes
  <2>2. env \in Pasted /\ key_to_persist(c) = Plain(env)
    BY <1>1, <1>2 DEF FromEnv, KeyInv, KeysKnown
  <2>3. Plain(env).form = "plain" /\ Plain(env).key = env /\ env \in Key
    BY <2>2, StoredForms, KeyAssumption
  <2> QED
    BY <2>1, <2>2, <2>3, StoredForms DEF key_to_persist, Plain
<1>11. WindowKeeps(e)'
  <2>1. ToStore(e)' = file'.key
    BY <1>1, <1>2, <1>5, <1>7 DEF ToStore, FromEnv, key_to_persist
  <2>2. Emptied(e, e.out.key)'
    BY <1>1, <1>4, <1>5, <1>7, <1>9, <1>10 DEF Emptied
  <2> QED
    BY <1>5, <1>7, <1>9, <2>1, <2>2 DEF WindowKeeps
<1>12. unread' \in BOOLEAN /\ cleared' \in BOOLEAN /\ overlapped' \in BOOLEAN
  <2>1. cleared' \in BOOLEAN /\ overlapped' \in BOOLEAN
    BY <1>1 DEF KeyInv, DiskTypes
  <2>2. unread' = TRUE
    BY DEF Forgets, stored_api_key_fails
  <2> QED
    BY <2>1, <2>2
<1>13. /\ made' \subseteq Key /\ gone' \subseteq Key /\ made \subseteq made'
       /\ made' \cap Pasted = {}
  BY <1>1 DEF KeyInv, DiskTypes, KeysKnown
<1>14. /\ e.key \in Known' /\ e.flow.key \in Known' /\ e.unreadable \in Normal
       /\ e.unreadable.form # "plain" /\ e.unreadable.key \in Known'
       /\ e.out.key \in Normal /\ e.out.key.key \in Known'
       /\ e.flow.key # NoKey => e.flow.at = "result" /\ Alive(w)'
  <2>1. c.flow.key \in Known
    BY <1>2 DEF KeyInv, KeysKnown
  <2> QED
    BY <1>2, <1>4, <1>5, <1>7, <1>9, <2>1, WindowTypes
<1> QED
  BY <1>1, <1>3, <1>8, <1>9, <1>11, <1>12, <1>13, <1>14, WindowStep

LEMMA WriteKeeps == ASSUME KeyInv, NEW w \in Window, write_tmp(w) PROVE KeyInv'
<1>1. /\ win[w].at = "write" /\ Alive(w) /\ tmp' = win[w].out
      /\ win' = [win EXCEPT ![w].at = "rename", ![w].out = Empty]
      /\ UNCHANGED <<mac, env, file, keychain, made, gone, cleared, overlapped, unread>>
  BY DEF write_tmp, saveOnly, fixed, Alive
<1>2. PICK c \in Win : c = win[w]
  BY WindowTypes
<1> DEFINE x == [win[w] EXCEPT !.at = "rename", !.out = Empty]
<1>3. Empty \in File /\ Empty.key = Nothing /\ Nothing \in Normal /\ Nothing.key = NoKey
  BY StoredForms DEF Empty, File, UrlOrNone
<1>4. /\ x \in Win /\ x.at = "rename" /\ x.key = c.key /\ x.wizard = c.wizard
      /\ x.unreadable = c.unreadable /\ x.flow = c.flow /\ x.out.key = Nothing
  BY <1>2, <1>3 DEF Win
<1>5. win' = [win EXCEPT ![w] = x]
  BY <1>1, WindowTypes
<1> HIDE DEF x
<1>6. PICK e \in Win : e = x
  BY <1>4
<1>7. win' = [win EXCEPT ![w] = e] /\ win'[w] = e
  BY <1>5, <1>6, WinFields DEF KeyInv, DiskTypes
<1>8. Alive(w)'
  BY <1>4, <1>6, <1>7 DEF Alive
<1>9. /\ tmp' = c.out /\ tmp' \in File /\ tmp' # NoFile
      /\ tmp'.key \in Normal /\ tmp'.key.key \in Known
  <2>1. c.out \in File /\ c.out.key \in Normal /\ c.out.key.key \in Known
    BY <1>2, WindowTypes DEF Win
  <2> QED
    BY <1>1, <1>2, <2>1, NoFileIsNone
<1>10. /\ keychain' \in Known /\ file' \in File /\ file'.key \in Normal
       /\ file'.key.key \in Known /\ NoKey \in Known
  BY <1>1 DEF KeyInv, DiskTypes, KeysKnown, Known
<1>11. ASSUME ~overlapped
       PROVE  /\ \A k \in Live : Holds(k) \/ InHand(w, k) => Holds(k)' \/ InHand(w, k)'
              /\ WindowKeeps(e)'
  <2>1. WindowKeeps(c) /\ Filled(c)
    BY <1>1, <1>2, <1>11, WindowTypes DEF Filled
  <2>2. \A k \in Live : (Holds(k) => Holds(k)') /\ (InHand(w, k) => InHand(w, k)')
    BY <1>1, <1>2, <1>4, <1>6, <1>7 DEF Holds, InHand
  <2>3. ToStore(e)' = ToStore(c)
    BY <1>1, <1>4, <1>6 DEF ToStore, FromEnv, key_to_persist
  <2>4. \A k : Holds(k)' = Holds(k) /\ StoredHolds(ToStore(e), k)' = StoredHolds(ToStore(c), k)
    BY <1>1, <2>3 DEF Holds, StoredHolds
  <2>5. SealedAs(ToStore(c), c.out.key) \/ Emptied(c, c.out.key)
    BY <1>1, <1>2, <2>1 DEF WindowKeeps
  <2>7. Live' = Live
    BY <1>1 DEF Live
  <2>6. (SealedAs(ToStore(e), tmp.key) \/ Emptied(e, tmp.key))'
    BY <1>1, <1>4, <1>6, <1>9, <2>3, <2>4, <2>5, <2>7 DEF SealedAs, Emptied
  <2>8. WindowKeeps(e)'
    BY <1>1, <1>4, <1>6, <1>9, <2>1, <2>3, <2>4, <2>6, <2>7 DEF WindowKeeps
  <2> QED
    BY <2>2, <2>8
<1> QED
  BY <1>1, <1>2, <1>3, <1>4, <1>6, <1>7, <1>8, <1>9, <1>10, <1>11, SavingStep

\* The file holds from now on what the window has stored.
LEMMA RenameKeeps == ASSUME KeyInv, NEW w \in Window, rename_tmp(w) PROVE KeyInv'
<1>1. /\ win[w].at = "rename" /\ Alive(w) /\ tmp # NoFile /\ file' = tmp /\ tmp' = NoFile
      /\ UNCHANGED <<mac, env, keychain, made, gone, cleared, overlapped, unread>>
  BY DEF rename_tmp, saveOnly, fixed, Alive
<1>2. PICK a \in {"closing", "form"} : win' = [win EXCEPT ![w].at = a]
  BY DEF rename_tmp
<1>3. PICK c \in Win : c = win[w]
  BY WindowTypes
<1> DEFINE x == [win[w] EXCEPT !.at = a]
<1>4. /\ x \in Win /\ x.at = a /\ x.key = c.key /\ x.wizard = c.wizard
      /\ x.unreadable = c.unreadable /\ x.flow = c.flow /\ x.out = c.out
  BY <1>3 DEF Win
<1>5. win' = [win EXCEPT ![w] = x]
  BY <1>2, WindowTypes
<1> HIDE DEF x
<1>6. PICK e \in Win : e = x
  BY <1>4
<1>7. win' = [win EXCEPT ![w] = e] /\ win'[w] = e
  BY <1>5, <1>6, WinFields DEF KeyInv, DiskTypes
<1>8. Alive(w)'
  BY <1>4, <1>6, <1>7 DEF Alive
<1>9. /\ tmp \in File /\ tmp.key \in Normal /\ tmp.key.key \in Known /\ keychain \in Known
      /\ tmp' \in File /\ c.out.key \in Normal /\ c.out.key.key \in Known
  <2>1. NoFile \in File
    BY DEF NoFile, File, UrlOrNone, Blob, Stored, KeyOrNone
  <2> QED
    BY <1>1, <1>3, <2>1 DEF KeyInv, DiskTypes, KeysKnown
<1>11. ASSUME Emptied(c, tmp.key)
       PROVE  /\ \A k \in Live : Holds(k) \/ InHand(w, k) => Holds(k)' \/ InHand(w, k)'
              /\ WindowKeeps(e)'
  <2>1. tmp.key = Nothing /\ c.key \in Pasted /\ \A k \in Live : ~Holds(k)
    BY <1>11 DEF Emptied
  <2>2. Live' = Live /\ \A k \in Live : k # NoKey /\ k \notin Pasted
    BY <1>1, WindowTypes DEF Live
  <2>3. Nothing # Marker /\ Nothing.key = NoKey
    BY StoredForms
  <2>4. \A k \in Live : ~Holds(k)'
    BY <1>1, <2>1, <2>2, <2>3 DEF Holds
  <2>5. \A k \in Live : InHand(w, k) => InHand(w, k)'
    BY <1>3, <1>4, <1>6, <1>7, <2>1, <2>2 DEF InHand
  <2>6. WindowKeeps(e)'
    BY <1>1, <1>4, <1>6, <2>1, <2>2, <2>4 DEF WindowKeeps
  <2> QED
    BY <2>1, <2>5, <2>6
<1>10. ASSUME ~overlapped
       PROVE  /\ \A k \in Live : Holds(k) \/ InHand(w, k) => Holds(k)' \/ InHand(w, k)'
              /\ WindowKeeps(e)'
  <2>1. PICK s \in Normal : s = ToStore(c)
    BY <1>3, ToStoreTypes
  <2> SUFFICES ASSUME ~Emptied(c, tmp.key)
               PROVE  /\ \A k \in Live : Holds(k) \/ InHand(w, k) => Holds(k)' \/ InHand(w, k)'
                      /\ WindowKeeps(e)'
    BY <1>11, <1>10
  <2>2. /\ \A k \in Live : Holds(k) => StoredHolds(s, k)
        /\ SealedAs(s, tmp.key)
    BY <1>1, <1>3, <1>10, <2>1, WindowTypes DEF WindowKeeps, Filled
  <2>3. /\ \A k : StoredHolds(s, k) <=> StoredHolds(tmp.key, k)
        /\ s = Nothing <=> tmp.key = Nothing
    BY <1>9, <2>2, SealedHolds
  <2>4. \A k : /\ Holds(k)' <=> StoredHolds(tmp.key, k)
               /\ StoredHolds(s, k)' <=> StoredHolds(s, k)
    BY <1>1 DEF Holds, StoredHolds
  <2>5. ASSUME NEW k \in Live, Holds(k) \/ InHand(w, k) PROVE Holds(k)' \/ InHand(w, k)'
    <3>1. CASE Holds(k)
      BY <2>2, <2>3, <2>4, <3>1
    <3>2. CASE c.flow.key = k
      BY <1>4, <1>6, <1>7, <3>2 DEF InHand
    <3>3. CASE c.key = k
      BY <1>3, <2>1, <2>3, <2>4, <3>3, ToStoreTypes
    <3> QED
      BY <1>3, <2>5, <3>1, <3>2, <3>3 DEF InHand
  <2>6. ToStore(e)' \in {s, tmp.key}
    <3>1. key_to_persist(e) = key_to_persist(c)
      BY <1>4, <1>6 DEF key_to_persist
    <3> QED
      BY <1>1, <2>1, <3>1 DEF ToStore, FromEnv
  <2>7. Live' = Live
    BY <1>1 DEF Live
  <2>8. \A k \in Live : Holds(k)' => StoredHolds(ToStore(e), k)'
    <3>1. CASE ToStore(e)' = s
      BY <2>3, <2>4, <3>1 DEF StoredHolds
    <3>2. CASE ToStore(e)' = tmp.key
      BY <1>1, <3>2 DEF Holds, StoredHolds
    <3> QED
      BY <2>6, <3>1, <3>2
  <2>9. file'.key # Nothing => ToStore(e)' # Nothing
    BY <1>1, <2>3, <2>6
  <2>10. WindowKeeps(e)'
    BY <1>4, <1>6, <2>7, <2>8, <2>9 DEF WindowKeeps
  <2> QED
    BY <2>5, <2>10
<1> QED
  BY <1>1, <1>3, <1>4, <1>6, <1>7, <1>8, <1>9, <1>10, SavingStep

LEMMA MainLoadsKeeps == KeyInv /\ MainLoads => KeyInv'
<1> SUFFICES ASSUME KeyInv, MainLoads PROVE KeyInv'
  OBVIOUS
<1>1. UNCHANGED <<mac, env, file, tmp, keychain, made, gone, cleared, unread>>
  BY DEF MainLoads, fixed, diskVars
<1>2. CASE UNCHANGED <<win, overlapped>>
  BY <1>1, <1>2, KeysUntouched DEF keyVars
<1>3. CASE \E w \in Window : win[w].at = "none" /\ Spawn(w, TRUE)
  <2>1. PICK w \in Window : win[w].at = "none" /\ Spawn(w, TRUE)
    BY <1>3
  <2> QED
    BY <1>1, <2>1, SpawnKeeps
<1> QED
  BY <1>2, <1>3 DEF MainLoads

LEMMA OpenKeeps == KeyInv /\ OpenSettings => KeyInv'
<1> SUFFICES ASSUME KeyInv, OpenSettings PROVE KeyInv'
  OBVIOUS
<1>1. UNCHANGED <<mac, env, file, tmp, keychain, made, gone, cleared, unread>>
  BY DEF OpenSettings, fixed, diskVars
<1>2. PICK w \in Window :
        win[w].at = "none" /\ (Spawn(w, FALSE) \/ UNCHANGED <<win, overlapped>>)
  BY DEF OpenSettings
<1>3. CASE Spawn(w, FALSE)
  BY <1>1, <1>2, <1>3, SpawnKeeps
<1>4. CASE UNCHANGED <<win, overlapped>>
  BY <1>1, <1>4, KeysUntouched DEF keyVars
<1> QED
  BY <1>2, <1>3, <1>4

LEMMA KeyStep == KeyInv /\ [Next]_vars => KeyInv'
<1> SUFFICES ASSUME KeyInv, [Next]_vars PROVE KeyInv'
  OBVIOUS
<1>1. CASE Start \/ MainFails \/ Poll \/ RetryKeychain
  <2>1. UNCHANGED keyVars
    BY <1>1 DEF Start, MainFails, Poll, RetryKeychain, keyVars, fixed, diskVars, ghosts
  <2> QED
    BY <2>1, KeysUntouched
<1>2. ASSUME NEW t \in Thread, RetryReads(t) \/ RetryOpens(t) PROVE KeyInv'
  <2>1. UNCHANGED keyVars
    BY <1>2 DEF RetryReads, RetryOpens, keyVars, fixed, diskVars, ghosts
  <2> QED
    BY <2>1, KeysUntouched
<1>3. CASE MainLoads
  BY <1>3, MainLoadsKeeps
<1>4. CASE OpenSettings
  BY <1>4, OpenKeeps
<1>5. CASE Quit
  <2>1. /\ UNCHANGED <<mac, env, file, tmp, keychain, made, gone, cleared, overlapped, unread>>
        /\ win' = [w \in Window |-> IF Alive(w) THEN [win[w] EXCEPT !.orphan = TRUE] ELSE NoWin]
    BY <1>5 DEF Quit, fixed, diskVars, ghosts
  <2> QED
    BY <2>1, QuitKeeps
<1>6. ASSUME NEW w \in Window, FormStep(w) PROVE KeyInv'
  BY <1>6, EditUrlKeeps, EditKeyKeeps, SaveBeginsKeeps, EndKeeps DEF FormStep
<1>7. ASSUME NEW w \in Window, FlowStep(w) PROVE KeyInv'
  BY <1>7, FlowStepsKeep, CreateKeeps, PollFlowKeeps DEF FlowStep
<1>8. ASSUME NEW w \in Window, SaveStep(w) PROVE KeyInv'
  BY <1>8, SealKeeps, SealFailsKeeps, WriteKeeps, RenameKeeps, SaveFailsKeeps DEF SaveStep
<1>9. ASSUME NEW w \in Window, LoadStep(w) \/ Crash(w) PROVE KeyInv'
  BY <1>9, ShowKeeps, WaiterKeeps, EndKeeps DEF LoadStep
<1>10. CASE UNCHANGED vars
  <2>1. UNCHANGED keyVars
    BY <1>10 DEF vars, keyVars, fixed, diskVars, ghosts
  <2> QED
    BY <2>1, KeysUntouched
<1> QED
  BY <1>1, <1>2, <1>3, <1>4, <1>5, <1>6, <1>7, <1>8, <1>9, <1>10 DEF Next

\* What a window shows and has written holds on to the keys that the file holds
\* (Config::load, Config::save and persist_signed_in_key).
THEOREM KeysInvariant == Spec => []KeyInv
  BY InitKeys, KeyStep, PTL DEF Spec

\* A minted key reaches the file, unless it was given up (#144).
THEOREM MintedKeysAreKept == Spec => []MintedIsKept
<1>1. KeyInv => MintedIsKept
  BY DEF KeyInv, Keeps, Live, MintedIsKept
<1> QED
  BY <1>1, KeysInvariant, PTL

\* No save takes the key out of the file, but one after a user has emptied the
\* field or opened a second window, or with the key from the environment and a
\* file it cannot read (#114).
THEOREM StoredKeyStays == Spec => KeyIsNotForgotten
<1>1. ASSUME KeyInv, [Next]_vars, file.key # Nothing, ~cleared', ~overlapped', ~unread'
      PROVE  file'.key # Nothing
  <2>1. CASE UNCHANGED file
    BY <1>1, <2>1
  <2>2. CASE \E w \in Window : rename_tmp(w)
    <3>1. PICK w \in Window : rename_tmp(w)
      BY <2>2
    <3>2. /\ win[w].at = "rename" /\ file' = tmp /\ tmp # NoFile
          /\ UNCHANGED <<cleared, overlapped, unread>>
      BY <3>1 DEF rename_tmp, saveOnly
    <3>3. PICK c \in Win : c = win[w]
      BY <1>1, WindowTypes
    <3>4. PICK s \in Normal : s = ToStore(c)
      BY <1>1, <3>3, ToStoreTypes
    <3>5. s # Nothing /\ SealedAs(s, tmp.key)
      BY <1>1, <3>2, <3>3, <3>4, WindowTypes DEF WindowKeeps, Filled, Emptied
    <3>6. tmp.key \in Normal
      BY <1>1, <3>2 DEF KeyInv, KeysKnown
    <3> QED
      BY <3>2, <3>5, <3>6, SealedHolds
  <2>3. UNCHANGED file \/ \E w \in Window : rename_tmp(w)
    <3>1. CASE Start \/ MainFails \/ Poll \/ RetryKeychain \/ MainLoads \/ OpenSettings \/ Quit
      BY <3>1 DEF Start, MainFails, Poll, RetryKeychain, MainLoads, OpenSettings, Quit, diskVars
    <3>2. ASSUME NEW t \in Thread, RetryReads(t) \/ RetryOpens(t) PROVE UNCHANGED file
      BY <3>2 DEF RetryReads, RetryOpens, diskVars
    <3>3. ASSUME NEW w \in Window, FormStep(w) \/ LoadStep(w) \/ Crash(w) PROVE UNCHANGED file
      BY <3>3 DEF FormStep, LoadStep, Crash, EditUrl, EditKey, save_config, show_done, Close,
         show_settings, WaiterLoads, WaiterEnds, flowOnly, winOnly, exitOnly, diskVars
    <3>4. ASSUME NEW w \in Window, FlowStep(w) PROVE UNCHANGED file
      BY <3>4 DEF FlowStep, start, wait_for_callback, exchange, create_api_key, poll_flow,
         flowOnly, winOnly, diskVars
    <3>5. ASSUME NEW w \in Window, SaveStep(w) PROVE UNCHANGED file \/ rename_tmp(w)
      BY <3>5 DEF SaveStep, seal_api_key, write_tmp, save_fails, diskVars
    <3>6. CASE UNCHANGED vars
      BY <3>6 DEF vars, diskVars
    <3> QED
      BY <1>1, <3>1, <3>2, <3>3, <3>4, <3>5, <3>6 DEF Next
  <2> QED
    BY <2>1, <2>2, <2>3
<1>2. KeyInv /\ [Next]_vars =>
        [(file.key # Nothing /\ ~cleared' /\ ~overlapped' /\ ~unread')
            => file'.key # Nothing]_vars
  BY <1>1
<1> QED
  BY <1>2, KeysInvariant, PTL DEF Spec, KeyIsNotForgotten

----------------------------------------------------------------------------
(* ServerKey, the tray.  One window or one waiting thread at a time is     *)
(* this tray's, and as long as it has not sent, settings_rx waits for it.  *)

Inbox == [state : {"empty", "sent", "closed"}, config : Config]

TrayTypes ==
  /\ at \in {"off", "load", "wizard", "load2", "run"}
  /\ config \in Config /\ client \in Server /\ pipeline \in Server
  /\ offered \in BOOLEAN /\ settings_open \in BOOLEAN
  /\ rx \in Window \cup Thread \cup {NoSender} /\ inbox \in Inbox
  /\ thread \in [Thread -> {"none", "read", "open"}] /\ read \in [Thread -> File]
  /\ events \in 0..MaxEvents /\ strayed \in BOOLEAN

Mine(w)       == win[w].at # "none" /\ ~win[w].orphan
Unfinished(w) == Mine(w) /\ win[w].at # "sent"

WindowsOk ==
  /\ \A v, w \in Window : Mine(v) /\ Mine(w) => v = w
  /\ \A w \in Window :
       /\ Mine(w) => IF win[w].wizard THEN at = "wizard" /\ Alive(w) ELSE at = "run" /\ settings_open
       /\ win[w].orphan => ~win[w].wizard /\ Alive(w)
       /\ Unfinished(w) /\ at = "run" => rx = w /\ inbox.state = "empty"

RxOk ==
  /\ at # "run" => rx = NoSender /\ ~settings_open /\ \A t \in Thread : thread[t] = "none"
  /\ rx = NoSender => inbox.state = "empty"
  /\ \A t \in Thread : rx = t /\ thread[t] # "none" => inbox.state = "empty"

UploadsOk == at = "run" => client = Client(config) /\ pipeline = Client(config)

\* With nobody to come, what the tray has, or is about to have, is the file's.
Current ==
  at = "run" /\ ~strayed /\ (\A w \in Window : ~Unfinished(w)) =>
    /\ IF inbox.state = "sent" THEN inbox.config \in Loaded(file) ELSE config \in Loaded(file)
    /\ \A t \in Thread : rx = t /\ thread[t] = "open" => read[t] = file

TrayInv == TrayTypes /\ WindowsOk /\ RxOk /\ UploadsOk /\ Current

LEMMA TrayForms ==
  /\ Default \in Config /\ NoServer \in Server /\ Empty \in File
  /\ NoMessage \in Inbox /\ NoMessage.state = "empty"
  /\ Closed = [NoMessage EXCEPT !.state = "closed"]
  /\ Closed \in Inbox /\ Closed.state = "closed"
  /\ \A c \in Config : /\ Sent(c) \in Inbox /\ Sent(c).state = "sent" /\ Sent(c).config = c
                       /\ Client(c) \in Server
<1>1. Nothing \in Stored
  BY StoredForms
<1>2. Default \in Config /\ NoServer \in Server /\ Empty \in File
  BY <1>1 DEF Default, Config, NoServer, Server, Empty, File, UrlOrNone, KeyOrNone
<1>3. /\ NoMessage \in Inbox /\ NoMessage.state = "empty"
      /\ Closed = [NoMessage EXCEPT !.state = "closed"]
      /\ Closed \in Inbox /\ Closed.state = "closed"
  BY <1>2 DEF NoMessage, Inbox, Closed
<1>4. ASSUME NEW c \in Config
      PROVE  /\ Sent(c) \in Inbox /\ Sent(c).state = "sent" /\ Sent(c).config = c
             /\ Client(c) \in Server
  BY <1>2, <1>4 DEF Sent, Inbox, Client, Server, Config
<1> QED
  BY <1>2, <1>3, <1>4

LEMMA EventIs == events \in 0..MaxEvents /\ (UNCHANGED events \/ Event) => events' \in 0..MaxEvents
  BY KeyAssumption DEF Event

LEMMA LoadedFrom == ASSUME NEW f, UNCHANGED <<mac, env, keychain>> PROVE Loaded(f)' = Loaded(f)
  BY DEF Loaded, open_stored_key, decrypt_api_key, dpapi_unprotect

LEMMA SenderSorts ==
  /\ NoSender \notin Window /\ NoSender \notin Thread
  /\ \A w \in Window, t \in Thread : w # t
  BY KeyAssumption

LEMMA InitTray == Init => TrayInv
<1> SUFFICES ASSUME Init PROVE TrayInv
  OBVIOUS
<1> USE DEF Init
<1>1. TrayTypes
  <2>1. /\ config \in Config /\ client \in Server /\ pipeline \in Server /\ inbox \in Inbox
        /\ rx \in Window \cup Thread \cup {NoSender} /\ events \in 0..MaxEvents
    BY TrayForms, KeyAssumption
  <2>2. thread \in [Thread -> {"none", "read", "open"}] /\ read \in [Thread -> File]
    BY TrayForms
  <2>3. offered = FALSE /\ settings_open = FALSE /\ strayed = FALSE
    OBVIOUS
  <2>4. offered \in BOOLEAN /\ settings_open \in BOOLEAN /\ strayed \in BOOLEAN
    <3> HIDE DEF Init
    <3> QED
      BY <2>3
  <2> QED
    BY <2>1, <2>2, <2>4 DEF TrayTypes
<1>2. \A w \in Window : ~Mine(w) /\ ~win[w].orphan
  BY NoWinFields DEF Mine
<1>3. rx = NoSender /\ ~settings_open /\ (\A t \in Thread : thread[t] = "none") /\ inbox.state = "empty"
  BY TrayForms
<1> QED
  BY <1>1, <1>2, <1>3 DEF TrayInv, WindowsOk, Unfinished, RxOk, UploadsOk, Current

\* A window at work: its tray waits for it, or is an earlier one.
LEMMA WindowWorks ==
  ASSUME KeyInv, TrayInv, NEW w \in Window, NEW c \in Win, win' = [win EXCEPT ![w] = c],
         Alive(w), Alive(w)', c.orphan = win[w].orphan, c.wizard = win[w].wizard,
         UNCHANGED <<mac, env, trayVars, thread, read>>,
         UNCHANGED events \/ Event,
         strayed' \in BOOLEAN, strayed => strayed',
         win[w].orphan => strayed' \/ UNCHANGED <<file, keychain>>
  PROVE  TrayInv'
<1>1. /\ win'[w] = c /\ \A v \in Window \ {w} : win'[v] = win[v]
  BY WinFields DEF KeyInv, DiskTypes
<1>2. UNCHANGED <<at, config, client, pipeline, offered, settings_open, rx, inbox>>
  BY DEF trayVars, appVars, rxVars
<1>3. \A v \in Window : /\ Mine(v)' <=> Mine(v)
                        /\ Unfinished(v)' <=> Unfinished(v)
                        /\ win'[v].wizard = win[v].wizard /\ win'[v].orphan = win[v].orphan
                        /\ Alive(v)' <=> Alive(v)
  BY <1>1 DEF Mine, Unfinished, Alive
<1>4. TrayTypes'
  BY <1>2, EventIs DEF TrayInv, TrayTypes
<1>5. WindowsOk'
  BY <1>2, <1>3 DEF TrayInv, WindowsOk
<1>6. RxOk' /\ UploadsOk'
  BY <1>2 DEF TrayInv, RxOk, UploadsOk, Client
<1>7. Current'
  <2>1. CASE ~win[w].orphan
    <3>1. Unfinished(w)'
      BY <1>3, <2>1 DEF Unfinished, Mine, Alive
    <3> QED
      BY <3>1 DEF Current
  <2>2. CASE strayed'
    BY <2>2 DEF Current
  <2>3. CASE UNCHANGED <<file, keychain>> /\ ~strayed
    <3>1. Loaded(file)' = Loaded(file)
      BY <2>3 DEF Loaded, open_stored_key, decrypt_api_key, dpapi_unprotect
    <3> QED
      BY <1>2, <1>3, <2>3, <3>1 DEF TrayInv, Current
  <2> QED
    BY <2>1, <2>2, <2>3
<1> QED
  BY <1>4, <1>5, <1>6, <1>7 DEF TrayInv

\* The steps of a window that is there and stays.
WindowSteps(w) ==
  \/ EditUrl(w) \/ EditKey(w) \/ save_config(w) \/ show_done(w) \/ FlowStep(w)
  \/ SaveStep(w) \/ show_settings(w)

LEMMA FlowShape ==
  ASSUME win \in [Window -> Win], NEW w \in Window, NEW f, Alive(w), FlowTo(w, f)
  PROVE  /\ win' = [win EXCEPT ![w] = win'[w]] /\ Alive(w)'
         /\ win'[w].orphan = win[w].orphan /\ win'[w].wizard = win[w].wizard
<1>1. win[w] \in Win
  OBVIOUS
<1>2. win'[w] = [win[w] EXCEPT !.flow = f]
  BY DEF FlowTo
<1>3. win'[w].at = win[w].at /\ win'[w].orphan = win[w].orphan /\ win'[w].wizard = win[w].wizard
  BY <1>1, <1>2 DEF Win
<1>4. win' = [win EXCEPT ![w] = win'[w]]
  BY <1>2 DEF FlowTo
<1> QED
  BY <1>3, <1>4 DEF Alive

LEMMA WindowShape ==
  ASSUME KeyInv, NEW w \in Window, WindowSteps(w)
  PROVE  /\ win' = [win EXCEPT ![w] = win'[w]] /\ Alive(w) /\ Alive(w)'
         /\ win'[w].orphan = win[w].orphan /\ win'[w].wizard = win[w].wizard
<1>1. win \in [Window -> Win] /\ win[w] \in Win
  BY DEF KeyInv, DiskTypes
<1>2. CASE EditUrl(w) \/ EditKey(w)
  <2>1. PICK x \in {[win[w] EXCEPT !.url = u] : u \in UrlOrNone}
                   \cup {[win[w] EXCEPT !.key = k] : k \in Pasted \cup {NoKey}} :
          win' = [win EXCEPT ![w] = x]
    BY <1>1, <1>2 DEF EditUrl, EditKey
  <2>2. win'[w] = x /\ x.at = win[w].at /\ x.orphan = win[w].orphan /\ x.wizard = win[w].wizard
    BY <1>1, <2>1 DEF Win
  <2>3. win[w].at = "form"
    BY <1>2 DEF EditUrl, EditKey
  <2> QED
    BY <2>1, <2>2, <2>3 DEF Alive
<1>3. CASE save_config(w) \/ show_done(w)
  <2>1. win'[w] = [win[w] EXCEPT !.at = "seal", !.closes = TRUE] /\ win[w].at = "form"
        /\ win' = [win EXCEPT ![w] = win'[w]]
    BY <1>1, <1>3 DEF save_config, show_done
  <2>2. win'[w].at = "seal" /\ win'[w].orphan = win[w].orphan /\ win'[w].wizard = win[w].wizard
    BY <1>1, <2>1 DEF Win
  <2> QED
    BY <2>1, <2>2 DEF Alive
<1>4. CASE FlowStep(w) /\ ~poll_flow(w)
  <2>1. Alive(w) /\ \E f : FlowTo(w, f)
    BY <1>4 DEF FlowStep, start, wait_for_callback, exchange, create_api_key, Alive
  <2> QED
    BY <1>1, <2>1, FlowShape
<1>5. CASE poll_flow(w)
  <2>1. win[w].at = "form" /\ Alive(w)
    BY <1>5 DEF poll_flow, Alive
  <2>2. CASE FlowTo(w, NoFlow)
    BY <1>1, <2>1, <2>2, FlowShape
  <2>3. CASE persist_signed_in_key(w, win[w].flow.key)
    <3>1. /\ win'[w] = [win[w] EXCEPT !.flow = NoFlow, !.key = win[w].flow.key,
                           !.unreadable = Nothing, !.at = "seal", !.closes = FALSE]
          /\ win' = [win EXCEPT ![w] = win'[w]]
      BY <1>1, <2>3 DEF persist_signed_in_key
    <3>2. win'[w].at = "seal" /\ win'[w].orphan = win[w].orphan /\ win'[w].wizard = win[w].wizard
      BY <1>1, <3>1 DEF Win
    <3> QED
      BY <2>1, <3>1, <3>2 DEF Alive
  <2> QED
    BY <1>5, <2>2, <2>3 DEF poll_flow
<1>6. CASE seal_api_key(w)
  <2>1. PICK o \in {[url |-> win[w].url, key |-> k] :
                      k \in {ToStore(win[w]), Marker, Blob(ToStore(win[w]).key), Nothing}} :
          win' = [win EXCEPT ![w].at = "write", ![w].out = o]
    BY <1>6 DEF seal_api_key
  <2>2. win'[w] = [win[w] EXCEPT !.at = "write", !.out = o] /\ win[w].at = "seal"
        /\ win' = [win EXCEPT ![w] = win'[w]]
    BY <1>1, <1>6, <2>1 DEF seal_api_key
  <2>3. win'[w].at = "write" /\ win'[w].orphan = win[w].orphan /\ win'[w].wizard = win[w].wizard
    BY <1>1, <2>2 DEF Win
  <2> QED
    BY <2>2, <2>3 DEF Alive
<1>7. CASE write_tmp(w)
  <2>1. win'[w] = [win[w] EXCEPT !.at = "rename", !.out = Empty] /\ win[w].at = "write"
        /\ win' = [win EXCEPT ![w] = win'[w]]
    BY <1>1, <1>7 DEF write_tmp
  <2>2. win'[w].at = "rename" /\ win'[w].orphan = win[w].orphan /\ win'[w].wizard = win[w].wizard
    BY <1>1, <2>1 DEF Win
  <2> QED
    BY <2>1, <2>2 DEF Alive
<1>8. CASE rename_tmp(w) \/ save_fails(w)
  <2>1. PICK a \in {"closing", "form"} : win' = [win EXCEPT ![w].at = a]
    BY <1>8 DEF rename_tmp, save_fails
  <2>2. win'[w] = [win[w] EXCEPT !.at = a] /\ win' = [win EXCEPT ![w] = win'[w]]
    BY <1>1, <2>1
  <2>3. win'[w].at = a /\ win'[w].orphan = win[w].orphan /\ win'[w].wizard = win[w].wizard
    BY <1>1, <2>2 DEF Win
  <2>4. win[w].at \in {"seal", "write", "rename"}
    BY <1>8 DEF rename_tmp, save_fails
  <2> QED
    BY <2>2, <2>3, <2>4 DEF Alive
<1>9. CASE show_settings(w)
  <2>1. PICK c \in Load :
          win' = [win EXCEPT ![w].at = "form", ![w].url = c.url, ![w].key = c.key,
                             ![w].unreadable = c.unreadable]
    BY <1>9 DEF show_settings
  <2>2. /\ win'[w] = [win[w] EXCEPT !.at = "form", !.url = c.url, !.key = c.key,
                                    !.unreadable = c.unreadable]
        /\ win' = [win EXCEPT ![w] = win'[w]] /\ win[w].at = "load"
    BY <1>1, <1>9, <2>1 DEF show_settings
  <2>3. win'[w].at = "form" /\ win'[w].orphan = win[w].orphan /\ win'[w].wizard = win[w].wizard
    BY <1>1, <2>2 DEF Win
  <2> QED
    BY <2>2, <2>3 DEF Alive
<1> QED
  BY <1>2, <1>3, <1>4, <1>5, <1>6, <1>7, <1>8, <1>9 DEF WindowSteps, SaveStep

LEMMA WindowStepsKeepTray ==
  ASSUME KeyInv, KeyInv', TrayInv, NEW w \in Window, WindowSteps(w)
  PROVE  TrayInv'
<1>1. PICK c \in Win : c = win'[w]
  BY DEF KeyInv, DiskTypes
<1>2. /\ UNCHANGED <<mac, env, trayVars, thread, read>>
      /\ UNCHANGED events \/ Event
      /\ strayed' = (strayed \/ win[w].orphan) \/ UNCHANGED <<strayed, file, keychain>>
  <2>1. CASE EditUrl(w) \/ EditKey(w) \/ save_config(w) \/ show_done(w) \/ show_settings(w)
    BY <2>1 DEF EditUrl, EditKey, save_config, show_done, show_settings, flowOnly, winOnly,
       fixed, diskVars, ghosts
  <2>2. CASE FlowStep(w)
    BY <2>2 DEF FlowStep, start, wait_for_callback, exchange, create_api_key, poll_flow,
       flowOnly, winOnly, fixed, diskVars, ghosts
  <2>3. CASE SaveStep(w)
    <3>1. saveOnly(w)
      BY <2>3 DEF SaveStep, seal_api_key, write_tmp, rename_tmp, save_fails
    <3>2. UNCHANGED events \/ Event
      BY <2>3 DEF SaveStep, seal_api_key, stored_api_key_fails, write_tmp, rename_tmp, save_fails
    <3> QED
      BY <3>1, <3>2 DEF saveOnly, fixed
  <2> QED
    BY <2>1, <2>2, <2>3 DEF WindowSteps
<1>3. strayed \in BOOLEAN /\ win[w].orphan \in BOOLEAN
  BY WindowTypes DEF TrayInv, TrayTypes, Win
<1>4. strayed' \in BOOLEAN /\ (strayed => strayed')
  BY <1>2, <1>3
<1>5. win[w].orphan => strayed' \/ UNCHANGED <<file, keychain>>
  BY <1>2, <1>3
<1>6. /\ win' = [win EXCEPT ![w] = c] /\ Alive(w) /\ Alive(w)'
      /\ c.orphan = win[w].orphan /\ c.wizard = win[w].wizard
  BY <1>1, WindowShape
<1> QED
  BY <1>2, <1>4, <1>5, <1>6, WindowWorks

LEMMA EndsKeepTray ==
  ASSUME KeyInv, TrayInv, NEW w \in Window, Close(w) \/ Crash(w)
  PROVE  TrayInv'
<1>1. /\ Alive(w) /\ Ended(w)
      /\ UNCHANGED <<mac, env, file, tmp, keychain, settings_open, rx, inbox, thread, read>>
      /\ UNCHANGED events \/ Event
      /\ UNCHANGED strayed \/ (Crash(w) /\ strayed' = (strayed \/ win[w].wizard))
      /\ ~win[w].wizard => UNCHANGED <<at, config, client, pipeline, offered>>
  BY DEF Close, Crash, Alive, exitOnly, fixed, diskVars, rxVars, appVars
<1>2. PICK c \in Win :
        /\ win' = [win EXCEPT ![w] = c]
        /\ ~c.orphan /\ ~c.wizard
        /\ c.at = IF win[w].orphan \/ win[w].wizard THEN "none" ELSE "exited"
  <2>1. [NoWin EXCEPT !.at = "exited"] \in Win /\ NoWin \in Win
    BY NoWinFields DEF Win
  <2> QED
    BY <1>1, <2>1, NoWinFields DEF Ended, Win
<1>3. /\ win'[w] = c /\ (\A v \in Window \ {w} : win'[v] = win[v])
      /\ win[w].orphan \in BOOLEAN /\ win[w].wizard \in BOOLEAN
  BY <1>2, WinFields, WindowTypes DEF KeyInv, DiskTypes, Win
<1>4. /\ \A v \in Window \ {w} : /\ Mine(v)' <=> Mine(v)
                                 /\ Unfinished(v)' <=> Unfinished(v)
                                 /\ Alive(v)' <=> Alive(v)
      /\ Mine(w)' <=> ~win[w].orphan /\ ~win[w].wizard
      /\ Unfinished(w)' <=> Mine(w)'
      /\ Mine(w) <=> ~win[w].orphan
      /\ Unfinished(w) <=> Mine(w)
  BY <1>1, <1>2, <1>3 DEF Mine, Unfinished, Alive
<1>5. strayed' \in BOOLEAN /\ (strayed => strayed')
  BY <1>1, <1>3 DEF TrayInv, TrayTypes
<1>6. TrayTypes'
  <2>1. /\ at' \in {"off", "load", "wizard", "load2", "run"}
        /\ config' \in Config /\ client' \in Server /\ pipeline' \in Server /\ offered' \in BOOLEAN
    <3>1. CASE UNCHANGED <<at, config, client, pipeline, offered>>
      BY <3>1 DEF TrayInv, TrayTypes
    <3>2. CASE at' = "load2" /\ UNCHANGED <<config, client, pipeline, offered>>
      BY <3>2 DEF TrayInv, TrayTypes
    <3>3. CASE init(config)
      <4>1. config \in Config
        BY DEF TrayInv, TrayTypes
      <4>2. offered' \in BOOLEAN
        BY <3>3 DEF init
      <4> QED
        BY <3>3, <4>1, <4>2, TrayForms DEF init
    <3> QED
      BY <3>1, <3>2, <3>3 DEF Close, Crash, appVars
  <2> QED
    BY <1>1, <1>5, <2>1, EventIs DEF TrayInv, TrayTypes
<1>7. CASE ~win[w].wizard
  <2>1. WindowsOk'
    BY <1>1, <1>2, <1>3, <1>4, <1>7 DEF TrayInv, WindowsOk
  <2>2. RxOk' /\ UploadsOk'
    BY <1>1, <1>7 DEF TrayInv, RxOk, UploadsOk, Client
  <2>3. Current'
    <3>1. CASE Unfinished(w)'
      BY <3>1 DEF Current
    <3>2. CASE ~Unfinished(w)'
      <4>1. Loaded(file)' = Loaded(file)
        BY <1>1 DEF Loaded, open_stored_key, decrypt_api_key, dpapi_unprotect
      <4>2. ~Unfinished(w)
        BY <1>4, <1>7, <3>2
      <4> QED
        BY <1>1, <1>4, <1>5, <1>7, <4>1, <4>2 DEF TrayInv, Current
    <3> QED
      BY <3>1, <3>2
  <2> QED
    BY <1>6, <2>1, <2>2, <2>3 DEF TrayInv
<1>8. CASE win[w].wizard
  <2>1. ~win[w].orphan /\ Mine(w) /\ at = "wizard"
    BY <1>4, <1>8 DEF TrayInv, WindowsOk
  <2>2. \A v \in Window : ~Mine(v)' /\ ~Unfinished(v)'
    BY <1>4, <1>8, <2>1 DEF TrayInv, WindowsOk, Unfinished
  <2>3. WindowsOk'
    BY <1>2, <1>3, <1>4, <2>2 DEF TrayInv, WindowsOk
  <2>4. RxOk'
    BY <1>1, <2>1 DEF TrayInv, RxOk
  <2>5. CASE Close(w)
    <3>1. at' = "load2"
      BY <1>8, <2>5 DEF Close
    <3> QED
      BY <1>6, <2>3, <2>4, <3>1 DEF TrayInv, UploadsOk, Current
  <2>6. CASE Crash(w)
    <3>1. init(config) /\ strayed'
      BY <1>8, <2>6 DEF Crash
    <3>2. UploadsOk'
      BY <3>1 DEF UploadsOk, init, Client
    <3>3. Current'
      BY <3>1 DEF Current
    <3> QED
      BY <1>6, <2>3, <2>4, <3>2, <3>3 DEF TrayInv
  <2> QED
    BY <2>5, <2>6
<1> QED
  BY <1>3, <1>7, <1>8

\* The waiting thread's reload is the last word of its window.
LEMMA WaiterLoadsKeepsTray ==
  ASSUME KeyInv, TrayInv, NEW w \in Window, WaiterLoads(w)
  PROVE  TrayInv'
<1>1. /\ win[w].at = "exited" /\ ~Alive(w) /\ win' = [win EXCEPT ![w].at = "sent"]
      /\ UNCHANGED <<mac, env, file, tmp, keychain, at, config, client, pipeline, offered,
                     settings_open, rx, thread, read>>
  BY DEF WaiterLoads, Alive, fixed, diskVars, appVars
<1>2. /\ win'[w] = [win[w] EXCEPT !.at = "sent"] /\ win[w] \in Win
      /\ \A v \in Window \ {w} : win'[v] = win[v]
  BY <1>1, WindowTypes DEF KeyInv, DiskTypes
<1>3. /\ win'[w].at = "sent" /\ win'[w].orphan = win[w].orphan /\ win'[w].wizard = win[w].wizard
      /\ ~win[w].orphan /\ ~win[w].wizard
  <2>1. ~win[w].orphan
    BY <1>1 DEF TrayInv, WindowsOk
  <2>2. ~win[w].wizard
    BY <1>1, <2>1 DEF TrayInv, WindowsOk, Mine
  <2> QED
    BY <1>2, <2>1, <2>2 DEF Win
<1>4. Unfinished(w) /\ Mine(w) /\ at = "run" /\ settings_open /\ rx = w
  <2>1. Unfinished(w) /\ Mine(w)
    BY <1>1, <1>3 DEF Unfinished, Mine
  <2> QED
    BY <1>3, <2>1 DEF TrayInv, WindowsOk
<1>5. /\ \A v \in Window : /\ Mine(v)' <=> Mine(v)
                           /\ Alive(v)' <=> Alive(v)
                           /\ win'[v].wizard = win[v].wizard /\ win'[v].orphan = win[v].orphan
      /\ \A v \in Window : ~Unfinished(v)'
  <2>1. \A v \in Window : /\ Mine(v)' <=> Mine(v)
                          /\ Alive(v)' <=> Alive(v)
                          /\ win'[v].wizard = win[v].wizard /\ win'[v].orphan = win[v].orphan
    BY <1>1, <1>2, <1>3, <1>4 DEF Mine, Alive
  <2>2. \A v \in Window : Mine(v) => v = w
    BY <1>4 DEF TrayInv, WindowsOk
  <2> QED
    BY <1>3, <2>1, <2>2 DEF Unfinished
<1>6. \/ \E c \in Loaded(file) : inbox' = Sent(c) /\ UNCHANGED <<events, strayed>>
      \/ inbox' = Closed /\ Event /\ strayed' = TRUE
  BY <1>4 DEF WaiterLoads, Sends, Load
<1>7. TrayTypes'
  <2>1. inbox' \in Inbox
    BY <1>6, LoadShows, TrayForms
  <2>2. strayed' \in BOOLEAN
    BY <1>6 DEF TrayInv, TrayTypes
  <2> QED
    BY <1>1, <1>6, <2>1, <2>2, EventIs DEF TrayInv, TrayTypes
<1>8. WindowsOk'
  BY <1>1, <1>5 DEF TrayInv, WindowsOk
<1>9. RxOk' /\ UploadsOk'
  BY <1>1, <1>4, SenderSorts DEF TrayInv, RxOk, UploadsOk, Client
<1>10. Current'
  <2>1. CASE strayed'
    BY <2>1 DEF Current
  <2>2. CASE ~strayed'
    <3>1. inbox'.state = "sent" /\ inbox'.config \in Loaded(file)
      BY <1>6, <2>2, LoadShows, TrayForms
    <3>2. Loaded(file)' = Loaded(file)
      BY <1>1 DEF Loaded, open_stored_key, decrypt_api_key, dpapi_unprotect
    <3>3. \A t \in Thread : rx' # t
      BY <1>1, <1>4, SenderSorts
    <3> QED
      BY <3>1, <3>2, <3>3 DEF Current
  <2> QED
    BY <2>1, <2>2
<1> QED
  BY <1>7, <1>8, <1>9, <1>10 DEF TrayInv

LEMMA WaiterEndsKeepsTray ==
  ASSUME KeyInv, TrayInv, NEW w \in Window, WaiterEnds(w)
  PROVE  TrayInv'
<1>1. /\ win[w].at = "sent" /\ ~Alive(w) /\ win' = [win EXCEPT ![w] = NoWin] /\ ~settings_open'
      /\ settings_open' = FALSE
      /\ UNCHANGED <<mac, env, file, tmp, keychain, at, config, client, pipeline, offered,
                     rx, inbox, thread, read, events, strayed>>
  BY DEF WaiterEnds, Alive, fixed, diskVars, appVars, rxVars, ghosts
<1>2. win'[w] = NoWin /\ \A v \in Window \ {w} : win'[v] = win[v]
  BY <1>1, NoWinFields, WinFields DEF KeyInv, DiskTypes
<1>3. ~win[w].orphan /\ Mine(w)
  BY <1>1 DEF TrayInv, WindowsOk, Mine
<1>4. \A v \in Window : ~Mine(v)'
  BY <1>2, <1>3, NoWinFields DEF TrayInv, WindowsOk, Mine
<1>5. \A v \in Window : ~Unfinished(v) /\ ~Unfinished(v)'
  BY <1>1, <1>3, <1>4 DEF TrayInv, WindowsOk, Unfinished
<1>6. TrayTypes'
  BY <1>1 DEF TrayInv, TrayTypes
<1>7. WindowsOk'
  <2>1. ~NoWin.orphan
    BY NoWinFields
  <2>2. \A v \in Window : win'[v].orphan => ~win'[v].wizard /\ Alive(v)'
    BY <1>2, <2>1 DEF TrayInv, WindowsOk, Alive
  <2> QED
    BY <1>4, <1>5, <2>2 DEF WindowsOk
<1>8. RxOk' /\ UploadsOk'
  BY <1>1 DEF TrayInv, RxOk, UploadsOk, Client
<1>9. Current'
  <2>1. Loaded(file)' = Loaded(file)
    BY <1>1 DEF Loaded, open_stored_key, decrypt_api_key, dpapi_unprotect
  <2> QED
    BY <1>1, <1>5, <2>1 DEF TrayInv, Current
<1> QED
  BY <1>6, <1>7, <1>8, <1>9 DEF TrayInv

\* No window and no waiting thread is this tray's, when it starts or is closed.
LEMMA NobodyIsMine ==
  ASSUME WindowsOk, at # "wizard", at # "run" \/ ~settings_open
  PROVE  \A w \in Window : ~Mine(w) /\ ~Unfinished(w)
  BY DEF WindowsOk, Unfinished

LEMMA StartKeepsTray == KeyInv /\ TrayInv /\ (Start \/ MainFails) => TrayInv'
<1> SUFFICES ASSUME KeyInv, TrayInv, Start \/ MainFails PROVE TrayInv'
  OBVIOUS
<1>1. /\ at \notin {"wizard", "run"} /\ at' \in {"off", "load"}
      /\ strayed' = FALSE \/ UNCHANGED strayed
      /\ Event
      /\ UNCHANGED <<config, client, pipeline, offered, settings_open, rx, inbox, thread, read, win>>
  BY DEF Start, MainFails, appVars, rxVars, ghosts
<1>2. TrayTypes'
  BY <1>1, EventIs DEF TrayInv, TrayTypes
<1>3. \A w \in Window : ~Mine(w)
  BY <1>1, NobodyIsMine DEF TrayInv
<1>4. \A w \in Window : ~Mine(w)' /\ ~Unfinished(w)' /\ (Alive(w)' <=> Alive(w))
  BY <1>1, <1>3 DEF Mine, Unfinished, Alive
<1>5. WindowsOk'
  BY <1>1, <1>4 DEF TrayInv, WindowsOk
<1>6. RxOk' /\ UploadsOk' /\ Current'
  BY <1>1 DEF TrayInv, RxOk, UploadsOk, Current
<1> QED
  BY <1>2, <1>5, <1>6 DEF TrayInv

\* A window that opens while no other is the tray's.
LEMMA SpawnIs ==
  ASSUME KeyInv, NEW w \in Window, NEW wizard \in BOOLEAN, Spawn(w, wizard)
  PROVE  /\ win'[w].at # "none" /\ win'[w].at # "sent"
         /\ ~win'[w].orphan /\ win'[w].wizard = wizard /\ Alive(w)'
         /\ \A v \in Window \ {w} : win'[v] = win[v]
<1> DEFINE f == [NoWin EXCEPT !.at = "form", !.wizard = TRUE]
           l == [NoWin EXCEPT !.at = "load"]
<1>1. /\ f \in Win /\ f.at = "form" /\ ~f.orphan /\ f.wizard = TRUE
      /\ l \in Win /\ l.at = "load" /\ ~l.orphan /\ l.wizard = FALSE
  BY NoWinFields DEF Win, NoWin
<1>2. win' = [win EXCEPT ![w] = IF wizard THEN f ELSE l]
  BY DEF Spawn
<1> HIDE DEF f, l
<1>3. /\ win'[w] = IF wizard THEN f ELSE l
      /\ \A v \in Window \ {w} : win'[v] = win[v]
  BY <1>2 DEF KeyInv, DiskTypes
<1> QED
  BY <1>1, <1>3 DEF Alive

LEMMA MainLoadsKeepsTray == KeyInv /\ TrayInv /\ MainLoads => TrayInv'
<1> SUFFICES ASSUME KeyInv, TrayInv, MainLoads PROVE TrayInv'
  OBVIOUS
<1>1. /\ at \in {"load", "load2"}
      /\ UNCHANGED <<mac, env, file, tmp, keychain, settings_open, rx, inbox, thread, read,
                     events, strayed>>
  BY DEF MainLoads, fixed, diskVars, rxVars
<1>2. PICK c \in Loaded(file) :
        \/ /\ at' = "wizard" /\ config' = c
           /\ \E w \in Window : win[w].at = "none" /\ Spawn(w, TRUE)
           /\ UNCHANGED <<client, pipeline, offered>>
        \/ init(c) /\ UNCHANGED win
  BY DEF MainLoads, Load
<1>3. \A w \in Window : ~Mine(w) /\ ~Unfinished(w)
  BY <1>1, NobodyIsMine DEF TrayInv
<1>4. c \in Config
  BY LoadShows
<1>5. CASE at' = "wizard" /\ config' = c /\ UNCHANGED <<client, pipeline, offered>>
           /\ \E w \in Window : win[w].at = "none" /\ Spawn(w, TRUE)
  <2>1. PICK w \in Window : Spawn(w, TRUE)
    BY <1>5
  <2>2. /\ Mine(w)' /\ win'[w].wizard = TRUE /\ Alive(w)' /\ ~win'[w].orphan
        /\ \A v \in Window \ {w} : win'[v] = win[v]
    BY <2>1, SpawnIs DEF Mine
  <2>3. \A v \in Window \ {w} : ~Mine(v)' /\ (Alive(v)' <=> Alive(v))
    BY <1>3, <2>2 DEF Mine, Alive
  <2>4. WindowsOk'
    BY <1>5, <2>2, <2>3 DEF TrayInv, WindowsOk
  <2>5. TrayTypes'
    BY <1>1, <1>4, <1>5 DEF TrayInv, TrayTypes
  <2>6. RxOk' /\ UploadsOk' /\ Current'
    BY <1>1, <1>5 DEF TrayInv, RxOk, UploadsOk, Current
  <2> QED
    BY <2>4, <2>5, <2>6 DEF TrayInv
<1>6. CASE init(c) /\ UNCHANGED win
  <2>1. at' = "run" /\ config' = c /\ client' = Client(c) /\ pipeline' = Client(c)
    BY <1>6 DEF init
  <2>2. offered' \in BOOLEAN
    BY <1>6 DEF init
  <2>3. TrayTypes'
    BY <1>1, <1>4, <2>1, <2>2, TrayForms DEF TrayInv, TrayTypes
  <2>4. \A w \in Window : ~Mine(w)' /\ ~Unfinished(w)' /\ (Alive(w)' <=> Alive(w))
    BY <1>3, <1>6 DEF Mine, Unfinished, Alive
  <2>5. WindowsOk'
    BY <1>6, <2>4 DEF TrayInv, WindowsOk
  <2>6. rx' = NoSender /\ inbox'.state = "empty"
    BY <1>1 DEF TrayInv, RxOk
  <2>7. RxOk' /\ UploadsOk'
    BY <2>1, <2>6 DEF RxOk, UploadsOk, Client
  <2>8. Current'
    <3>1. Loaded(file)' = Loaded(file)
      BY <1>1 DEF Loaded, open_stored_key, decrypt_api_key, dpapi_unprotect
    <3> QED
      BY <2>1, <2>6, <3>1, SenderSorts DEF Current
  <2> QED
    BY <2>3, <2>5, <2>7, <2>8 DEF TrayInv
<1> QED
  BY <1>2, <1>5, <1>6

LEMMA PollKeepsTray == KeyInv /\ TrayInv /\ Poll => TrayInv'
<1> SUFFICES ASSUME KeyInv, TrayInv, Poll PROVE TrayInv'
  OBVIOUS
<1>1. /\ at = "run" /\ at' = "run" /\ inbox.state # "empty" /\ rx' = NoSender /\ inbox' = NoMessage
      /\ UNCHANGED <<mac, env, file, tmp, keychain, settings_open, thread, read, win, events, strayed>>
  BY DEF Poll, fixed, diskVars, ghosts
<1>2. client = Client(config) /\ pipeline = Client(config)
  BY <1>1 DEF TrayInv, UploadsOk
<1>3. PICK c \in Config : /\ config' = c /\ client' = Client(c) /\ pipeline' = Client(c)
                          /\ c = IF inbox.state = "sent" THEN inbox.config ELSE config
  <2>1. CASE inbox.state = "sent"
    <3>1. PICK c \in Config : c = inbox.config
      BY DEF TrayInv, TrayTypes, Inbox
    <3>2. apply_new_config(c)
      BY <2>1, <3>1 DEF Poll
    <3>3. c.url = config.url /\ c.key = config.key => Client(c) = Client(config)
      BY DEF Client
    <3> QED
      BY <1>2, <2>1, <3>1, <3>2, <3>3 DEF apply_new_config
  <2>2. CASE inbox.state # "sent"
    <3>1. PICK c \in Config : c = config
      BY DEF TrayInv, TrayTypes
    <3>2. UNCHANGED <<config, client, pipeline>>
      BY <2>2 DEF Poll, appVars
    <3>3. Client(c) = Client(config)
      BY <3>1
    <3> QED
      BY <1>2, <2>2, <3>1, <3>2, <3>3
  <2> QED
    BY <2>1, <2>2
<1>4. TrayTypes'
  <2>1. offered' \in BOOLEAN
    BY DEF Poll, apply_new_config
  <2> QED
    BY <1>1, <1>3, <2>1, TrayForms DEF TrayInv, TrayTypes
<1>5. \A w \in Window : /\ Mine(w)' <=> Mine(w)
                        /\ Unfinished(w)' <=> Unfinished(w)
                        /\ Alive(w)' <=> Alive(w)
                        /\ ~Unfinished(w)
  BY <1>1 DEF TrayInv, WindowsOk, Mine, Unfinished, Alive
<1>6. WindowsOk'
  BY <1>1, <1>5 DEF TrayInv, WindowsOk
<1>7. RxOk' /\ UploadsOk'
  <2>1. NoMessage.state = "empty"
    BY TrayForms
  <2> QED
    BY <1>1, <1>3, <2>1 DEF RxOk, UploadsOk, Client
<1>8. Current'
  <2>1. Loaded(file)' = Loaded(file)
    BY <1>1 DEF Loaded, open_stored_key, decrypt_api_key, dpapi_unprotect
  <2>2. ~strayed => c \in Loaded(file)
    BY <1>1, <1>3, <1>5 DEF TrayInv, Current
  <2> QED
    BY <1>1, <1>3, <2>1, <2>2, TrayForms, SenderSorts DEF Current
<1> QED
  BY <1>4, <1>6, <1>7, <1>8 DEF TrayInv

LEMMA OpenKeepsTray == KeyInv /\ TrayInv /\ OpenSettings => TrayInv'
<1> SUFFICES ASSUME KeyInv, TrayInv, OpenSettings PROVE TrayInv'
  OBVIOUS
<1>1. /\ at = "run" /\ ~settings_open
      /\ UNCHANGED <<mac, env, file, tmp, keychain, at, config, client, pipeline, offered, thread, read>>
  BY DEF OpenSettings, fixed, diskVars, appVars
<1>2. PICK w \in Window :
        /\ rx' = w
        /\ \/ /\ Spawn(w, FALSE) /\ settings_open' = TRUE /\ inbox' = NoMessage
              /\ UNCHANGED <<events, strayed>>
           \/ /\ Event /\ inbox' = Closed /\ strayed' = (strayed \/ inbox.state = "sent")
              /\ UNCHANGED <<win, settings_open>>
  BY DEF OpenSettings, Closed
<1>3. \A v \in Window : ~Mine(v) /\ ~Unfinished(v)
  BY <1>1, NobodyIsMine DEF TrayInv
<1>4. UploadsOk'
  BY <1>1 DEF TrayInv, UploadsOk, Client
<1>5. RxOk'
  BY <1>1, <1>2, SenderSorts DEF RxOk
<1>6. CASE /\ Spawn(w, FALSE) /\ settings_open' = TRUE /\ inbox' = NoMessage
           /\ UNCHANGED <<events, strayed>>
  <2>1. /\ Unfinished(w)' /\ Mine(w)' /\ win'[w].wizard = FALSE /\ Alive(w)' /\ ~win'[w].orphan
        /\ \A v \in Window \ {w} : win'[v] = win[v]
    BY <1>6, SpawnIs DEF Unfinished, Mine
  <2>2. \A v \in Window \ {w} : ~Mine(v)' /\ ~Unfinished(v)' /\ (Alive(v)' <=> Alive(v))
    BY <1>3, <2>1 DEF Mine, Unfinished, Alive
  <2>3. NoMessage.state = "empty" /\ NoMessage \in Inbox
    BY TrayForms
  <2>4. WindowsOk'
    BY <1>1, <1>2, <1>6, <2>1, <2>2, <2>3 DEF TrayInv, WindowsOk
  <2>5. TrayTypes'
    BY <1>1, <1>2, <1>6, <2>3 DEF TrayInv, TrayTypes
  <2>6. Current'
    BY <2>1 DEF Current
  <2> QED
    BY <1>4, <1>5, <2>4, <2>5, <2>6 DEF TrayInv
<1>7. CASE /\ Event /\ inbox' = Closed /\ strayed' = (strayed \/ inbox.state = "sent")
           /\ UNCHANGED <<win, settings_open>>
  <2>1. \A v \in Window : ~Mine(v)' /\ ~Unfinished(v)' /\ (Alive(v)' <=> Alive(v))
    BY <1>3, <1>7 DEF Mine, Unfinished, Alive
  <2>2. WindowsOk'
    BY <1>7, <2>1 DEF TrayInv, WindowsOk
  <2>3. strayed' \in BOOLEAN /\ (strayed => strayed') /\ (inbox.state = "sent" => strayed')
    BY <1>7 DEF TrayInv, TrayTypes
  <2>4. Closed \in Inbox /\ Closed.state = "closed"
    BY TrayForms
  <2>5. TrayTypes'
    BY <1>1, <1>2, <1>7, <2>3, <2>4, EventIs DEF TrayInv, TrayTypes
  <2>6. Current'
    <3>1. Loaded(file)' = Loaded(file)
      BY <1>1 DEF Loaded, open_stored_key, decrypt_api_key, dpapi_unprotect
    <3>2. \A t \in Thread : rx' # t
      BY <1>2, SenderSorts
    <3>3. ~strayed' => config \in Loaded(file)
      BY <1>1, <1>3, <2>3 DEF TrayInv, Current
    <3> QED
      BY <1>1, <1>7, <2>4, <3>1, <3>2, <3>3 DEF Current
  <2> QED
    BY <1>4, <1>5, <2>2, <2>5, <2>6 DEF TrayInv
<1> QED
  BY <1>2, <1>6, <1>7

LEMMA LoadedIsConfig ==
  ASSUME KeyInv, NEW f \in File, NEW c \in Loaded(f)
  PROVE  c \in Config
<1>1. PICK o \in open_stored_key(f.key) :
        c = [url |-> f.url, key |-> IF env # NoKey THEN env ELSE o.key,
             unreadable |-> o.unreadable]
  BY DEF Loaded
<1>2. /\ f.key \in Stored /\ f.key.key \in KeyOrNone /\ f.url \in UrlOrNone /\ Nothing \in Stored
      /\ env \in KeyOrNone /\ keychain \in KeyOrNone /\ NoKey \in KeyOrNone
  BY StoredForms DEF KeyInv, DiskTypes, File, Stored, KeyOrNone
<1>3. \E k \in {f.key.key, NoKey, keychain}, s \in {Nothing, f.key} : o = [key |-> k, unreadable |-> s]
  <2>1. decrypt_api_key(f.key) \subseteq {f.key.key, keychain}
    BY DEF decrypt_api_key, dpapi_unprotect
  <2> QED
    BY <2>1 DEF open_stored_key
<1>4. o.key \in KeyOrNone /\ o.unreadable \in Stored
  BY <1>2, <1>3
<1> QED
  BY <1>1, <1>2, <1>4 DEF Config

LEMMA RetryKeepsTray == KeyInv /\ TrayInv /\ RetryKeychain => TrayInv'
<1> SUFFICES ASSUME KeyInv, TrayInv, RetryKeychain PROVE TrayInv'
  OBVIOUS
<1>1. PICK t \in Thread :
        thread[t] = "none" /\ thread' = [thread EXCEPT ![t] = "read"] /\ rx' = t /\ inbox' = NoMessage
  BY DEF RetryKeychain
<1>2. /\ at = "run" /\ ~settings_open /\ rx = NoSender /\ offered' = FALSE
      /\ UNCHANGED <<mac, env, file, tmp, keychain, at, config, client, pipeline, settings_open,
                     read, win, events, strayed>>
  BY DEF RetryKeychain, fixed, diskVars, appVars, ghosts
<1>3. \A w \in Window : ~Mine(w) /\ ~Unfinished(w)
  BY <1>2, NobodyIsMine DEF TrayInv
<1>4. NoMessage.state = "empty" /\ NoMessage \in Inbox
  BY TrayForms
<1>5. thread' \in [Thread -> {"none", "read", "open"}] /\ thread'[t] = "read"
  BY <1>1 DEF TrayInv, TrayTypes
<1>6. TrayTypes'
  BY <1>1, <1>2, <1>4, <1>5 DEF TrayInv, TrayTypes
<1>7. \A w \in Window : ~Mine(w)' /\ ~Unfinished(w)' /\ (Alive(w)' <=> Alive(w))
  BY <1>2, <1>3 DEF Mine, Unfinished, Alive
<1>8. WindowsOk'
  BY <1>2, <1>7 DEF TrayInv, WindowsOk
<1>9. RxOk' /\ UploadsOk'
  BY <1>1, <1>2, <1>4 DEF TrayInv, RxOk, UploadsOk, Client
<1>10. Current'
  <2>1. Loaded(file)' = Loaded(file)
    BY <1>2 DEF Loaded, open_stored_key, decrypt_api_key, dpapi_unprotect
  <2>2. ~strayed => config \in Loaded(file)
    BY <1>2, <1>3 DEF TrayInv, Current, RxOk
  <2> QED
    BY <1>1, <1>2, <1>4, <1>5, <2>1, <2>2 DEF Current
<1> QED
  BY <1>6, <1>8, <1>9, <1>10 DEF TrayInv

\* A thread of Retry at work is this tray's.
LEMMA RetryThreadKeepsTray ==
  ASSUME KeyInv, TrayInv, NEW t \in Thread, RetryReads(t) \/ RetryOpens(t)
  PROVE  TrayInv'
<1>1. /\ UNCHANGED <<mac, env, file, tmp, keychain, at, config, client, pipeline, offered,
                     settings_open, rx, win, strayed>>
      /\ UNCHANGED events \/ Event
      /\ thread[t] # "none"
  BY DEF RetryReads, RetryOpens, fixed, diskVars, trayVars, appVars, rxVars, ghosts
<1>2. at = "run"
  BY <1>1 DEF TrayInv, RxOk
<1>3. Loaded(file)' = Loaded(file) /\ Loaded(read[t])' = Loaded(read'[t])
  BY <1>1 DEF Loaded, open_stored_key, decrypt_api_key, dpapi_unprotect
<1>4. \A w \in Window : /\ Mine(w)' <=> Mine(w)
                        /\ Unfinished(w)' <=> Unfinished(w)
                        /\ Alive(w)' <=> Alive(w)
  BY <1>1 DEF Mine, Unfinished, Alive
<1>5. thread \in [Thread -> {"none", "read", "open"}] /\ read \in [Thread -> File] /\ file \in File
  BY DEF TrayInv, TrayTypes, KeyInv, DiskTypes
<1>6. UploadsOk'
  BY <1>1 DEF TrayInv, UploadsOk, Client
<1>7. CASE RetryReads(t)
  <2>1. /\ thread' = [thread EXCEPT ![t] = "open"] /\ read' = [read EXCEPT ![t] = file]
        /\ UNCHANGED <<inbox, events>>
    BY <1>7 DEF RetryReads, trayVars, rxVars
  <2>2. /\ thread' \in [Thread -> {"none", "read", "open"}] /\ read' \in [Thread -> File]
        /\ \A u \in Thread \ {t} : thread'[u] = thread[u] /\ read'[u] = read[u]
        /\ read'[t] = file
    BY <1>5, <2>1
  <2>3. TrayTypes'
    BY <1>1, <2>1, <2>2 DEF TrayInv, TrayTypes
  <2>4. WindowsOk'
    BY <1>1, <1>4, <2>1 DEF TrayInv, WindowsOk
  <2>5. RxOk'
    BY <1>1, <1>2, <2>1, <2>2 DEF TrayInv, RxOk
  <2>6. Current'
    BY <1>1, <1>3, <1>4, <2>1, <2>2 DEF TrayInv, Current
  <2> QED
    BY <1>6, <2>3, <2>4, <2>5, <2>6 DEF TrayInv
<1>8. CASE RetryOpens(t)
  <2>1. /\ thread' = [thread EXCEPT ![t] = "none"] /\ read' = [read EXCEPT ![t] = Empty]
        /\ thread[t] = "open"
        /\ \/ \E c \in Loaded(read[t]) : inbox' = IF rx = t THEN Sent(c) ELSE inbox
           \/ inbox' = IF rx = t THEN Closed ELSE inbox
    BY <1>8 DEF RetryOpens, Sends
  <2>2. /\ thread' \in [Thread -> {"none", "read", "open"}] /\ read' \in [Thread -> File]
        /\ thread'[t] = "none"
        /\ \A u \in Thread \ {t} : thread'[u] = thread[u] /\ read'[u] = read[u]
    BY <1>5, <2>1, TrayForms
  <2>3. \A c \in Loaded(read[t]) : c \in Config
    <3>1. read[t] \in File
      BY <1>5
    <3> QED
      BY <3>1, LoadedIsConfig
  <2>4. inbox' \in Inbox
    BY <2>1, <2>3, TrayForms DEF TrayInv, TrayTypes
  <2>5. TrayTypes'
    BY <1>1, <2>2, <2>4, EventIs DEF TrayInv, TrayTypes
  <2>6. rx # t => inbox' = inbox
    BY <2>1
  <2>7. WindowsOk'
    <3>1. ASSUME NEW w \in Window, Unfinished(w) PROVE rx = w /\ inbox'.state = "empty"
      BY <1>2, <2>6, <3>1, SenderSorts DEF TrayInv, WindowsOk
    <3> QED
      BY <1>1, <1>4, <3>1 DEF TrayInv, WindowsOk
  <2>8. RxOk'
    BY <1>1, <1>2, <2>2, <2>6, SenderSorts DEF TrayInv, RxOk
  <2>9. Current'
    <3> SUFFICES ASSUME ~strayed, \A w \in Window : ~Unfinished(w)
                 PROVE  /\ IF inbox'.state = "sent" THEN inbox'.config \in Loaded(file)
                           ELSE config \in Loaded(file)
                        /\ \A u \in Thread : rx = u /\ thread'[u] = "open" => read'[u] = file
      BY <1>1, <1>3, <1>4 DEF Current
    <3>1. /\ IF inbox.state = "sent" THEN inbox.config \in Loaded(file) ELSE config \in Loaded(file)
          /\ \A u \in Thread : rx = u /\ thread[u] = "open" => read[u] = file
      BY <1>2 DEF TrayInv, Current
    <3>2. CASE rx # t
      BY <2>2, <2>6, <3>1, <3>2
    <3>3. CASE rx = t
      <4>1. read[t] = file
        BY <2>1, <3>1, <3>3
      <4>2. \/ \E c \in Loaded(file) : inbox' = Sent(c) /\ c \in Config
            \/ inbox' = Closed
        BY <2>1, <2>3, <3>3, <4>1
      <4>3. CASE inbox' = Closed
        <5>1. inbox.state = "empty"
          BY <1>1, <3>3 DEF TrayInv, RxOk
        <5> QED
          BY <2>2, <3>1, <3>3, <4>3, <5>1, TrayForms
      <4>4. CASE \E c \in Loaded(file) : inbox' = Sent(c) /\ c \in Config
        <5>1. inbox'.state = "sent" /\ inbox'.config \in Loaded(file)
          BY <4>4, TrayForms
        <5> QED
          BY <2>2, <3>3, <5>1
      <4> QED
        BY <4>2, <4>3, <4>4
    <3> QED
      BY <3>2, <3>3
  <2> QED
    BY <1>6, <2>5, <2>7, <2>8, <2>9 DEF TrayInv
<1> QED
  BY <1>7, <1>8

LEMMA QuitKeepsTray == KeyInv /\ TrayInv /\ Quit => TrayInv'
<1> SUFFICES ASSUME KeyInv, TrayInv, Quit PROVE TrayInv'
  OBVIOUS
<1>1. /\ at = "run" /\ at' = "off" /\ settings_open' = FALSE /\ rx' = NoSender
      /\ inbox' = NoMessage /\ offered' = FALSE
      /\ config' = Default /\ client' = NoServer /\ pipeline' = NoServer
      /\ thread' = [t \in Thread |-> "none"] /\ read' = [t \in Thread |-> Empty]
      /\ UNCHANGED <<events, strayed>>
  BY DEF Quit, ghosts
<1>2. \A w \in Window : win'[w] = IF Alive(w) THEN [win[w] EXCEPT !.orphan = TRUE] ELSE NoWin
  BY DEF Quit
<1>3. TrayTypes'
  <2>1. thread' \in [Thread -> {"none", "read", "open"}] /\ read' \in [Thread -> File]
    BY <1>1, TrayForms
  <2> QED
    BY <1>1, <2>1, TrayForms DEF TrayInv, TrayTypes
<1>4. ASSUME NEW w \in Window
      PROVE  ~Mine(w)' /\ (win'[w].orphan => ~win'[w].wizard /\ Alive(w)')
  <2>1. CASE Alive(w)
    <3>1. win[w] \in Win
      BY DEF KeyInv, DiskTypes
    <3>2. /\ win'[w].at = win[w].at /\ win'[w].wizard = win[w].wizard /\ win'[w].orphan = TRUE
      BY <1>2, <2>1, <3>1 DEF Win
    <3>3. ~win[w].wizard
      BY <1>1, <2>1 DEF TrayInv, WindowsOk, Mine, Alive
    <3> QED
      BY <2>1, <3>2, <3>3 DEF Mine, Alive
  <2>2. CASE ~Alive(w)
    BY <1>2, <2>2, NoWinFields DEF Mine
  <2> QED
    BY <2>1, <2>2
<1>5. WindowsOk'
  BY <1>4 DEF WindowsOk, Unfinished
<1>6. RxOk' /\ UploadsOk' /\ Current'
  BY <1>1, TrayForms DEF RxOk, UploadsOk, Current
<1> QED
  BY <1>3, <1>5, <1>6 DEF TrayInv

LEMMA TrayStep == KeyInv /\ KeyInv' /\ TrayInv /\ [Next]_vars => TrayInv'
<1> SUFFICES ASSUME KeyInv, KeyInv', TrayInv, [Next]_vars PROVE TrayInv'
  OBVIOUS
<1>1. CASE Start \/ MainLoads \/ MainFails \/ Poll \/ OpenSettings \/ RetryKeychain \/ Quit
  BY <1>1, StartKeepsTray, MainLoadsKeepsTray, PollKeepsTray, OpenKeepsTray, RetryKeepsTray,
     QuitKeepsTray
<1>2. ASSUME NEW t \in Thread, RetryReads(t) \/ RetryOpens(t) PROVE TrayInv'
  BY <1>2, RetryThreadKeepsTray
<1>3. ASSUME NEW w \in Window, FormStep(w) \/ FlowStep(w) \/ SaveStep(w) \/ LoadStep(w) \/ Crash(w)
      PROVE  TrayInv'
  <2>1. CASE WindowSteps(w)
    BY <2>1, WindowStepsKeepTray
  <2>2. CASE Close(w) \/ Crash(w)
    BY <2>2, EndsKeepTray
  <2>3. CASE WaiterLoads(w)
    BY <2>3, WaiterLoadsKeepsTray
  <2>4. CASE WaiterEnds(w)
    BY <2>4, WaiterEndsKeepsTray
  <2> QED
    BY <1>3, <2>1, <2>2, <2>3, <2>4 DEF FormStep, LoadStep, WindowSteps
<1>4. CASE UNCHANGED vars
  <2>1. UNCHANGED <<mac, env, file, tmp, keychain, at, config, client, pipeline, offered,
                    settings_open, rx, inbox, thread, read, win, events, strayed>>
    BY <1>4 DEF vars, fixed, diskVars, trayVars, appVars, rxVars, ghosts
  <2>2. \A w \in Window : /\ Mine(w)' <=> Mine(w)
                          /\ Unfinished(w)' <=> Unfinished(w)
                          /\ Alive(w)' <=> Alive(w)
    BY <2>1 DEF Mine, Unfinished, Alive
  <2>3. TrayTypes' /\ WindowsOk' /\ RxOk' /\ UploadsOk'
    BY <2>1, <2>2 DEF TrayInv, TrayTypes, WindowsOk, RxOk, UploadsOk, Client
  <2>4. Loaded(file)' = Loaded(file)
    BY <2>1 DEF Loaded, open_stored_key, decrypt_api_key, dpapi_unprotect
  <2>5. Current'
    BY <2>1, <2>2, <2>4 DEF TrayInv, Current
  <2> QED
    BY <2>3, <2>5 DEF TrayInv
<1> QED
  BY <1>1, <1>2, <1>3, <1>4 DEF Next

\* Who is the tray's, what it waits for, and what its uploads use.
THEOREM TrayInvariant == Spec => []TrayInv
  BY InitTray, TrayStep, KeysInvariant, PTL DEF Spec

THEOREM KeyTypeCorrect == Spec => []TypeOK
<1>1. KeyInv /\ TrayInv => TypeOK
  BY DEF KeyInv, DiskTypes, TrayInv, TrayTypes, TypeOK, Inbox
<1> QED
  BY <1>1, KeysInvariant, TrayInvariant, PTL

\* A tray with nobody to wait for uploads to the server, and with the key, that
\* the file has (#143).
THEOREM TheTrayIsCurrent == Spec => []TrayIsCurrent
<1>1. TrayInv => TrayIsCurrent
  <2> SUFFICES ASSUME TrayInv, at = "run", rx = NoSender, ~settings_open, ~strayed
               PROVE  config \in Loaded(file) /\ pipeline = Client(config)
    BY DEF TrayIsCurrent
  <2>1. \A w \in Window : ~Unfinished(w)
    BY NobodyIsMine DEF TrayInv
  <2> QED
    BY <2>1 DEF TrayInv, Current, RxOk, UploadsOk
<1> QED
  BY <1>1, TrayInvariant, PTL
=============================================================================
