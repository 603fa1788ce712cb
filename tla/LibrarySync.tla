----------------------------- MODULE LibrarySync -----------------------------
(***************************************************************************)
(* The Photos library source: the thread that turns library changes into   *)
(* upload rows (src/src/watch/photos/mod.rs), the PhotoKit calls it makes  *)
(* (src/src/platform/macos/photos.rs), and the application code that       *)
(* starts it and switches it on and off (src/src/app.rs).                  *)
(*                                                                         *)
(* The library is a set of assets with a change history; a change token is *)
(* a position in that history.  Assets come, go, and are hidden and shown  *)
(* at any moment.  What a pass keeps between its calls is in `src`; the    *)
(* database keeps the token and the assets `photos_asset_seen` knows.      *)
(* A row's own life, after it is queued, is LibraryItem's.  The names of   *)
(* this module and of Albums are disjoint: their proofs are in one module. *)
(***************************************************************************)
EXTENDS Naturals

CONSTANTS
  Asset,      \* local identifiers
  MaxChanges  \* bound: length of the library's history

ASSUME SyncAssumption == MaxChanges \in Nat

VARIABLES
  library,    \* PhotoKit: each asset's visibility
  born,       \* PhotoKit: the change that inserted it last, 0 if before all
  pos,        \* PhotoKit: changes so far, the current change token
  access,     \* PhotoKit: the user's permission
  photos,     \* config.photos.enabled, as the application holds it
  pipeline,   \* an upload pipeline exists
  up,         \* the process runs
  flag,       \* photos_enabled: not there, on or off
  watch,      \* a change observer is registered
  signal,     \* change signals wait in the channel
  src,        \* the source thread: where it is, and its pass's data
  token,      \* database: photos_change_token
  seen,       \* database: assets queued or recorded
  passedOver, \* ghost: assets a stored token lies behind, yet never handed over
  lastPass    \* ghost: how the last pass of this process ended

libraryVars == <<library, born, pos, access>>
appVars     == <<photos, pipeline, up, flag>>
dbVars      == <<token, seen>>
syncVars == <<libraryVars, appVars, watch, signal, src, dbVars, passedOver, lastPass>>

NoToken == MaxChanges + 1
Position == 0..MaxChanges
Visibility == {"absent", "shown", "hidden"}
SourceAt == {"none", "start", "register", "pass", "changes", "filter", "current",
         "enumerate", "enqueue", "store", "idle"}
Pass == [at : SourceAt, full : BOOLEAN, tok : Position, ids : SUBSET Asset,
         missed : SUBSET Asset]
PassAt(at) == [at |-> at, full |-> FALSE, tok |-> 0, ids |-> {}, missed |-> {}]

SyncTypeOK ==
  /\ library \in [Asset -> Visibility]
  /\ born \in [Asset -> Position]
  /\ pos \in Position
  /\ access \in BOOLEAN
  /\ photos \in BOOLEAN
  /\ pipeline \in BOOLEAN
  /\ up \in BOOLEAN
  /\ flag \in {"none", "on", "off"}
  /\ watch \in BOOLEAN
  /\ signal \in BOOLEAN
  /\ src \in Pass
  /\ token \in Position \cup {NoToken}
  /\ seen \in SUBSET Asset
  /\ passedOver \in SUBSET Asset
  /\ lastPass \in {"none", "ok", "failed", "skipped"}

SyncInit ==
  /\ library \in [Asset -> Visibility]
  /\ born = [a \in Asset |-> 0]
  /\ pos = 0
  /\ access \in BOOLEAN
  /\ photos \in BOOLEAN
  /\ pipeline = FALSE
  /\ up = FALSE
  /\ flag = "none"
  /\ watch = FALSE
  /\ signal = FALSE
  /\ src = PassAt("none")
  /\ token = NoToken
  /\ seen = {}
  /\ passedOver = {}
  /\ lastPass = "none"

Shown  == {a \in Asset : library[a] = "shown"}
Hidden == {a \in Asset : library[a] = "hidden"}

----------------------------------------------------------------------------
(* The library and the user.                                               *)

\* A change is in the history, and the observer tells the source of it.
LibraryChanged ==
  /\ pos < MaxChanges
  /\ pos' = pos + 1
  /\ signal' = (signal \/ watch)
  /\ UNCHANGED <<access, appVars, watch, src, dbVars, lastPass>>

\* An asset is imported, or comes back from Recently Deleted.
Insert(a) ==
  /\ library[a] = "absent"
  /\ \E v \in {"shown", "hidden"} : library' = [library EXCEPT ![a] = v]
  /\ born' = [born EXCEPT ![a] = pos + 1]
  /\ passedOver' = passedOver \ {a}
  /\ LibraryChanged

\* Hiding and showing an asset are updates, deleting one is a delete: the
\* history has them, and sync_pass ignores them.
Update(a) ==
  /\ library[a] # "absent"
  /\ \E v \in Visibility \ {library[a]} : library' = [library EXCEPT ![a] = v]
  /\ UNCHANGED <<born, passedOver>>
  /\ LibraryChanged

SetAccess ==
  /\ access' = ~access
  /\ UNCHANGED <<library, born, pos, appVars, watch, signal, src, dbVars,
                 passedOver, lastPass>>

----------------------------------------------------------------------------
(* The application.                                                        *)

\* start_photos_source: the thread starts once per process, if a pipeline
\* exists and access is granted; later calls only switch it on again.
start_photos_source(built) ==
  IF ~built THEN UNCHANGED <<flag, src>>
  ELSE IF flag # "none" THEN flag' = "on" /\ UNCHANGED src
  ELSE IF ~access THEN UNCHANGED <<flag, src>>
  ELSE flag' = "on" /\ src' = PassAt("start")

\* App::init, for a configuration with or without a usable server.
Launch ==
  /\ ~up
  /\ up' = TRUE
  /\ pipeline' \in BOOLEAN
  /\ start_photos_source(photos /\ pipeline')
  /\ lastPass' = "none"
  /\ UNCHANGED <<libraryVars, photos, watch, signal, dbVars, passedOver>>

\* apply_new_config: the source is started, or switched off, while `pipeline`
\* is still what it was; only then is the pipeline built or taken down.
ApplyNewConfig ==
  /\ up
  /\ photos' \in BOOLEAN
  /\ pipeline' \in BOOLEAN
  /\ \/ /\ photos' /\ ~photos
        /\ start_photos_source(pipeline)
     \/ /\ photos' /\ photos
        /\ UNCHANGED <<flag, src>>
     \/ /\ ~photos'
        /\ flag' = IF flag = "none" THEN "none" ELSE "off"
        /\ UNCHANGED src
  /\ UNCHANGED <<libraryVars, up, watch, signal, dbVars, passedOver, lastPass>>

\* The process ends, between any two steps of the source.
TrayEnds ==
  /\ up
  /\ up' = FALSE
  /\ pipeline' = FALSE
  /\ flag' = "none"
  /\ watch' = FALSE
  /\ signal' = FALSE
  /\ src' = PassAt("none")
  /\ UNCHANGED <<libraryVars, photos, dbVars, passedOver, lastPass>>

----------------------------------------------------------------------------
(* The source thread.                                                      *)

sourceStays == UNCHANGED <<libraryVars, appVars>>

\* Mutant: signals that came during the pass are drained after it.
PassEndsDrained(result) ==
  /\ src' = PassAt("idle")
  /\ lastPass' = result
  /\ signal' = FALSE
  /\ UNCHANGED watch

\* A pass is over.  An error is only logged, and left to the next signal.
PassEnds(result) ==
  /\ src' = PassAt("idle")
  /\ lastPass' = result
  /\ UNCHANGED <<watch, signal>>

PassGoesOn(next) ==
  /\ src' = next
  /\ UNCHANGED <<lastPass, watch, signal>>

\* The thread registers the observer before its first pass (watch_changes).
\* Without access it registers nothing, and the channel is closed.
Register ==
  /\ src.at = "start"
  /\ watch' = access
  /\ src' = PassAt("pass")
  /\ sourceStays
  /\ UNCHANGED <<signal, dbVars, passedOver, lastPass>>

\* run_source between passes: a burst of signals is absorbed, and the next
\* pass begins; on a closed channel the thread ends.
Wake ==
  /\ src.at = "idle"
  /\ \/ /\ watch /\ signal
        /\ src' = PassAt("pass")
     \/ /\ ~watch
        /\ src' = PassAt("none")
  /\ signal' = FALSE
  /\ sourceStays
  /\ UNCHANGED <<watch, dbVars, passedOver, lastPass>>

\* The pass closure, then sync_pass up to the stored token.
PassStarts ==
  /\ src.at = "pass"
  /\ \/ /\ flag = "off"
        /\ PassEnds("skipped")
     \/ /\ flag = "on"
        /\ \/ PassEnds("failed")
           \/ PassGoesOn([src EXCEPT !.at = IF token = NoToken THEN "current"
                                            ELSE "changes"])
  /\ sourceStays
  /\ UNCHANGED <<dbVars, passedOver>>

\* changes_since, the history: inserts after the token, and the position of
\* the last change.  Details PhotoKit cannot give are left out without error.
ReadChanges ==
  /\ src.at = "changes"
  /\ \/ PassEnds("failed")
     \/ PassGoesOn([src EXCEPT !.at = "current"])
     \/ /\ access
        /\ LET inserted == {a \in Asset : born[a] > token}
           IN \E unreadable \in SUBSET inserted :
                PassGoesOn([at |-> "filter", full |-> FALSE, tok |-> pos,
                            ids |-> inserted \ unreadable, missed |-> unreadable])
  /\ sourceStays
  /\ UNCHANGED <<dbVars, passedOver>>

\* changes_since, the filter: of the inserts, those shown now.
FilterInserts ==
  /\ src.at = "filter"
  /\ PassGoesOn([src EXCEPT !.at = "enqueue", !.ids = @ \cap Shown,
                            !.missed = @ \cup (src.ids \cap Hidden)])
  /\ sourceStays
  /\ UNCHANGED <<dbVars, passedOver>>

\* A full pass: current_token, before the library is walked.
ReadCurrentToken ==
  /\ src.at = "current"
  /\ \/ PassEnds("failed")
     \/ /\ access
        /\ PassGoesOn([src EXCEPT !.at = "enumerate", !.full = TRUE, !.tok = pos])
  /\ sourceStays
  /\ UNCHANGED <<dbVars, passedOver>>

\* A full pass: all_asset_ids, one fetch of what is shown.
Enumerate ==
  /\ src.at = "enumerate"
  /\ \/ PassEnds("failed")
     \/ /\ access
        /\ PassGoesOn([src EXCEPT !.at = "enqueue", !.ids = Shown,
                                  !.missed = Hidden])
  /\ sourceStays
  /\ UNCHANGED <<dbVars, passedOver>>

\* enqueue_photos_new: every asset not seen yet, in one transaction.
Enqueue ==
  /\ src.at = "enqueue"
  /\ \/ PassEnds("failed") /\ UNCHANGED seen
     \/ PassGoesOn([src EXCEPT !.at = "store", !.ids = {}]) /\ seen' = seen \cup src.ids
  /\ sourceStays
  /\ UNCHANGED <<token, passedOver>>

\* Mutant: the token is read only when it is stored.
StoreTokenReadNow ==
  /\ src.at = "store"
  /\ \/ PassEnds("failed") /\ UNCHANGED <<token, passedOver>>
     \/ /\ PassEnds("ok")
        /\ token' = pos
        /\ passedOver' = {a \in src.missed : born[a] <= src.tok} \cup
                         (IF src.full THEN {} ELSE passedOver)
  /\ sourceStays
  /\ UNCHANGED seen

\* set_photos_change_token.  Now what the pass missed is behind the token.
StoreToken ==
  /\ src.at = "store"
  /\ \/ PassEnds("failed") /\ UNCHANGED <<token, passedOver>>
     \/ /\ PassEnds("ok")
        /\ token' = src.tok
        /\ passedOver' = {a \in src.missed : born[a] <= src.tok} \cup
                         (IF src.full THEN {} ELSE passedOver)
  /\ sourceStays
  /\ UNCHANGED seen

SourceStep ==
  \/ Register \/ Wake \/ PassStarts \/ ReadChanges \/ FilterInserts
  \/ ReadCurrentToken \/ Enumerate \/ Enqueue \/ StoreToken

SyncNext ==
  \/ \E a \in Asset : Insert(a) \/ Update(a)
  \/ SetAccess \/ Launch \/ ApplyNewConfig \/ TrayEnds
  \/ SourceStep

SyncSpec == SyncInit /\ [][SyncNext]_syncVars

\* The source thread is an ordinary thread: it runs on while the process does.
FairSyncSpec == SyncSpec /\ WF_syncVars(SourceStep)

----------------------------------------------------------------------------
(* Properties.                                                             *)

\* The token never lies beyond what was handed over: a shown asset is queued,
\* or was inserted after the stored token, or belongs to the few that the pass
\* which stored it could not see: hidden then, or without details.  A pass cut
\* short, a failed write and a restart between two steps lose nothing.
NothingMissed ==
  \A a \in Shown :
    token # NoToken => a \in seen \/ born[a] > token \/ a \in passedOver

\* No wake-up is lost: while the source is on and observes the library, a
\* shown asset is queued in the end, unless the last pass was cut short, was
\* skipped, or could not see it (then the next change is what brings it in).
HeldUp(a) == a \in passedOver \/ lastPass \notin {"none", "ok"} \/ flag # "on" \/ ~watch
EveryAssetIsQueued ==
  \A a \in Asset : (library[a] = "shown" /\ watch) ~>
                     (a \in seen \/ library[a] # "shown" \/ HeldUp(a))
=============================================================================
