# A verification development for ImmichSync

ImmichSync (`src/src/`, Rust) watches folders and, on macOS, the Photos library,
hashes and queues what appears in them, and uploads it to an Immich server; it then
leaves the files alone, moves them to a trash folder or deletes them. What must
never happen is easy to say: a photo that is lost, because it was taken away although
the server lacks it, or skipped although it was never uploaded, or queued and
forgotten. The code that keeps these promises runs in several tokio tasks, several
threads and several processes, over one SQLite database, a file system that other
programs write, a library and a server that belong to people who change them, and
it updates and installs itself meanwhile. These modules model that code.

Paths below are relative to the directory that holds `src/`; `worker.rs` is
`src/src/upload/worker.rs`, `queue.rs` is `src/src/upload/queue.rs`, and so on.

## 1. The system

### Components, their state and their operations

| component | state | operations | source |
|---|---|---|---|
| upload queue | `upload_queue` (status, hash, retry_count, error_message), `uploaded_files` | enqueue after two dedup look-ups, claim a batch, write a status, requeue without a retry, reset stale claims | `db.rs`, `queue.rs` |
| upload workers | per pipeline: the loop's place, tasks of the batch, `paused`, `auth_rejected`, a shutdown notification | `UploadWorker::run`, `process_item`, `fail_or_retry`, `hold_for_auth` | `worker.rs` |
| pipeline lifecycle | the pipeline in use, the user's pause, the 3 s wait of a settings save | `App::init`, `start_pipeline`, `apply_new_config`, pause, shutdown | `app.rs`, `upload/mod.rs` |
| watch engine and health monitor | one slot per folder: watcher, misses, restart failures, health; a monitor task per engine | start, `stop_all`, drop, `health_monitor_tick`, `restart_slot` | `watch/mod.rs` |
| folder convergence, initial scan | enabled folders (database), folders on disk, the scan thread | `start_watch_engine`, `converge_watch_folders`, `restart_watch_engine`, `initial_scan` | `app.rs` |
| folder watcher | the debouncer's window, write-completion checks, native or polling mode | `FolderWatcher`, `NetworkWatcher`, `should_include` | `watch/folder.rs`, `watch/network.rs`, `watch/filter.rs` |
| device import | mounted volumes, a channel of volume events, folder rows | the sweep, the window or callbacks, `handle_volume_event` | `platform/device.rs`, `platform/macos/volumes.rs`, `watch/device.rs`, `app.rs` |
| dedup scan, post-upload action | a file's size, mtime and hash against `uploaded_files`; the folder's action | `process_file`; the end of `process_item`; `apply_post_upload_to_existing` in the Settings process | `queue.rs`, `worker.rs`, `ui/settings.rs` |
| trash folder | `.immichsync-trash`, `trash_entries` | `trash_into_folder`, `move_no_clobber`, `cleanup_trash` | `worker.rs`, `db.rs` |
| Photos library source (macOS) | change token, library rows | full and incremental passes, toggling | `watch/photos/mod.rs`, `platform/macos/photos.rs` |
| Photos rows (macOS) | `photos_assets`, exports in `$TMPDIR`, deferred rows | `process_library_item`: export, download, dedup, still and video, records | `worker.rs`, `db.rs` |
| albums | server albums, `mirrored_albums`, `album_lock` | `place_in_albums`, `place_in_mirror`, find-or-create by name | `worker.rs`, `api/albums.rs` |
| Delete from Photos (macOS) | preview, job, `photos_deletions` | `plan`, `execute`, the macOS prompt | `watch/photos/delete.rs`, `ui/settings.rs` |
| server URL and API key | `config.toml`, Keychain or DPAPI blob, the tray's configuration, sign-ins | load, save, `seal_api_key`, the OAuth exchange, reloads | `config.rs`, `ui/sign_in.rs`, `api/oauth.rs`, `app.rs` |
| updater | program, parked image, staging, download, `version.txt` | checks, downloads, appliers, swap and rename dance, clean-up | `updater.rs`, `platform/macos/bundle_update.rs`, `ui/update.rs` |
| installation (Windows) | executables, registry entries, shortcuts, processes | launches, `cleanup_legacy_install`, the dialog, the uninstaller, the migration of legacy data | `main.rs`, `platform/install.rs`, `ui/install.rs`, `platform/uninstall.rs` |
| database schema | `schema_version`, tables and columns | `run_migrations` | `db.rs` |
| the rest | API client, hashing, metadata, notifications, log pruning, the log windows | | `api/`, `upload/`, `platform/`, `ui/` |

### How they interact

- The watchers, the initial scan and the Photos source put rows into the queue.
  Nothing but the database connects them with the workers.
- A pipeline's loop claims rows (`pending` to `uploading`) and spawns a task for
  each; the tasks talk to the server and write the rows' last status. The loop
  waits for its whole batch.
- A settings save stops the pipeline and starts another. `stop()` gives up after
  3 s, so two loops may drain one queue.
- Every window is a process of its own. It reads and writes the database and the
  configuration file that the tray reads, and can trash or delete files and photos
  itself; the tray hears of it when the process has ended.
- The health monitor and the main thread share the engine's slots by a mutex that
  is released between the steps of a restart.
- The sweep of the trash folder is called by the main thread at launch and hourly,
  while tasks and the Settings process move files into it.
- Volume events travel through a channel to the main loop, which writes a folder row
  and converges the engine.
- A launch may show a dialog, relaunch the installed copy, kill every other process
  of the program, or be the tray; a named mutex (a lock file on macOS) admits one.

### What is hard, and what makes each component correct

- *Queue and workers*: replaced pipelines, restarts between claim and last write,
  answers that are lost after the server acted, 401s that come late. Correct when
  a row has one task at a time, is never forgotten while it is claimed, is
  completed only if the server has its content, spends a retry only on its own
  failed upload, and is settled at last.
- *Watching*: a watcher that is being restarted while its engine is stopped,
  volumes that come and go, watchers that silently hear nothing, files that are
  still being written. Correct when no watcher runs that nobody can stop, a file is
  missed only where the watching has a gap, a finished file is reported as it is, a
  deaf watcher is found out, and an inserted card is imported.
- *Files*: every decision is taken on a version of the file that may be gone when
  the decision is carried out. Correct when nothing the server lacks is taken away
  or skipped, outside the windows that no check of this design can close.
- *Trash folder*: names claimed by several movers, failing moves, stale rows.
  Correct when no move destroys a file and none is purged before its time.
- *Photos*: a token and rows stored apart, assets that move between this Mac and
  iCloud, records other features delete by. Correct when the token never lies
  beyond what was queued, private exports are gone when their task is, records are
  true, a still never goes up before its video, and only what is verified and
  logged is deleted.
- *Albums*: two calls and a record, against people and other tasks. Correct when a
  mirror is the program's own and single, and a placement is where it says.
- *Key*: several writers, a secret store that may not open, reloads that come late.
  Correct when a key is never forgotten, a minted one never lost, and the tray
  works with what is in the file.
- *Updates and installation*: appliers nobody excludes from one another, kills by
  name, half-done swaps, two legacy layouts. Correct when there is a whole program
  to start, what is started comes up, entries point at a program, and the database
  arrives with all its commits and can always be opened.

`PROJECT.json` lists each hazard at its line with the properties that cover it.

## 2. The modules

| module | models | grain |
|---|---|---|
| `UploadPipeline` | queue, workers and pipeline lifecycle | one action per await-to-await step of loop, task and application |
| `Delivery` | what the queue promises for a row | the abstract specification |
| `WatchEngine` | engine, monitors, convergence, scan | one action per section under the slots' lock |
| `FolderWatcher` | one watcher: events, window, write completion | one action per sample, event and timer |
| `DeviceImport` | volumes, the monitor's thread, main loop and engine | one action per notice, event and loop turn |
| `FileSync` | a file's versions against row, record and removers | one action per read or write of the file or the database |
| `TrashBin` | the trash folder of one watched folder | one action per file-system call that matters |
| `LibrarySync` | the Photos source thread and its passes | one action per PhotoKit call or transaction |
| `LibraryItem` | a Photos row from claim to record | one action per await of `process_library_item` |
| `Albums` | placing uploads in albums | one action per API call or database write |
| `PhotosDelete` | preview, verification, log, prompt, outcome | one action per asset checked, write, and answer |
| `ServerKey` | URL and key from a form to the uploads | one action per read or write of file or secret store |
| `Updater` | checks, downloads, appliers, launches | one action per request or file operation |
| `Installer` | Windows launches, dialogs, windows, uninstaller | one action per file operation, registry write or kill |
| `Migration` | a legacy database on its way to its place | one action per copy, move, kill, open |
| `Schema` | the schema's migration steps | one action per transaction |
| `UploadPipelineProofs` | | theorems of UploadPipeline, and that it implements Delivery |
| `WatchingProofs` | | of WatchEngine, FolderWatcher, DeviceImport and their sum |
| `LocalFilesProofs` | | of FileSync and TrashBin |
| `LibraryItemProofs`, `PhotosDeleteProofs` | | of the module each is named for |
| `PhotosLibraryProofs` | | of LibrarySync and Albums |
| `TrayProofs` | | of Updater and ServerKey |
| `InstallProofs` | | of Schema, Migration, Installer and their sum |
| `MC...` | | the instances for TLC |

The modules meet at their edges. WatchEngine takes a watcher as given and ends where
a file is reported; FolderWatcher is that watcher's inside; DeviceImport ends where a
folder is watched and scanned. FileSync begins where a file is reported.
UploadPipeline has every interleaving of claims, tasks and pipelines but lets a file
keep the content it was hashed with; FileSync has changing files but takes from
UploadPipeline that a row is in one task's hands (`OneHolder`, proved), as does
LibraryItem. FileSync treats the removal of a file as one step; TrashBin opens that
step. LibrarySync ends where an asset is queued, where LibraryItem begins; Albums is
the step of a task between its records and its completion. PhotosDelete reads the
records that LibraryItem shows to be true (`RecordsAreTrue`). Installer has the
processes of which Migration and Schema say what they do to the database.

`MCWatching` and `MCInstall` are sums: TLC runs several modules that share no state
in one search, one of them at a time (`part` says which moves), each with its own
initial states and its own next-state relation, written out action by action. A sum
has no behaviour that a part lacks, and every property is one part's.

### UploadPipeline

`status`, `hash`, `retry_count`, `error_message` are the columns of `upload_queue`;
`uploaded_files` is the dedup table, by hash. `wire` holds requests under way and
`stored` the server's assets: a request may land (`Land`) whether or not its task
still waits for the answer, which is how an answer is lost. `loop[w]` is where
`UploadWorker::run` of pipeline `w` is, `task[w][e]` where its task for row `e` is.
`app` is the main thread: up, down, or in the 3 s wait of `apply_new_config`
(`StopOldPipeline`, then `StartNewPipeline`). `ProcessExit` may happen anywhere;
`Launch` recovers stale claims. `orphan` names rows whose last status write failed
(at most `MaxDbErrors` calls fail); the code only logs this and the row waits for
the next launch. A read of the database may fail for as long as `db_errors` allows.

### WatchEngine, FolderWatcher, DeviceImport

`slots` are those of the engine in use; `running[g][p]` counts the watchers that
engine `g` has really running. `monitor[g]`, `todo[g]`, `at[g]` are the monitor
task: it survives its engine until it notices. `deaf` is a watcher that hears
nothing, `gap` the folders where watching was interrupted since the engine's scan,
`unseen` the folders with a file nobody reported, `toScan` what the initial scan
has yet to walk. Engine ids are used again when their monitor is over, which bounds
the model without bounding the history. The upload pipeline is taken to exist (the
code starts no engine without one).

FolderWatcher opens one watcher: `window` is the debouncer's, `checks` are the
write-completion checks with the size each sampled first, `ready` the files reported
since their last write. `mode` is what `start` chose after its health-check event;
a polling watcher sees changes by comparing. `lost` names the files given up for a
reason the code states (a directory moved in as a whole, a writer that outlasts
`MAX_WRITE_WAIT`, no watcher at the time).

DeviceImport has both platforms: `notices` is what DiskArbitration or
`WM_DEVICECHANGE` is about to deliver, `mounted` the callbacks' memory of mount points,
`queue` the channel, `batch` what the main loop has drained. Volumes move at any time;
`rows` and `engine` are read when the loop gets there, by then of another volume
perhaps.

### FileSync and TrashBin

`disk` maps a path to content and mtime. A row carries the hash and the size the
scan saw, and `body`, what the upload really read. `scanning` is the size between
`process_file`'s stat and its hash. `settings` is the Settings process between
its check of a file and the removal. `lost` is the verdict: who gave up a content
that the server lacked. Three history sets name the windows in which that can
happen: `raced` (written while its path stood checked for removal), `overtaken`
(a hashed content was overwritten before its upload read the file; the row then
records that hash for other bytes) and `stamped` (written between an upload's read
and its record, or with a size and mtime some record has). A hash or an upload
reads one version: torn reads are left out. `Write` may set any mtime, as copies
that preserve times do.

TrashBin has one relative path; name 0 is that path in the bin and name *n* is
"stem (n).ext". `bin` maps a name to the file there, to the `Placeholder` that
`create_new` made, or to a `Leftover` placeholder whose process is gone. `mover[m]` is
a call of `move_no_clobber`: a worker's task or the Settings process. `sweep` is a
call of `cleanup_trash`, with the names still to walk, those seen, and the one about
to be purged. The clock counts days; a move or a sweep takes less than one. `since`
(when a name got its file), `unpruned` and `stale` (names vacated with their row
perhaps left; names that got a file then) and `robbed` (movers whose claim was
emptied by the user or the sweep, or taken by another) serve the properties only.

### LibrarySync, LibraryItem, Albums, PhotosDelete

In LibrarySync a change token is a position in the library's history. `src` is the
source thread's place and its pass's data; `signal` the one-slot channel of change
signals; `flag` the switch it reads; `token` and `seen` are the database. Any step may
fail, the process may end at any, and assets come, go, are hidden and shown.

In LibraryItem `task[a]` walks through `process_library_item`: export from this Mac,
the download slot, hash, dedup, the video of a Live Photo, the still, records,
completion, backoff. `temp` is the export in `$TMPDIR`, `server`, `recorded` and
`known` are Immich and the two tables; a pipeline may be replaced while its tasks run.

In Albums a task is under its pipeline's lock or, for a watched folder, under none;
`album` are the server's albums, numbered as they are made, which people rename and
delete; `mirrored` is the table. An answer that is a success may refuse the asset
(`refused`): the client logs that and the caller takes it for done. `orphan`,
`overlapped` and `raced` name the known ways to a second album.

In PhotosDelete a `job` is the thread of a preview or a deletion, `prompt` the batches
macOS asks about, `window` what the Settings window waits for. People edit photos and
trash server copies at any time; `late` holds what changed after its check.

### ServerKey and Updater

ServerKey follows a key: `env` is the one from IMMICHSYNC_API_KEY, which a save must not
write (`FromEnv`, `ToStore`, with `unread` when the file could not be read); `win[w]` is
a window process with its form, its sign-in and its save in three steps (seal, write,
rename); `file`, `tmp`, `keychain` are the disk; `at`, `config`, `client`, `pipeline`
the tray; `thread` and `read` the reloads of Retry Keychain Access, `rx` and `inbox` the
channel of the window the tray waits for.

Updater has three kinds of applier (the background download, the tray's dialog, a
launch's own dialog), nothing between them but the disk: `app`, `parked`, `staged`,
`download`, `noted`. An image is a version, damaged, or absent.

### Installer, Migration, Schema

An executable is a version at a place; `proc` are the processes with the file they
run, what they were started for, and who waits for whom. A kill by name ends all but
the killer; a parent goes on when its child ends (`Without`). What the properties
except is in `mishaps`, by kind; "stale" is a cleanup that removed the legacy executable
and then failed to read or write the registry.

Migration has a database and a log per directory as commits of one line, in the
directory of the oldest layout, of the mixed one, or both. Each process kills, removes,
copies (step 1), moves (step 2) and opens, each step apart from the others'. A copy is
three: the check, the file that appears and is torn, and its content; whoever is killed
meanwhile leaves it torn (`spoilt`). In Schema a process carries the number of its next
step from the moment it read the version.

## 3. The runs

State counts are of a complete search.

| run | modules | bounds | distinct states | shows |
|---|---|---|---|---|
| `Upload` | UploadPipeline, Delivery | 1 row, 2 pipelines, 2 retries, 1 failing database call | 762 832 | one task per row across replaced pipelines, no forgotten claim, honest completion, refinement of Delivery, every row settles |
| `FileSafety` | FileSync | 1 path, 2 contents, 2 stamps, 2 rows, 2 writes | 1 958 582 | what may be taken away |
| `FileSettings` | FileSync | the same | | a violation, see section 6 |
| `TrashSafety` | TrashBin | 2 files, 2 movers, 2 names, 2 days, retention 0, database calls may fail | 591 613 | moves destroy nothing, early purges only under stale names |
| `Watch` | WatchEngine, FolderWatcher, DeviceImport | 1 folder, 2 engines, thresholds 2; 1 file, 2 writes, 2 checks of 2 rounds, 2 starts; 3 volumes, 1 mount point, 3 moves | 69 439 | no leaked watcher, no loss without a gap, nothing slips through a watcher, deaf watchers go, unwanted folders are dropped, cards are imported |
| `PhotosSync` | LibrarySync | 1 asset, 4 changes of the library | 681 980 | the token never lies beyond what is queued, every shown asset is queued |
| `PhotosItem` | LibraryItem | 2 assets, one a Live Photo, 2 pipelines, 2 retries, 2 starts, 1 failing write | 2 907 452 | exports are brief, records are true, no still before its video |
| `Albums` | Albums | 1 collection, 2 library tasks, 1 folder task, 2 pipelines, 2 titles, 3 albums, 2 events | 3 769 831 | mirrors are single and the program's own, one album by name, a placement is there unless the server refused it |
| `PhotosDelete` | PhotosDelete | 2 assets, one a Live Photo, 2 jobs, 3 log rows, 2 events | 1 290 216 | only what is safe is deleted, logged first, and the log is true |
| `Updates` | Updater | 2 launches of 2 processes, 2 releases, 1 fault | 693 635 | a program is there, whole, and updates arrive |
| `Keys` | ServerKey | 1 server, a pasted and a minted key, 2 windows, 1 reload thread, 3 events | 587 863 | no key is forgotten, none minted is lost, the tray is current |
| `Install` | Installer, Migration, Schema | 3 processes, 2 launches, versions 1 to 3, 1 fault; 2 processes, 3 starts, 2 commits, 1 fault; 2 openers, 1 fault | 1 120 941 | what is started comes up, entries have a program, no downgrade; history arrives; no start is stuck |

Why these bounds are enough to be interesting. Two pipelines are the least at which
a replaced one and its replacement meet, and a process has no third at a time
unless two saves come within one batch. One retry and two retries separate a failure
that is counted from one that is not. Two engines are the old one, whose monitor has
not noticed, and the new one. Two contents of which the sizes may coincide, two stamps
and two writes give a replacement with the same size, the same mtime, or both. Two
movers and two names give a clash and its way out; retention 0 and two days give a
file younger and a row older than the retention. Four library changes let an asset
come, be hidden, shown and go within and between passes. Two windows or jobs, two
launches, and three albums for one collection are the least at which two actors
disagree; three processes are a tray, the launch that would replace it and its
dialog. One or two events or faults, placed anywhere, give every single failure and
its aftermath. The proofs hold for all values.

During development larger instances passed too: UploadPipeline with two rows of one
content (1 326 074 states), WatchEngine with two folders (1.09 million), Schema with
three processes (1 001 790).

Smaller than in the code: `max_retries`, `concurrency`, the health monitor's limit of
restarts (3; its threshold of 2 misses is the code's), 10 000 candidate names, retention
in days, `MAX_BATCH`. `CHECK_DEADLOCK FALSE` is said where events, launches or assets
are bounded and the system may stop for good when they are used up: PhotosItem, Albums,
PhotosDelete, Watch, Updates, Keys, Install. Symmetry is used in runs without liveness,
over members of a set that a module treats alike.

### Fairness

`UploadPipeline`: weak fairness of every loop, every task, and of the main thread's
return from its 3 s wait. tokio polls runnable tasks, requests have timeouts, and
waits have timers. None for `Launch`, for the user (pause, save), for keys, or for
the failure of status writes. `EveryRowSettles` assumes further that a pipeline
stays runnable from some time on: the user may keep it paused for ever.
`WatchEngine`: weak fairness of each monitor (a timer), of the main thread's tick
(`StartEngine`, `Reconcile`), and of the scan thread; `DeviceImport`: of the monitor's
thread, the delivery of notices and the main loop. None for the volumes, the
database's `enabled`, or a watcher's hearing. `LibrarySync`: weak fairness of the
source thread, which blocks only on its channel. `Updater`: weak fairness of the
tray's timer and polls and of the background download's steps, none of the dialogs'.
The others have safety properties only.

## 4. What is proved

Every safety invariant and every action property that a run checks is a theorem, for
every value of the constants that satisfies the module's assumption
(`PipelineAssumption`, `EngineAssumption`, `WatchingAssumption`, `FileAssumption`,
`TrashAssumption`, `SyncAssumption`, `ItemAssumption`, `AlbumsAssumption`,
`DeleteAssumption`, `UpdaterAssumption`, `KeyAssumption`, `InstallAssumption`). These are
types of constants and the distinctness of marker values and of kinds of processes; TLC
evaluates each in a run. Nothing else is assumed: the bounds on events and failures are any
natural numbers, sets of processes, rows, files, keys and albums are any sets (finite
where a size is asked for).

Few of the properties are inductive. What had to be added, by module:

- **UploadPipelineProofs**: `InvariantHolds`, from which type correctness,
  `OneHolder`, `NoForgottenClaim`, `CompletedIsStored`, `FailedAfterMaxRetries`,
  `HoldsOnlyOnItsOwnKey`, `ConcurrencyRespected` and the action property
  `HeldClaimsNothing`. That a completed row is stored, say, needs what a task at each
  step knows of `wire` and `stored`, and that nobody else completes its row, hence
  `OneHolder`; that needs what each pipeline's place says of the claims of the others,
  and that recovery runs only while no task lives. There too, `QueueKeepsPromise`:
  with a row's status read as a phase, each step is a step of Delivery or a stutter.
- **WatchingProofs**. *WatchEngine*: `EngineInvariantHolds`, from which types (the
  counters' limits included), `NoLeakedWatcher`, `HealthyIsWatched` and `NoGapNoLoss`.
  The first needs what the monitor holds at each place between the two locks of
  `restart_slot`, for engines already stopped too; `EngineInTheSum` carries it to the
  specification that the run checks. *FolderWatcher*: `NoPhotoSlips`. `NothingSlips`
  speaks of finished photos, the invariant of every file on disk: from its event on it
  is followed, finished or not; a native watcher is never deaf. *DeviceImport*:
  `NoMountIsLost` (`CardIsOnItsWay`: a card that is due and not scanned is announced by a
  notice or event that nobody has handled, or is drift). On macOS a callback says
  nothing when the mount point is the one it saw last. So the invariant has the
  system's last word on each volume (the last notice in the queue, or the callbacks'
  memory when there is none) agree with where it is, and a card without a row be
  either in an event, or remembered elsewhere, or about to be forgotten.
- **LocalFilesProofs**. *FileSync*: `FileInvariantHolds`, from which types,
  `WorkerTakesUploaded`, `SettingsTakesUploaded` and `SkippedIsUploaded`. The
  invariant follows one hash through its life: at each step of its row's task it
  says which of file, body, server and history sets account for it. *TrashBin*:
  `TrashInvariantHolds`, from which types, `ClaimsAreHeld`, and the action properties
  `NothingIsReplaced` and `EarlyOnlyIfUnpruned`. The invariant says that a name belongs
  to at most one mover that was not robbed, what is under it at each place of the
  move, that nothing under a claimed name is of an earlier day, and that the row of a
  name that is not in `unpruned` is not older than the file there.
- **PhotosLibraryProofs**. *LibrarySync*: `NothingIsMissed`. What `NothingMissed` says of
  a shown asset has to hold of a hidden one too, since showing it again brings no new
  position (`Kept`); and of a pass that is about to store its token, for all that lies
  behind that token and was not behind the stored one (`InHand`): it is in the pass's
  list, was handed over, or is an asset the pass could not see. *Albums*: `MirrorsStayOwn`,
  `NoSecondMirror`, `NoSecondByName`, `PlacementsHold`. The invariant says what a task
  between two of its calls holds in hand, that inside the section it holds its
  pipeline's lock, when a collection without a row is sure to have no album, and that a
  task that listed the names and found none is still right while the lock is its own. A
  placement counts only with the server's word for that asset, so refusals are carried
  apart from placements.
- **LibraryItemProofs**: `ItemInvariant`, from which `ExportsAreBrief`,
  `RecordsAreTrue` and `NoLoneStill`, for any number of assets, pipelines, starts and
  failed writes. The invariant is asset by asset: a row with a task is `uploading` and
  a deferral left its row `failed`, so no claim and no requeue finds a row at work;
  and at the step before a record, or before the still, the part in question is on the
  server. Each action touches one asset (`OneAsset`), so each lemma is about that one.
- **PhotosDeleteProofs**: `DeleteInvariant`, from which `OnlySafeIsDeleted`,
  `LoggedFirst` and `LogIsTrue`, for any number of threads and any batch size. That the
  log is true needs whose rows are whose: rows of two threads, and of two
  confirmations, are disjoint, and a thread that is about to write "declined" has no
  confirmation left, on screen or answered, while one that timed out may have and
  therefore writes "failed". That only safe assets go needs what is cleared while some
  of an asset's parts are still to be verified.
- **TrayProofs**. *Updater*: `UpdaterInvariant`, from which `NeverWithoutProgram` and
  `OnlyWholeReleases`. Whoever overlaps another applier, or dies in a swap, spoils the
  promises, so until then at most one is at work (`Alone`); in its swap there is a way
  back at each step (`Somewhere`), and what it has checked is whole at each place it
  moves through (`Whole`). *ServerKey*: `KeysInvariant`, from which `MintedKeysAreKept`
  and `StoredKeyStays`: the invariant says of the one open window what it would store,
  and hands that on from form to sealed blob to `config.toml.tmp` to file; with a second
  window, or once a save could not read the key it was to keep, it promises nothing.
  `TrayInvariant`, from which `TheTrayIsCurrent`: whose window and whose reload
  `settings_rx` waits for, that what is in it was read from the file as it is, and that
  the uploads have the client of the tray's configuration.
- **InstallProofs**. *Schema*: `NoStartIsStuck` and `SchemaIsWhole`, for any number of
  processes, by the invariant `IInv`; `SchemaInTheSum` carries both to the run's
  specification. A process that carries an old number may write it over a newer one, so
  neither follows from the version on disk alone. A stale process at steps 2 to 4
  fails, as its columns are there; at steps 5 to 7 its number hides no column; only
  one at step 1 could write a number that does, and it is a tray alone, which is what
  the invariant has to carry: windows come only after a tray that has the database open.
  *Migration*: `TheHistoryArrives` and `TheNewDataIsKept`, by `DataInv`. A file at the new
  place says little of how it came there, so the invariant is in layers, each under
  what it can bear. Always: a legacy place has its own line (`Lines`). While nothing fails
  and no killed program comes back: what a process finds at its step, whoever copied or
  moved it (`Way`). With one layout only: what lies at each place and what was moved
  (`Homes`); with both, step 2 passes over the newer database and this is false. And
  if no copy was cut short: what was copied is complete, or its one copier is still at it
  (`Straight`), from which nothing is missed; a torn file would never be mended.
  *Installer*: `TheProgramComesUp`, `TheEntriesHaveProgram` and
  `NothingIsDowngraded`. A process waits for a dialog or for the installed copy only, so no
  chain of waits is longer than two (`Orderly`); without the named mishaps, each step of a
  process that was to become a tray leaves one that still is (`SomeHope`), entries lose
  their program between two renames only, and a legacy entry without its executable has a
  failed cleanup behind it (`Entries`), and no dialog's version is behind
  the installed one (`Versions`).

Each invariant was first checked with TLC. Each proof has an initialisation, one
lemma per action or group of actions (under it a step per conjunct), and a temporal
step.

Proved, and not among the runs, whose properties are limited to the deepest:
`FailedAfterMaxRetries`, `HoldsOnlyOnItsOwnKey`, `HeldClaimsNothing`,
`ConcurrencyRespected`, `HealthyIsWatched`, `SkippedIsUploaded`, `ClaimsAreHeld`,
`CardIsOnItsWay` (each checked with TLC when it was written), and the type invariants of
all modules.

Only model-checked: liveness (`EveryRowSettles`, `DeafIsTakenDown`,
`UnwantedIsDropped`, `CardIsImported`, `EveryAssetIsQueued`, `UpdateArrives`), since
fairness and ENABLED are beyond the prover. Of the devices' liveness the theorem has the
half that is safety: what is not imported yet is never out of everybody's sight.

## 5. What is not modelled

- *Hashing and metadata* (`upload/hasher.rs`, `upload/metadata.rs`): pure functions of
  one file's bytes. A content stands for its SHA-1.
- *API client*: what requests look like, paging, parsing, retries inside a call. The
  modules have each call's outcomes: done, done without an answer, refused, failed.
- *File filter*: the patterns' matching, which its unit tests cover; FolderWatcher has
  what the result decides.
- *Windows, tray and dialogs*: layout and texts; the log windows, which read what others
  write; notifications.
- *Platform*: the macOS launch agent, Finder's trash, known folders, log pruning, the
  hidden attribute. Straight lines of system calls whose result nobody else relies on.
- In modelled components: more than one watched folder in FileSync and TrashBin; the
  removal of empty directories in the bin; torn reads of a file that is being written,
  which the write-completion check is there to prevent; a watcher's path normalisation
  (`watch/paths.rs`); tray texts; the other settings in `config.toml`, which a save
  carries along; a load of the configuration, which is one step, taken apart; a second
  row for one file in UploadPipeline, which only costs an upload that the server takes
  for a duplicate; a configuration or database that cannot be opened after the
  single-instance lock was taken, which ends that process; the in-app updater beside
  Installer, so that a dialog left open across an update from the tray is not covered;
  what another process reads of a copy that is being written, beyond that it can't open
  it. Step 2's check and rename are one step, since what could come up between them is
  what another process has moved, and then its source is gone.

## 6. What the runs found

One disagreement of the code with its own words is kept as a run.

- `FileSettings` (`ui/settings.rs:957`): the Settings process may remove a file that was
  never uploaded. The record's mtime is read after the upload and can be a
  replacement's. The next scan skips that file as well.

The models contain the following behaviour of the code too. It was met while modelling;
the properties leave it out by name, or allow it. The first group contradicts a comment
or document.

*Against what is written*

- A stop during a batch is lost (`worker.rs:547`): `notify_waiters` leaves no permit for a
  loop that waits for its batch; the loop claims the next batch, beside the pipeline
  that replaced it.
- A settings save opens the pause gate (`app.rs:788`): the new pipeline is not paused
  while the application says that it is.
- A retry's precheck hit is not recorded (`worker.rs:681`): the row is completed without
  an `uploaded_files` row, without its albums and without the post-upload action.
- The doc of `migrate_legacy_data` says that only what is missing is copied; a copy that
  is killed half-way leaves a truncated `state.db`, which is there (`!dest.exists()`,
  `platform/install.rs:209`), so that no later start copies it again; it does not open,
  or opens as an empty one. A copy that begins over a file made meanwhile overwrites it.
- A failed watcher restart is never retried (`watch/mod.rs:472`): the tick looks only at
  slots that have a watcher, and the failed one lost its.
- Retention can end early (`worker.rs:1567`): rows of a bin that was thrown away stay, and
  date the next file of the same name.
- A save with IMMICHSYNC_API_KEY set can forget the stored key (`config.rs:689`): it keeps
  "whatever the file already held", which it reads again, and `stored_api_key`
  (`config.rs:726`) makes an empty key of a file it can't read or parse. ServerKey marks
  such a save `unread`, which `KeyIsNotForgotten` leaves out.
- A machine that went from the oldest layout to the mixed one has both directories. Step 1
  copies the older database, step 2 finds its place taken and leaves the newer one
  (`platform/install.rs:301`), for good; `main.rs:68` speaks of every install shipped.
  `Install` starts from such machines too, and `HistoryArrives` leaves them out by
  `TwoHomes`: without it TLC shows the lost commits.
- Step 1 of the migration copies `state.db-wal` again at each start once the new database
  has no log of its own (`platform/install.rs:209`): an old log beside a newer database.
  The comment at line 164 says that data at the new place is preserved.
- `cleanup_legacy_install` kills every process of the program, in every process of the
  program, for as long as a legacy executable is there (`platform/install.rs:651`). A
  0.1.x that was updated in its place runs from there and can't remove itself: a
  window then kills its own tray, and a dialog its parent.
- A fixed disk that takes a removable's mount point is watched whole; `watch/device.rs:55`
  says never.

*Uploads and folders*: a directory moved into a watched folder brings no event for its
files; a lock held for more than 30 s loses the file until the next scan; a probe that
is cut short leaves its file; an enabled folder whose watcher can't start makes the
engine restart, and scan, every 2 s.

*Photos*: switching the source on starts no pass until the next change; a failed or
skipped pass is not repeated until then; an asset hidden when it was added and shown
later waits for a full pass; assets without change details are passed over; without
permission at its start the thread ends while the flag stays on.
`sweep_stale_exports` also runs when a pipeline is rebuilt, under tasks that still
export; download and album locks are each pipeline's own, so a rebuild can make a
second mirror; a 401 on the video spends a retry; deferrals add to `retry_count`
(`db.rs:1202`); albums by name are found or created under no lock by folder tasks; a
crash between creation and record leaves an album nobody owns.

*Albums*: the server may answer a request to add an asset with success and refuse that
asset, or with a body nobody can parse: both are logged (`api/albums.rs:152`), taken for
done (`assets.rs:397`) and not tried again, so the asset is in no album.

*Delete from Photos*: a prompt unanswered for 15 minutes is logged as failed and may
still delete; closing the window forgets the running job, so two can overlap; what
changes between check and prompt is not looked at again; rows stay `pending` after a
crash.

*Devices*: on Windows a card inserted between the sweep and the window is not noticed;
a card swapped at one mount point within 2 s is not scanned; switching the import on
leaves out the cards that are in.

*Key*: a window that is closed while the result of a sign-in waits in it, or while
another tab than the server's is shown, loses the minted key, which stays valid on the
server; editing the URL while a sign-in runs stores the key under another server's URL;
the Keychain is sealed before the file is renamed, so that a failed save pairs the new
key with the old URL; `config.toml.tmp` is shared; Settings closes though its save
failed; an upload setting other than URL and key reaches no running pipeline.

*Updates and installation*: appliers are not excluded from one another and share file,
staging and parked image, so that one can swap in what another is still writing; a swap
removes the parked image before it knows that the program is there; a failed second
rename on Windows leaves no program and nothing restores it; a dialog left open can
install an older release, and so can two dialogs or a missing `version.txt`; a failed
copy after the rename dance leaves no installed program; a launch while the tray is
closing ends without one; Save in portable mode points autostart at a program that isn't
there; the uninstaller's `rmdir` may meet a reinstall; the registry entries of a legacy
install are cleaned up after its executable is removed, and a failure is logged only
(`platform/install.rs:707`, 717, 741), while the next start finds no legacy install
(line 636): such an entry stays for ever and points at nothing; an install that copied
the program but could not write `version.txt` leaves a newer program with an old stamp,
which a later dialog would replace by an older release (it takes more faults and
launches than the run has; the proof of `NoDowngrade` had to name it).

*Schema*: a process that races another through steps 2 to 4 fails to open the database
and ends, once; a stale number can lower `schema_version` for a while, harmlessly.

## 7. Plan

Done: the modules of section 2, with runs for each and proofs of every safety property
of the runs. Next, by weight:

1. **Composition**: FileSync over TrashBin, so that a removed file is shown to be in the
   bin until its retention ends; "a file is on disk, in the bin, or on the server" as an
   abstract specification that both implement.
2. **FolderWatcher inside WatchEngine**: what a watcher promises for a file (followed,
   reported as it is, or given up for a stated reason) as an abstract specification,
   which FolderWatcher implements step by step.
3. **Schema as one process sees it**: that the steps of many processes together
   implement a single migration, columns only ever added in order.
4. Log pruning and the macOS launch agent, if a second actor ever writes what they do.
