---------------------------- MODULE PhotosDelete ----------------------------
(***************************************************************************)
(* Delete from Photos: the settings window asks for a preview and for a    *)
(* batch, a thread of its own re-checks each asset against the rules and   *)
(* the server, logs the batch, and has macOS ask the user before the       *)
(* library loses anything (src/src/watch/photos/delete.rs, its callers in  *)
(* src/src/ui/settings.rs, the library's one write in                      *)
(* src/src/platform/macos/photos_delete.rs, the log in src/src/db.rs).     *)
(*                                                                         *)
(* Between the check and the answer, up to 15 minutes, the user may edit   *)
(* or favourite a photo, a person may trash it on the server, the window   *)
(* may close and another ask for the same batch, and the process may end.  *)
(***************************************************************************)
EXTENDS Naturals, FiniteSets

CONSTANTS
  Asset,     \* local identifiers
  Live,      \* Live Photos among them
  Job,       \* preview and delete threads that can run at once (bound)
  None,      \* no job, no preview
  MaxBatch,  \* MAX_BATCH
  MaxRows,   \* bound: rows of photos_deletions
  MaxEvents  \* bound: what the user, people and failures do meanwhile

ASSUME DeleteAssumption ==
  /\ IsFiniteSet(Asset)
  /\ Live \subseteq Asset
  /\ None \notin Job
  /\ MaxBatch \in Nat \ {0}
  /\ MaxRows \in Nat
  /\ MaxEvents \in Nat

VARIABLES
  here,     \* assets in the library
  kept,     \* those a rule keeps: favourites, edited, in an album, too recent
  recorded, \* photos_assets: uploaded parts with their SHA-1 and Immich id
  server,   \* parts that Immich holds, untrashed, with that checksum
  log,      \* photos_deletions
  job,
  window,   \* the settings window: preview shown, and job it waits for
  prompt,   \* macOS confirmations on screen
  removed,  \* ghost: confirmations the user agreed to
  late,     \* ghost: assets that changed after a delete had checked them
  events

libraryVars == <<here, kept>>
vars == <<libraryVars, recorded, server, log, job, window, prompt, removed, late, events>>

Part == {"photo", "paired_video"}
Rows == DOMAIN log

\* The resources an asset must have uploaded.
required_resources(a) ==
  {a} \X (IF a \in Live THEN {"photo", "paired_video"} ELSE {"photo"})

Free == [kind |-> "none", at |-> "free", only |-> {}, ok |-> {}, left |-> {},
         rows |-> {}, outcome |-> "none"]
Closed == [preview |-> None, job |-> None]

\* A batch that macOS asks about, and its rows in the log.
Confirmation == [batch : SUBSET Asset, rows : SUBSET Rows]

TypeOK ==
  /\ here \in SUBSET Asset
  /\ kept \in SUBSET Asset
  /\ recorded \in SUBSET (Asset \X Part)
  /\ server \in SUBSET (Asset \X Part)
  /\ log \in [1..Cardinality(Rows) -> [asset : Asset,
                outcome : {"pending", "deleted", "declined", "failed"}]]
  /\ job \in [Job -> [kind : {"none", "plan", "delete"},
                      at : {"free", "read", "verify", "log", "ask", "prompt", "finish"},
                      only : SUBSET Asset, ok : SUBSET Asset, left : SUBSET (Asset \X Part),
                      rows : SUBSET Rows,
                      outcome : {"none", "deleted", "declined", "failed"}]]
  /\ window \in [preview : {None} \cup SUBSET Asset, job : Job \cup {None}]
  /\ prompt \in SUBSET Confirmation
  /\ removed \in SUBSET Confirmation
  /\ late \in SUBSET Asset
  /\ events \in 0..MaxEvents

Init ==
  /\ here = Asset
  /\ kept = {}
  /\ recorded = {}
  /\ server = {}
  /\ log = <<>>
  /\ job = [j \in Job |-> Free]
  /\ window = Closed
  /\ prompt = {}
  /\ removed = {}
  /\ late = {}
  /\ events = 0

Event   == events < MaxEvents /\ events' = events + 1
NoEvent == UNCHANGED events

Deleted == UNION {p.batch : p \in removed}

\* Assets that a delete has checked and may still delete, or has deleted.
Checked(a) ==
  \/ \E j \in Job : job[j].kind = "delete" /\ job[j].at # "read" /\ a \in job[j].ok
  \/ \E p \in prompt \cup removed : a \in p.batch

----------------------------------------------------------------------------
(* The world outside.                                                      *)

\* The upload of a part is recorded (LibraryItem).
Uploaded(part) ==
  /\ part \notin recorded
  /\ part \in required_resources(part[1])
  /\ recorded' = recorded \cup {part}
  /\ server' = server \cup {part}
  /\ UNCHANGED <<libraryVars, log, job, window, prompt, removed, late, events>>

\* The user favourites, edits or files a photo, or undoes it.
UserEdits(a) ==
  /\ Event
  /\ a \in here
  /\ kept' = IF a \in kept THEN kept \ {a} ELSE kept \cup {a}
  /\ late' = IF Checked(a) THEN late \cup {a} ELSE late
  /\ UNCHANGED <<here, recorded, server, log, job, window, prompt, removed>>

\* The user deletes it in Photos.
UserDeletes(a) ==
  /\ Event
  /\ a \in here
  /\ here' = here \ {a}
  /\ UNCHANGED <<kept, recorded, server, log, job, window, prompt, removed, late>>

\* Immich loses a part, or puts it in its trash.
ServerLoses(part) ==
  /\ Event
  /\ part \in server
  /\ server' = server \ {part}
  /\ late' = IF Checked(part[1]) THEN late \cup {part[1]} ELSE late
  /\ UNCHANGED <<libraryVars, recorded, log, job, window, prompt, removed>>

----------------------------------------------------------------------------
(* The settings window.                                                    *)

busy == window.job # None

\* "Preview...": every uploaded asset is considered.
run_delete_plan(j) ==
  /\ ~busy
  /\ job[j] = Free
  /\ job' = [job EXCEPT ![j] = [Free EXCEPT !.kind = "plan", !.at = "read", !.only = Asset]]
  /\ window' = [window EXCEPT !.job = j]
  /\ UNCHANGED <<libraryVars, recorded, server, log, prompt, removed, late, events>>

\* "Delete n photos...": the previewed set.
run_delete(j) ==
  /\ ~busy
  /\ window.preview \notin {None, {}}
  /\ job[j] = Free
  /\ job' = [job EXCEPT ![j] = [Free EXCEPT !.kind = "delete", !.at = "read",
                                            !.only = window.preview]]
  /\ window' = [window EXCEPT !.job = j]
  /\ UNCHANGED <<libraryVars, recorded, server, log, prompt, removed, late, events>>

\* The window closes, and opens again, with nothing shown and no job known;
\* the thread goes on.
CloseWindow ==
  /\ Event
  /\ window # Closed
  /\ window' = Closed
  /\ UNCHANGED <<libraryVars, recorded, server, log, job, prompt, removed, late>>

\* The thread ends; its window, if it is still there, shows the result.
Ends(j, preview) ==
  /\ job' = [job EXCEPT ![j] = Free]
  /\ window' = IF window.job = j THEN [preview |-> preview, job |-> None] ELSE window

\* A failed preview leaves the one shown before; a failed delete shows none.
Fails(j) == Ends(j, IF job[j].kind = "plan" THEN window.preview ELSE None)

----------------------------------------------------------------------------
(* plan and execute.                                                       *)

\* photos_uploaded_resources: assets whose deletion is not in the log.
photos_uploaded_resources(a) ==
  /\ recorded \cap ({a} \X Part) # {}
  /\ \A r \in Rows : log[r].asset = a => log[r].outcome # "deleted"

\* decide: the local rules.
decide(a) ==
  /\ a \in here
  /\ a \notin kept
  /\ required_resources(a) \subseteq recorded

\* Mutant: a preview stands for the rules when the batch is deleted.
ReadPreviewed(j) ==
  LET ok == IF job[j].kind = "plan"
            THEN {a \in job[j].only : photos_uploaded_resources(a) /\ decide(a)}
            ELSE {a \in job[j].only : photos_uploaded_resources(a)}
  IN /\ job[j].at = "read"
     /\ job' = [job EXCEPT ![j] = [@ EXCEPT !.at = "verify", !.ok = ok,
                                            !.left = UNION {required_resources(a) : a \in ok}]]
     /\ UNCHANGED <<libraryVars, recorded, server, log, window, prompt, removed, late, events>>

\* eligible, up to the server check: records and facts, read at one time.
Read(j) ==
  LET ok == {a \in job[j].only : photos_uploaded_resources(a) /\ decide(a)}
  IN /\ job[j].at = "read"
     /\ \/ /\ job' = [job EXCEPT ![j] = [@ EXCEPT
                        !.at = "verify", !.ok = ok,
                        !.left = UNION {required_resources(a) : a \in ok}]]
           /\ UNCHANGED window /\ NoEvent
        \/ Fails(j) /\ Event
     /\ UNCHANGED <<libraryVars, recorded, server, log, prompt, removed, late>>

\* Mutant: a server that cannot be reached is no reason to keep a photo.
verify_if_reachable(j) ==
  /\ job[j].at = "verify"
  /\ \E part \in job[j].left :
       \/ /\ part \in server
          /\ job' = [job EXCEPT ![j].left = @ \ {part}] /\ NoEvent
       \/ /\ part \notin server
          /\ job' = [job EXCEPT ![j].ok = @ \ {part[1]},
                                ![j].left = {q \in @ : q[1] # part[1]}] /\ NoEvent
       \/ job' = [job EXCEPT ![j].left = @ \ {part}] /\ Event
  /\ UNCHANGED <<libraryVars, recorded, server, log, window, prompt, removed, late>>

\* verify_on_server, a part at a time: one that is missing, trashed or
\* another file, or a server that does not answer, keeps the asset.
verify_on_server(j) ==
  /\ job[j].at = "verify"
  /\ \E part \in job[j].left :
       \/ /\ part \in server
          /\ job' = [job EXCEPT ![j].left = @ \ {part}] /\ NoEvent
       \/ /\ job' = [job EXCEPT ![j].ok = @ \ {part[1]},
                                ![j].left = {q \in @ : q[1] # part[1]}]
          /\ IF part \in server THEN Event ELSE NoEvent
  /\ UNCHANGED <<libraryVars, recorded, server, log, window, prompt, removed, late>>

\* A preview is complete.
PlanDone(j) ==
  /\ job[j].at = "verify" /\ job[j].left = {} /\ job[j].kind = "plan"
  /\ Ends(j, job[j].ok)
  /\ UNCHANGED <<libraryVars, recorded, server, log, prompt, removed, late, events>>

\* The rest of the previewed set, cut to one batch: Nothing, or to the log.
Batch(j) ==
  /\ job[j].at = "verify" /\ job[j].left = {} /\ job[j].kind = "delete"
  /\ IF job[j].ok = {}
     THEN Ends(j, None)
     ELSE /\ \E batch \in SUBSET job[j].ok :
               /\ Cardinality(batch) <= MaxBatch
               /\ batch = job[j].ok \/ Cardinality(batch) = MaxBatch
               /\ job' = [job EXCEPT ![j].ok = batch, ![j].at = "log"]
          /\ UNCHANGED window
  /\ UNCHANGED <<libraryVars, recorded, server, log, prompt, removed, late, events>>

\* Mutant: the log is left to the end.
begin_without_log(j) ==
  /\ job[j].at = "log"
  /\ job' = [job EXCEPT ![j].at = "ask"]
  /\ UNCHANGED <<libraryVars, recorded, server, log, window, prompt, removed, late, events>>

\* begin_photos_deletion, all or none; without it nothing is deleted.
begin_photos_deletion(j) ==
  LET n == Cardinality(Rows)
      rows == (n + 1)..(n + Cardinality(job[j].ok))
  IN /\ job[j].at = "log"
     /\ n + Cardinality(job[j].ok) <= MaxRows
     /\ \/ /\ \E new \in [rows -> job[j].ok] :
                /\ {new[r] : r \in rows} = job[j].ok
                /\ log' = [r \in 1..(n + Cardinality(job[j].ok)) |->
                             IF r <= n THEN log[r] ELSE [asset |-> new[r], outcome |-> "pending"]]
           /\ job' = [job EXCEPT ![j].at = "ask", ![j].rows = rows]
           /\ UNCHANGED window /\ NoEvent
        \/ Fails(j) /\ UNCHANGED log /\ Event
     /\ UNCHANGED <<libraryVars, recorded, server, prompt, removed, late>>

\* delete_assets: all of the batch must still be there; macOS asks.
Ask(j) ==
  /\ job[j].at = "ask"
  /\ IF job[j].ok \subseteq here
     THEN /\ job' = [job EXCEPT ![j].at = "prompt"]
          /\ prompt' = prompt \cup {[batch |-> job[j].ok, rows |-> job[j].rows]}
     ELSE /\ job' = [job EXCEPT ![j].at = "finish", ![j].outcome = "failed"]
          /\ UNCHANGED prompt
  /\ UNCHANGED <<libraryVars, recorded, server, log, window, removed, late, events>>

\* The job that waits for an answer, if it still does.
Told(p, outcome) ==
  job' = [j \in Job |-> IF job[j].at = "prompt" /\ job[j].rows = p.rows
                        THEN [job[j] EXCEPT !.at = "finish", !.outcome = outcome] ELSE job[j]]

\* "Delete": the assets still there go to Recently Deleted.
AnswerYes(p) ==
  /\ here' = here \ p.batch
  /\ removed' = removed \cup {p}
  /\ prompt' = prompt \ {p}
  /\ Told(p, "deleted")
  /\ UNCHANGED <<kept, recorded, server, log, window, late, events>>

\* "Don't Allow", or PhotoKit fails.
AnswerNo(p) ==
  /\ prompt' = prompt \ {p}
  /\ \/ Told(p, "declined") /\ NoEvent
     \/ Told(p, "failed") /\ Event
  /\ UNCHANGED <<libraryVars, recorded, server, log, window, removed, late>>

\* Mutant: an answer that never came is taken for "Don't Allow".
TimeoutDeclines(j) ==
  /\ job[j].at = "prompt"
  /\ job' = [job EXCEPT ![j].at = "finish", ![j].outcome = "declined"]
  /\ UNCHANGED <<libraryVars, recorded, server, log, window, prompt, removed, late, events>>

\* ANSWER_TIMEOUT: the job gives up; the prompt is still on screen.
Timeout(j) ==
  /\ job[j].at = "prompt"
  /\ Event
  /\ job' = [job EXCEPT ![j].at = "finish", ![j].outcome = "failed"]
  /\ UNCHANGED <<libraryVars, recorded, server, log, window, prompt, removed, late>>

\* finish_photos_deletion; its failure leaves the rows pending.
finish_photos_deletion(j) ==
  /\ job[j].at = "finish"
  /\ \/ /\ log' = [r \in Rows |-> IF r \in job[j].rows
                                  THEN [log[r] EXCEPT !.outcome = job[j].outcome] ELSE log[r]]
        /\ NoEvent
     \/ UNCHANGED log /\ Event
  /\ Ends(j, None)
  /\ UNCHANGED <<libraryVars, recorded, server, prompt, removed, late>>

\* The process ends, its prompts with it.
ProcessEnds ==
  /\ Event
  /\ job' = [j \in Job |-> Free]
  /\ window' = Closed
  /\ prompt' = {}
  /\ UNCHANGED <<libraryVars, recorded, server, log, removed, late>>

JobStep(j) ==
  \/ run_delete_plan(j) \/ run_delete(j) \/ Read(j) \/ verify_on_server(j) \/ PlanDone(j)
  \/ Batch(j) \/ begin_photos_deletion(j) \/ Ask(j) \/ Timeout(j) \/ finish_photos_deletion(j)

Next ==
  \/ \E part \in Asset \X Part : Uploaded(part) \/ ServerLoses(part)
  \/ \E a \in Asset : UserEdits(a) \/ UserDeletes(a)
  \/ \E j \in Job : JobStep(j)
  \/ \E p \in prompt : AnswerYes(p) \/ AnswerNo(p)
  \/ CloseWindow \/ ProcessEnds

Spec == Init /\ [][Next]_vars

----------------------------------------------------------------------------
(* Properties.                                                             *)

\* What the library deletes is safe to delete: no rule keeps it, and Immich
\* holds every part of it, unless one of these changed after the check of the
\* batch - whatever was previewed, and however many windows and batches there
\* are at once.
OnlySafeIsDeleted ==
  \A a \in Deleted :
    a \in late \/ (a \notin kept /\ required_resources(a) \subseteq server)

\* Nothing leaves the library that is not in the log, also when the process
\* ends on the way: what macOS asks about has a row for each asset already.
LoggedFirst ==
  \A p \in prompt \cup removed : \A a \in p.batch : \E r \in p.rows : log[r].asset = a

\* The log never says more than what happened, nor less of a refusal:
\* "deleted" rows were deleted, "declined" rows were not, not even later.
LogIsTrue ==
  \A r \in Rows :
    /\ log[r].outcome = "deleted" => \E p \in removed : r \in p.rows
    /\ log[r].outcome = "declined" => \A p \in prompt \cup removed : r \notin p.rows
=============================================================================
