------------------------------- MODULE Albums -------------------------------
(***************************************************************************)
(* Immich albums: the mirrors of Photos albums, the catch-all of the       *)
(* library and the albums of watched folders (place_in_albums and          *)
(* place_in_mirror in src/src/upload/worker.rs, find-or-create by name in  *)
(* src/src/api/assets.rs, the mirrored_albums table).                      *)
(*                                                                         *)
(* Library tasks place their asset under their pipeline's album_lock; a    *)
(* watched folder's task adds its asset by name under no lock; the server  *)
(* belongs to people who make, rename and delete albums meanwhile; and a   *)
(* call or a write may fail, the answer of a call get lost, and the        *)
(* process end.                                                            *)
(***************************************************************************)
EXTENDS Naturals, FiniteSets

CONSTANTS
  Collection, \* Photos user albums
  Title,      \* names an album can have
  AllIn,      \* the catch-all album's name, which is a watched folder's too
  LibTask,    \* assets of the library, each with its task
  FolderTask, \* assets of watched folders, each with its task
  Pipe,       \* pipelines that can be running: one, and replaced ones (bound)
  None,       \* no mapping, no pipeline, no collection
  MaxAlbums,  \* bound: albums on the server
  MaxEvents   \* bound: calls and writes that fail, processes that end, and
              \* what people do to albums in Photos and on the server

ASSUME AlbumsAssumption ==
  /\ None \notin Collection \cup Pipe \cup [id : Nat, name : Title]
  /\ Collection \cap {"name", "person"} = {}
  /\ AllIn \in Title
  /\ LibTask \cap FolderTask = {}
  /\ MaxAlbums \in Nat /\ MaxEvents \in Nat

VARIABLES
  title,      \* name of each Photos album
  mirrored,   \* mirrored_albums: Immich album and name recorded for each
  album,      \* albums of the server, by number: the id Immich gives them
  made,       \* albums made so far
  task,       \* tasks, from the export to the last album
  placed,     \* ghost: <<asset, collection>> whose place_in_mirror returned Ok
  refused,    \* ghost: those among them that the server refused with a 2xx
  orphan,     \* ghost: mirrors whose record was lost with a failure
  overlapped, \* ghost: two pipelines placed at the same time
  raced,      \* ghost: a find by name missed an album being created
  faults,
  acts

serverVars == <<album, made>>
ghosts     == <<placed, refused, orphan, overlapped, raced>>
vars == <<title, mirrored, serverVars, task, ghosts, faults, acts>>

Task == LibTask \cup FolderTask
Id   == 1..MaxAlbums
Ids  == 1..made

\* What an album was made for: a collection's mirror, a name, or by a person.
Purpose == Collection \cup {"name", "person"}

\* Steps of a task under the lock, in the mirror part and in the by-name part.
MirrorStep == {"next", "rename", "recordName", "create", "recordAlbum", "add", "forget"}
NameStep   == {"find", "createByName", "addByName"}
Step == {"idle", "lock", "done"} \cup MirrorStep \cup NameStep

Idle == [at |-> "idle", pipe |-> None, todo |-> {}, title |-> [c \in Collection |-> AllIn],
         c |-> None, id |-> 0, attempt |-> 0]

TypeOK ==
  /\ title \in [Collection -> Title]
  /\ mirrored \in [Collection -> {None} \cup [id : Id, name : Title]]
  /\ made \in 0..MaxAlbums
  /\ album \in [Ids -> [name : Title, live : BOOLEAN, for : Purpose, members : SUBSET Task]]
  /\ task \in [Task -> [at : Step, pipe : Pipe \cup {None}, todo : SUBSET Collection,
                        title : [Collection -> Title], c : Collection \cup {None},
                        id : 0..MaxAlbums, attempt : 0..1]]
  /\ placed \in SUBSET (LibTask \X Collection) /\ refused \in SUBSET (LibTask \X Collection)
  /\ orphan \in SUBSET Ids
  /\ overlapped \in BOOLEAN
  /\ raced \in BOOLEAN
  /\ faults \in 0..MaxEvents
  /\ acts \in 0..MaxEvents

Init ==
  /\ title \in [Collection -> Title]
  /\ mirrored = [c \in Collection |-> None]
  /\ album = <<>>
  /\ made = 0
  /\ task = [t \in Task |-> Idle]
  /\ placed = {} /\ refused = {}
  /\ orphan = {}
  /\ overlapped = FALSE
  /\ raced = FALSE
  /\ faults = 0
  /\ acts = 0

----------------------------------------------------------------------------
(* The server's calls.                                                     *)

\* POST /api/albums: a new album, whatever names exist.
create_album(name, for) ==
  /\ made < MaxAlbums
  /\ made' = made + 1
  /\ album' = [i \in 1..(made + 1) |->
                 IF i <= made THEN album[i]
                 ELSE [name |-> name, live |-> TRUE, for |-> for, members |-> {}]]

\* PUT /api/albums/{id}/assets and PATCH /api/albums/{id}, of an album that
\* is there.
add_assets_to_album(i, t) == album' = [album EXCEPT ![i].members = @ \cup {t}]
rename_album(i, name)     == album' = [album EXCEPT ![i].name = name]

\* 404, or 400 "not found".
album_is_gone(i) == ~album[i].live

Fault   == faults + acts < MaxEvents /\ faults' = faults + 1
NoFault == UNCHANGED faults

----------------------------------------------------------------------------
(* People.                                                                 *)

Act == faults + acts < MaxEvents /\ acts' = acts + 1

RenamePhotosAlbum(c) ==
  /\ Act
  /\ \E n \in Title \ {title[c]} : title' = [title EXCEPT ![c] = n]
  /\ UNCHANGED <<mirrored, serverVars, task, ghosts, faults>>

PersonMakesAlbum ==
  /\ Act
  /\ \E n \in Title : create_album(n, "person")
  /\ UNCHANGED <<title, mirrored, task, ghosts, faults>>

PersonDeletesAlbum ==
  /\ Act
  /\ \E i \in Ids : album[i].live /\ album' = [album EXCEPT ![i].live = FALSE]
  /\ UNCHANGED <<title, mirrored, made, task, ghosts, faults>>

----------------------------------------------------------------------------
(* A library task.                                                         *)

Goes(t, at)  == task' = [task EXCEPT ![t].at = at]
NextAlbum(t) == task' = [task EXCEPT ![t] = [@ EXCEPT !.at = "next", !.c = None, !.id = 0,
                                                      !.attempt = 0]]
Done(t)      == task' = [task EXCEPT ![t] = [Idle EXCEPT !.at = "done"]]

\* The export names the asset's Photos albums, with their names of now.
ExportNamesAlbums(t) ==
  /\ task[t].at = "idle"
  /\ \E p \in Pipe, cs \in SUBSET Collection :
       task' = [task EXCEPT ![t] = [Idle EXCEPT !.at = "lock", !.pipe = p, !.todo = cs,
                                                !.title = [c \in Collection |->
                                                            IF c \in cs THEN title[c] ELSE AllIn]]]
  /\ UNCHANGED <<title, mirrored, serverVars, ghosts, faults, acts>>

\* Mutant: the lock is released before the catch-all.
InMirrorSection(t) == task[t].at \in MirrorStep

InSection(t) == task[t].at \in MirrorStep \cup NameStep

\* place_in_albums takes the album_lock of the task's pipeline.
TakeAlbumLock(t) ==
  /\ task[t].at = "lock"
  /\ \A u \in LibTask : InSection(u) => task[u].pipe # task[t].pipe
  /\ Goes(t, "next")
  /\ overlapped' = (overlapped \/ \E u \in LibTask : InSection(u))
  /\ UNCHANGED <<title, mirrored, serverVars, placed, refused, orphan, raced, faults, acts>>

\* place_in_mirror of the next album: its row decides.
place_in_mirror(t) ==
  /\ task[t].at = "next"
  /\ \E c \in task[t].todo :
       LET m == mirrored[c]
           a == task[t]
       IN task' = [task EXCEPT ![t] = [a EXCEPT
            !.todo = a.todo \ {c}, !.c = c, !.attempt = 0,
            !.id = IF m = None THEN 0 ELSE m.id,
            !.at = IF m = None THEN "create"
                   ELSE IF m.name # a.title[c] THEN "rename" ELSE "add"]]
  /\ UNCHANGED <<title, mirrored, serverVars, ghosts, faults, acts>>

\* No album left: the catch-all, still under the lock.
MirrorsDone(t) ==
  /\ task[t].at = "next"
  /\ task[t].todo = {}
  /\ task' = [task EXCEPT ![t] = [Idle EXCEPT !.at = "find", !.pipe = task[t].pipe]]
  /\ UNCHANGED <<title, mirrored, serverVars, ghosts, faults, acts>>

\* Gone leads to a new album; another failure keeps the old name, though the
\* server may have taken the new one before the answer was lost.
RenameMirror(t) ==
  LET i == task[t].id
      name == task[t].title[task[t].c]
  IN /\ task[t].at = "rename"
     /\ \/ /\ ~album_is_gone(i) /\ rename_album(i, name)
           /\ Goes(t, "recordName") /\ NoFault
        \/ /\ album_is_gone(i) /\ UNCHANGED album
           /\ Goes(t, "create") /\ NoFault
        \/ /\ Fault
           /\ UNCHANGED album \/ (~album_is_gone(i) /\ rename_album(i, name))
           /\ Goes(t, "add")
     /\ UNCHANGED <<title, mirrored, made, ghosts, acts>>

\* record_mirrored_album after a rename; its failure ends this album.
RecordName(t) ==
  /\ task[t].at = "recordName"
  /\ \/ /\ mirrored' = [mirrored EXCEPT ![task[t].c] =
                          [id |-> task[t].id, name |-> task[t].title[task[t].c]]]
        /\ Goes(t, "add") /\ NoFault
     \/ UNCHANGED mirrored /\ NextAlbum(t) /\ Fault
  /\ UNCHANGED <<title, serverVars, ghosts, acts>>

\* Mutant: the mirror takes an album that has its name already.
AdoptOrCreate(t) ==
  LET c == task[t].c
      named == {i \in Ids : album[i].live /\ album[i].name = task[t].title[c]}
  IN /\ task[t].at = "create"
     /\ IF named = {}
        THEN /\ create_album(task[t].title[c], c)
             /\ task' = [task EXCEPT ![t].at = "recordAlbum", ![t].id = made + 1]
        ELSE /\ \E i \in named : task' = [task EXCEPT ![t].at = "recordAlbum", ![t].id = i]
             /\ UNCHANGED serverVars
     /\ UNCHANGED <<title, mirrored, ghosts, faults, acts>>

\* create_mirror_album; when the answer is lost the album may be there.
CreateMirror(t) ==
  LET c == task[t].c
  IN /\ task[t].at = "create"
     /\ \/ /\ create_album(task[t].title[c], c)
           /\ task' = [task EXCEPT ![t].at = "recordAlbum", ![t].id = made + 1]
           /\ UNCHANGED orphan /\ NoFault
        \/ /\ create_album(task[t].title[c], c)
           /\ orphan' = orphan \cup {made + 1}
           /\ NextAlbum(t) /\ Fault
        \/ UNCHANGED <<serverVars, orphan>> /\ NextAlbum(t) /\ Fault
     /\ UNCHANGED <<title, mirrored, placed, refused, overlapped, raced, acts>>

\* record_mirrored_album after a creation; its failure ends this album.
RecordMirror(t) ==
  /\ task[t].at = "recordAlbum"
  /\ \/ /\ mirrored' = [mirrored EXCEPT ![task[t].c] =
                          [id |-> task[t].id, name |-> task[t].title[task[t].c]]]
        /\ Goes(t, "add") /\ UNCHANGED orphan /\ NoFault
     \/ /\ UNCHANGED mirrored
        /\ orphan' = orphan \cup {task[t].id}
        /\ NextAlbum(t) /\ Fault
  /\ UNCHANGED <<title, serverVars, placed, refused, overlapped, raced, acts>>

\* Mutant: an album that is gone counts as success.
AddToMirrorOnce(t) ==
  LET i == task[t].id
  IN /\ task[t].at = "add"
     /\ IF album_is_gone(i) THEN UNCHANGED album ELSE add_assets_to_album(i, t)
     /\ placed' = placed \cup {<<t, task[t].c>>}
     /\ NextAlbum(t)
     /\ UNCHANGED <<title, mirrored, made, refused, orphan, overlapped, raced, faults, acts>>

\* Mutant: whatever the failure, the mapping is forgotten.
AddToMirrorOrForget(t) ==
  /\ task[t].at = "add"
  /\ \/ /\ add_assets_to_album(task[t].id, t)
        /\ placed' = placed \cup {<<t, task[t].c>>}
        /\ NextAlbum(t) /\ NoFault
     \/ /\ UNCHANGED <<album, placed>>
        /\ IF task[t].attempt = 0 THEN Goes(t, "forget") ELSE NextAlbum(t)
        /\ Fault
  /\ UNCHANGED <<title, mirrored, made, refused, orphan, overlapped, raced, acts>>

\* add_to_album_by_id: any 2xx is success, also one whose body says that the
\* asset was refused; gone the first time, the mapping is forgotten; gone
\* again, or another failure, an answer that was lost included, ends this album.
AddToMirror(t) ==
  LET i == task[t].id
      placement == <<t, task[t].c>>
  IN /\ task[t].at = "add"
     /\ \/ /\ ~album_is_gone(i) /\ add_assets_to_album(i, t)
           /\ placed' = placed \cup {placement} /\ UNCHANGED refused
           /\ NextAlbum(t) /\ NoFault
        \/ /\ ~album_is_gone(i) /\ UNCHANGED album
           /\ placed' = placed \cup {placement} /\ refused' = refused \cup {placement}
           /\ NextAlbum(t) /\ Fault
        \/ /\ album_is_gone(i)
           /\ IF task[t].attempt = 0 THEN Goes(t, "forget") ELSE NextAlbum(t)
           /\ UNCHANGED <<album, placed, refused>> /\ NoFault
        \/ /\ UNCHANGED album \/ (~album_is_gone(i) /\ add_assets_to_album(i, t))
           /\ UNCHANGED <<placed, refused>>
           /\ NextAlbum(t) /\ Fault
     /\ UNCHANGED <<title, mirrored, made, orphan, overlapped, raced, acts>>

\* forget_mirrored_album, then the second attempt creates.
ForgetMirror(t) ==
  /\ task[t].at = "forget"
  /\ \/ /\ mirrored' = [mirrored EXCEPT ![task[t].c] = None]
        /\ task' = [task EXCEPT ![t].at = "create", ![t].attempt = @ + 1]
        /\ NoFault
     \/ UNCHANGED mirrored /\ NextAlbum(t) /\ Fault
  /\ UNCHANGED <<title, serverVars, ghosts, acts>>

----------------------------------------------------------------------------
(* By name: the catch-all, and a watched folder's album.                   *)

\* A folder's task resolves its album's name after its upload.
ResolveAlbumName(t) ==
  /\ task[t].at = "idle"
  /\ Goes(t, "find")
  /\ UNCHANGED <<title, mirrored, serverVars, ghosts, faults, acts>>

\* get_albums and the first album of that name.
FindByName(t) ==
  LET named == {i \in Ids : album[i].live /\ album[i].name = AllIn}
  IN /\ task[t].at = "find"
     /\ \/ /\ named = {} /\ Goes(t, "createByName") /\ NoFault
        \/ /\ \E i \in named : task' = [task EXCEPT ![t].at = "addByName", ![t].id = i]
           /\ NoFault
        \/ Done(t) /\ Fault
     /\ UNCHANGED <<title, mirrored, serverVars, ghosts, acts>>

\* Two tasks that no common lock orders.
Unordered(t, u) == t \in FolderTask \/ u \in FolderTask \/ task[t].pipe # task[u].pipe

CreateByName(t) ==
  /\ task[t].at = "createByName"
  /\ \/ /\ create_album(AllIn, "name")
        /\ \/ task' = [task EXCEPT ![t].at = "addByName", ![t].id = made + 1] /\ NoFault
           \/ Done(t) /\ Fault
        /\ raced' = (raced \/ \E u \in Task \ {t} :
                                task[u].at = "createByName" /\ Unordered(t, u))
     \/ UNCHANGED <<serverVars, raced>> /\ Done(t) /\ Fault
  /\ UNCHANGED <<title, mirrored, placed, refused, orphan, overlapped, acts>>

\* The outcome, a refusal included, is only logged, and the lock of a library
\* task released.
AddByName(t) ==
  /\ task[t].at = "addByName"
  /\ \/ ~album_is_gone(task[t].id) /\ add_assets_to_album(task[t].id, t) /\ NoFault
     \/ album_is_gone(task[t].id) /\ UNCHANGED album /\ NoFault
     \/ /\ UNCHANGED album \/ (~album_is_gone(task[t].id) /\ add_assets_to_album(task[t].id, t))
        /\ Fault
  /\ Done(t)
  /\ UNCHANGED <<title, mirrored, made, ghosts, acts>>

\* The process ends: its tasks begin again with the next one, whose queue
\* still has their rows, and albums made but not recorded stay behind.
ProcessEnds ==
  /\ Fault
  /\ orphan' = orphan \cup {task[t].id : t \in {u \in Task : task[u].at = "recordAlbum"}}
  /\ task' = [t \in Task |-> IF task[t].at = "done" THEN task[t] ELSE Idle]
  /\ UNCHANGED <<title, mirrored, serverVars, placed, refused, overlapped, raced, acts>>

ByName(t) == FindByName(t) \/ CreateByName(t) \/ AddByName(t)

LibStep(t) ==
  \/ ExportNamesAlbums(t) \/ TakeAlbumLock(t) \/ place_in_mirror(t) \/ MirrorsDone(t)
  \/ RenameMirror(t) \/ RecordName(t) \/ CreateMirror(t) \/ RecordMirror(t)
  \/ AddToMirror(t) \/ ForgetMirror(t)

Next ==
  \/ \E c \in Collection : RenamePhotosAlbum(c)
  \/ PersonMakesAlbum \/ PersonDeletesAlbum \/ ProcessEnds
  \/ \E t \in LibTask : LibStep(t)
  \/ \E t \in FolderTask : ResolveAlbumName(t)
  \/ \E t \in Task : ByName(t)

Spec == Init /\ [][Next]_vars

----------------------------------------------------------------------------
(* Properties.                                                             *)

\* A mirror never adopts an album that someone else made: the recorded album
\* was made for that collection.
MirrorsAreOwn ==
  \A c \in Collection : mirrored[c] # None => album[mirrored[c].id].for = c

\* One mirror for each Photos album: an album made for it is the recorded
\* one, deleted, about to be recorded, or one whose record was lost with a
\* failure - as long as no replaced pipeline placed beside the new one.
OneMirror ==
  ~overlapped =>
    \A i \in Ids : \A c \in Collection :
      (album[i].for = c /\ album[i].live) =>
         \/ mirrored[c] # None /\ mirrored[c].id = i
         \/ \E t \in LibTask : task[t].at = "recordAlbum" /\ task[t].id = i
         \/ i \in orphan

\* Library tasks of one pipeline never make two albums of one name: two that
\* were made by name and are there take a watched folder's task, or another
\* pipeline's, between a find and its creation.
OneByName ==
  ~raced =>
    \A i, j \in Ids :
      (album[i].for = "name" /\ album[j].for = "name" /\ album[i].live /\ album[j].live)
         => i = j

\* A placement that reports success put the asset into an album made for its
\* collection, which a person may have deleted since - unless the server refused
\* the asset in an answer that was a success, or one nobody could read, which
\* is logged and taken for success (api/albums.rs:152-175, assets.rs:397-411).
PlacedIsThere ==
  \A p \in placed \ refused : \E i \in Ids : album[i].for = p[2] /\ p[1] \in album[i].members

=============================================================================
