--------------------------- MODULE LocalFilesProofs ---------------------------
(***************************************************************************)
(* Theorems about the files of a watched folder.                           *)
(*                                                                         *)
(* FileSync: what the worker, the Settings process and the scan give up is *)
(* on the server, but for the contents that the user wrote or overwrote in *)
(* the windows that raced, overtaken and stamped name.                     *)
(*                                                                         *)
(* TrashBin: a move destroys no file while its claim is its own, failed    *)
(* moves clean up after themselves, and a file that came under a name with *)
(* no row left is kept for its full retention.                             *)
(***************************************************************************)
EXTENDS FileSync, TrashBin, TLAPS

----------------------------------------------------------------------------
(* FileSync: the inductive invariant.                                      *)

\* The hash of row r is a content the server has, or one overtaken.
HashSaved(r) == rows[r].hash \in stored \cup overtaken

\* What a row's task knows of its file, step by step.
RowOk(r) ==
  /\ RowAt(r, {"pending", "sent"}) =>
       ContentAt(rows[r].path) \subseteq {rows[r].hash} \/ HashSaved(r)
  /\ RowAt(r, {"sent"}) =>
       /\ rows[r].body = rows[r].hash \/ HashSaved(r)
       /\ ContentAt(rows[r].path) \subseteq {rows[r].body} \cup stamped
  /\ RowAt(r, {"ok"}) =>
       ContentAt(rows[r].path) \subseteq stored \cup stamped
  /\ RowAt(r, {"ok", "recorded", "remove"}) => HashSaved(r)
  /\ RowAt(r, {"remove"}) =>
       ContentAt(rows[r].path) \subseteq stored \cup overtaken \cup raced

\* A record's size and mtime fit the file at its path.
Fits(rec) ==
  /\ disk[rec.path] # NoFile
  /\ Size[disk[rec.path].content] = rec.size
  /\ disk[rec.path].mtime = rec.mtime

RecordOk(rec) ==
  /\ rec.hash \in stored \cup overtaken
  /\ Fits(rec) => ContentAt(rec.path) \subseteq stored \cup overtaken \cup stamped

SettingsOk ==
  settings.at # NoPath =>
    ContentAt(settings.at) \subseteq stored \cup overtaken \cup stamped \cup raced

LostOk == WorkerTakesUploaded /\ SettingsTakesUploaded /\ SkippedIsUploaded

IInv ==
  /\ TypeOK
  /\ \A r \in Row : RowOk(r)
  /\ \A rec \in uploaded_files : RecordOk(rec)
  /\ SettingsOk
  /\ LostOk

----------------------------------------------------------------------------
(* What a step that writes no file leaves true.                            *)

\* The server and the user's marks only grow.
Grow ==
  /\ stored \subseteq stored'
  /\ raced \subseteq raced'
  /\ overtaken \subseteq overtaken'
  /\ stamped \subseteq stamped'

\* Files stay or go.
Shrink == \A p \in Path : disk'[p] \in {disk[p], NoFile}

LEMMA InitOk == Init => IInv
<1> SUFFICES ASSUME Init PROVE IInv
  OBVIOUS
<1>1. TypeOK
  BY FileAssumption DEF Init, TypeOK
<1>2. \A r \in Row : RowOk(r)
  BY DEF Init, RowOk, RowAt
<1>3. \A rec \in uploaded_files : RecordOk(rec)
  BY DEF Init
<1>4. SettingsOk
  BY DEF Init, SettingsOk
<1>5. LostOk
  BY DEF Init, LostOk, WorkerTakesUploaded, SettingsTakesUploaded, SkippedIsUploaded
<1> QED
  BY <1>1, <1>2, <1>3, <1>4, <1>5 DEF IInv

\* A row in use is a queue entry.
LEMMA RowTyped ==
  ASSUME TypeOK, NEW r \in Row, rows[r] # NoRow
  PROVE  rows[r] \in QueueEntry
BY DEF TypeOK

\* A file on disk has a content.
LEMMA ContentTyped ==
  ASSUME TypeOK, NEW p \in Path
  PROVE  ContentAt(p) \subseteq Content
BY DEF TypeOK, ContentAt, FileVersion

\* A row that a step does not touch keeps what its task knows.
LEMMA RowKept ==
  ASSUME TypeOK, Grow, Shrink,
         NEW r \in Row, RowOk(r), rows'[r] = rows[r]
  PROVE  RowOk(r)'
<1>1. CASE rows[r] = NoRow
  BY <1>1 DEF RowOk, RowAt
<1>2. CASE rows[r] # NoRow
  <2>1. rows[r].path \in Path
    BY <1>2, RowTyped DEF QueueEntry
  <2>2. ContentAt(rows[r].path)' \subseteq ContentAt(rows[r].path)
    BY <2>1 DEF Shrink, ContentAt
  <2>3. HashSaved(r) => HashSaved(r)'
    BY DEF Grow, HashSaved
  <2>4. ASSUME NEW steps PROVE RowAt(r, steps)' = RowAt(r, steps)
    BY DEF RowAt
  <2> QED
    BY <2>2, <2>3, <2>4 DEF RowOk, Grow
<1> QED
  BY <1>1, <1>2

\* A record keeps its worth.
LEMMA RecordKept ==
  ASSUME TypeOK, Grow, Shrink,
         NEW rec \in Record, RecordOk(rec)
  PROVE  RecordOk(rec)'
<1>1. rec.path \in Path
  BY DEF Record
<1>2. CASE disk'[rec.path] = NoFile
  BY <1>2 DEF RecordOk, Fits, Grow
<1>3. CASE disk'[rec.path] = disk[rec.path]
  BY <1>3 DEF RecordOk, Fits, Grow, ContentAt
<1> QED
  BY <1>1, <1>2, <1>3 DEF Shrink

\* So does the Settings process.
LEMMA SettingsKept ==
  ASSUME TypeOK, Grow, Shrink, SettingsOk, settings'.at = settings.at
  PROVE  SettingsOk'
<1>1. CASE settings.at = NoPath
  BY <1>1 DEF SettingsOk
<1>2. CASE settings.at \in Path
  <2>1. disk'[settings.at] \in {disk[settings.at], NoFile}
    BY <1>2 DEF Shrink
  <2> QED
    BY <2>1 DEF SettingsOk, ContentAt, Grow
<1> QED
  BY <1>1, <1>2 DEF TypeOK

\* Nothing more is lost.
LEMMA LostKept ==
  ASSUME LostOk, Grow, lost' = lost
  PROVE  LostOk'
BY DEF LostOk, Grow, WorkerTakesUploaded, SettingsTakesUploaded, SkippedIsUploaded

\* What is given up is lost only if it is not on the server.
LEMMA LostMore ==
  ASSUME LostOk, Grow,
         NEW who \in {"worker", "settings", "scan"}, NEW C \in SUBSET Content,
         lost' = lost \cup Unsaved(who, C),
         who = "worker" => C \subseteq stored \cup overtaken \cup raced,
         who = "settings" => C \subseteq stored \cup overtaken \cup stamped \cup raced,
         who = "scan" => C \subseteq stored \cup overtaken \cup stamped
  PROVE  LostOk'
<1>1. ASSUME NEW c \in Content, <<"worker", c>> \in lost'
      PROVE  c \in (raced \cup overtaken)'
  BY <1>1 DEF LostOk, WorkerTakesUploaded, Grow, Unsaved
<1>2. ASSUME NEW c \in Content, <<"settings", c>> \in lost'
      PROVE  c \in (raced \cup overtaken \cup stamped)'
  BY <1>2 DEF LostOk, SettingsTakesUploaded, Grow, Unsaved
<1>3. ASSUME NEW c \in Content, <<"scan", c>> \in lost'
      PROVE  c \in (overtaken \cup stamped)'
  BY <1>3 DEF LostOk, SkippedIsUploaded, Grow, Unsaved
<1> QED
  BY <1>1, <1>2, <1>3
  DEF LostOk, WorkerTakesUploaded, SettingsTakesUploaded, SkippedIsUploaded

----------------------------------------------------------------------------
(* The invariant, step by step.                                            *)

\* A step that touches no row, no record and not the Settings process's place.
LEMMA Quiet ==
  ASSUME IInv, TypeOK', LostOk', Grow, Shrink, rows' = rows,
         uploaded_files' = uploaded_files, settings'.at = settings.at
  PROVE  IInv'
<1>1. \A r \in Row : RowOk(r)'
  BY RowKept DEF IInv
<1>2. \A rec \in uploaded_files' : RecordOk(rec)'
  BY RecordKept DEF IInv, TypeOK
<1>3. SettingsOk'
  BY SettingsKept DEF IInv
<1> QED
  BY <1>1, <1>2, <1>3 DEF IInv

\* A step of the task of row r.
LEMMA TaskStep ==
  ASSUME IInv, TypeOK', LostOk', Grow, Shrink,
         NEW r \in Row, RowOk(r)',
         \A q \in Row \ {r} : rows'[q] = rows[q],
         \A rec \in uploaded_files' \ uploaded_files : RecordOk(rec)',
         settings'.at = settings.at
  PROVE  IInv'
<1>1. \A q \in Row \ {r} : RowOk(q)'
  BY RowKept DEF IInv
<1>2. \A rec \in uploaded_files' \cap uploaded_files : RecordOk(rec)'
  BY RecordKept DEF IInv, TypeOK
<1>3. SettingsOk'
  BY SettingsKept DEF IInv
<1> QED
  BY <1>1, <1>2, <1>3 DEF IInv

LEMMA RemoveStep ==
  ASSUME IInv, NEW p \in Path, Remove(p)
  PROVE  IInv'
<1>1. TypeOK'
  BY DEF IInv, TypeOK, Remove, userVars
<1>2. Grow /\ Shrink
  BY DEF IInv, TypeOK, Remove, userVars, Grow, Shrink
<1>3. LostOk'
  BY <1>2, LostKept DEF IInv, Remove
<1> QED
  BY <1>1, <1>2, <1>3, Quiet DEF Remove

LEMMA StatStep ==
  ASSUME IInv, NEW p \in Path, Stat(p)
  PROVE  IInv'
<1>0. ContentAt(p) \subseteq Content
  BY ContentTyped DEF IInv
<1>1. TypeOK'
  BY <1>0, FileAssumption DEF IInv, TypeOK, Stat, userVars, Unsaved, FileVersion
<1>2. Grow /\ Shrink
  BY DEF IInv, TypeOK, Stat, userVars, Grow, Shrink
<1>3. LostOk'
  <2>1. CASE lost' = lost
    BY <2>1, <1>2, LostKept DEF IInv
  <2>2. CASE \E rec \in uploaded_files : rec.path = p /\ Fits(rec)
    <3>1. ContentAt(p) \subseteq stored \cup overtaken \cup stamped
      BY <2>2 DEF IInv, RecordOk
    <3>2. CASE lost' = lost \cup Unsaved("scan", ContentAt(p))
      BY <1>0, <1>2, <3>1, <3>2, LostMore DEF IInv
    <3> QED
      BY <2>1, <3>2 DEF Stat
  <2> QED
    BY <2>1, <2>2 DEF Stat, Fits
<1> QED
  BY <1>1, <1>2, <1>3, Quiet DEF Stat

LEMMA HashStep ==
  ASSUME IInv, NEW p \in Path, Hash(p)
  PROVE  IInv'
<1>0. ContentAt(p) \subseteq Content
  BY ContentTyped DEF IInv
<1>2. Grow /\ Shrink
  BY DEF IInv, TypeOK, Hash, userVars, Grow, Shrink
<1>3. CASE UNCHANGED <<rows, lost>>
  <2>1. TypeOK'
    BY <1>3 DEF IInv, TypeOK, Hash, userVars
  <2>2. LostOk'
    BY <1>2, <1>3, LostKept DEF IInv
  <2> QED
    BY <1>2, <1>3, <2>1, <2>2, Quiet DEF Hash
<1>4. CASE /\ \E rec \in uploaded_files : rec.hash \in ContentAt(p)
           /\ lost' = lost \cup Unsaved("scan", ContentAt(p))
           /\ UNCHANGED rows
  <2>1. TypeOK'
    BY <1>0, <1>4 DEF IInv, TypeOK, Hash, userVars, Unsaved
  <2>2. ContentAt(p) \subseteq stored \cup overtaken
    BY <1>4 DEF IInv, RecordOk, ContentAt
  <2>3. LostOk'
    BY <1>0, <1>2, <1>4, <2>2, LostMore DEF IInv
  <2> QED
    BY <1>2, <1>4, <2>1, <2>3, Quiet DEF Hash
<1>5. ASSUME disk[p] # NoFile, UNCHANGED lost,
             NEW r \in Row \ Used,
             rows' = [rows EXCEPT ![r] =
               [path |-> p, hash |-> disk[p].content, size |-> scanning[p],
                retry |-> FALSE, body |-> disk[p].content, at |-> "pending"]]
      PROVE  IInv'
  <2>0. disk[p].content \in Content /\ scanning[p] \in Nat
    BY <1>5 DEF IInv, TypeOK, Hash, FileVersion
  <2>1. TypeOK'
    BY <1>5, <2>0 DEF IInv, TypeOK, Hash, userVars, QueueEntry, At
  <2>2. LostOk'
    BY <1>2, <1>5, LostKept DEF IInv
  <2>3. rows'[r] = [path |-> p, hash |-> disk[p].content, size |-> scanning[p],
                    retry |-> FALSE, body |-> disk[p].content, at |-> "pending"]
    BY <1>5 DEF IInv, TypeOK
  <2>4. ContentAt(p)' = {disk[p].content}
    BY <1>5 DEF ContentAt, Hash
  <2>5. RowOk(r)'
    BY <2>3, <2>4 DEF RowOk, RowAt
  <2>6. \A q \in Row \ {r} : rows'[q] = rows[q]
    BY <1>5 DEF IInv, TypeOK
  <2> QED
    BY <1>2, <2>1, <2>2, <2>5, <2>6, TaskStep DEF Hash
<1> QED
  BY <1>3, <1>4, <1>5 DEF Hash

\* The task's steps that end its row: nothing is left to know.
LEMMA CompletedOk ==
  ASSUME NEW r \in Row, rows'[r] # NoRow, rows'[r].at \in {"completed", "failed"}
  PROVE  RowOk(r)'
BY DEF RowOk, RowAt

LEMMA PrecheckHitStep ==
  ASSUME IInv, NEW r \in Row, PrecheckHit(r)
  PROVE  IInv'
<1>0. rows[r] \in QueueEntry
  BY RowTyped DEF IInv, PrecheckHit, RowAt
<1>1. rows'[r] = [rows[r] EXCEPT !.at = "completed"]
  BY DEF IInv, TypeOK, PrecheckHit
<1>2. rows'[r] \in QueueEntry /\ rows'[r].at = "completed"
  BY <1>0, <1>1 DEF QueueEntry, At
<1>3. TypeOK'
  BY <1>1, <1>2 DEF IInv, TypeOK, PrecheckHit, WorkerUnchanged, userVars
<1>4. Grow /\ Shrink
  BY DEF PrecheckHit, WorkerUnchanged, userVars, Grow, Shrink
<1>5. RowOk(r)'
  BY <1>2, CompletedOk, FileAssumption
<1>6. LostOk'
  BY <1>4, LostKept DEF IInv, PrecheckHit
<1>7. \A q \in Row \ {r} : rows'[q] = rows[q]
  BY DEF IInv, TypeOK, PrecheckHit
<1> QED
  BY <1>3, <1>4, <1>5, <1>6, <1>7, TaskStep DEF PrecheckHit, WorkerUnchanged

LEMMA ReadStep ==
  ASSUME IInv, NEW r \in Row, Read(r)
  PROVE  IInv'
<1> DEFINE p == rows[r].path
<1>0. rows[r] \in QueueEntry /\ rows[r].at = "pending"
  BY RowTyped DEF IInv, Read, RowAt
<1>1. p \in Path /\ disk[p] # NoFile /\ disk[p].content \in Content
  BY <1>0 DEF IInv, TypeOK, QueueEntry, Read, FileVersion
<1>2. rows'[r] = [rows[r] EXCEPT !.at = "sent", !.body = disk[p].content]
  BY DEF IInv, TypeOK, Read
<1>3. /\ rows'[r] \in QueueEntry /\ rows'[r].at = "sent" /\ rows'[r].path = p
      /\ rows'[r].hash = rows[r].hash /\ rows'[r].body = disk[p].content
  BY <1>0, <1>1, <1>2 DEF QueueEntry, At
<1>4. TypeOK'
  BY <1>2, <1>3 DEF IInv, TypeOK, Read, WorkerUnchanged, userVars
<1>5. Grow /\ Shrink
  BY DEF Read, WorkerUnchanged, userVars, Grow, Shrink
<1>6. ContentAt(p) = {disk[p].content} /\ ContentAt(rows[r].path)' = ContentAt(p)
  BY <1>1, <1>3 DEF ContentAt, Read
<1>7. ContentAt(p) \subseteq {rows[r].hash} \/ rows[r].hash \in stored \cup overtaken
  BY <1>0, FileAssumption DEF IInv, RowOk, RowAt, HashSaved
<1>8. RowOk(r)'
  BY <1>3, <1>5, <1>6, <1>7 DEF RowOk, RowAt, HashSaved, Grow
<1>9. LostOk'
  BY <1>5, LostKept DEF IInv, Read
<1>10. \A q \in Row \ {r} : rows'[q] = rows[q]
  BY DEF IInv, TypeOK, Read
<1> QED
  BY <1>4, <1>5, <1>8, <1>9, <1>10, TaskStep DEF Read, WorkerUnchanged

LEMMA UploadOkStep ==
  ASSUME IInv, NEW r \in Row, UploadOk(r)
  PROVE  IInv'
<1> DEFINE p == rows[r].path
<1>0. rows[r] \in QueueEntry /\ rows[r].at = "sent" /\ rows[r] # NoRow
  BY RowTyped DEF IInv, UploadOk, RowAt
<1>1. rows'[r] = [rows[r] EXCEPT !.at = "ok"]
  BY DEF IInv, TypeOK, UploadOk
<1>2. /\ rows'[r] \in QueueEntry /\ rows'[r].at = "ok" /\ rows'[r].path = p
      /\ rows'[r].hash = rows[r].hash
  BY <1>0, <1>1 DEF QueueEntry, At
<1>3. rows[r].body \in Content
  BY <1>0 DEF QueueEntry
<1>4. TypeOK'
  BY <1>1, <1>2, <1>3 DEF IInv, TypeOK, UploadOk, WorkerUnchanged, userVars
<1>5. Grow /\ Shrink
  BY DEF UploadOk, WorkerUnchanged, userVars, Grow, Shrink
<1>6. ContentAt(rows[r].path)' = ContentAt(p)
  BY <1>2 DEF ContentAt, UploadOk
<1>7. /\ rows[r].body = rows[r].hash \/ rows[r].hash \in stored \cup overtaken
      /\ ContentAt(p) \subseteq {rows[r].body} \cup stamped
  BY <1>0 DEF IInv, RowOk, RowAt, HashSaved
<1>8. RowOk(r)'
  BY <1>2, <1>5, <1>6, <1>7 DEF RowOk, RowAt, HashSaved, Grow, UploadOk
<1>9. LostOk'
  BY <1>5, LostKept DEF IInv, UploadOk
<1>10. \A q \in Row \ {r} : rows'[q] = rows[q]
  BY DEF IInv, TypeOK, UploadOk
<1> QED
  BY <1>4, <1>5, <1>8, <1>9, <1>10, TaskStep DEF UploadOk, WorkerUnchanged

LEMMA UploadFailsStep ==
  ASSUME IInv, NEW r \in Row, UploadFails(r)
  PROVE  IInv'
<1> DEFINE p == rows[r].path
<1>0. rows[r] \in QueueEntry /\ rows[r].at \in {"pending", "sent"} /\ rows[r] # NoRow
  BY RowTyped DEF IInv, UploadFails, RowAt
<1>1. PICK at \in {"pending", "failed"} :
        rows' = [rows EXCEPT ![r].at = at, ![r].retry = TRUE]
  BY DEF UploadFails
<1>2. rows'[r] = [rows[r] EXCEPT !.at = at, !.retry = TRUE]
  BY <1>1 DEF IInv, TypeOK
<1>3. /\ rows'[r] \in QueueEntry /\ rows'[r].at = at /\ rows'[r].path = p
      /\ rows'[r].hash = rows[r].hash
  BY <1>0, <1>2 DEF QueueEntry, At
<1>4. stored \subseteq stored' /\ stored' \subseteq stored \cup {rows[r].body}
  BY DEF UploadFails
<1>5. rows[r].body \in Content
  BY <1>0 DEF QueueEntry
<1>6. TypeOK'
  BY <1>1, <1>3, <1>4, <1>5 DEF IInv, TypeOK, UploadFails, WorkerUnchanged, userVars
<1>7. Grow /\ Shrink
  BY <1>4 DEF UploadFails, WorkerUnchanged, userVars, Grow, Shrink
<1>8. ContentAt(rows[r].path)' = ContentAt(p)
  BY <1>3 DEF ContentAt, UploadFails
<1>9. ContentAt(p) \subseteq {rows[r].hash} \/ rows[r].hash \in stored \cup overtaken
  BY <1>0 DEF IInv, RowOk, RowAt, HashSaved
<1>10. RowOk(r)'
  BY <1>3, <1>7, <1>8, <1>9 DEF RowOk, RowAt, HashSaved, Grow
<1>11. LostOk'
  BY <1>7, LostKept DEF IInv, UploadFails
<1>12. \A q \in Row \ {r} : rows'[q] = rows[q]
  BY <1>1 DEF IInv, TypeOK
<1> QED
  BY <1>6, <1>7, <1>10, <1>11, <1>12, TaskStep DEF UploadFails, WorkerUnchanged

LEMMA RecordUploadStep ==
  ASSUME IInv, NEW r \in Row, RecordUpload(r)
  PROVE  IInv'
<1> DEFINE p == rows[r].path
           rec == [path |-> p, hash |-> rows[r].hash, size |-> rows[r].size,
                   mtime |-> IF disk[p] = NoFile THEN 0 ELSE disk[p].mtime]
<1>0. rows[r] \in QueueEntry /\ rows[r].at = "ok" /\ rows[r] # NoRow
  BY RowTyped DEF IInv, RecordUpload, RowAt
<1>1. /\ uploaded_files' \in {uploaded_files, uploaded_files \cup {rec}}
      /\ rows' = [rows EXCEPT ![r].at = "recorded"]
      /\ UNCHANGED <<disk, stored, lost>>
      /\ WorkerUnchanged
  BY DEF RecordUpload
<1>2. p \in Path /\ disk[p] \in FileVersion \cup {NoFile}
  BY <1>0 DEF IInv, TypeOK, QueueEntry
<1>3. rec \in Record
  BY <1>0, <1>2 DEF QueueEntry, Record, FileVersion
<1>4. rows'[r] = [rows[r] EXCEPT !.at = "recorded"]
  BY <1>1 DEF IInv, TypeOK
<1>5. /\ rows'[r] \in QueueEntry /\ rows'[r].at = "recorded" /\ rows'[r].path = p
      /\ rows'[r].hash = rows[r].hash
  BY <1>0, <1>4 DEF QueueEntry, At
<1>6. TypeOK'
  BY <1>1, <1>3, <1>5 DEF IInv, TypeOK, WorkerUnchanged, userVars
<1>7. Grow /\ Shrink
  BY <1>1 DEF WorkerUnchanged, userVars, Grow, Shrink
<1>8. /\ rows[r].hash \in stored \cup overtaken
      /\ ContentAt(p) \subseteq stored \cup stamped
  BY <1>0 DEF IInv, RowOk, RowAt, HashSaved
<1>9. RowOk(r)'
  BY <1>5, <1>7, <1>8 DEF RowOk, RowAt, HashSaved, Grow
<1>10. \A x \in uploaded_files' \ uploaded_files : RecordOk(x)'
  <2> SUFFICES ASSUME NEW x, x = rec PROVE RecordOk(x)'
    BY <1>1
  <2>1. x.path = p /\ x.hash = rows[r].hash
    OBVIOUS
  <2>2. ContentAt(x.path)' = ContentAt(p)
    BY <1>1, <2>1 DEF ContentAt
  <2> QED
    BY <1>7, <1>8, <2>1, <2>2 DEF RecordOk, Grow
<1>11. LostOk'
  BY <1>1, <1>7, LostKept DEF IInv
<1>12. \A q \in Row \ {r} : rows'[q] = rows[q]
  BY <1>1 DEF IInv, TypeOK
<1> HIDE DEF rec
<1> QED
  BY <1>1, <1>6, <1>7, <1>9, <1>10, <1>11, <1>12, TaskStep DEF WorkerUnchanged

LEMMA GuardStep ==
  ASSUME IInv, NEW r \in Row, Guard(r)
  PROVE  IInv'
<1> DEFINE p == rows[r].path
<1>0. rows[r] \in QueueEntry /\ rows[r].at = "recorded" /\ rows[r] # NoRow
  BY RowTyped DEF IInv, Guard, RowAt
<1>1. Grow /\ Shrink
  BY DEF Guard, WorkerUnchanged, userVars, Grow, Shrink
<1>2. PICK at \in {"remove", "completed"} :
        /\ rows' = [rows EXCEPT ![r].at = at]
        /\ at = "remove" => /\ disk[p] # NoFile
                            /\ StillMatches(disk[p], [size |-> rows[r].size,
                                      hash |-> rows[r].hash, mtime |-> 0])
  BY DEF Guard
<1>3. rows'[r] = [rows[r] EXCEPT !.at = at]
  BY <1>2 DEF IInv, TypeOK
<1>4. /\ rows'[r] \in QueueEntry /\ rows'[r].at = at /\ rows'[r].path = p
      /\ rows'[r].hash = rows[r].hash
  BY <1>0, <1>3 DEF QueueEntry, At
<1>5. TypeOK'
  BY <1>2, <1>4 DEF IInv, TypeOK, Guard, WorkerUnchanged, userVars
<1>6. rows[r].hash \in stored \cup overtaken
  BY <1>0 DEF IInv, RowOk, RowAt, HashSaved
<1>7. RowOk(r)'
  <2>1. CASE at = "completed"
    BY <2>1, <1>4, CompletedOk, FileAssumption
  <2>2. CASE at = "remove"
    <3>1. disk[p] \in FileVersion
      BY <1>0, <1>2, <2>2 DEF IInv, TypeOK, QueueEntry
    <3>2. disk[p].mtime # 0
      BY <3>1, FileAssumption DEF FileVersion
    <3>3. ContentAt(p) = {rows[r].hash}
      BY <1>2, <2>2, <3>2 DEF StillMatches, ContentAt
    <3>4. ContentAt(rows[r].path)' = {rows[r].hash}
      BY <1>4, <3>3 DEF ContentAt, Guard
    <3> QED
      BY <2>2, <1>1, <1>4, <1>6, <3>4 DEF RowOk, RowAt, HashSaved, Grow
  <2> QED
    BY <2>1, <2>2
<1>8. LostOk'
  BY <1>1, LostKept DEF IInv, Guard
<1>9. \A q \in Row \ {r} : rows'[q] = rows[q]
  BY <1>2 DEF IInv, TypeOK
<1> QED
  BY <1>1, <1>5, <1>7, <1>8, <1>9, TaskStep DEF Guard, WorkerUnchanged

LEMMA ActStep ==
  ASSUME IInv, NEW r \in Row, Act(r)
  PROVE  IInv'
<1> DEFINE p == rows[r].path
<1>0. rows[r] \in QueueEntry /\ rows[r].at = "remove" /\ rows[r] # NoRow
  BY RowTyped DEF IInv, Act, RowAt
<1>1. rows' = [rows EXCEPT ![r].at = "completed"] /\ UNCHANGED <<uploaded_files, stored>>
      /\ WorkerUnchanged
  BY DEF Act
<1>2. \/ /\ disk' = [disk EXCEPT ![p] = NoFile]
         /\ lost' = lost \cup Unsaved("worker", ContentAt(p))
      \/ UNCHANGED <<disk, lost>>
  BY DEF Act
<1>3. rows'[r] = [rows[r] EXCEPT !.at = "completed"]
  BY <1>1 DEF IInv, TypeOK
<1>4. rows'[r] \in QueueEntry /\ rows'[r].at = "completed"
  BY <1>0, <1>3 DEF QueueEntry, At
<1>5. p \in Path /\ ContentAt(p) \subseteq Content
  BY <1>0, ContentTyped DEF IInv, QueueEntry
<1>6. TypeOK'
  BY <1>1, <1>2, <1>4, <1>5 DEF IInv, TypeOK, WorkerUnchanged, userVars, Unsaved
<1>7. Grow /\ Shrink
  BY <1>1, <1>2 DEF WorkerUnchanged, userVars, Grow, Shrink, IInv, TypeOK
<1>8. RowOk(r)'
  BY <1>4, CompletedOk, FileAssumption
<1>9. LostOk'
  <2>1. ContentAt(p) \subseteq stored \cup overtaken \cup raced
    BY <1>0 DEF IInv, RowOk, RowAt
  <2>2. CASE lost' = lost
    BY <2>2, <1>7, LostKept DEF IInv
  <2>3. CASE lost' = lost \cup Unsaved("worker", ContentAt(p))
    BY <2>1, <2>3, <1>5, <1>7, LostMore DEF IInv
  <2> QED
    BY <1>2, <2>2, <2>3
<1>10. \A q \in Row \ {r} : rows'[q] = rows[q]
  BY <1>1 DEF IInv, TypeOK
<1> QED
  BY <1>1, <1>6, <1>7, <1>8, <1>9, <1>10, TaskStep DEF WorkerUnchanged

LEMMA RestartStep ==
  ASSUME IInv, Restart
  PROVE  IInv'
<1>1. Grow /\ Shrink
  BY DEF Restart, userVars, Grow, Shrink
<1>2. LostOk'
  BY <1>1, LostKept DEF IInv, Restart
<1>3. ASSUME NEW r \in Row
      PROVE  rows'[r] \in QueueEntry \cup {NoRow} /\ RowOk(r)'
  <2>1. CASE ~ RowAt(r, {"sent", "ok", "recorded", "remove"})
    <3>1. rows'[r] = rows[r]
      BY <2>1 DEF Restart
    <3> QED
      BY <1>1, <3>1, RowKept DEF IInv, TypeOK
  <2>2. CASE RowAt(r, {"sent", "ok", "recorded", "remove"})
    <3>0. rows[r] \in QueueEntry /\ rows[r] # NoRow
      BY <2>2, RowTyped DEF IInv, RowAt
    <3>1. rows'[r] = [rows[r] EXCEPT !.at = "pending"]
      BY <2>2 DEF Restart
    <3>2. /\ rows'[r] \in QueueEntry /\ rows'[r].at = "pending"
          /\ rows'[r].path = rows[r].path /\ rows'[r].hash = rows[r].hash
      BY <3>0, <3>1 DEF QueueEntry, At
    <3>3. ContentAt(rows[r].path)' = ContentAt(rows[r].path)
      BY <3>2 DEF ContentAt, Restart
    <3>4. \/ ContentAt(rows[r].path) \subseteq {rows[r].hash}
          \/ rows[r].hash \in stored \cup overtaken
      BY <2>2 DEF IInv, RowOk, RowAt, HashSaved
    <3> QED
      BY <1>1, <3>2, <3>3, <3>4 DEF RowOk, RowAt, HashSaved, Grow
  <2> QED
    BY <2>1, <2>2
<1>4. TypeOK'
  BY <1>3 DEF IInv, TypeOK, Restart, userVars
<1>5. \A rec \in uploaded_files' : RecordOk(rec)'
  BY <1>1, RecordKept DEF IInv, TypeOK, Restart
<1>6. SettingsOk'
  BY <1>1, SettingsKept DEF IInv, Restart
<1> QED
  BY <1>2, <1>3, <1>4, <1>5, <1>6 DEF IInv

LEMMA SaveFolderStep ==
  ASSUME IInv, NEW action \in {"keep", "remove"}, NEW apply \in BOOLEAN,
         SaveFolder(action, apply)
  PROVE  IInv'
<1>1. Grow /\ Shrink
  BY DEF SaveFolder, userVars, Grow, Shrink
<1>2. LostOk'
  BY <1>1, LostKept DEF IInv, SaveFolder
<1>3. settings'.at = settings.at /\ settings'.todo \subseteq uploaded_files
  BY DEF SaveFolder
<1>4. TypeOK'
  BY <1>3 DEF IInv, TypeOK, SaveFolder, userVars
<1> QED
  BY <1>1, <1>2, <1>3, <1>4, Quiet DEF SaveFolder

LEMMA RecheckStep ==
  ASSUME IInv, NEW rec \in settings.todo, Recheck(rec)
  PROVE  IInv'
<1>1. Grow /\ Shrink
  BY DEF Recheck, userVars, Grow, Shrink
<1>2. LostOk'
  BY <1>1, LostKept DEF IInv, Recheck
<1>3. rec \in uploaded_files /\ rec \in Record /\ rec.path \in Path
  BY DEF IInv, TypeOK, Record
<1>4. TypeOK'
  BY <1>3 DEF IInv, TypeOK, Recheck, userVars
<1>5. \A r \in Row : RowOk(r)'
  BY <1>1, RowKept DEF IInv, Recheck
<1>6. \A x \in uploaded_files' : RecordOk(x)'
  BY <1>1, RecordKept DEF IInv, TypeOK, Recheck
<1>7. SettingsOk'
  <2>1. CASE settings'.at = NoPath
    BY <2>1 DEF SettingsOk
  <2>2. CASE /\ settings'.at = rec.path /\ disk[rec.path] # NoFile
             /\ StillMatches(disk[rec.path], rec)
    <3>1. ContentAt(rec.path) \subseteq stored \cup overtaken \cup stamped
      BY <2>2, <1>3 DEF IInv, RecordOk, Fits, StillMatches, ContentAt
    <3> QED
      BY <2>2, <3>1, <1>1 DEF SettingsOk, ContentAt, Grow, Recheck
  <2> QED
    BY <2>1, <2>2 DEF Recheck
<1> QED
  BY <1>2, <1>4, <1>5, <1>6, <1>7 DEF IInv

LEMMA ActOnExistingStep ==
  ASSUME IInv, ActOnExisting
  PROVE  IInv'
<1> DEFINE p == settings.at
<1>1. p \in Path /\ ContentAt(p) \subseteq Content
  BY ContentTyped DEF IInv, TypeOK, ActOnExisting
<1>2. \/ /\ disk' = [disk EXCEPT ![p] = NoFile]
         /\ lost' = lost \cup Unsaved("settings", ContentAt(p))
      \/ UNCHANGED <<disk, lost>>
  BY DEF ActOnExisting
<1>3. Grow /\ Shrink
  BY <1>2 DEF ActOnExisting, userVars, Grow, Shrink, IInv, TypeOK
<1>4. TypeOK'
  BY <1>1, <1>2 DEF IInv, TypeOK, ActOnExisting, userVars, Unsaved
<1>5. LostOk'
  <2>1. ContentAt(p) \subseteq stored \cup overtaken \cup stamped \cup raced
    BY DEF IInv, SettingsOk, ActOnExisting
  <2>2. CASE lost' = lost
    BY <2>2, <1>3, LostKept DEF IInv
  <2>3. CASE lost' = lost \cup Unsaved("settings", ContentAt(p))
    BY <2>1, <2>3, <1>1, <1>3, LostMore DEF IInv
  <2> QED
    BY <1>2, <2>2, <2>3
<1>6. \A r \in Row : RowOk(r)'
  BY <1>3, RowKept DEF IInv, ActOnExisting
<1>7. \A x \in uploaded_files' : RecordOk(x)'
  BY <1>3, RecordKept DEF IInv, TypeOK, ActOnExisting
<1>8. SettingsOk'
  BY DEF SettingsOk, ActOnExisting, IInv, TypeOK
<1> QED
  BY <1>4, <1>5, <1>6, <1>7, <1>8 DEF IInv

\* The step that the marks are for: a file is written.
LEMMA WriteStep ==
  ASSUME IInv, NEW p \in Path, NEW c \in Content, NEW t \in Stamp, Write(p, c, t)
  PROVE  IInv'
<1> DEFINE file == [content |-> c, mtime |-> t]
<1>0. /\ UNCHANGED <<uploaded_files, rows, settings, stored, lost>>
      /\ disk' = [disk EXCEPT ![p] = file]
  BY DEF Write
<1>1. Grow
  BY DEF Write, Grow
<1>2. file \in FileVersion /\ file # NoFile
  BY FileAssumption DEF FileVersion
<1>3. disk'[p] = file /\ \A q \in Path \ {p} : disk'[q] = disk[q]
  BY <1>0 DEF IInv, TypeOK
<1>4. ASSUME NEW q, q = p PROVE ContentAt(q)' = {c}
  BY <1>2, <1>3, <1>4 DEF ContentAt
<1>5. ASSUME NEW q \in Path, q # p PROVE ContentAt(q)' = ContentAt(q)
  BY <1>3, <1>5 DEF ContentAt
<1>6. TypeOK'
  <2>1. disk' \in [Path -> FileVersion \cup {NoFile}]
    BY <1>0, <1>2 DEF IInv, TypeOK
  <2>2. writes' \in 0..MaxWrites
    BY FileAssumption DEF IInv, TypeOK, Write
  <2>3. \A r \in Used : rows[r].hash \in Content
    BY RowTyped DEF IInv, TypeOK, Used, QueueEntry
  <2>4. raced' \subseteq Content /\ stamped' \subseteq Content
    BY DEF IInv, TypeOK, Write
  <2>5. overtaken' \subseteq Content
    BY <2>3 DEF IInv, TypeOK, Write, Used
  <2> QED
    BY <1>0, <2>1, <2>2, <2>4, <2>5 DEF IInv, TypeOK, Write
<1>7. ASSUME NEW r \in Row
      PROVE  RowOk(r)'
  <2>1. CASE rows[r] = NoRow
    BY <1>0, <2>1 DEF RowOk, RowAt
  <2>2. CASE rows[r] # NoRow /\ rows[r].path # p
    <3>1. rows[r].path \in Path
      BY <2>2, RowTyped DEF IInv, QueueEntry
    <3>2. ContentAt(rows[r].path)' = ContentAt(rows[r].path)
      BY <1>0, <1>5, <2>2, <3>1 DEF ContentAt
    <3>3. HashSaved(r) => HashSaved(r)'
      BY <1>0, <1>1 DEF Grow, HashSaved
    <3>4. RowOk(r)
      BY DEF IInv
    <3> QED
      BY <1>0, <1>1, <3>2, <3>3, <3>4 DEF RowOk, RowAt, Grow
  <2>3. CASE rows[r] # NoRow /\ rows[r].path = p
    <3>0. r \in Used
      BY <2>3 DEF Used
    <3>1. ContentAt(rows[r].path)' = {c}
      BY <1>0, <1>2, <1>3, <2>3 DEF ContentAt
    <3>2. HashSaved(r) => HashSaved(r)'
      BY <1>0, <1>1 DEF Grow, HashSaved
    <3>3. rows[r].at \in {"pending", "sent"} =>
            rows[r].hash = c \/ rows[r].hash \in overtaken'
      BY <2>3, <3>0 DEF Write
    <3>4. rows[r].at \in {"sent", "ok"} => c \in stamped'
      BY <2>3, <3>0 DEF Write
    <3>5. rows[r].at = "remove" => c \in raced'
      BY <2>3, <3>0 DEF Write
    <3>6. RowOk(r)
      BY DEF IInv
    <3>7. rows'[r] = rows[r]
      BY <1>0
    <3>8. RowAt(r, {"pending", "sent"})' =>
            ContentAt(rows[r].path)' \subseteq {rows'[r].hash} \/ HashSaved(r)'
      BY <3>1, <3>3, <3>7 DEF RowAt, HashSaved
    <3>9. RowAt(r, {"sent"})' =>
            /\ rows'[r].body = rows'[r].hash \/ HashSaved(r)'
            /\ ContentAt(rows[r].path)' \subseteq {rows'[r].body} \cup stamped'
      BY <3>1, <3>2, <3>4, <3>6, <3>7 DEF RowAt, RowOk
    <3>10. RowAt(r, {"ok"})' =>
             ContentAt(rows[r].path)' \subseteq stored' \cup stamped'
      BY <3>1, <3>4, <3>7 DEF RowAt
    <3>11. RowAt(r, {"ok", "recorded", "remove"})' => HashSaved(r)'
      BY <3>2, <3>6, <3>7 DEF RowAt, RowOk
    <3>12. RowAt(r, {"remove"})' =>
             ContentAt(rows[r].path)' \subseteq stored' \cup overtaken' \cup raced'
      BY <3>1, <3>5, <3>7 DEF RowAt
    <3> QED
      BY <3>8, <3>9, <3>10, <3>11, <3>12 DEF RowOk
  <2> QED
    BY <2>1, <2>2, <2>3
<1>8. ASSUME NEW rec \in uploaded_files
      PROVE  RecordOk(rec)'
  <2>0. rec \in Record /\ rec.path \in Path /\ RecordOk(rec)
    BY DEF IInv, TypeOK, Record
  <2>1. CASE rec.path # p
    BY <1>1, <1>3, <1>5, <2>0, <2>1 DEF RecordOk, Fits, Grow
  <2>2. CASE rec.path = p
    <3>1. rec.hash \in stored' \cup overtaken'
      BY <1>1, <2>0 DEF RecordOk, Grow
    <3>2. Fits(rec)' => Size[c] = rec.size /\ t = rec.mtime
      BY <1>3, <2>2 DEF Fits
    <3>3. Fits(rec)' => rec.hash = c \/ c \in stamped'
      BY <3>2, <2>2 DEF Write
    <3>4. ContentAt(rec.path)' = {c}
      BY <1>4, <2>2
    <3> QED
      BY <3>1, <3>3, <3>4 DEF RecordOk
  <2> QED
    BY <2>1, <2>2
<1>9. SettingsOk'
  <2>1. CASE settings.at = NoPath
    BY <1>0, <2>1 DEF SettingsOk
  <2>2. CASE settings.at = p
    BY <1>0, <1>2, <1>3, <2>2 DEF SettingsOk, ContentAt, Write
  <2>3. CASE settings.at \in Path \ {p}
    <3>1. disk'[settings.at] = disk[settings.at]
      BY <1>3, <2>3
    <3> QED
      BY <1>0, <1>1, <3>1 DEF IInv, SettingsOk, ContentAt, Grow
  <2> QED
    BY <2>1, <2>2, <2>3 DEF IInv, TypeOK
<1>10. LostOk'
  BY <1>0, <1>1, LostKept DEF IInv
<1> QED
  BY <1>0, <1>6, <1>7, <1>8, <1>9, <1>10 DEF IInv

LEMMA StepOk == IInv /\ [Next]_vars => IInv'
<1> SUFFICES ASSUME IInv, [Next]_vars PROVE IInv'
  OBVIOUS
<1>1. CASE UNCHANGED vars
  <2>1. Grow /\ Shrink
    BY <1>1 DEF vars, Grow, Shrink
  <2>2. TypeOK'
    BY <1>1 DEF vars, IInv, TypeOK
  <2>3. LostOk'
    BY <1>1, <2>1, LostKept DEF vars, IInv
  <2> QED
    BY <1>1, <2>1, <2>2, <2>3, Quiet DEF vars
<1>2. CASE \E p \in Path :
             \/ \E c \in Content, t \in Stamp : Write(p, c, t)
             \/ Remove(p) \/ Stat(p) \/ Hash(p)
  BY <1>2, WriteStep, RemoveStep, StatStep, HashStep
<1>3. CASE \E r \in Row :
             \/ PrecheckHit(r) \/ Read(r) \/ UploadOk(r) \/ UploadFails(r)
             \/ RecordUpload(r) \/ Guard(r) \/ Act(r)
  BY <1>3, PrecheckHitStep, ReadStep, UploadOkStep, UploadFailsStep,
     RecordUploadStep, GuardStep, ActStep
<1>4. CASE Restart
  BY <1>4, RestartStep
<1>5. CASE \E action \in {"keep", "remove"}, apply \in BOOLEAN :
             SaveFolder(action, apply)
  BY <1>5, SaveFolderStep
<1>6. CASE \E rec \in settings.todo : Recheck(rec)
  BY <1>6, RecheckStep
<1>7. CASE ActOnExisting
  BY <1>7, ActOnExistingStep
<1> QED
  BY <1>1, <1>2, <1>3, <1>4, <1>5, <1>6, <1>7 DEF Next

----------------------------------------------------------------------------
(* The theorems.                                                           *)

\* The invariant of the files and their records, for every number of files,
\* rows, contents and writes.
THEOREM FileInvariantHolds == Spec => []IInv
<1> QED
  BY InitOk, StepOk, PTL DEF Spec

\* Every variable keeps its type; the Settings process works from records
\* that exist.
THEOREM FileTypeCorrect == Spec => []TypeOK
<1>1. IInv => TypeOK
  BY DEF IInv
<1> QED
  BY <1>1, FileInvariantHolds, PTL

\* The worker's guard (#102) does its work: no content is taken away that the
\* server lacks, but for a write after the check, or a content that was
\* overwritten while its row waited, and came back.
THEOREM WorkerIsCareful == Spec => []WorkerTakesUploaded
<1>1. IInv => WorkerTakesUploaded
  BY DEF IInv, LostOk
<1> QED
  BY <1>1, FileInvariantHolds, PTL

\* The Settings process too, but for files that a record's size and mtime fit.
THEOREM SettingsIsCareful == Spec => []SettingsTakesUploaded
<1>1. IInv => SettingsTakesUploaded
  BY DEF IInv, LostOk
<1> QED
  BY <1>1, FileInvariantHolds, PTL

\* What process_file skips as uploaded is uploaded, with the same exceptions.
THEOREM ScanIsCareful == Spec => []SkippedIsUploaded
<1>1. IInv => SkippedIsUploaded
  BY DEF IInv, LostOk
<1> QED
  BY <1>1, FileInvariantHolds, PTL

----------------------------------------------------------------------------
(* TrashBin: the inductive invariant.                                      *)

\* Mover m has claimed name n.
Claimed(m, n) == (MoverAt(m, "move") \/ MoverAt(m, "copied")) /\ mover[m].name = n

\* What is under a mover's name: its own, unless it was robbed, and nothing of
\* an earlier day in any case.
MoverOk(m) ==
  \A n \in Name : Claimed(m, n) =>
    /\ MoverAt(m, "move") => bin[n] # Leftover
    /\ bin[n] \in File => since[n] = today
    /\ MoverAt(m, "move") /\ m \notin robbed => bin[n] = Placeholder
    /\ MoverAt(m, "copied") /\ m \notin robbed => bin[n] = mover[m].body
    /\ MoverAt(m, "copied") => mover[m].body \in File

\* No two movers have a name of their own in common.
Exclusive ==
  \A m, k \in Mover \ robbed : \A n \in Name :
    Claimed(m, n) /\ Claimed(k, n) => m = k

\* What the row of name n says, once it is not one that was left.
NameOk(n) ==
  /\ since[n] <= today
  /\ n \notin unpruned =>
       /\ bin[n] = Vacant => trash_entries[n] = NoTime
       /\ bin[n] \in File => trash_entries[n] = NoTime \/ trash_entries[n] >= since[n]
       /\ bin[n] = Placeholder => trash_entries[n] \in {NoTime, today}
  /\ bin[n] \in File /\ n \notin stale => n \notin unpruned

\* The name that the sweep is about to purge has an old row.
SweepOk ==
  sweep # Idle => \A n \in sweep.purge :
    trash_entries[n] \in Nat /\ today - trash_entries[n] > Retention

TrashInv ==
  /\ TrashTypeOK
  /\ \A m \in Mover : MoverOk(m)
  /\ Exclusive
  /\ ClaimsAreHeld
  /\ \A n \in Name : NameOk(n)
  /\ SweepOk

----------------------------------------------------------------------------
(* What the steps have in common.                                          *)

LEMMA TrashInitOk == TrashInit => TrashInv
<1> SUFFICES ASSUME TrashInit PROVE TrashInv
  OBVIOUS
<1>0. 0 \in Day
  BY TrashAssumption DEF Day
<1>1. TrashTypeOK
  BY <1>0 DEF TrashInit, TrashTypeOK
<1>2. \A m \in Mover : mover[m] = Idle
  BY DEF TrashInit
<1>3. \A m \in Mover, n \in Name : ~Claimed(m, n)
  BY <1>2 DEF Claimed, MoverAt
<1>4. \A m \in Mover : MoverOk(m)
  BY <1>3 DEF MoverOk
<1>5. Exclusive
  BY <1>3 DEF Exclusive
<1>6. ClaimsAreHeld
  BY TrashAssumption DEF TrashInit, ClaimsAreHeld
<1>7. \A n \in Name : NameOk(n)
  BY TrashAssumption DEF TrashInit, NameOk
<1>8. SweepOk
  BY DEF TrashInit, SweepOk
<1> QED
  BY <1>1, <1>4, <1>5, <1>6, <1>7, <1>8 DEF TrashInv

\* Who has claimed a name holds it.
LEMMA HoldersClaimed ==
  ASSUME NEW m \in Mover, NEW n \in Name
  PROVE  m \in Holders(n) <=> Claimed(m, n)
BY DEF Holders, Claimed

\* A mover at work has a move.
LEMMA MoveTyped ==
  ASSUME TrashTypeOK, NEW m \in Mover, mover[m] # Idle
  PROVE  /\ mover[m] \in Move
         /\ mover[m].name \in Name
         /\ mover[m].body \in File \cup {Vacant}
BY DEF TrashTypeOK, Move

\* The movers, in a step that is none of theirs: a name keeps what is under it,
\* or is emptied and its movers robbed.
LEMMA MoversKept ==
  ASSUME TrashTypeOK, \A m \in Mover : MoverOk(m), Exclusive, ClaimsAreHeld,
         mover' = mover, today' = today, robbed \subseteq robbed',
         \A n \in Name : \/ bin'[n] = bin[n] /\ since'[n] = since[n]
                         \/ bin'[n] = Vacant /\ Holders(n) \subseteq robbed'
  PROVE  (\A m \in Mover : MoverOk(m)') /\ Exclusive' /\ ClaimsAreHeld'
<1>1. ASSUME NEW m \in Mover PROVE MoverOk(m)'
  <2> SUFFICES ASSUME NEW n \in Name, Claimed(m, n)'
               PROVE  /\ MoverAt(m, "move")' => bin'[n] # Leftover
                      /\ bin'[n] \in File => since'[n] = today'
                      /\ MoverAt(m, "move")' /\ m \notin robbed' => bin'[n] = Placeholder
                      /\ MoverAt(m, "copied")' /\ m \notin robbed' => bin'[n] = mover'[m].body
                      /\ MoverAt(m, "copied")' => mover'[m].body \in File
    BY DEF MoverOk
  <2>1. Claimed(m, n) /\ (MoverAt(m, "move")' <=> MoverAt(m, "move"))
                      /\ (MoverAt(m, "copied")' <=> MoverAt(m, "copied"))
    BY DEF Claimed, MoverAt
  <2>2. MoverOk(m)
    OBVIOUS
  <2>3. CASE bin'[n] = bin[n] /\ since'[n] = since[n]
    BY <2>1, <2>2, <2>3 DEF MoverOk
  <2>4. CASE bin'[n] = Vacant /\ Holders(n) \subseteq robbed'
    <3>1. m \in robbed'
      BY <2>1, <2>4, HoldersClaimed
    <3> QED
      BY <2>1, <2>2, <2>4, <3>1, TrashAssumption DEF MoverOk
  <2> QED
    BY <2>3, <2>4
<1>2. Exclusive'
  BY DEF Exclusive, Claimed, MoverAt
<1>3. ClaimsAreHeld'
  <2> SUFFICES ASSUME NEW n \in Name, bin'[n] = Placeholder
               PROVE  \E m \in Mover : MoverAt(m, "move")' /\ mover'[m].name = n
    BY DEF ClaimsAreHeld
  <2>1. bin[n] = Placeholder
    BY TrashAssumption
  <2>2. PICK m \in Mover : MoverAt(m, "move") /\ mover[m].name = n
    BY <2>1 DEF ClaimsAreHeld
  <2> QED
    BY <2>2 DEF MoverAt
<1> QED
  BY <1>1, <1>2, <1>3

\* A name that a step leaves as it is, its row included.
LEMMA NameKept ==
  ASSUME NEW n \in Name, NameOk(n), today' = today,
         bin'[n] = bin[n], since'[n] = since[n], (n \in stale' <=> n \in stale),
         trash_entries'[n] = trash_entries[n], n \in unpruned' <=> n \in unpruned
  PROVE  NameOk(n)'
BY DEF NameOk

\* A name that is emptied, with its row forgotten or known to be left.
LEMMA NameEmptied ==
  ASSUME TrashTypeOK, NEW n \in Name, today' = today,
         bin'[n] = Vacant, since'[n] = 0,
         n \in unpruned' \/ trash_entries'[n] = NoTime
  PROVE  NameOk(n)'
<1>1. today \in Nat
  BY TrashAssumption DEF TrashTypeOK, Day
<1> QED
  BY <1>1, TrashAssumption DEF NameOk

----------------------------------------------------------------------------
(* The user, the camera and the clock.                                     *)

LEMMA ArriveStep ==
  ASSUME TrashInv, NEW f \in File, Arrive(f)
  PROVE  TrashInv'
<1>1. TrashTypeOK'
  BY DEF TrashInv, TrashTypeOK, Arrive, binVars
<1>2. (\A m \in Mover : MoverOk(m)') /\ Exclusive' /\ ClaimsAreHeld'
  BY MoversKept DEF TrashInv, Arrive, binVars
<1>3. \A n \in Name : NameOk(n)'
  BY NameKept DEF TrashInv, Arrive, binVars
<1>4. SweepOk'
  BY DEF TrashInv, SweepOk, Arrive
<1> QED
  BY <1>1, <1>2, <1>3, <1>4 DEF TrashInv

\* Names are emptied, their rows left.
LEMMA EmptyStep ==
  ASSUME TrashInv, NEW N \in SUBSET Name, Empty(N), Vacate(N), Rob(N),
         root' \in BOOLEAN, UserUnchanged
  PROVE  TrashInv'
<1>0. \A n \in N : Holders(n) \subseteq Mover
  BY DEF Holders
<1>1. TrashTypeOK'
  <2>1. 0 \in Day
    BY TrashAssumption DEF Day
  <2>2. /\ bin' \in [Name -> File \cup {Vacant, Placeholder, Leftover}]
        /\ since' \in [Name -> Day]
        /\ stale' \subseteq Name
    BY <2>1 DEF TrashInv, TrashTypeOK, Empty
  <2>3. robbed' \subseteq Mover
    BY <1>0 DEF TrashInv, TrashTypeOK, Rob
  <2>4. unpruned' \subseteq Name
    BY DEF TrashInv, TrashTypeOK, Vacate
  <2> QED
    BY <2>2, <2>3, <2>4 DEF TrashInv, TrashTypeOK, UserUnchanged
<1>2. (\A m \in Mover : MoverOk(m)') /\ Exclusive' /\ ClaimsAreHeld'
  <2>1. robbed \subseteq robbed' /\ \A n \in N : Holders(n) \subseteq robbed'
    BY DEF Rob
  <2>2. \A n \in Name : \/ bin'[n] = bin[n] /\ since'[n] = since[n]
                        \/ bin'[n] = Vacant /\ Holders(n) \subseteq robbed'
    BY <2>1 DEF Empty
  <2> QED
    BY <2>1, <2>2, MoversKept DEF TrashInv, UserUnchanged
<1>3. ASSUME NEW n \in Name PROVE NameOk(n)'
  <2>1. CASE n \in N
    <3>1. bin'[n] = Vacant /\ since'[n] = 0 /\ n \in unpruned'
      BY <2>1 DEF Empty, Vacate
    <3> QED
      BY <3>1, NameEmptied DEF TrashInv, UserUnchanged
  <2>2. CASE n \notin N
    <3>1. /\ bin'[n] = bin[n] /\ since'[n] = since[n] /\ (n \in stale' <=> n \in stale)
          /\ n \in unpruned' <=> n \in unpruned
      BY <2>2 DEF Empty, Vacate
    <3> QED
      BY <3>1, NameKept DEF TrashInv, UserUnchanged
  <2> QED
    BY <2>1, <2>2
<1>4. SweepOk'
  BY DEF TrashInv, SweepOk, UserUnchanged
<1> QED
  BY <1>1, <1>2, <1>3, <1>4 DEF TrashInv

LEMMA TakeOutStep ==
  ASSUME TrashInv, NEW n \in Name, TakeOut(n)
  PROVE  TrashInv'
<1>1. root' \in BOOLEAN
  BY DEF TrashInv, TrashTypeOK, TakeOut
<1> QED
  BY <1>1, EmptyStep DEF TakeOut

LEMMA ThrowAwayStep ==
  ASSUME TrashInv, ThrowAway
  PROVE  TrashInv'
<1>1. PICK N \in SUBSET Name : Empty(N) /\ Vacate(N) /\ Rob(N)
  BY DEF ThrowAway
<1>2. root' \in BOOLEAN /\ UserUnchanged
  BY DEF ThrowAway
<1> QED
  BY <1>1, <1>2, EmptyStep

LEMMA NextDayStep ==
  ASSUME TrashInv, NextDay
  PROVE  TrashInv'
<1>0. today \in Nat /\ today' = today + 1 /\ \A n \in Name : since[n] \in Nat
  BY TrashAssumption DEF TrashInv, TrashTypeOK, NextDay, Day
<1>1. TrashTypeOK'
  <2>1. today' \in Day
    BY TrashAssumption DEF TrashInv, TrashTypeOK, NextDay, Day
  <2> QED
    BY <2>1 DEF TrashInv, TrashTypeOK, NextDay, binVars
<1>2. \A m \in Mover : mover[m] = Idle /\ mover'[m] = Idle
  BY DEF NextDay
<1>3. (\A m \in Mover : MoverOk(m)') /\ Exclusive'
  BY <1>2 DEF MoverOk, Exclusive, Claimed, MoverAt
<1>4. \A n \in Name : bin[n] # Placeholder
  BY <1>2 DEF TrashInv, ClaimsAreHeld, MoverAt
<1>5. ClaimsAreHeld'
  BY <1>4 DEF ClaimsAreHeld, NextDay, binVars
<1>6. \A n \in Name : NameOk(n)'
  BY <1>0, <1>4 DEF TrashInv, NameOk, NextDay, binVars
<1>7. SweepOk'
  BY DEF TrashInv, SweepOk, NextDay
<1> QED
  BY <1>1, <1>3, <1>5, <1>6, <1>7 DEF TrashInv

LEMMA ProcessEndsStep ==
  ASSUME TrashInv, NEW S \in SUBSET Mover, NEW program \in BOOLEAN,
         ProcessEnds(S, program)
  PROVE  TrashInv'
<1>1. TrashTypeOK'
  BY DEF TrashInv, TrashTypeOK, ProcessEnds
<1>2. \A m \in Mover : /\ m \in S => mover'[m] = Idle
                       /\ m \notin S => mover'[m] = mover[m]
  BY DEF ProcessEnds
<1>3. \A m \in Mover : /\ MoverAt(m, "move")' <=> MoverAt(m, "move") /\ m \notin S
                       /\ MoverAt(m, "copied")' <=> MoverAt(m, "copied") /\ m \notin S
  BY <1>2 DEF MoverAt
<1>4. \A m \in Mover, n \in Name : Claimed(m, n)' => Claimed(m, n) /\ m \notin S
  BY <1>2, <1>3 DEF Claimed
<1>5. ASSUME NEW n \in Name
      PROVE  \/ bin'[n] = bin[n]
             \/ /\ bin[n] = Placeholder /\ bin'[n] = Leftover
                /\ \A m \in Mover \ S : ~(MoverAt(m, "move") /\ mover[m].name = n)
  BY DEF ProcessEnds
<1>6. ASSUME NEW m \in Mover PROVE MoverOk(m)'
  <2> SUFFICES ASSUME NEW n \in Name, Claimed(m, n)'
               PROVE  /\ MoverAt(m, "move")' => bin'[n] # Leftover
                      /\ bin'[n] \in File => since'[n] = today'
                      /\ MoverAt(m, "move")' /\ m \notin robbed' => bin'[n] = Placeholder
                      /\ MoverAt(m, "copied")' /\ m \notin robbed' => bin'[n] = mover'[m].body
                      /\ MoverAt(m, "copied")' => mover'[m].body \in File
    BY DEF MoverOk
  <2>1. /\ Claimed(m, n) /\ m \notin S /\ mover'[m] = mover[m]
        /\ MoverAt(m, "move")' <=> MoverAt(m, "move")
        /\ MoverAt(m, "copied")' <=> MoverAt(m, "copied")
    BY <1>2, <1>3, <1>4
  <2>2. since' = since /\ today' = today /\ (m \notin robbed' => m \notin robbed)
    BY <2>1 DEF ProcessEnds
  <2>3. MoverOk(m)
    BY DEF TrashInv
  <2>4. CASE bin'[n] = bin[n]
    BY <2>1, <2>2, <2>3, <2>4 DEF MoverOk
  <2>5. CASE /\ bin[n] = Placeholder /\ bin'[n] = Leftover
             /\ \A k \in Mover \ S : ~(MoverAt(k, "move") /\ mover[k].name = n)
    <3>1. MoverAt(m, "copied") /\ ~MoverAt(m, "move")
      BY <2>1, <2>5 DEF Claimed
    <3>2. m \in robbed /\ mover[m].body \in File
      BY <2>1, <2>3, <2>5, <3>1, TrashAssumption DEF MoverOk
    <3> QED
      BY <2>1, <2>2, <2>5, <3>1, <3>2, TrashAssumption
  <2> QED
    BY <1>5, <2>4, <2>5
<1>7. Exclusive'
  <2>1. ASSUME NEW m \in Mover \ robbed', NEW n \in Name, Claimed(m, n)'
        PROVE  m \notin robbed /\ Claimed(m, n)
    BY <1>4, <2>1 DEF ProcessEnds
  <2> QED
    BY <2>1 DEF TrashInv, Exclusive
<1>8. ClaimsAreHeld'
  <2> SUFFICES ASSUME NEW n \in Name, bin'[n] = Placeholder
               PROVE  \E m \in Mover : MoverAt(m, "move")' /\ mover'[m].name = n
    BY DEF ClaimsAreHeld
  <2>1. PICK m \in Mover \ S : MoverAt(m, "move") /\ mover[m].name = n
    BY TrashAssumption DEF ProcessEnds
  <2> QED
    BY <1>2, <1>3, <2>1
<1>9. \A n \in Name : NameOk(n)'
  BY <1>5, TrashAssumption DEF TrashInv, NameOk, ProcessEnds
<1>10. SweepOk'
  BY DEF TrashInv, SweepOk, ProcessEnds
<1> QED
  BY <1>1, <1>6, <1>7, <1>8, <1>9, <1>10 DEF TrashInv

----------------------------------------------------------------------------
(* cleanup_trash.                                                          *)

\* A step of the sweep that changes nothing in the bin.
LEMMA SweepKeeps ==
  ASSUME TrashInv, SweepUnchanged, UNCHANGED <<bin, since, robbed>>
  PROVE  (\A m \in Mover : MoverOk(m)') /\ Exclusive' /\ ClaimsAreHeld'
BY MoversKept DEF TrashInv, SweepUnchanged

LEMMA StartSweepStep ==
  ASSUME TrashInv, StartSweep
  PROVE  TrashInv'
<1>1. TrashTypeOK'
  <2>1. sweep' \in Sweep
    BY DEF StartSweep, Sweep
  <2> QED
    BY <2>1 DEF TrashInv, TrashTypeOK, StartSweep, SweepUnchanged
<1>2. (\A m \in Mover : MoverOk(m)') /\ Exclusive' /\ ClaimsAreHeld'
  BY SweepKeeps DEF StartSweep
<1>3. \A n \in Name : NameOk(n)'
  BY NameKept DEF TrashInv, StartSweep, SweepUnchanged
<1>4. SweepOk'
  BY DEF SweepOk, StartSweep
<1> QED
  BY <1>1, <1>2, <1>3, <1>4 DEF TrashInv

LEMMA VisitStep ==
  ASSUME TrashInv, NEW n \in Name, Visit(n)
  PROVE  TrashInv'
<1>0. sweep \in Sweep /\ sweep.purge = {} /\ today \in Day
  BY DEF TrashInv, TrashTypeOK, Visit, Walking
<1>1. CASE (Seen(n) \/ Passed(n))
  <2>1. sweep' \in Sweep /\ sweep'.purge = {}
    <3>1. CASE Seen(n)
      BY <1>0, <3>1 DEF Seen, Sweep
    <3>2. CASE Passed(n)
      BY <1>0, <3>2 DEF Passed, Sweep
    <3> QED
      BY <1>1, <3>1, <3>2
  <2>2. \/ trash_entries' = trash_entries
        \/ /\ bin[n] # Vacant
           /\ trash_entries' = [trash_entries EXCEPT ![n] = today]
    BY DEF Visit
  <2>3. TrashTypeOK'
    BY <1>0, <2>1, <2>2 DEF TrashInv, TrashTypeOK, Visit, SweepUnchanged
  <2>4. (\A m \in Mover : MoverOk(m)') /\ Exclusive' /\ ClaimsAreHeld'
    BY SweepKeeps DEF Visit
  <2>5. ASSUME NEW k \in Name PROVE NameOk(k)'
    <3>1. CASE trash_entries'[k] = trash_entries[k]
      BY <3>1, NameKept DEF TrashInv, Visit, SweepUnchanged
    <3>2. CASE k = n /\ bin[n] # Vacant /\ trash_entries'[n] = today
      <4>1. today \in Nat /\ since[n] \in Nat
        BY TrashAssumption DEF TrashInv, TrashTypeOK, Day
      <4> QED
        BY <3>2, <4>1 DEF TrashInv, NameOk, Visit, SweepUnchanged
    <3> QED
      BY <2>2, <3>1, <3>2 DEF TrashInv, TrashTypeOK
  <2>6. SweepOk'
    BY <2>1 DEF SweepOk
  <2> QED
    BY <2>3, <2>4, <2>5, <2>6 DEF TrashInv
<1>2. CASE /\ trash_entries[n] # NoTime /\ ~(today - trash_entries[n] <= Retention)
           /\ sweep' = [sweep EXCEPT !.todo = @ \ {n}, !.purge = {n}]
           /\ UNCHANGED trash_entries
  <2>1. sweep' \in Sweep /\ sweep'.purge = {n}
    BY <1>0, <1>2 DEF Sweep
  <2>2. TrashTypeOK'
    BY <1>2, <2>1 DEF TrashInv, TrashTypeOK, Visit, SweepUnchanged
  <2>3. (\A m \in Mover : MoverOk(m)') /\ Exclusive' /\ ClaimsAreHeld'
    BY SweepKeeps DEF Visit
  <2>4. \A k \in Name : NameOk(k)'
    BY <1>2, NameKept DEF TrashInv, Visit, SweepUnchanged
  <2>5. SweepOk'
    <3>1. trash_entries[n] \in Nat /\ today \in Nat /\ Retention \in Nat
      BY <1>2, TrashAssumption DEF TrashInv, TrashTypeOK, Day
    <3>2. today' = today
      BY DEF Visit, SweepUnchanged
    <3> QED
      BY <1>2, <2>1, <3>1, <3>2 DEF SweepOk
  <2> QED
    BY <2>2, <2>3, <2>4, <2>5 DEF TrashInv
<1> QED
  BY <1>1, <1>2 DEF Visit

LEMMA PurgeFailsStep ==
  ASSUME TrashInv, NEW n \in Name, PurgeFails(n)
  PROVE  TrashInv'
<1>0. sweep \in Sweep
  BY DEF TrashInv, TrashTypeOK, PurgeFails
<1>1. sweep' \in Sweep /\ sweep'.purge = {}
  BY <1>0 DEF PurgeFails, Sweep
<1>2. TrashTypeOK'
  BY <1>1 DEF TrashInv, TrashTypeOK, PurgeFails, SweepUnchanged
<1>3. (\A m \in Mover : MoverOk(m)') /\ Exclusive' /\ ClaimsAreHeld'
  BY SweepKeeps DEF PurgeFails
<1>4. \A k \in Name : NameOk(k)'
  BY NameKept DEF TrashInv, PurgeFails, SweepUnchanged
<1>5. SweepOk'
  BY <1>1 DEF SweepOk
<1> QED
  BY <1>2, <1>3, <1>4, <1>5 DEF TrashInv

LEMMA PurgeStep ==
  ASSUME TrashInv, NEW n \in Name, Purge(n)
  PROVE  TrashInv'
<1>0. sweep \in Sweep /\ 0 \in Day
  BY TrashAssumption DEF TrashInv, TrashTypeOK, Purge, Day
<1>1. sweep' \in Sweep /\ sweep'.purge = {}
  BY <1>0 DEF Purge, Sweep
<1>2. /\ \A k \in Name \ {n} : /\ bin'[k] = bin[k] /\ since'[k] = since[k]
                               /\ (k \in stale' <=> k \in stale)
      /\ bin'[n] = Vacant /\ since'[n] = 0
  BY DEF Purge, Empty
<1>3. \/ unpruned' = unpruned /\ trash_entries' = [trash_entries EXCEPT ![n] = NoTime]
      \/ /\ Vacate({n})
         /\ trash_entries' \in {trash_entries, [trash_entries EXCEPT ![n] = NoTime]}
  BY DEF Purge
<1>4. /\ n \in unpruned' \/ trash_entries'[n] = NoTime
      /\ \A k \in Name \ {n} : /\ trash_entries'[k] = trash_entries[k]
                               /\ k \in unpruned' <=> k \in unpruned
  BY <1>3 DEF TrashInv, TrashTypeOK, Vacate
<1>5. robbed' = robbed \cup Holders(n) /\ robbed' \subseteq Mover
  BY DEF TrashInv, TrashTypeOK, Purge, Rob, Holders
<1>6. TrashTypeOK'
  <2>1. /\ bin' \in [Name -> File \cup {Vacant, Placeholder, Leftover}]
        /\ since' \in [Name -> Day]
        /\ stale' \subseteq Name
    BY <1>0 DEF TrashInv, TrashTypeOK, Purge, Empty
  <2>2. trash_entries' \in [Name -> Day \cup {NoTime}]
    BY <1>3 DEF TrashInv, TrashTypeOK
  <2>3. unpruned' \subseteq Name
    BY <1>3 DEF TrashInv, TrashTypeOK, Vacate
  <2> QED
    BY <1>1, <1>5, <2>1, <2>2, <2>3 DEF TrashInv, TrashTypeOK, Purge, SweepUnchanged
<1>7. (\A m \in Mover : MoverOk(m)') /\ Exclusive' /\ ClaimsAreHeld'
  <2>1. \A k \in Name : \/ bin'[k] = bin[k] /\ since'[k] = since[k]
                        \/ bin'[k] = Vacant /\ Holders(k) \subseteq robbed'
    BY <1>2, <1>5
  <2> QED
    BY <1>5, <2>1, MoversKept DEF TrashInv, Purge, SweepUnchanged
<1>8. ASSUME NEW k \in Name PROVE NameOk(k)'
  <2>1. CASE k = n
    BY <1>2, <1>4, <2>1, NameEmptied DEF TrashInv, Purge, SweepUnchanged
  <2>2. CASE k # n
    BY <1>2, <1>4, <2>2, NameKept DEF TrashInv, Purge, SweepUnchanged
  <2> QED
    BY <2>1, <2>2
<1>9. SweepOk'
  BY <1>1 DEF SweepOk
<1> QED
  BY <1>6, <1>7, <1>8, <1>9 DEF TrashInv

LEMMA PruneStep ==
  ASSUME TrashInv, Prune
  PROVE  TrashInv'
<1>1. TrashTypeOK'
  <2>1. trash_entries' \in [Name -> Day \cup {NoTime}]
    BY DEF TrashInv, TrashTypeOK, Prune
  <2>2. unpruned' \subseteq Name
    BY DEF TrashInv, TrashTypeOK, Prune
  <2> QED
    BY <2>1, <2>2 DEF TrashInv, TrashTypeOK, Prune, SweepUnchanged
<1>2. (\A m \in Mover : MoverOk(m)') /\ Exclusive' /\ ClaimsAreHeld'
  BY SweepKeeps DEF Prune
<1>3. ASSUME NEW n \in Name PROVE NameOk(n)'
  <2>1. \/ /\ trash_entries'[n] = trash_entries[n]
           /\ n \in unpruned' <=> n \in unpruned
        \/ trash_entries'[n] = NoTime /\ unpruned' \subseteq unpruned
    BY DEF Prune
  <2>2. /\ bin'[n] = bin[n] /\ since'[n] = since[n] /\ (n \in stale' <=> n \in stale)
        /\ today' = today
    BY DEF Prune, SweepUnchanged
  <2> QED
    BY <2>1, <2>2 DEF TrashInv, NameOk
<1>4. SweepOk'
  BY DEF SweepOk, Prune
<1> QED
  BY <1>1, <1>2, <1>3, <1>4 DEF TrashInv

----------------------------------------------------------------------------
(* trash_file.                                                             *)

\* What another mover than m has, after a step of m.
LEMMA OthersKept ==
  ASSUME TrashInv, NEW m \in Mover,
         \A k \in Mover \ {m} : mover'[k] = mover[k],
         \A k \in Mover \ {m} : k \in robbed => k \in robbed',
         NEW k \in Mover \ {m}, today' = today,
         \A n \in Name : Claimed(k, n) =>
           \/ bin'[n] = bin[n] /\ since'[n] = since[n]
           \/ /\ bin'[n] \in File => since'[n] = today
              /\ bin'[n] # Leftover
              /\ k \in robbed'
  PROVE  MoverOk(k)'
<1> SUFFICES ASSUME NEW n \in Name, Claimed(k, n)'
             PROVE  /\ MoverAt(k, "move")' => bin'[n] # Leftover
                    /\ bin'[n] \in File => since'[n] = today'
                    /\ MoverAt(k, "move")' /\ k \notin robbed' => bin'[n] = Placeholder
                    /\ MoverAt(k, "copied")' /\ k \notin robbed' => bin'[n] = mover'[k].body
                    /\ MoverAt(k, "copied")' => mover'[k].body \in File
  BY DEF MoverOk
<1>1. /\ Claimed(k, n) /\ mover'[k] = mover[k]
      /\ MoverAt(k, "move")' <=> MoverAt(k, "move")
      /\ MoverAt(k, "copied")' <=> MoverAt(k, "copied")
  BY DEF Claimed, MoverAt
<1>2. MoverOk(k)
  BY DEF TrashInv
<1>3. CASE bin'[n] = bin[n] /\ since'[n] = since[n]
  BY <1>1, <1>2, <1>3 DEF MoverOk
<1>4. CASE /\ bin'[n] \in File => since'[n] = today
           /\ bin'[n] # Leftover
           /\ k \in robbed'
  BY <1>1, <1>2, <1>4 DEF MoverOk
<1> QED
  BY <1>1, <1>3, <1>4

LEMMA TrashFileStep ==
  ASSUME TrashInv, NEW m \in Mover, TrashFile(m)
  PROVE  TrashInv'
<1>0. 0 \in Name
  BY TrashAssumption DEF Name
<1>1. /\ mover' \in [Mover -> Move \cup {Idle}]
      /\ mover'[m] = [at |-> "claim", name |-> 0, body |-> Vacant]
      /\ \A k \in Mover \ {m} : mover'[k] = mover[k]
  BY <1>0 DEF TrashInv, TrashTypeOK, TrashFile, Set, Move
<1>2. TrashTypeOK'
  BY <1>1 DEF TrashInv, TrashTypeOK, TrashFile, MoverUnchanged
<1>3. ~MoverAt(m, "move")' /\ ~MoverAt(m, "copied")'
  BY <1>1 DEF MoverAt
<1>4. \A k \in Mover : MoverOk(k)'
  <2>1. MoverOk(m)'
    BY <1>3 DEF MoverOk, Claimed
  <2>2. ASSUME NEW k \in Mover \ {m} PROVE MoverOk(k)'
    BY <1>1, OthersKept DEF TrashFile, MoverUnchanged
  <2> QED
    BY <2>1, <2>2
<1>5. Exclusive'
  BY <1>1, <1>3 DEF TrashInv, Exclusive, Claimed, MoverAt, TrashFile
<1>6. ClaimsAreHeld'
  <2>1. ASSUME NEW k \in Mover, MoverAt(k, "move")
        PROVE  k # m /\ MoverAt(k, "move")' /\ mover'[k] = mover[k]
    BY <1>1, <2>1 DEF MoverAt, TrashFile
  <2> QED
    BY <2>1 DEF TrashInv, ClaimsAreHeld, TrashFile
<1>7. \A n \in Name : NameOk(n)'
  BY NameKept DEF TrashInv, TrashFile, MoverUnchanged
<1>8. SweepOk'
  BY DEF TrashInv, SweepOk, TrashFile, MoverUnchanged
<1> QED
  BY <1>2, <1>4, <1>5, <1>6, <1>7, <1>8 DEF TrashInv

\* Mover m tries another name, or gives up: it has claimed nothing.
LEMMA ClaimMissedStep ==
  ASSUME TrashInv, NEW m \in Mover, MoverAt(m, "claim"), NEW next \in Move \cup {Idle},
         next # Idle => next.at = "claim",
         mover' = [mover EXCEPT ![m] = next],
         UNCHANGED <<source, bin, root, since, unpruned, stale, robbed>>,
         MoverUnchanged
  PROVE  TrashInv'
<1>1. /\ mover' \in [Mover -> Move \cup {Idle}]
      /\ mover'[m] = next
      /\ \A k \in Mover \ {m} : mover'[k] = mover[k]
  BY DEF TrashInv, TrashTypeOK
<1>2. TrashTypeOK'
  BY <1>1 DEF TrashInv, TrashTypeOK, MoverUnchanged
<1>3. ~MoverAt(m, "move")' /\ ~MoverAt(m, "copied")'
  BY <1>1 DEF MoverAt
<1>4. \A k \in Mover : MoverOk(k)'
  <2>1. MoverOk(m)'
    BY <1>3 DEF MoverOk, Claimed
  <2>2. ASSUME NEW k \in Mover \ {m} PROVE MoverOk(k)'
    BY <1>1, OthersKept DEF MoverUnchanged
  <2> QED
    BY <2>1, <2>2
<1>5. Exclusive'
  BY <1>1, <1>3 DEF TrashInv, Exclusive, Claimed, MoverAt
<1>6. ClaimsAreHeld'
  <2>1. ASSUME NEW k \in Mover, MoverAt(k, "move")
        PROVE  MoverAt(k, "move")' /\ mover'[k] = mover[k]
    BY <1>1, <2>1 DEF MoverAt
  <2> QED
    BY <2>1 DEF TrashInv, ClaimsAreHeld
<1>7. \A n \in Name : NameOk(n)'
  BY NameKept DEF TrashInv, MoverUnchanged
<1>8. SweepOk'
  BY DEF TrashInv, SweepOk, MoverUnchanged
<1> QED
  BY <1>2, <1>4, <1>5, <1>6, <1>7, <1>8 DEF TrashInv

\* A name that is free is nobody's.
LEMMA FreeName ==
  ASSUME TrashInv, NEW n \in Name, bin[n] = Vacant, NEW k \in Mover, Claimed(k, n)
  PROVE  k \in robbed
<1>1. MoverOk(k)
  BY DEF TrashInv
<1> QED
  BY <1>1, TrashAssumption DEF MoverOk, Claimed

LEMMA ClaimStep ==
  ASSUME TrashInv, NEW m \in Mover, Claim(m)
  PROVE  TrashInv'
<1> DEFINE n == mover[m].name
<1>0. n \in Name /\ n \in Nat /\ mover[m] # Idle
  BY MoveTyped, TrashAssumption DEF TrashInv, Claim, MoverAt, Name
<1>1. CASE root /\ bin[n] # Vacant /\ n < MaxName /\ Set(m, "claim", n + 1, Vacant)
           /\ UNCHANGED bin
  <2>1. [at |-> "claim", name |-> n + 1, body |-> Vacant] \in Move
    BY <1>0, <1>1, TrashAssumption DEF Move, Name
  <2> QED
    BY <1>1, <2>1, ClaimMissedStep DEF Claim, Set
<1>2. CASE Rest(m) /\ UNCHANGED bin
  BY <1>2, ClaimMissedStep DEF Claim, Rest
<1>3. CASE root /\ bin[n] = Vacant /\ bin' = [bin EXCEPT ![n] = Placeholder]
           /\ Set(m, "move", n, Vacant)
  <2>1. /\ mover' \in [Mover -> Move \cup {Idle}]
        /\ mover'[m] = [at |-> "move", name |-> n, body |-> Vacant]
        /\ \A k \in Mover \ {m} : mover'[k] = mover[k]
    BY <1>0, <1>3 DEF TrashInv, TrashTypeOK, Set, Move
  <2>2. /\ bin' \in [Name -> File \cup {Vacant, Placeholder, Leftover}]
        /\ bin'[n] = Placeholder
        /\ \A k \in Name \ {n} : bin'[k] = bin[k]
    BY <1>0, <1>3 DEF TrashInv, TrashTypeOK
  <2>3. TrashTypeOK'
    BY <2>1, <2>2 DEF TrashInv, TrashTypeOK, Claim, MoverUnchanged
  <2>4. MoverAt(m, "move")' /\ ~MoverAt(m, "copied")' /\ \A k \in Name : Claimed(m, k)' => k = n
    <3>1. mover'[m] \in Move
      BY <1>0, <2>1 DEF Move
    <3> QED
      BY <2>1, <3>1, TrashAssumption DEF MoverAt, Claimed
  <2>5. \A k \in Mover : MoverOk(k)'
    <3>1. MoverOk(m)'
      BY <2>2, <2>4, TrashAssumption DEF MoverOk
    <3>2. ASSUME NEW k \in Mover \ {m} PROVE MoverOk(k)'
      <4>1. Claimed(k, n) => k \in robbed
        BY <1>0, <1>3, FreeName
      <4>2. bin'[n] # Leftover /\ bin'[n] \notin File
        BY <2>2, TrashAssumption
      <4>3. \A j \in Name : Claimed(k, j) =>
              \/ bin'[j] = bin[j] /\ since'[j] = since[j]
              \/ /\ bin'[j] \in File => since'[j] = today
                 /\ bin'[j] # Leftover
                 /\ k \in robbed'
        BY <2>2, <4>1, <4>2 DEF Claim
      <4> QED
        BY <2>1, <4>3, OthersKept DEF Claim, MoverUnchanged
    <3> QED
      BY <3>1, <3>2
  <2>6. Exclusive'
    <3> SUFFICES ASSUME NEW j \in Mover \ robbed', NEW k \in Mover \ robbed', j # k,
                        NEW i \in Name, Claimed(j, i)', Claimed(k, i)'
                 PROVE  FALSE
      BY DEF Exclusive
    <3>1. ASSUME NEW x \in Mover \ {m}, Claimed(x, i)' PROVE Claimed(x, i)
      BY <2>1, <3>1 DEF Claimed, MoverAt
    <3>2. CASE j # m /\ k # m
      BY <3>1, <3>2 DEF TrashInv, Exclusive, Claim
    <3>3. CASE j = m \/ k = m
      <4>1. i = n
        BY <2>4, <3>3
      <4> QED
        BY <1>0, <1>3, <3>1, <3>3, <4>1, FreeName DEF Claim
    <3> QED
      BY <3>2, <3>3
  <2>7. ClaimsAreHeld'
    <3> SUFFICES ASSUME NEW k \in Name, bin'[k] = Placeholder
                 PROVE  \E x \in Mover : MoverAt(x, "move")' /\ mover'[x].name = k
      BY DEF ClaimsAreHeld
    <3>1. CASE k = n
      BY <2>1, <2>4, <3>1
    <3>2. CASE k # n
      <4>1. PICK x \in Mover : MoverAt(x, "move") /\ mover[x].name = k
        BY <2>2, <3>2 DEF TrashInv, ClaimsAreHeld
      <4>2. x # m
        BY <3>2, <4>1
      <4> QED
        BY <2>1, <4>1, <4>2 DEF MoverAt
    <3> QED
      BY <3>1, <3>2
  <2>8. ASSUME NEW k \in Name PROVE NameOk(k)'
    <3>1. CASE k = n
      <4>1. NameOk(n)
        BY <1>0 DEF TrashInv
      <4> QED
        BY <1>3, <2>2, <3>1, <4>1, TrashAssumption
        DEF NameOk, Claim, MoverUnchanged
    <3>2. CASE k # n
      BY <2>2, <3>2, NameKept DEF TrashInv, Claim, MoverUnchanged
    <3> QED
      BY <3>1, <3>2
  <2>9. SweepOk'
    BY DEF TrashInv, SweepOk, Claim, MoverUnchanged
  <2> QED
    BY <2>3, <2>5, <2>6, <2>7, <2>8, <2>9 DEF TrashInv
<1> QED
  BY <1>1, <1>2, <1>3 DEF Claim

\* After a rename or a copy the file is under the name; if another mover had
\* claimed the name too, it is robbed.
LEMMA LandStep ==
  ASSUME TrashInv, NEW m \in Mover, MoverAt(m, "move"), source # Vacant, Land(m),
         source' \in {source, Vacant},
         NEW next,
         next = Idle \/ next = [at |-> "copied", name |-> mover[m].name, body |-> source],
         mover' = [mover EXCEPT ![m] = next],
         robbed' \subseteq Mover,
         \A k \in Mover \ {m} : k \in robbed' <=> k \in robbed \cup Holders(mover[m].name),
         MoverUnchanged
  PROVE  TrashInv'
<1> DEFINE n == mover[m].name
<1>0. /\ n \in Name /\ mover[m] # Idle /\ source \in File
      /\ today \in Day /\ today \in Nat /\ since[n] \in Nat
  BY MoveTyped, TrashAssumption DEF TrashInv, TrashTypeOK, MoverAt, Day
<1>1. /\ mover' \in [Mover -> Move \cup {Idle}]
      /\ mover'[m] = next
      /\ \A k \in Mover \ {m} : mover'[k] = mover[k]
  <2>1. next \in Move \cup {Idle}
    BY <1>0 DEF Move
  <2> QED
    BY <2>1 DEF TrashInv, TrashTypeOK
<1>2. /\ bin' \in [Name -> File \cup {Vacant, Placeholder, Leftover}]
      /\ bin'[n] = source /\ since'[n] = today
      /\ \A k \in Name \ {n} :
           /\ bin'[k] = bin[k] /\ since'[k] = since[k] /\ (k \in stale' <=> k \in stale)
  BY <1>0 DEF TrashInv, TrashTypeOK, Land
<1>3. TrashTypeOK'
  <2>1. since' \in [Name -> Day] /\ stale' \subseteq Name
    BY <1>0 DEF TrashInv, TrashTypeOK, Land
  <2> QED
    BY <1>0, <1>1, <1>2, <2>1 DEF TrashInv, TrashTypeOK, Land, MoverUnchanged
<1>4. bin'[n] # Leftover /\ bin'[n] # Placeholder
  BY <1>0, <1>2, TrashAssumption
<1>5. ~MoverAt(m, "move")'
  BY <1>1 DEF MoverAt
<1>6. \A k \in Mover : MoverOk(k)'
  <2>1. MoverOk(m)'
    <3>1. CASE next = Idle
      BY <1>1, <3>1 DEF MoverOk, Claimed, MoverAt
    <3>2. CASE next = [at |-> "copied", name |-> n, body |-> source]
      <4>1. mover'[m].body = source /\ \A k \in Name : Claimed(m, k)' => k = n
        BY <1>1, <3>2 DEF Claimed, MoverAt
      <4>2. today' = today
        BY DEF MoverUnchanged
      <4> QED
        BY <1>0, <1>2, <1>4, <1>5, <4>1, <4>2 DEF MoverOk
    <3> QED
      BY <3>1, <3>2
  <2>2. ASSUME NEW k \in Mover \ {m} PROVE MoverOk(k)'
    <3>1. Claimed(k, n) => k \in robbed'
      BY <1>0, HoldersClaimed
    <3>2. \A j \in Name : Claimed(k, j) =>
            \/ bin'[j] = bin[j] /\ since'[j] = since[j]
            \/ /\ bin'[j] \in File => since'[j] = today
               /\ bin'[j] # Leftover
               /\ k \in robbed'
      BY <1>2, <1>4, <3>1
    <3> QED
      BY <1>1, <3>2, OthersKept DEF MoverUnchanged
  <2> QED
    BY <2>1, <2>2
<1>7. Exclusive'
  <2> SUFFICES ASSUME NEW j \in Mover \ robbed', NEW k \in Mover \ robbed', j # k,
                      NEW i \in Name, Claimed(j, i)', Claimed(k, i)'
               PROVE  FALSE
    BY DEF Exclusive
  <2>1. ASSUME NEW x \in Mover \ {m}, Claimed(x, i)' PROVE Claimed(x, i)
    BY <1>1, <2>1 DEF Claimed, MoverAt
  <2>2. CASE j # m /\ k # m
    BY <2>1, <2>2 DEF TrashInv, Exclusive
  <2>3. CASE j = m \/ k = m
    <3>1. i = n
      BY <1>1, <2>3 DEF Claimed, MoverAt
    <3>2. ASSUME NEW x \in Mover \ {m}, Claimed(x, n) PROVE x \in robbed'
      BY <1>0, <3>2, HoldersClaimed
    <3> QED
      BY <2>1, <2>3, <3>1, <3>2
  <2> QED
    BY <2>2, <2>3
<1>8. ClaimsAreHeld'
  <2> SUFFICES ASSUME NEW k \in Name, bin'[k] = Placeholder
               PROVE  \E x \in Mover : MoverAt(x, "move")' /\ mover'[x].name = k
    BY DEF ClaimsAreHeld
  <2>1. k # n /\ bin[k] = Placeholder
    BY <1>2, <1>4
  <2>2. PICK x \in Mover : MoverAt(x, "move") /\ mover[x].name = k
    BY <2>1 DEF TrashInv, ClaimsAreHeld
  <2> QED
    BY <1>1, <2>1, <2>2 DEF MoverAt
<1>9. ASSUME NEW k \in Name PROVE NameOk(k)'
  <2>1. CASE k = n
    <3>1. NameOk(n) /\ MoverOk(m) /\ Claimed(m, n)
      BY <1>0 DEF TrashInv, Claimed
    <3>2. n \notin unpruned => trash_entries[n] = NoTime \/ trash_entries[n] >= today
      <4>1. bin[n] \in File \cup {Vacant, Placeholder}
        BY <1>0, <3>1 DEF TrashInv, TrashTypeOK, MoverOk
      <4> QED
        BY <1>0, <3>1, <4>1 DEF NameOk, MoverOk
    <3>3. n \notin stale' => n \notin unpruned
      BY <1>0 DEF TrashInv, TrashTypeOK, Land
    <3> QED
      BY <1>0, <1>2, <1>4, <2>1, <3>2, <3>3, TrashAssumption
      DEF NameOk, Land, MoverUnchanged
  <2>2. CASE k # n
    BY <1>2, <2>2, NameKept DEF TrashInv, Land, MoverUnchanged
  <2> QED
    BY <2>1, <2>2
<1>10. SweepOk'
  BY DEF TrashInv, SweepOk, MoverUnchanged
<1> QED
  BY <1>3, <1>6, <1>7, <1>8, <1>9, <1>10 DEF TrashInv

LEMMA RenameStep ==
  ASSUME TrashInv, NEW m \in Mover, Rename(m)
  PROVE  TrashInv'
<1>1. robbed' \subseteq Mover
  BY DEF TrashInv, TrashTypeOK, Rename, Holders
<1> QED
  BY <1>1, LandStep DEF Rename, Rest

LEMMA CopyStep ==
  ASSUME TrashInv, NEW m \in Mover, Copy(m)
  PROVE  TrashInv'
<1>1. robbed' \subseteq Mover
  BY DEF TrashInv, TrashTypeOK, Copy, Holders
<1> QED
  BY <1>1, LandStep DEF Copy, Set

\* Mover m comes to rest, having emptied its name or having nothing more to do
\* with it.
LEMMA RestStep ==
  ASSUME TrashInv, NEW m \in Mover, Rest(m), TrashTypeOK', MoverUnchanged,
         NEW n \in Name, Claimed(m, n),
         \A k \in Name \ {n} : /\ bin'[k] = bin[k] /\ since'[k] = since[k]
                               /\ (k \in stale' <=> k \in stale)
                               /\ k \in unpruned' <=> k \in unpruned,
         \A k \in Mover \ {m} : k \in robbed => k \in robbed',
         \/ /\ bin'[n] = Vacant /\ since'[n] = 0 /\ n \in unpruned'
            /\ Holders(n) \ {m} \subseteq robbed'
         \/ /\ bin'[n] = bin[n] /\ since'[n] = since[n] /\ (n \in stale' <=> n \in stale)
            /\ n \in unpruned' <=> n \in unpruned
            /\ MoverAt(m, "copied")
  PROVE  TrashInv'
<1>1. mover'[m] = Idle /\ \A k \in Mover \ {m} : mover'[k] = mover[k]
  BY DEF TrashInv, TrashTypeOK, Rest
<1>2. ~MoverAt(m, "move")' /\ ~MoverAt(m, "copied")'
  BY <1>1 DEF MoverAt
<1>3. \A k \in Mover : MoverOk(k)'
  <2>1. MoverOk(m)'
    BY <1>2 DEF MoverOk, Claimed
  <2>2. ASSUME NEW k \in Mover \ {m} PROVE MoverOk(k)'
    <3>1. bin'[n] = Vacant => bin'[n] \notin File /\ bin'[n] # Leftover
      BY TrashAssumption
    <3>2. Claimed(k, n) => k \in Holders(n)
      BY HoldersClaimed
    <3>3. \A j \in Name : Claimed(k, j) =>
            \/ bin'[j] = bin[j] /\ since'[j] = since[j]
            \/ /\ bin'[j] \in File => since'[j] = today
               /\ bin'[j] # Leftover
               /\ k \in robbed'
      BY <3>1, <3>2
    <3> QED
      BY <1>1, <3>3, OthersKept DEF MoverUnchanged
  <2> QED
    BY <2>1, <2>2
<1>4. Exclusive'
  BY <1>1, <1>2 DEF TrashInv, Exclusive, Claimed, MoverAt
<1>5. ClaimsAreHeld'
  <2> SUFFICES ASSUME NEW k \in Name, bin'[k] = Placeholder
               PROVE  \E x \in Mover : MoverAt(x, "move")' /\ mover'[x].name = k
    BY DEF ClaimsAreHeld
  <2>1. bin[k] = Placeholder /\ (k = n => MoverAt(m, "copied"))
    BY TrashAssumption
  <2>2. PICK x \in Mover : MoverAt(x, "move") /\ mover[x].name = k
    BY <2>1 DEF TrashInv, ClaimsAreHeld
  <2>3. x # m
    BY <2>1, <2>2 DEF Claimed, MoverAt
  <2> QED
    BY <1>1, <2>2, <2>3 DEF MoverAt
<1>6. ASSUME NEW k \in Name PROVE NameOk(k)'
  <2>1. CASE bin'[k] = Vacant /\ since'[k] = 0 /\ k \in unpruned'
    BY <2>1, NameEmptied DEF TrashInv, MoverUnchanged
  <2>2. CASE /\ bin'[k] = bin[k] /\ since'[k] = since[k] /\ (k \in stale' <=> k \in stale)
             /\ k \in unpruned' <=> k \in unpruned
    BY <2>2, NameKept DEF TrashInv, MoverUnchanged
  <2> QED
    BY <2>1, <2>2
<1>7. SweepOk'
  BY DEF TrashInv, SweepOk, MoverUnchanged
<1> QED
  BY <1>3, <1>4, <1>5, <1>6, <1>7 DEF TrashInv

LEMMA RemoveSourceStep ==
  ASSUME TrashInv, NEW m \in Mover, RemoveSource(m)
  PROVE  TrashInv'
<1>1. mover[m].name \in Name /\ Claimed(m, mover[m].name)
  BY MoveTyped DEF TrashInv, RemoveSource, Claimed, MoverAt
<1>2. TrashTypeOK'
  BY DEF TrashInv, TrashTypeOK, RemoveSource, MoverUnchanged, Rest, binVars
<1> QED
  BY <1>1, <1>2, RestStep DEF RemoveSource, binVars

LEMMA MoveFailsStep ==
  ASSUME TrashInv, NEW m \in Mover, MoveFails(m)
  PROVE  TrashInv'
<1> DEFINE n == mover[m].name
<1>0. n \in Name /\ Claimed(m, n) /\ 0 \in Day
  BY MoveTyped, TrashAssumption DEF TrashInv, MoveFails, Claimed, MoverAt, Day
<1>1. TrashTypeOK'
  <2>1. /\ bin' \in [Name -> File \cup {Vacant, Placeholder, Leftover}]
        /\ since' \in [Name -> Day]
        /\ stale' \subseteq Name
    BY <1>0 DEF TrashInv, TrashTypeOK, MoveFails, Empty
  <2>2. robbed' \subseteq Mover
    BY DEF TrashInv, TrashTypeOK, MoveFails, Holders
  <2>3. unpruned' \subseteq Name
    BY <1>0 DEF TrashInv, TrashTypeOK, MoveFails, Vacate
  <2> QED
    BY <2>1, <2>2, <2>3 DEF TrashInv, TrashTypeOK, MoveFails, MoverUnchanged, Rest
<1>2. /\ bin'[n] = Vacant /\ since'[n] = 0 /\ n \in unpruned'
      /\ Holders(n) \ {m} \subseteq robbed'
      /\ \A k \in Mover \ {m} : k \in robbed => k \in robbed'
  BY <1>0 DEF MoveFails, Empty, Vacate
<1>3. \A k \in Name \ {n} : /\ bin'[k] = bin[k] /\ since'[k] = since[k]
                            /\ (k \in stale' <=> k \in stale)
                            /\ k \in unpruned' <=> k \in unpruned
  BY DEF MoveFails, Empty, Vacate
<1> QED
  BY <1>0, <1>1, <1>2, <1>3, RestStep DEF MoveFails

LEMMA TrashStepOk == TrashInv /\ [TrashNext]_trashVars => TrashInv'
<1> SUFFICES ASSUME TrashInv, [TrashNext]_trashVars PROVE TrashInv'
  OBVIOUS
<1>1. CASE UNCHANGED trashVars
  BY <1>1 DEF trashVars, binVars, TrashInv, TrashTypeOK, MoverOk, Exclusive, Claimed, MoverAt,
              ClaimsAreHeld, NameOk, SweepOk
<1>2. CASE \/ \E f \in File : Arrive(f)
           \/ \E n \in Name : TakeOut(n)
           \/ ThrowAway \/ NextDay
           \/ \E S \in SUBSET {m \in Mover : mover[m] # Idle}, program \in BOOLEAN : ProcessEnds(S, program)
  BY <1>2, ArriveStep, TakeOutStep, ThrowAwayStep, NextDayStep, ProcessEndsStep
<1>3. CASE \E m \in Mover :
             \/ TrashFile(m) \/ Claim(m) \/ Rename(m) \/ Copy(m)
             \/ RemoveSource(m) \/ MoveFails(m)
  BY <1>3, TrashFileStep, ClaimStep, RenameStep, CopyStep, RemoveSourceStep,
     MoveFailsStep
<1>4. CASE StartSweep \/ Prune
  BY <1>4, StartSweepStep, PruneStep
<1>5. CASE \E n \in Name : Visit(n) \/ Purge(n) \/ PurgeFails(n)
  BY <1>5, VisitStep, PurgeStep, PurgeFailsStep
<1> QED
  BY <1>1, <1>2, <1>3, <1>4, <1>5 DEF TrashNext

----------------------------------------------------------------------------
(* What a move may do to the files.                                        *)

\* What NothingIsReplaced allows mover m.
Careful(m) ==
  \/ OnDisk \subseteq OnDisk'
  \/ m \in robbed
  \/ /\ MoverAt(m, "copied") /\ source # mover[m].body
     /\ OnDisk \subseteq OnDisk' \cup {source, mover[m].body}

\* A step that leaves each file where it is, or puts it under a name.
LEMMA FilesKept ==
  ASSUME \A f \in File : source = f => source' = f \/ \E n \in Name : bin'[n] = f,
         \A n \in Name : bin[n] \in File => bin'[n] = bin[n]
  PROVE  OnDisk \subseteq OnDisk'
BY DEF OnDisk

\* The claim of a mover that was not robbed.
LEMMA OwnClaim ==
  ASSUME TrashInv, NEW m \in Mover, MoverAt(m, "move") \/ MoverAt(m, "copied"), m \notin robbed
  PROVE  /\ mover[m].name \in Name
         /\ MoverAt(m, "move") => bin[mover[m].name] = Placeholder
         /\ MoverAt(m, "copied") => bin[mover[m].name] = mover[m].body
<1>1. mover[m].name \in Name /\ MoverOk(m) /\ Claimed(m, mover[m].name)
  BY MoveTyped DEF TrashInv, Claimed, MoverAt
<1> QED
  BY <1>1 DEF MoverOk

LEMMA LandCareful ==
  ASSUME TrashInv, NEW m \in Mover, MoverAt(m, "move"), m \notin robbed, Land(m)
  PROVE  OnDisk \subseteq OnDisk'
<1>1. mover[m].name \in Name /\ bin[mover[m].name] = Placeholder
  BY OwnClaim
<1>2. /\ bin'[mover[m].name] = source
      /\ \A n \in Name : n # mover[m].name => bin'[n] = bin[n]
  BY <1>1 DEF TrashInv, TrashTypeOK, Land
<1> QED
  BY <1>1, <1>2, FilesKept, TrashAssumption

LEMMA MoverCareful ==
  ASSUME TrashInv, NEW m \in Mover, m \notin robbed,
         \/ TrashFile(m) \/ Claim(m) \/ Rename(m) \/ Copy(m)
         \/ RemoveSource(m) \/ MoveFails(m)
  PROVE  Careful(m)
<1>1. CASE TrashFile(m)
  BY <1>1, FilesKept DEF Careful, TrashFile
<1>2. CASE Claim(m)
  <2>1. mover[m].name \in Name
    BY <1>2, MoveTyped DEF TrashInv, Claim, MoverAt
  <2>2. \A n \in Name : bin[n] \in File => bin'[n] = bin[n]
    BY <1>2, <2>1, TrashAssumption DEF TrashInv, TrashTypeOK, Claim
  <2> QED
    BY <1>2, <2>2, FilesKept DEF Careful, Claim
<1>3. CASE Rename(m) \/ Copy(m)
  BY <1>3, LandCareful DEF Careful, Rename, Copy
<1>4. CASE RemoveSource(m)
  <2>1. mover[m].name \in Name /\ bin[mover[m].name] = mover[m].body
    BY <1>4, OwnClaim DEF RemoveSource
  <2>2. bin' = bin /\ source' = Vacant /\ MoverAt(m, "copied")
    BY <1>4 DEF RemoveSource, binVars
  <2>3. CASE source = mover[m].body
    BY <2>1, <2>2, <2>3, FilesKept DEF Careful
  <2>4. CASE source # mover[m].body
    <3>1. OnDisk \subseteq OnDisk' \cup {source, mover[m].body}
      BY <2>2 DEF OnDisk
    <3> QED
      BY <2>2, <2>4, <3>1 DEF Careful
  <2> QED
    BY <2>3, <2>4
<1>5. CASE MoveFails(m)
  <2> DEFINE n == mover[m].name
  <2>1. /\ n \in Name
        /\ MoverAt(m, "move") => bin[n] = Placeholder
        /\ MoverAt(m, "copied") => bin[n] = mover[m].body
    BY <1>5, OwnClaim DEF MoveFails
  <2>2. source' = source /\ \A k \in Name : k # n => bin'[k] = bin[k]
    BY <1>5 DEF MoveFails, Empty
  <2>3. CASE MoverAt(m, "move")
    BY <2>1, <2>2, <2>3, FilesKept, TrashAssumption DEF Careful
  <2>4. CASE MoverAt(m, "copied") /\ source = mover[m].body
    <3>1. OnDisk \subseteq OnDisk'
      BY <2>1, <2>2, <2>4 DEF OnDisk
    <3> QED
      BY <3>1 DEF Careful
  <2>5. CASE MoverAt(m, "copied") /\ source # mover[m].body
    <3>1. OnDisk \subseteq OnDisk' \cup {source, mover[m].body}
      BY <2>1, <2>2, <2>5 DEF OnDisk
    <3> QED
      BY <2>5, <3>1 DEF Careful
  <2> QED
    BY <1>5, <2>3, <2>4, <2>5 DEF MoveFails
<1> QED
  BY <1>1, <1>2, <1>3, <1>4, <1>5

\* The step of a mover is no other mover's.
LEMMA OneMoves ==
  ASSUME NEW m \in Mover, NEW k \in Mover, mover'[k] # mover[k], TrashTypeOK,
         \/ TrashFile(m) \/ Claim(m) \/ Rename(m) \/ Copy(m)
         \/ RemoveSource(m) \/ MoveFails(m)
  PROVE  k = m
BY DEF TrashTypeOK, TrashFile, Claim, Rename, Copy, RemoveSource, MoveFails, Set, Rest

LEMMA StepCareful ==
  ASSUME TrashInv, [TrashNext]_trashVars, NEW k \in Mover, mover'[k] # mover[k]
  PROVE  Careful(k)
<1> DEFINE Ends == \E S \in SUBSET {m \in Mover : mover[m] # Idle}, program \in BOOLEAN :
                     ProcessEnds(S, program)
<1>1. CASE Ends
  <2>1. OnDisk \subseteq OnDisk'
    BY <1>1, FilesKept, TrashAssumption DEF ProcessEnds
  <2> QED
    BY <2>1 DEF Careful
<1>2. CASE \E m \in Mover :
             \/ TrashFile(m) \/ Claim(m) \/ Rename(m) \/ Copy(m)
             \/ RemoveSource(m) \/ MoveFails(m)
  <2>1. CASE k \in robbed
    BY <2>1 DEF Careful
  <2>2. CASE k \notin robbed
    BY <1>2, <2>2, OneMoves, MoverCareful DEF TrashInv
  <2> QED
    BY <2>1, <2>2
<1>3. CASE mover' = mover
  BY <1>3
<1>4. Ends \/ mover' = mover \/ \E m \in Mover :
             \/ TrashFile(m) \/ Claim(m) \/ Rename(m) \/ Copy(m)
             \/ RemoveSource(m) \/ MoveFails(m)
  BY DEF TrashNext, trashVars, Arrive, TakeOut, ThrowAway, UserUnchanged, NextDay,
         StartSweep, Prune, Visit, Purge, PurgeFails, SweepUnchanged
<1> QED
  BY <1>1, <1>2, <1>3, <1>4

----------------------------------------------------------------------------
(* The theorems.                                                           *)

\* The invariant of the bin, its rows, the moves and the sweep, for every
\* number of files, movers, names and days.
THEOREM TrashInvariantHolds == TrashSpec => []TrashInv
<1> QED
  BY TrashInitOk, TrashStepOk, PTL DEF TrashSpec

\* Every variable keeps its type; no name beyond the last candidate is tried.
THEOREM TrashTypeCorrect == TrashSpec => []TrashTypeOK
<1>1. TrashInv => TrashTypeOK
  BY DEF TrashInv
<1> QED
  BY <1>1, TrashInvariantHolds, PTL

\* An empty file in the bin is the claim of a move under way: a move that fails
\* cleans up, whatever the user, the sweep and the other movers do to its name.
THEOREM PlaceholdersAreClaims == TrashSpec => []ClaimsAreHeld
<1>1. TrashInv => ClaimsAreHeld
  BY DEF TrashInv
<1> QED
  BY <1>1, TrashInvariantHolds, PTL

\* move_no_clobber destroys no file while its claim is its own (#98).
THEOREM MovesReplaceNothing == TrashSpec => NothingIsReplaced
<1>1. TrashInv /\ [TrashNext]_trashVars =>
        [\A m \in Mover :
           mover'[m] # mover[m] =>
             \/ OnDisk \subseteq OnDisk'
             \/ m \in robbed
             \/ /\ MoverAt(m, "copied") /\ source # mover[m].body
                /\ OnDisk \subseteq OnDisk' \cup {source, mover[m].body}]_trashVars
  BY StepCareful DEF Careful
<1> QED
  BY <1>1, TrashInvariantHolds, PTL DEF TrashSpec, NothingIsReplaced

\* A file that came under a name with no row left is kept for its retention
\* time, whatever sweeps, crashes and failing database calls come between.
THEOREM RetentionIsKept == TrashSpec => EarlyOnlyIfUnpruned
<1>1. TrashInv => \A n \in Name : PurgedEarly(n) => n \in stale
  <2> SUFFICES ASSUME TrashInv, NEW n \in Name, PurgedEarly(n), n \notin stale
               PROVE  FALSE
    OBVIOUS
  <2>1. /\ trash_entries[n] \in Nat /\ today - trash_entries[n] > Retention
        /\ bin[n] \in File /\ today - since[n] <= Retention
    BY DEF TrashInv, SweepOk, PurgedEarly
  <2>2. trash_entries[n] = NoTime \/ trash_entries[n] >= since[n]
    BY <2>1 DEF TrashInv, NameOk
  <2>3. since[n] \in Nat /\ today \in Nat /\ Retention \in Nat
    BY TrashAssumption DEF TrashInv, TrashTypeOK, Day
  <2> QED
    BY <2>1, <2>2, <2>3, TrashAssumption
<1> QED
  BY <1>1, TrashInvariantHolds, PTL DEF EarlyOnlyIfUnpruned, TrashSpec
=============================================================================
