------------------------- MODULE PhotosDeleteProofs -------------------------
(***************************************************************************)
(* Proofs about PhotosDelete, for every library, number of threads and     *)
(* batch size, and any number of edits, losses, timeouts and crashes: only *)
(* what is safe is deleted, nothing is deleted that is not in the log, and *)
(* the log is true.                                                        *)
(*                                                                         *)
(* Two invariants on the shape of the state.  LogInv: which rows of the    *)
(* log a thread holds, that no two threads and no other confirmation hold  *)
(* them, and what the outcome it will write says of its confirmation.      *)
(* ClearInv: how far each asset that a thread may still delete has been    *)
(* cleared, the parts not yet verified apart.                              *)
(***************************************************************************)
EXTENDS PhotosDelete, FiniteSetTheorems, TLAPS

JobAt == {"free", "read", "verify", "log", "ask", "prompt", "finish"}
Outcome == {"none", "deleted", "declined", "failed"}
JobType == [kind : {"none", "plan", "delete"}, at : JobAt, only : SUBSET Asset,
            ok : SUBSET Asset, left : SUBSET (Asset \X Part), rows : SUBSET Nat,
            outcome : Outcome]
LogRow == [asset : Asset, outcome : {"pending", "deleted", "declined", "failed"}]
ConfirmationType == [batch : SUBSET Asset, rows : SUBSET Nat]

Shape ==
  /\ here \subseteq Asset
  /\ job \in [Job -> JobType]
  /\ window \in [preview : {None} \cup SUBSET Asset, job : Job \cup {None}]
  /\ prompt \subseteq ConfirmationType
  /\ removed \subseteq ConfirmationType
  /\ Cardinality(Rows) \in Nat
  /\ log \in [1..Cardinality(Rows) -> LogRow]

\* A thread's rows are in the log: from its batch's first write to its last.
Logged == {"ask", "prompt", "finish"}

Apart(S, T) == S \cap T = {}

\* The rows a thread holds, and what its outcome means for them.
JobLog(j) ==
  job[j].at \in Logged =>
    /\ \A r \in job[j].rows : r \in Rows /\ log[r].outcome = "pending"
    /\ job[j].at # "finish" => \A a \in job[j].ok : \E r \in job[j].rows : log[r].asset = a
    /\ job[j].at = "ask" => \A p \in prompt \cup removed : Apart(p.rows, job[j].rows)
    /\ job[j].at = "finish" => job[j].outcome # "none"
    /\ job[j].at = "finish" /\ job[j].outcome = "deleted" =>
         \E p \in removed : p.rows = job[j].rows
    /\ job[j].at = "finish" /\ job[j].outcome = "declined" =>
         \A p \in prompt \cup removed : Apart(p.rows, job[j].rows)

JobsApart ==
  \A i \in Job, j \in Job :
    i # j /\ job[i].at \in Logged /\ job[j].at \in Logged => Apart(job[i].rows, job[j].rows)

\* A confirmation's rows name its assets.
Named(p) == p.rows \subseteq Rows /\ \A a \in p.batch : \E r \in p.rows : log[r].asset = a

LogInv ==
  /\ \A j \in Job : JobLog(j)
  /\ JobsApart
  /\ \A p \in prompt \cup removed : Named(p)
  /\ \A p \in prompt, q \in prompt : p = q \/ Apart(p.rows, q.rows)
  /\ \A p \in prompt, q \in removed : Apart(p.rows, q.rows)
  /\ LogIsTrue

\* An asset that changed late, or that no rule keeps and whose parts, those
\* left to verify apart, are on the server.
Cleared(a, left) ==
  a \in late \/ (a \notin kept /\ required_resources(a) \ left \subseteq server)

JobClear(j) ==
  /\ job[j].at \in {"log"} \cup Logged => job[j].kind = "delete"
  /\ job[j].kind = "delete" /\ job[j].at # "read" =>
       \A a \in job[j].ok : Cleared(a, IF job[j].at = "verify" THEN job[j].left ELSE {})

ClearInv ==
  /\ \A j \in Job : JobClear(j)
  /\ \A p \in prompt \cup removed : \A a \in p.batch : Cleared(a, {})

DeleteInv == Shape /\ LogInv /\ ClearInv

----------------------------------------------------------------------------
(* The initial state.                                                      *)

LEMMA InitDelete == Init => DeleteInv
<1> SUFFICES ASSUME Init PROVE DeleteInv
  OBVIOUS
<1> USE DEF Init
<1>1. Rows = {} /\ Cardinality(Rows) = 0
  BY FS_EmptySet DEF Rows
<1>2. Shape
  BY <1>1 DEF Shape, JobType, JobAt, Outcome, Free, Closed, Rows
<1>3. LogInv
  BY <1>1 DEF LogInv, JobLog, JobsApart, Logged, LogIsTrue, Free
<1>4. ClearInv
  BY DEF ClearInv, JobClear, Logged, Free
<1> QED  BY <1>2, <1>3, <1>4 DEF DeleteInv

----------------------------------------------------------------------------
(* Steps of one thread, by what they touch.                                *)

\* A thread whose rows are not in the log, or no longer, disturbs neither it
\* nor the confirmations.
LEMMA UnloggedStep ==
  ASSUME DeleteInv, NEW j \in Job, job' \in [Job -> JobType],
         \A i \in Job \ {j} : job'[i] = job[i], job'[j].at \notin Logged,
         log' = log, prompt' = prompt, removed' = removed
  PROVE  LogInv'
<1>1. ASSUME NEW i \in Job PROVE JobLog(i)'
  BY DEF DeleteInv, LogInv, JobLog, Rows
<1>2. JobsApart'
  BY DEF DeleteInv, LogInv, JobsApart
<1> QED
  BY <1>1, <1>2 DEF DeleteInv, LogInv, Named, LogIsTrue, Rows

\* A thread that keeps its own assets clear leaves the others' alone.
LEMMA ClearStep ==
  ASSUME DeleteInv, NEW j \in Job, \A i \in Job \ {j} : job'[i] = job[i],
         kept' = kept, server' = server, late' = late,
         prompt' \cup removed' \subseteq prompt \cup removed, JobClear(j)'
  PROVE  ClearInv'
<1>1. ASSUME NEW i \in Job \ {j} PROVE JobClear(i)'
  BY DEF DeleteInv, ClearInv, JobClear, Cleared
<1>2. ASSUME NEW p \in prompt' \cup removed', NEW a \in p.batch PROVE Cleared(a, {})'
  BY DEF DeleteInv, ClearInv, Cleared
<1> QED  BY <1>1, <1>2 DEF ClearInv

\* The thread ends.
LEMMA EndsStep ==
  ASSUME DeleteInv, NEW j \in Job, NEW preview \in {None} \cup SUBSET Asset, Ends(j, preview),
         UNCHANGED <<libraryVars, server, log, prompt, removed, late>>
  PROVE  DeleteInv'
<1> USE DEF Ends, libraryVars
<1>1. Free \in JobType
  BY DEF Free, JobType, JobAt, Outcome
<1>2. /\ job' \in [Job -> JobType] /\ job'[j] = Free
      /\ \A i \in Job \ {j} : job'[i] = job[i]
  BY <1>1 DEF DeleteInv, Shape
<1>3. Shape'
  BY <1>2 DEF DeleteInv, Shape, Rows
<1>4. LogInv'
  BY <1>2, UnloggedStep DEF Free, Logged
<1>5. ClearInv'
  BY <1>2, ClearStep DEF Free, Logged, JobClear
<1> QED  BY <1>3, <1>4, <1>5 DEF DeleteInv

\* The thread goes on, its rows not in the log.
LEMMA MovesStep ==
  ASSUME DeleteInv, NEW j \in Job, NEW new \in JobType, job' = [job EXCEPT ![j] = new],
         new.at \notin Logged, new.at = "log" => new.kind = "delete",
         new.kind = "delete" /\ new.at # "read" =>
           \A a \in new.ok : Cleared(a, IF new.at = "verify" THEN new.left ELSE {}),
         window' \in [preview : {None} \cup SUBSET Asset, job : Job \cup {None}],
         UNCHANGED <<libraryVars, server, log, prompt, removed, late>>
  PROVE  DeleteInv'
<1> USE DEF libraryVars
<1>1. /\ job' \in [Job -> JobType] /\ job'[j] = new
      /\ \A i \in Job \ {j} : job'[i] = job[i]
  BY DEF DeleteInv, Shape
<1>2. Shape'
  BY <1>1 DEF DeleteInv, Shape, Rows
<1>3. LogInv'
  BY <1>1, UnloggedStep
<1>4. JobClear(j)'
  BY <1>1 DEF JobClear, Logged, Cleared
<1>5. ClearInv'
  BY <1>1, <1>4, ClearStep
<1> QED  BY <1>2, <1>3, <1>5 DEF DeleteInv

LEMMA RunDeletePlanDelete ==
  ASSUME DeleteInv, NEW j \in Job, run_delete_plan(j)
  PROVE  DeleteInv'
<1> DEFINE new == [Free EXCEPT !.kind = "plan", !.at = "read", !.only = Asset]
<1>1. new \in JobType /\ new.at = "read" /\ new.kind = "plan"
  BY DEF Free, JobType, JobAt, Outcome
<1>2. window' \in [preview : {None} \cup SUBSET Asset, job : Job \cup {None}]
  BY DEF run_delete_plan, DeleteInv, Shape
<1>3. job' = [job EXCEPT ![j] = new]
  BY DEF run_delete_plan
<1> HIDE DEF new
<1> QED  BY <1>1, <1>2, <1>3, MovesStep DEF run_delete_plan, libraryVars, Logged

LEMMA RunDeleteDelete ==
  ASSUME DeleteInv, NEW j \in Job, run_delete(j)
  PROVE  DeleteInv'
<1> DEFINE new == [Free EXCEPT !.kind = "delete", !.at = "read", !.only = window.preview]
<1>1. window.preview \in SUBSET Asset
  BY DEF run_delete, DeleteInv, Shape
<1>2. new \in JobType /\ new.at = "read"
  BY <1>1 DEF Free, JobType, JobAt, Outcome
<1>3. window' \in [preview : {None} \cup SUBSET Asset, job : Job \cup {None}]
  BY DEF run_delete, DeleteInv, Shape
<1>4. job' = [job EXCEPT ![j] = new]
  BY DEF run_delete
<1> HIDE DEF new
<1> QED  BY <1>2, <1>3, <1>4, MovesStep DEF run_delete, libraryVars, Logged

\* A failed thread keeps the preview shown, or shows none.
LEMMA FailsDelete ==
  ASSUME DeleteInv, NEW j \in Job, Fails(j),
         UNCHANGED <<libraryVars, server, log, prompt, removed, late>>
  PROVE  DeleteInv'
<1>1. window.preview \in {None} \cup SUBSET Asset
  BY DEF DeleteInv, Shape
<1>2. CASE job[j].kind = "plan"
  BY <1>1, <1>2, EndsStep DEF Fails
<1>3. CASE job[j].kind # "plan"
  BY <1>3, EndsStep DEF Fails
<1> QED  BY <1>2, <1>3

LEMMA ReadDelete ==
  ASSUME DeleteInv, NEW j \in Job, Read(j)
  PROVE  DeleteInv'
<1> DEFINE ok == {a \in job[j].only : photos_uploaded_resources(a) /\ decide(a)}
           left == UNION {required_resources(a) : a \in ok}
           new == [job[j] EXCEPT !.at = "verify", !.ok = ok, !.left = left]
<1>1. CASE job' = [job EXCEPT ![j] = new] /\ UNCHANGED window
  <2>1. job[j] \in JobType
    BY DEF DeleteInv, Shape
  <2>2. ok \in SUBSET Asset
    BY <2>1 DEF JobType
  <2>3. left \in SUBSET (Asset \X Part)
    BY <2>2 DEF required_resources, Part
  <2>4. new \in JobType /\ new.at = "verify" /\ new.ok = ok /\ new.left = left
    BY <2>1, <2>2, <2>3 DEF JobType, JobAt
  <2>5. \A a \in ok : Cleared(a, left)
    BY DEF decide, Cleared
  <2>6. window' \in [preview : {None} \cup SUBSET Asset, job : Job \cup {None}]
    BY <1>1 DEF DeleteInv, Shape
  <2> HIDE DEF ok, left, new
  <2> QED
    BY <1>1, <2>4, <2>5, <2>6, MovesStep DEF Read, libraryVars, Logged
<1>2. CASE Fails(j)
  BY <1>2, FailsDelete DEF Read, libraryVars
<1> QED  BY <1>1, <1>2 DEF Read

LEMMA VerifyDelete ==
  ASSUME DeleteInv, NEW j \in Job, verify_on_server(j)
  PROVE  DeleteInv'
<1>1. PICK part \in job[j].left :
        \/ /\ part \in server
           /\ job' = [job EXCEPT ![j].left = @ \ {part}]
        \/ job' = [job EXCEPT ![j].ok = @ \ {part[1]},
                              ![j].left = {q \in @ : q[1] # part[1]}]
  BY DEF verify_on_server
<1>2. job[j] \in JobType /\ job[j].at = "verify" /\ job \in [Job -> JobType]
  BY DEF DeleteInv, Shape, verify_on_server
<1>3. job[j].kind = "delete" => \A a \in job[j].ok : Cleared(a, job[j].left)
  BY <1>2 DEF DeleteInv, ClearInv, JobClear
<1>4. window' \in [preview : {None} \cup SUBSET Asset, job : Job \cup {None}]
  BY DEF verify_on_server, DeleteInv, Shape
<1>5. CASE part \in server /\ job' = [job EXCEPT ![j].left = @ \ {part}]
  <2> DEFINE new == [job[j] EXCEPT !.left = @ \ {part}]
  <2>1. /\ new \in JobType /\ new.at = "verify" /\ new.left = job[j].left \ {part}
        /\ new.ok = job[j].ok /\ new.kind = job[j].kind
    BY <1>2 DEF JobType
  <2>2. job' = [job EXCEPT ![j] = new]
    BY <1>2, <1>5
  <2>3. new.kind = "delete" => \A a \in new.ok : Cleared(a, new.left)
    BY <1>3, <1>5, <2>1 DEF Cleared
  <2> HIDE DEF new
  <2> QED
    BY <1>4, <2>1, <2>2, <2>3, MovesStep DEF verify_on_server, libraryVars, Logged
<1>6. CASE job' = [job EXCEPT ![j].ok = @ \ {part[1]},
                              ![j].left = {q \in @ : q[1] # part[1]}]
  <2> DEFINE new == [job[j] EXCEPT !.ok = @ \ {part[1]}, !.left = {q \in @ : q[1] # part[1]}]
  <2>1. /\ new \in JobType /\ new.at = "verify" /\ new.kind = job[j].kind
        /\ new.left = {q \in job[j].left : q[1] # part[1]}
        /\ new.ok = job[j].ok \ {part[1]}
    BY <1>2 DEF JobType
  <2>2. job' = [job EXCEPT ![j] = new]
    BY <1>2, <1>6
  <2>3. new.kind = "delete" => \A a \in new.ok : Cleared(a, new.left)
    BY <1>3, <2>1 DEF Cleared, required_resources
  <2> HIDE DEF new
  <2> QED
    BY <1>4, <2>1, <2>2, <2>3, MovesStep DEF verify_on_server, libraryVars, Logged
<1> QED  BY <1>1, <1>5, <1>6

LEMMA PlanDoneDelete ==
  ASSUME DeleteInv, NEW j \in Job, PlanDone(j)
  PROVE  DeleteInv'
<1>1. job[j].ok \in SUBSET Asset
  BY DEF DeleteInv, Shape, JobType
<1> QED  BY <1>1, EndsStep DEF PlanDone, libraryVars

LEMMA BatchDelete ==
  ASSUME DeleteInv, NEW j \in Job, Batch(j)
  PROVE  DeleteInv'
<1>1. CASE Ends(j, None)
  BY <1>1, EndsStep DEF Batch, libraryVars
<1>2. ASSUME NEW batch \in SUBSET job[j].ok, UNCHANGED window,
             job' = [job EXCEPT ![j].ok = batch, ![j].at = "log"]
      PROVE  DeleteInv'
  <2> DEFINE new == [job[j] EXCEPT !.ok = batch, !.at = "log"]
  <2>1. /\ job \in [Job -> JobType] /\ job[j].at = "verify" /\ job[j].kind = "delete"
        /\ job[j].left = {}
    BY DEF DeleteInv, Shape, Batch
  <2>2. new \in JobType /\ new.at = "log" /\ new.kind = "delete" /\ new.ok = batch
    BY <2>1 DEF JobType, JobAt
  <2>3. job' = [job EXCEPT ![j] = new]
    BY <1>2, <2>1
  <2>4. \A a \in new.ok : Cleared(a, {})
    BY <2>1, <2>2 DEF DeleteInv, ClearInv, JobClear
  <2>5. window' \in [preview : {None} \cup SUBSET Asset, job : Job \cup {None}]
    BY <1>2 DEF DeleteInv, Shape
  <2> HIDE DEF new
  <2> QED  BY <2>2, <2>3, <2>4, <2>5, MovesStep DEF Batch, libraryVars, Logged
<1> QED  BY <1>1, <1>2 DEF Batch

----------------------------------------------------------------------------
(* The log and the confirmation.                                           *)

\* n + 1 .. n + m numbers m new rows.
LEMMA NewRows ==
  ASSUME NEW n \in Nat, NEW m \in Nat
  PROVE  Cardinality(1..(n + m)) = n + m
<1>1. n + m \in Nat /\ 1 \in Int /\ n + m \in Int
  OBVIOUS
<1>2. Cardinality(1..(n + m)) = IF 1 > n + m THEN 0 ELSE (n + m) - 1 + 1
  BY <1>1, FS_Interval
<1> QED  BY <1>1, <1>2

LEMMA BeginDelete ==
  ASSUME DeleteAssumption, DeleteInv, NEW j \in Job, begin_photos_deletion(j)
  PROVE  DeleteInv'
<1> DEFINE n == Cardinality(Rows)
           m == Cardinality(job[j].ok)
           rows == (n + 1)..(n + m)
<1>1. /\ job \in [Job -> JobType] /\ job[j] \in JobType
      /\ job[j].at = "log" /\ job[j].kind = "delete"
  BY DEF DeleteInv, Shape, ClearInv, JobClear, begin_photos_deletion
<1>2. n \in Nat /\ m \in Nat /\ Rows = 1..n
  <2>1. IsFiniteSet(job[j].ok)
    BY <1>1, FS_Subset DEF JobType, DeleteAssumption
  <2> QED  BY <2>1, FS_CardinalityType DEF DeleteInv, Shape, Rows
<1>3. CASE Fails(j) /\ UNCHANGED log
  BY <1>3, FailsDelete DEF begin_photos_deletion, libraryVars
<1>4. ASSUME NEW new \in [rows -> job[j].ok], {new[r] : r \in rows} = job[j].ok,
             log' = [r \in 1..(n + m) |->
                       IF r <= n THEN log[r] ELSE [asset |-> new[r], outcome |-> "pending"]],
             job' = [job EXCEPT ![j].at = "ask", ![j].rows = rows],
             UNCHANGED <<window, libraryVars, server, prompt, removed, late>>
      PROVE  DeleteInv'
  <2>1. /\ job' \in [Job -> JobType] /\ \A i \in Job \ {j} : job'[i] = job[i]
        /\ job'[j].at = "ask" /\ job'[j].rows = rows /\ job'[j].ok = job[j].ok
        /\ job'[j].kind = "delete"
    <3>1. rows \in SUBSET Nat
      BY <1>2
    <3> HIDE DEF rows
    <3> QED  BY <1>1, <1>4, <3>1 DEF JobType, JobAt
  <2>2. Rows' = 1..(n + m) /\ Cardinality(Rows') = n + m
    BY <1>2, <1>4, NewRows DEF Rows
  <2>3. /\ \A r \in Rows : r \in Rows' /\ log'[r] = log[r]
        /\ \A r \in rows : r \in Rows' /\ r \notin Rows
                           /\ log'[r].asset = new[r] /\ log'[r].outcome = "pending"
        /\ Rows' = Rows \cup rows
    BY <1>2, <1>4, <2>2
  <2>4. log' \in [1..(n + m) -> LogRow]
    <3>1. ASSUME NEW r \in 1..(n + m) PROVE log'[r] \in LogRow
      <4>1. CASE r <= n
        BY <1>2, <1>4, <4>1 DEF DeleteInv, Shape
      <4>2. CASE ~(r <= n)
        <5>1. r \in rows
          BY <1>2, <4>2
        <5>2. new[r] \in Asset
          BY <1>1, <1>4, <5>1 DEF JobType
        <5> QED  BY <1>4, <4>2, <5>2 DEF LogRow
      <4> QED  BY <4>1, <4>2
    <3> QED  BY <1>4, <3>1
  <2>5. \A a \in job[j].ok : \E r \in rows : log'[r].asset = a
    <3>1. ASSUME NEW a \in job[j].ok PROVE \E r \in rows : log'[r].asset = a
      <4>1. PICK r \in rows : new[r] = a
        BY <1>4, <3>1
      <4> QED  BY <2>3, <4>1
    <3> QED  BY <3>1
  <2>6. /\ here' = here /\ kept' = kept /\ server' = server /\ late' = late
        /\ prompt' = prompt /\ removed' = removed /\ window' = window
    BY <1>4 DEF libraryVars
  <2> HIDE DEF n, m, rows
  <2>7. Shape'
    BY <1>2, <2>1, <2>2, <2>4, <2>6 DEF DeleteInv, Shape
  <2>8. JobLog(j)'
    <3>1. ASSUME NEW p \in prompt \cup removed PROVE Apart(p.rows, rows)
      BY <2>3, <3>1 DEF DeleteInv, LogInv, Named, Apart
    <3> QED  BY <2>1, <2>3, <2>5, <2>6, <3>1 DEF JobLog
  <2>9. ASSUME NEW i \in Job \ {j} PROVE JobLog(i)'
    BY <2>1, <2>3, <2>6 DEF DeleteInv, LogInv, JobLog
  <2>10. JobsApart'
    <3>1. ASSUME NEW i \in Job \ {j}, job[i].at \in Logged PROVE Apart(job[i].rows, rows)
      BY <2>3, <3>1 DEF DeleteInv, LogInv, JobLog, Apart
    <3> QED  BY <2>1, <3>1 DEF DeleteInv, LogInv, JobsApart, Apart
  <2>11. ASSUME NEW p \in prompt \cup removed PROVE Named(p)'
    BY <2>3 DEF DeleteInv, LogInv, Named
  <2>12. LogIsTrue'
    BY <2>3, <2>6 DEF DeleteInv, LogInv, LogIsTrue
  <2>13. LogInv'
    BY <2>6, <2>8, <2>9, <2>10, <2>11, <2>12 DEF DeleteInv, LogInv
  <2>14. JobClear(j)'
    BY <1>1, <2>1, <2>6 DEF DeleteInv, ClearInv, JobClear, Cleared
  <2>15. ClearInv'
    BY <2>1, <2>6, <2>14, ClearStep
  <2> QED  BY <2>7, <2>13, <2>15 DEF DeleteInv
<1> HIDE DEF n, m, rows
<1> QED
  BY <1>3, <1>4 DEF begin_photos_deletion, n, m, rows

LEMMA AskDelete ==
  ASSUME DeleteInv, NEW j \in Job, Ask(j)
  PROVE  DeleteInv'
<1>1. /\ job \in [Job -> JobType] /\ job[j] \in JobType
      /\ job[j].at = "ask" /\ job[j].kind = "delete"
      /\ JobLog(j) /\ JobClear(j)
  BY DEF DeleteInv, Shape, LogInv, ClearInv, JobClear, Ask, Logged
<1>2. CASE /\ job' = [job EXCEPT ![j].at = "finish", ![j].outcome = "failed"]
           /\ UNCHANGED prompt
  <2>1. /\ job' \in [Job -> JobType] /\ \A i \in Job \ {j} : job'[i] = job[i]
        /\ job'[j].at = "finish" /\ job'[j].outcome = "failed" /\ job'[j].ok = job[j].ok
        /\ job'[j].rows = job[j].rows /\ job'[j].kind = "delete"
    BY <1>1, <1>2 DEF JobType, JobAt, Outcome
  <2>2. Shape'
    BY <1>2, <2>1 DEF Ask, DeleteInv, Shape, libraryVars, Rows
  <2>3. ASSUME NEW i \in Job PROVE JobLog(i)'
    BY <1>1, <1>2, <2>1 DEF Ask, DeleteInv, LogInv, JobLog, Logged, Rows
  <2>4. JobsApart'
    BY <1>1, <2>1 DEF DeleteInv, LogInv, JobsApart, Logged
  <2>5. LogInv'
    BY <1>2, <2>3, <2>4 DEF Ask, DeleteInv, LogInv, Named, LogIsTrue, Rows
  <2>6. JobClear(j)'
    BY <1>1, <2>1 DEF Ask, JobClear, Cleared, libraryVars
  <2>7. ClearInv'
    BY <1>2, <2>1, <2>6, ClearStep DEF Ask, libraryVars
  <2> QED  BY <2>2, <2>5, <2>7 DEF DeleteInv
<1>3. CASE /\ job' = [job EXCEPT ![j].at = "prompt"]
           /\ prompt' = prompt \cup {[batch |-> job[j].ok, rows |-> job[j].rows]}
  <2> DEFINE c == [batch |-> job[j].ok, rows |-> job[j].rows]
  <2>1. /\ job' \in [Job -> JobType] /\ \A i \in Job \ {j} : job'[i] = job[i]
        /\ job'[j].at = "prompt" /\ job'[j].ok = job[j].ok
        /\ job'[j].rows = job[j].rows /\ job'[j].kind = "delete"
    BY <1>1, <1>3 DEF JobType, JobAt
  <2>2. /\ c \in ConfirmationType /\ c.rows = job[j].rows /\ c.batch = job[j].ok
        /\ prompt' = prompt \cup {c}
    BY <1>1, <1>3 DEF JobType, ConfirmationType
  <2> HIDE DEF c
  <2>3. Shape'
    BY <2>1, <2>2 DEF Ask, DeleteInv, Shape, libraryVars, Rows
  <2>4. /\ \A p \in prompt \cup removed : Apart(p.rows, c.rows) /\ Apart(c.rows, p.rows)
        /\ Named(c)
    BY <1>1, <2>2 DEF JobLog, Logged, Named, Apart
  <2>5. ASSUME NEW i \in Job \ {j} PROVE JobLog(i)'
    <3>1. job[i].at \in Logged => Apart(c.rows, job[i].rows)
      BY <1>1, <2>2, <2>5 DEF DeleteInv, LogInv, JobsApart, Logged
    <3> QED  BY <2>1, <2>2, <3>1 DEF Ask, DeleteInv, LogInv, JobLog, Rows
  <2>6. JobLog(j)'
    BY <1>1, <2>1 DEF Ask, JobLog, Logged, Rows
  <2>7. JobsApart'
    BY <1>1, <2>1 DEF DeleteInv, LogInv, JobsApart, Logged
  <2>8. LogIsTrue'
    BY <1>1, <2>2 DEF Ask, DeleteInv, LogInv, LogIsTrue, JobLog, Logged, Rows
  <2>9. LogInv'
    BY <2>2, <2>4, <2>5, <2>6, <2>7, <2>8 DEF Ask, DeleteInv, LogInv, Named, Rows
  <2>10. \A a \in c.batch : Cleared(a, {})
    BY <1>1, <2>2 DEF JobClear
  <2>11. ASSUME NEW i \in Job PROVE JobClear(i)'
    BY <1>1, <2>1 DEF Ask, DeleteInv, ClearInv, JobClear, Cleared, libraryVars, Logged
  <2>12. ClearInv'
    BY <2>2, <2>10, <2>11 DEF Ask, DeleteInv, ClearInv, Cleared, libraryVars
  <2> QED  BY <2>3, <2>9, <2>12 DEF DeleteInv
<1> QED  BY <1>2, <1>3 DEF Ask

LEMMA TimeoutDelete ==
  ASSUME DeleteInv, NEW j \in Job, Timeout(j)
  PROVE  DeleteInv'
<1>1. /\ job \in [Job -> JobType] /\ job[j] \in JobType /\ job[j].at = "prompt"
      /\ JobLog(j) /\ JobClear(j) /\ job[j].kind = "delete"
  BY DEF DeleteInv, Shape, LogInv, ClearInv, JobClear, Timeout, Logged
<1>2. /\ job' \in [Job -> JobType] /\ \A i \in Job \ {j} : job'[i] = job[i]
      /\ job'[j].at = "finish" /\ job'[j].outcome = "failed" /\ job'[j].ok = job[j].ok
      /\ job'[j].rows = job[j].rows /\ job'[j].kind = "delete"
  BY <1>1 DEF Timeout, JobType, JobAt, Outcome
<1>3. Shape'
  BY <1>2 DEF Timeout, DeleteInv, Shape, libraryVars, Rows
<1>4. ASSUME NEW i \in Job PROVE JobLog(i)'
  BY <1>1, <1>2 DEF Timeout, DeleteInv, LogInv, JobLog, Logged, Rows
<1>5. JobsApart'
  BY <1>1, <1>2 DEF DeleteInv, LogInv, JobsApart, Logged
<1>6. LogInv'
  BY <1>4, <1>5 DEF Timeout, DeleteInv, LogInv, Named, LogIsTrue, Rows
<1>7. JobClear(j)'
  BY <1>1, <1>2 DEF Timeout, JobClear, Cleared, libraryVars
<1>8. ClearInv'
  BY <1>2, <1>7, ClearStep DEF Timeout, libraryVars
<1> QED  BY <1>3, <1>6, <1>8 DEF DeleteInv

LEMMA FinishDelete ==
  ASSUME DeleteInv, NEW j \in Job, finish_photos_deletion(j)
  PROVE  DeleteInv'
<1>1. CASE UNCHANGED log
  BY <1>1, EndsStep DEF finish_photos_deletion, libraryVars
<1>2. CASE log' = [r \in Rows |-> IF r \in job[j].rows
                                 THEN [log[r] EXCEPT !.outcome = job[j].outcome] ELSE log[r]]
  <2>1. /\ job \in [Job -> JobType] /\ job[j] \in JobType /\ job[j].at = "finish"
        /\ JobLog(j) /\ Free \in JobType /\ Free.at = "free" /\ Free.kind = "none"
    BY DEF finish_photos_deletion, DeleteInv, Shape, LogInv, Free, JobType, JobAt, Outcome
  <2>2. /\ job' \in [Job -> JobType] /\ \A i \in Job \ {j} : job'[i] = job[i]
        /\ job'[j] = Free
    BY <2>1 DEF finish_photos_deletion, Ends
  <2>3. Rows = 1..Cardinality(Rows) /\ log \in [Rows -> LogRow]
    BY DEF DeleteInv, Shape, Rows
  <2>4. job[j].outcome \in {"deleted", "declined", "failed"}
    BY <2>1 DEF JobLog, Logged, JobType, Outcome
  <2>5. Rows' = Rows /\ log' \in [Rows -> LogRow]
    BY <1>2, <2>3, <2>4 DEF Rows, LogRow
  <2>6. /\ \A r \in Rows : log'[r].asset = log[r].asset
        /\ \A r \in Rows \ job[j].rows : log'[r].outcome = log[r].outcome
        /\ \A r \in Rows \cap job[j].rows : log'[r].outcome = job[j].outcome
    BY <1>2, <2>3 DEF LogRow
  <2>7. /\ here' = here /\ kept' = kept /\ server' = server /\ late' = late
        /\ prompt' = prompt /\ removed' = removed
    BY DEF finish_photos_deletion, libraryVars
  <2>8. window' \in [preview : {None} \cup SUBSET Asset, job : Job \cup {None}]
    BY DEF finish_photos_deletion, Ends, DeleteInv, Shape
  <2>9. Shape'
    BY <2>2, <2>3, <2>5, <2>7, <2>8 DEF DeleteInv, Shape
  <2>10. ASSUME NEW i \in Job PROVE JobLog(i)'
    <3>1. CASE i = j
      BY <2>1, <2>2, <3>1 DEF JobLog, Logged
    <3>2. CASE i # j /\ job[i].at \in Logged
      <4>1. \A r \in job[i].rows : r \in Rows \ job[j].rows
        BY <2>1, <3>2 DEF DeleteInv, LogInv, JobLog, JobsApart, Apart, Logged
      <4> QED  BY <2>2, <2>5, <2>6, <2>7, <3>2, <4>1 DEF DeleteInv, LogInv, JobLog
    <3>3. CASE i # j /\ job[i].at \notin Logged
      BY <2>2, <3>3 DEF JobLog
    <3> QED  BY <3>1, <3>2, <3>3
  <2>11. JobsApart'
    BY <2>1, <2>2 DEF DeleteInv, LogInv, JobsApart, Logged
  <2>12. ASSUME NEW p \in prompt \cup removed PROVE Named(p)'
    BY <2>5, <2>6 DEF DeleteInv, LogInv, Named
  <2>13. LogIsTrue'
    <3>1. ASSUME NEW r \in Rows \ job[j].rows
          PROVE  /\ log'[r].outcome = "deleted" => \E p \in removed : r \in p.rows
                 /\ log'[r].outcome = "declined" => \A p \in prompt \cup removed : r \notin p.rows
      BY <2>6 DEF DeleteInv, LogInv, LogIsTrue
    <3>2. ASSUME NEW r \in Rows \cap job[j].rows
          PROVE  /\ log'[r].outcome = "deleted" => \E p \in removed : r \in p.rows
                 /\ log'[r].outcome = "declined" => \A p \in prompt \cup removed : r \notin p.rows
      BY <2>1, <2>6 DEF JobLog, Logged, Apart
    <3> QED  BY <2>5, <2>7, <3>1, <3>2 DEF LogIsTrue
  <2>14. LogInv'
    BY <2>7, <2>10, <2>11, <2>12, <2>13 DEF DeleteInv, LogInv
  <2>15. JobClear(j)'
    BY <2>1, <2>2 DEF JobClear, Logged
  <2>16. ClearInv'
    BY <2>2, <2>7, <2>15, ClearStep
  <2> QED  BY <2>9, <2>14, <2>16 DEF DeleteInv
<1> QED  BY <1>1, <1>2 DEF finish_photos_deletion

\* What an answer changes of the threads that wait for it.
LEMMA ToldJobs ==
  ASSUME DeleteInv, NEW p \in prompt, NEW o \in Outcome \ {"none"}, Told(p, o)
  PROVE  /\ job' \in [Job -> JobType]
         /\ \A i \in Job :
              /\ job'[i].kind = job[i].kind /\ job'[i].ok = job[i].ok
              /\ job'[i].rows = job[i].rows /\ job'[i].left = job[i].left
              /\ job'[i] = job[i] \/ ( /\ job[i].at = "prompt" /\ job[i].rows = p.rows
                                       /\ job'[i].at = "finish" /\ job'[i].outcome = o )
<1>1. job \in [Job -> JobType]
  BY DEF DeleteInv, Shape
<1>2. ASSUME NEW i \in Job
      PROVE  /\ job'[i] \in JobType
             /\ job'[i].kind = job[i].kind /\ job'[i].ok = job[i].ok
             /\ job'[i].rows = job[i].rows /\ job'[i].left = job[i].left
             /\ job'[i] = job[i] \/ ( /\ job[i].at = "prompt" /\ job[i].rows = p.rows
                                      /\ job'[i].at = "finish" /\ job'[i].outcome = o )
  <2>1. CASE job[i].at = "prompt" /\ job[i].rows = p.rows
    <3>1. job'[i] = [job[i] EXCEPT !.at = "finish", !.outcome = o]
      BY <2>1 DEF Told
    <3> QED  BY <1>1, <2>1, <3>1 DEF JobType, JobAt
  <2>2. CASE ~(job[i].at = "prompt" /\ job[i].rows = p.rows)
    <3>1. job'[i] = job[i]
      BY <2>2 DEF Told
    <3> QED  BY <1>1, <3>1
  <2> QED  BY <2>1, <2>2
<1>3. job' \in [Job -> JobType]
  BY <1>2 DEF Told
<1> QED  BY <1>2, <1>3

\* An answer to one confirmation is true of its rows, and leaves the others.
LEMMA AnswerStep ==
  ASSUME DeleteInv, NEW p \in prompt, NEW o \in Outcome \ {"none"}, Told(p, o),
         prompt' = prompt \ {p},
         \/ o = "deleted" /\ removed' = removed \cup {p}
         \/ o # "deleted" /\ removed' = removed,
         here' \subseteq here,
         UNCHANGED <<kept, server, log, window, late>>
  PROVE  DeleteInv'
<1>1. /\ job' \in [Job -> JobType]
      /\ \A i \in Job :
           /\ job'[i].kind = job[i].kind /\ job'[i].ok = job[i].ok
           /\ job'[i].rows = job[i].rows /\ job'[i].left = job[i].left
           /\ job'[i] = job[i] \/ ( /\ job[i].at = "prompt" /\ job[i].rows = p.rows
                                    /\ job'[i].at = "finish" /\ job'[i].outcome = o )
  BY ToldJobs
<1>2. Shape'
  BY <1>1 DEF DeleteInv, Shape, Rows
<1>3. prompt' \cup removed' \subseteq prompt \cup removed /\ removed \subseteq removed'
  OBVIOUS
<1>4. o = "declined" => \A q \in prompt' \cup removed' : Apart(q.rows, p.rows)
  BY DEF DeleteInv, LogInv, Apart
<1>5. ASSUME NEW i \in Job PROVE JobLog(i)'
  <2>1. CASE job'[i] = job[i]
    BY <1>3, <2>1 DEF DeleteInv, LogInv, JobLog, Rows
  <2>2. CASE /\ job[i].at = "prompt" /\ job[i].rows = p.rows
             /\ job'[i].at = "finish" /\ job'[i].outcome = o
    <3>1. \A r \in job[i].rows : r \in Rows /\ log[r].outcome = "pending"
      BY <2>2 DEF DeleteInv, LogInv, JobLog, Logged
    <3> QED  BY <1>1, <1>4, <2>2, <3>1 DEF JobLog, Logged, Rows
  <2> QED  BY <1>1, <2>1, <2>2
<1>6. JobsApart'
  BY <1>1 DEF DeleteInv, LogInv, JobsApart, Logged
<1>7. \A q \in prompt' \cup removed' : Named(q)'
  BY <1>3 DEF DeleteInv, LogInv, Named, Rows
<1>8. /\ \A q \in prompt', s \in prompt' : q = s \/ Apart(q.rows, s.rows)
      /\ \A q \in prompt', s \in removed' : Apart(q.rows, s.rows)
  BY DEF DeleteInv, LogInv
<1>9. LogIsTrue'
  BY <1>3 DEF DeleteInv, LogInv, LogIsTrue, Rows
<1>10. LogInv'
  BY <1>5, <1>6, <1>7, <1>8, <1>9 DEF LogInv
<1>11. ASSUME NEW i \in Job PROVE JobClear(i)'
  BY <1>1 DEF DeleteInv, ClearInv, JobClear, Cleared, Logged
<1>12. ClearInv'
  BY <1>3, <1>11 DEF DeleteInv, ClearInv, Cleared
<1> QED  BY <1>2, <1>10, <1>12 DEF DeleteInv

LEMMA AnswerYesDelete ==
  ASSUME DeleteInv, NEW p \in prompt, AnswerYes(p)
  PROVE  DeleteInv'
BY AnswerStep DEF AnswerYes, Outcome

LEMMA AnswerNoDelete ==
  ASSUME DeleteInv, NEW p \in prompt, AnswerNo(p)
  PROVE  DeleteInv'
BY AnswerStep DEF AnswerNo, Outcome, libraryVars

----------------------------------------------------------------------------
(* The world, the window, the end of the process.                          *)

\* Nothing that concerns the log changes.
LEMMA LogStays ==
  ASSUME DeleteInv, UNCHANGED <<log, job, prompt, removed>>
  PROVE  LogInv'
BY DEF DeleteInv, LogInv, JobLog, JobsApart, Named, LogIsTrue, Rows

LEMMA UploadedDelete ==
  ASSUME DeleteInv, NEW part \in Asset \X Part, Uploaded(part)
  PROVE  DeleteInv'
<1> USE DEF Uploaded, libraryVars
<1>1. Shape' /\ LogInv'
  BY LogStays DEF DeleteInv, Shape, Rows
<1>2. ClearInv'
  BY DEF DeleteInv, ClearInv, JobClear, Cleared
<1> QED  BY <1>1, <1>2 DEF DeleteInv

\* An asset that was checked is `late` when it changes: of the others nothing
\* is claimed.
LEMMA LateStep ==
  ASSUME DeleteInv, NEW a \in Asset, UNCHANGED <<job, prompt, removed>>,
         late' = IF Checked(a) THEN late \cup {a} ELSE late,
         \A b \in Asset \ {a} :
           /\ b \in kept' => b \in kept
           /\ required_resources(b) \cap server \subseteq server'
  PROVE  ClearInv'
<1>1. ASSUME NEW b \in Asset, NEW left, Cleared(b, left), Checked(b) PROVE Cleared(b, left)'
  BY <1>1 DEF Cleared
<1>2. ASSUME NEW j \in Job PROVE JobClear(j)'
  <2>1. ASSUME job[j].kind = "delete", job[j].at # "read", NEW b \in job[j].ok
        PROVE  Cleared(b, IF job[j].at = "verify" THEN job[j].left ELSE {})'
    <3>1. Checked(b) /\ b \in Asset
      BY <2>1 DEF Checked, DeleteInv, Shape, JobType
    <3>2. CASE job[j].at = "verify"
      <4>1. Cleared(b, job[j].left)
        BY <2>1, <3>2 DEF DeleteInv, ClearInv, JobClear
      <4> QED  BY <1>1, <3>1, <3>2, <4>1 DEF Cleared
    <3>3. CASE job[j].at # "verify"
      <4>1. Cleared(b, {})
        BY <2>1, <3>3 DEF DeleteInv, ClearInv, JobClear
      <4> QED  BY <1>1, <3>1, <3>3, <4>1 DEF Cleared
    <3> QED  BY <3>2, <3>3
  <2> QED  BY <2>1 DEF JobClear, DeleteInv, ClearInv
<1>3. ASSUME NEW p \in prompt \cup removed, NEW b \in p.batch PROVE Cleared(b, {})'
  <2>1. Checked(b) /\ b \in Asset /\ Cleared(b, {})
    BY <1>3 DEF Checked, DeleteInv, Shape, ConfirmationType, ClearInv
  <2> QED  BY <1>1, <2>1
<1> QED  BY <1>2, <1>3 DEF ClearInv

LEMMA UserEditsDelete ==
  ASSUME DeleteInv, NEW a \in Asset, UserEdits(a)
  PROVE  DeleteInv'
<1> USE DEF UserEdits
<1>1. Shape' /\ LogInv'
  BY LogStays DEF DeleteInv, Shape, Rows
<1>2. ClearInv'
  BY LateStep
<1> QED  BY <1>1, <1>2 DEF DeleteInv

LEMMA ServerLosesDelete ==
  ASSUME DeleteInv, NEW part \in Asset \X Part, ServerLoses(part)
  PROVE  DeleteInv'
<1> USE DEF ServerLoses, libraryVars
<1>1. Shape' /\ LogInv'
  BY LogStays DEF DeleteInv, Shape, Rows
<1>2. part[1] \in Asset
  OBVIOUS
<1>3. \A b \in Asset \ {part[1]} : required_resources(b) \cap server \subseteq server'
  BY DEF required_resources
<1>4. ClearInv'
  BY <1>2, <1>3, LateStep
<1> QED  BY <1>1, <1>4 DEF DeleteInv

LEMMA UserDeletesDelete ==
  ASSUME DeleteInv, NEW a \in Asset, UserDeletes(a)
  PROVE  DeleteInv'
<1> USE DEF UserDeletes
<1>1. Shape' /\ LogInv'
  BY LogStays DEF DeleteInv, Shape, Rows
<1>2. ClearInv'
  BY DEF DeleteInv, ClearInv, JobClear, Cleared
<1> QED  BY <1>1, <1>2 DEF DeleteInv

LEMMA CloseWindowDelete ==
  ASSUME DeleteInv, CloseWindow
  PROVE  DeleteInv'
<1> USE DEF CloseWindow, libraryVars
<1>1. Shape' /\ LogInv'
  BY LogStays DEF DeleteInv, Shape, Rows, Closed
<1>2. ClearInv'
  BY DEF DeleteInv, ClearInv, JobClear, Cleared
<1> QED  BY <1>1, <1>2 DEF DeleteInv

LEMMA ProcessEndsDelete ==
  ASSUME DeleteInv, ProcessEnds
  PROVE  DeleteInv'
<1> USE DEF ProcessEnds, libraryVars
<1>1. /\ Free \in JobType /\ Free.at = "free" /\ Free.kind = "none"
      /\ \A j \in Job : job'[j] = Free
  BY DEF Free, JobType, JobAt, Outcome
<1>2. Shape'
  BY <1>1 DEF DeleteInv, Shape, Rows, Closed
<1>3. LogInv'
  BY <1>1 DEF DeleteInv, LogInv, JobLog, JobsApart, Named, LogIsTrue, Logged, Rows
<1>4. ClearInv'
  BY <1>1 DEF DeleteInv, ClearInv, JobClear, Cleared, Logged
<1> QED  BY <1>2, <1>3, <1>4 DEF DeleteInv

LEMMA StutterDelete ==
  ASSUME DeleteInv, UNCHANGED vars
  PROVE  DeleteInv'
<1> USE DEF vars, libraryVars
<1>1. Shape' /\ LogInv'
  BY LogStays DEF DeleteInv, Shape, Rows
<1>2. ClearInv'
  BY DEF DeleteInv, ClearInv, JobClear, Cleared
<1> QED  BY <1>1, <1>2 DEF DeleteInv

----------------------------------------------------------------------------
(* Theorems.                                                               *)

\* Every reachable state satisfies the invariant, however many threads,
\* windows, timeouts and crashes there are.
THEOREM DeleteInvariant == Spec => []DeleteInv
<1>1. DeleteInv /\ [Next]_vars => DeleteInv'
  <2> SUFFICES ASSUME DeleteInv, [Next]_vars PROVE DeleteInv'
    OBVIOUS
  <2>1. ASSUME NEW j \in Job, JobStep(j) PROVE DeleteInv'
    BY <2>1, DeleteAssumption, RunDeletePlanDelete, RunDeleteDelete, ReadDelete,
       VerifyDelete, PlanDoneDelete, BatchDelete, BeginDelete, AskDelete, TimeoutDelete,
       FinishDelete DEF JobStep
  <2> QED
    BY <2>1, UploadedDelete, ServerLosesDelete, UserEditsDelete, UserDeletesDelete,
       AnswerYesDelete, AnswerNoDelete, CloseWindowDelete, ProcessEndsDelete,
       StutterDelete DEF Next
<1> QED  BY InitDelete, <1>1, PTL DEF Spec

\* The library deletes only what no rule keeps and the server holds, unless
\* that changed after its check (execute in photos/delete.rs).
THEOREM SafeDeletions == Spec => []OnlySafeIsDeleted
<1>1. DeleteInv => OnlySafeIsDeleted
  BY DEF DeleteInv, ClearInv, Cleared, OnlySafeIsDeleted, Deleted
<1> QED  BY <1>1, DeleteInvariant, PTL

\* What macOS asks about, or has deleted, has its rows in the log.
THEOREM LogComesFirst == Spec => []LoggedFirst
<1>1. DeleteInv => LoggedFirst
  BY DEF DeleteInv, LogInv, Named, LoggedFirst
<1> QED  BY <1>1, DeleteInvariant, PTL

\* A row says "deleted" only of what was deleted, and "declined" of what was
\* not and never will be.
THEOREM TheLogIsTrue == Spec => []LogIsTrue
<1>1. DeleteInv => LogIsTrue
  BY DEF DeleteInv, LogInv
<1> QED  BY <1>1, DeleteInvariant, PTL
=============================================================================
