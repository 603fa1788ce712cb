------------------------------ MODULE TrashBin ------------------------------
(***************************************************************************)
(* The `.immichsync-trash` folder of one watched folder, where trashing is *)
(* not left to the Finder: move_no_clobber, by which the workers and the   *)
(* Settings process put files there (#98), and cleanup_trash, which takes  *)
(* them away when they have been there for the retention time (#110).      *)
(*                                                                         *)
(* The files here have one relative path, `source`; name 0 stands for that *)
(* path in the bin and name n for "stem (n).ext".  Which file may be       *)
(* trashed is FileSync's matter, and the folder's post-upload action may   *)
(* be any at any time: it is read where it is used.  The clock is in days, *)
(* and a move or a sweep takes less than a day.                            *)
(***************************************************************************)
EXTENDS Naturals

CONSTANTS
  File,        \* files that come to be at the path, one after the other
  Mover,       \* tasks of the workers, and the Settings process
  MaxName,     \* candidates tried (10 000 in the code)
  Retention,   \* upload.trash_retention_days
  MaxDay,      \* the last day (bound)
  DbFails,     \* whether database calls may fail
  Vacant,      \* nothing there
  Placeholder, \* the empty file that claims a name
  Leftover,    \* the same, its mover gone
  NoTime,      \* no trash_entries row
  Idle         \* a mover, or the sweep, at rest

Name == 0..MaxName
Day == 0..MaxDay
Move == [at : {"claim", "move", "copied"}, name : Name, body : File \cup {Vacant}]
Sweep == [todo : SUBSET Name, present : SUBSET Name, purge : SUBSET Name]

ASSUME TrashAssumption ==
  /\ MaxName \in Nat /\ Retention \in Nat /\ MaxDay \in Nat
  /\ DbFails \in BOOLEAN
  /\ Vacant \notin File
  /\ Placeholder \notin File \cup {Vacant}
  /\ Leftover \notin File \cup {Vacant, Placeholder}
  /\ NoTime \notin Nat
  /\ Idle \notin Move \cup Sweep

VARIABLES
  source,        \* the file at the path
  bin,           \* what each name in the bin holds
  root,          \* whether the bin exists
  trash_entries, \* when each name was first seen occupied
  mover,         \* the calls of trash_file under way
  sweep,         \* the call of cleanup_trash under way
  today,
  (* What happened, for the properties *)
  since,         \* the day each name got its file
  unpruned,      \* names that were vacated and whose row may be left
  stale,         \* names that were among them when they got their file
  robbed         \* movers whose claim was emptied or taken by another

binVars == <<bin, root, since, unpruned, stale>>
trashVars == <<source, binVars, trash_entries, mover, robbed, sweep, today>>

TrashInit ==
  /\ source = Vacant
  /\ bin = [n \in Name |-> Vacant]
  /\ root = FALSE
  /\ trash_entries = [n \in Name |-> NoTime]
  /\ mover = [m \in Mover |-> Idle]
  /\ sweep = Idle
  /\ today = 0
  /\ since = [n \in Name |-> 0]
  /\ unpruned = {} /\ stale = {}
  /\ robbed = {}

MoverAt(m, step) == mover[m] # Idle /\ mover[m].at = step

\* The movers that have claimed name n.
Holders(n) ==
  {m \in Mover : (MoverAt(m, "move") \/ MoverAt(m, "copied")) /\ mover[m].name = n}

\* The names in N become free; their rows may be left.
Empty(N) ==
  /\ bin' = [n \in Name |-> IF n \in N THEN Vacant ELSE bin[n]]
  /\ since' = [n \in Name |-> IF n \in N THEN 0 ELSE since[n]]
  /\ stale' = stale \ N
Vacate(N) == unpruned' = unpruned \cup N

\* What is under the names in N is not, or no longer, their movers' own.
Rob(N) == robbed' = robbed \cup UNION {Holders(n) : n \in N}

----------------------------------------------------------------------------
(* The user, the camera and the clock.                                     *)

\* A file is put at the path, over the one that is there.
Arrive(f) ==
  /\ source # f
  /\ \A n \in Name : bin[n] # f
  /\ source' = f
  /\ UNCHANGED <<binVars, trash_entries, mover, robbed, sweep, today>>

UserUnchanged == UNCHANGED <<source, trash_entries, mover, sweep, today>>

\* A file is taken out of the bin.
TakeOut(n) ==
  /\ bin[n] \in File
  /\ Empty({n}) /\ Vacate({n}) /\ Rob({n})
  /\ UNCHANGED root
  /\ UserUnchanged

\* The bin is thrown away as a whole.
ThrowAway ==
  /\ root
  /\ root' = FALSE
  /\ LET N == {n \in Name : bin[n] # Vacant}
     IN Empty(N) /\ Vacate(N) /\ Rob(N)
  /\ UserUnchanged

NextDay ==
  /\ today < MaxDay
  /\ mover = [m \in Mover |-> Idle]
  /\ sweep = Idle
  /\ today' = today + 1
  /\ UNCHANGED <<source, binVars, trash_entries, mover, robbed, sweep>>

----------------------------------------------------------------------------
(* trash_file.                                                             *)

MoverUnchanged == UNCHANGED <<trash_entries, sweep, today>>
Set(m, at, n, f) == mover' = [mover EXCEPT ![m] = [at |-> at, name |-> n, body |-> f]]
Rest(m) == mover' = [mover EXCEPT ![m] = Idle]

\* The file at the path comes to be under the name that mover m has.
Land(m) ==
  LET n == mover[m].name IN
  /\ bin' = [bin EXCEPT ![n] = source]
  /\ since' = [since EXCEPT ![n] = today]
  /\ stale' = IF n \in unpruned THEN stale \cup {n} ELSE stale
  /\ UNCHANGED <<root, unpruned>>

\* For a folder whose post-upload action is, at this time, to trash.  It makes the
\* directories first.
TrashFile(m) ==
  /\ mover[m] = Idle
  /\ source # Vacant
  /\ root' = TRUE
  /\ Set(m, "claim", 0, Vacant)
  /\ UNCHANGED <<source, bin, since, unpruned, stale, robbed>>
  /\ MoverUnchanged

\* Mutant: the first name is taken, whatever is there (#98).
ClaimAnyway(m) ==
  /\ MoverAt(m, "claim")
  /\ IF root THEN /\ bin' = [bin EXCEPT ![mover[m].name] =
                              IF @ = Vacant THEN Placeholder ELSE @]
                  /\ Set(m, "move", mover[m].name, Vacant)
             ELSE Rest(m) /\ UNCHANGED bin
  /\ UNCHANGED <<source, root, since, unpruned, stale, robbed>>
  /\ MoverUnchanged

\* The first free name is claimed with an empty file (create_new), or the move
\* is given up: no name is free, or the file cannot be made.
Claim(m) ==
  LET n == mover[m].name IN
  /\ MoverAt(m, "claim")
  /\ \/ /\ root /\ bin[n] = Vacant
        /\ bin' = [bin EXCEPT ![n] = Placeholder]
        /\ Set(m, "move", n, Vacant)
     \/ /\ root /\ bin[n] # Vacant /\ n < MaxName
        /\ Set(m, "claim", n + 1, Vacant)
        /\ UNCHANGED bin
     \/ /\ Rest(m)
        /\ UNCHANGED bin
  /\ UNCHANGED <<source, root, since, unpruned, stale, robbed>>
  /\ MoverUnchanged

\* The file is renamed to the claimed name, ...
Rename(m) ==
  /\ MoverAt(m, "move")
  /\ source # Vacant /\ root
  /\ Land(m)
  /\ source' = Vacant
  /\ robbed' = (robbed \cup Holders(mover[m].name)) \ {m}
  /\ Rest(m)
  /\ MoverUnchanged

\* ... or, the rename failing, copied there ...
Copy(m) ==
  /\ MoverAt(m, "move")
  /\ source # Vacant /\ root
  /\ Land(m)
  /\ Set(m, "copied", mover[m].name, source)
  /\ robbed' = robbed \cup (Holders(mover[m].name) \ {m})
  /\ UNCHANGED source
  /\ MoverUnchanged

\* ... and then removed from the path, where another may have come.
RemoveSource(m) ==
  /\ MoverAt(m, "copied")
  /\ source # Vacant
  /\ source' = Vacant
  /\ robbed' = robbed \ {m}
  /\ Rest(m)
  /\ UNCHANGED binVars
  /\ MoverUnchanged

\* The copy, or the removal, fails too: what is under the name is deleted.
MoveFails(m) ==
  LET n == mover[m].name IN
  /\ MoverAt(m, "move") \/ MoverAt(m, "copied")
  /\ Empty({n}) /\ Vacate({n})
  /\ robbed' = (robbed \cup Holders(n)) \ {m}
  /\ Rest(m)
  /\ UNCHANGED <<source, root>>
  /\ MoverUnchanged

\* A process ends with its movers S: Settings, or the program and its sweep too.
ProcessEnds(S, program) ==
  /\ S # {} \/ (program /\ sweep # Idle)
  /\ mover' = [m \in Mover |-> IF m \in S THEN Idle ELSE mover[m]]
  /\ bin' = [n \in Name |->
       IF /\ bin[n] = Placeholder
          /\ \A m \in Mover \ S : ~(MoverAt(m, "move") /\ mover[m].name = n)
       THEN Leftover ELSE bin[n]]
  /\ robbed' = robbed \ S
  /\ sweep' = IF program THEN Idle ELSE sweep
  /\ UNCHANGED <<source, root, since, unpruned, stale, trash_entries, today>>

----------------------------------------------------------------------------
(* cleanup_trash, for this folder; one that does not trash now, or has no  *)
(* bin, is passed over, and nothing changes.                               *)

SweepUnchanged == UNCHANGED <<source, root, mover, today>>

\* The walk comes by every name, in some order, unless the directory cannot be
\* read.
StartSweep ==
  /\ sweep = Idle
  /\ root
  /\ \E todo \in {Name, {}} :
       sweep' = [todo |-> todo, present |-> {}, purge |-> {}]
  /\ UNCHANGED <<bin, since, unpruned, stale, robbed, trash_entries>>
  /\ SweepUnchanged

Walking == sweep # Idle /\ sweep.purge = {}
Passed(n) == sweep' = [sweep EXCEPT !.todo = @ \ {n}]
Seen(n) == sweep' = [sweep EXCEPT !.todo = @ \ {n}, !.present = @ \cup {n}]

\* A name is come by: without a row it gets one, with an old one it is to go.
Visit(n) ==
  /\ Walking
  /\ n \in sweep.todo
  /\ \/ /\ bin[n] = Vacant
        /\ Passed(n)
        /\ UNCHANGED trash_entries
     \/ /\ bin[n] # Vacant /\ trash_entries[n] = NoTime
        /\ Seen(n)
        /\ trash_entries' = [trash_entries EXCEPT ![n] = today]
     \/ /\ bin[n] # Vacant /\ trash_entries[n] # NoTime
        /\ IF today - trash_entries[n] <= Retention
           THEN Seen(n)
           ELSE sweep' = [sweep EXCEPT !.todo = @ \ {n}, !.purge = {n}]
        /\ UNCHANGED trash_entries
     \/ /\ bin[n] # Vacant /\ DbFails
        /\ Seen(n)
        /\ UNCHANGED trash_entries
  /\ UNCHANGED <<bin, since, unpruned, stale, robbed>>
  /\ SweepUnchanged

\* The file to go is removed and its row forgotten.
Purge(n) ==
  /\ sweep # Idle /\ n \in sweep.purge
  /\ bin[n] # Vacant
  /\ Empty({n}) /\ Rob({n})
  /\ sweep' = [sweep EXCEPT !.purge = {}]
  /\ \/ /\ trash_entries' = [trash_entries EXCEPT ![n] = NoTime]
        /\ IF bin[n] = Placeholder
           THEN Vacate({n}) ELSE UNCHANGED unpruned
     \/ /\ DbFails
        /\ UNCHANGED trash_entries
        /\ Vacate({n})
  /\ SweepUnchanged

\* It cannot be removed, or is gone.
PurgeFails(n) ==
  /\ sweep # Idle /\ n \in sweep.purge
  /\ sweep' = [sweep EXCEPT !.purge = {}, !.present = @ \cup {n}]
  /\ UNCHANGED <<bin, since, unpruned, stale, robbed, trash_entries>>
  /\ SweepUnchanged

\* Mutant: the rows of files that are gone stay.
PruneNothing ==
  /\ Walking /\ sweep.todo = {}
  /\ sweep' = Idle
  /\ unpruned' = unpruned \cap sweep.present
  /\ UNCHANGED <<bin, since, stale, robbed, trash_entries>>
  /\ SweepUnchanged

\* The rows of the names that were not seen are forgotten, one by one.
Prune ==
  /\ Walking /\ sweep.todo = {}
  /\ sweep' = Idle
  /\ \E gone \in SUBSET (Name \ sweep.present) :
       /\ gone = Name \ sweep.present \/ DbFails
       /\ trash_entries' = [n \in Name |-> IF n \in gone THEN NoTime ELSE trash_entries[n]]
       /\ unpruned' = unpruned \ gone
  /\ UNCHANGED <<bin, since, stale, robbed>>
  /\ SweepUnchanged

----------------------------------------------------------------------------

TrashNext ==
  \/ \E f \in File : Arrive(f)
  \/ \E n \in Name : TakeOut(n)
  \/ ThrowAway \/ NextDay
  \/ \E S \in SUBSET {m \in Mover : mover[m] # Idle}, program \in BOOLEAN : ProcessEnds(S, program)
  \/ \E m \in Mover :
       \/ TrashFile(m) \/ Claim(m) \/ Rename(m) \/ Copy(m)
       \/ RemoveSource(m) \/ MoveFails(m)
  \/ StartSweep \/ Prune
  \/ \E n \in Name : Visit(n) \/ Purge(n) \/ PurgeFails(n)

TrashSpec == TrashInit /\ [][TrashNext]_trashVars

----------------------------------------------------------------------------
(* Properties.                                                             *)

TrashTypeOK ==
  /\ source \in File \cup {Vacant}
  /\ bin \in [Name -> File \cup {Vacant, Placeholder, Leftover}]
  /\ root \in BOOLEAN
  /\ trash_entries \in [Name -> Day \cup {NoTime}]
  /\ mover \in [Mover -> Move \cup {Idle}]
  /\ sweep \in Sweep \cup {Idle}
  /\ today \in Day
  /\ since \in [Name -> Day]
  /\ unpruned \subseteq Name /\ stale \subseteq Name
  /\ robbed \subseteq Mover

\* The files at the path and in the bin.
OnDisk == {f \in File : source = f \/ \E n \in Name : bin[n] = f}

\* move_no_clobber (#98), "Never replace an earlier trashed file": no step of a
\* move destroys a file, but when the mover's claim was emptied or taken by
\* another, or another file came over the one it had copied.
NothingIsReplaced ==
  [][\A m \in Mover :
       mover'[m] # mover[m] =>
         \/ OnDisk \subseteq OnDisk'
         \/ m \in robbed
         \/ /\ MoverAt(m, "copied") /\ source # mover[m].body
            /\ OnDisk \subseteq OnDisk' \cup {source, mover[m].body}]_trashVars

\* "On failure the placeholder is cleaned up": an empty file in the bin is the
\* claim of a move under way, but for those the end of the program leaves.
ClaimsAreHeld ==
  \A n \in Name : bin[n] = Placeholder =>
    \E m \in Mover : MoverAt(m, "move") /\ mover[m].name = n

\* The sweep takes away the file under name n within its retention time.
PurgedEarly(n) ==
  /\ sweep # Idle /\ n \in sweep.purge /\ sweep' # sweep
  /\ bin[n] \in File /\ bin'[n] = Vacant
  /\ today - since[n] <= Retention

\* cleanup_trash (#110): this happens only to a file that came under a name
\* whose last file was gone but whose row was not yet pruned.
EarlyOnlyIfUnpruned == [][\A n \in Name : PurgedEarly(n) => n \in stale]_trashVars

=============================================================================
