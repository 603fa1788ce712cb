------------------------------ MODULE Delivery ------------------------------
(***************************************************************************)
(* What the upload queue promises for each row, whatever process restarts, *)
(* replaced pipelines, lost answers and failed database writes happen: a   *)
(* row that is reported completed is stored on the server, a row is given  *)
(* up only after `MaxRetries` of its own uploads failed (or because its    *)
(* file must not be uploaded), a settled row stays settled, and the server *)
(* receives nothing that was never queued.                                 *)
(***************************************************************************)
EXTENDS Naturals

CONSTANTS Entry, Hash, NoHash, MaxRetries

VARIABLES
  phase,   \* of each row
  hash,    \* of its file
  stored,  \* assets on the server
  faults   \* failed uploads of each row

vars == <<phase, hash, stored, faults>>

Init ==
  /\ phase = [e \in Entry |-> "absent"]
  /\ hash = [e \in Entry |-> NoHash]
  /\ stored = {}
  /\ faults = [e \in Entry |-> 0]

Submit(e, h) ==
  /\ phase[e] = "absent"
  /\ phase' = [phase EXCEPT ![e] = "queued"]
  /\ hash' = [hash EXCEPT ![e] = h]
  /\ UNCHANGED <<stored, faults>>

\* The row may be long settled when a late request lands.
Deliver(h) ==
  /\ \E e \in Entry : phase[e] # "absent" /\ hash[e] = h
  /\ stored' = stored \cup {h}
  /\ UNCHANGED <<phase, hash, faults>>

Fault(e) ==
  /\ phase[e] = "queued"
  /\ faults' = [faults EXCEPT ![e] = @ + 1]
  /\ UNCHANGED <<phase, hash, stored>>

Complete(e) ==
  /\ phase[e] = "queued"
  /\ hash[e] \in stored
  /\ phase' = [phase EXCEPT ![e] = "completed"]
  /\ UNCHANGED <<hash, stored, faults>>

GiveUp(e) ==
  /\ phase[e] = "queued"
  /\ faults[e] >= MaxRetries
  /\ phase' = [phase EXCEPT ![e] = "exhausted"]
  /\ UNCHANGED <<hash, stored, faults>>

Exclude(e) ==
  /\ phase[e] = "queued"
  /\ phase' = [phase EXCEPT ![e] = "excluded"]
  /\ UNCHANGED <<hash, stored, faults>>

Next ==
  \/ \E e \in Entry, h \in Hash : Submit(e, h)
  \/ \E h \in Hash : Deliver(h)
  \/ \E e \in Entry : Fault(e) \/ Complete(e) \/ GiveUp(e) \/ Exclude(e)

Spec == Init /\ [][Next]_vars

=============================================================================
