-------------------------- MODULE PhotosLibraryProofs --------------------------
(***************************************************************************)
(* Proofs about the two ends of the Photos library: LibrarySync, where its *)
(* assets come in, for any library and any length of its history; and      *)
(* Albums, where they go, for any number of albums, tasks and pipelines.   *)
(***************************************************************************)
EXTENDS LibrarySync, Albums, FiniteSetTheorems, TLAPS

----------------------------------------------------------------------------
(* LibrarySync.  What NothingMissed says of a shown asset has to hold of a *)
(* hidden one too, as that can be shown without a new change token's help; *)
(* and a pass that is about to store its token has to account for all that *)
(* lies behind this token and was not behind the one before.               *)

There == {a \in Asset : library[a] # "absent"}

\* Positions in the history are of the past.
InThePast ==
  /\ \A a \in Asset : born[a] <= pos
  /\ src.tok <= pos
  /\ token # NoToken => token <= pos

\* What the stored token lies behind is accounted for.
Kept(a) == token # NoToken => a \in seen \/ born[a] > token \/ a \in passedOver

\* A full pass is called so before it walks the library, and a pass by the
\* history has a token to go by.
KnowsItsKind ==
  /\ src.at = "enumerate" => src.full
  /\ src.at = "filter" => ~src.full
  /\ src.at \in {"changes", "filter"} => token # NoToken
  /\ src.at \in {"enqueue", "store"} /\ ~src.full => token # NoToken

\* What the token in hand lies behind is in hand, handed over, given up, or
\* was behind the stored token already.
InHand(a) ==
  src.at \in {"filter", "enqueue", "store"} =>
    \/ a \in src.ids \/ a \in src.missed \/ a \in seen
    \/ born[a] > src.tok
    \/ ~src.full /\ born[a] <= token

SyncInv ==
  /\ SyncTypeOK
  /\ InThePast
  /\ KnowsItsKind
  /\ src.at = "store" => src.ids = {}
  /\ \A a \in There : Kept(a) /\ InHand(a)

USE SyncAssumption DEF SourceAt, Position, NoToken, Visibility

\* A pass that holds nothing.
LEMMA PassAtFields ==
  ASSUME NEW at \in SourceAt
  PROVE  /\ PassAt(at) \in Pass
         /\ PassAt(at).at = at /\ ~PassAt(at).full /\ PassAt(at).tok = 0
         /\ PassAt(at).ids = {} /\ PassAt(at).missed = {}
  BY DEF PassAt, Pass

LEMMA InitSync == SyncInit => SyncInv
<1> SUFFICES ASSUME SyncInit PROVE SyncInv
  OBVIOUS
<1>1. SyncTypeOK
  <2>1. born \in [Asset -> Position]
    BY DEF SyncInit
  <2>2. src \in Pass
    BY PassAtFields DEF SyncInit
  <2>3. /\ library \in [Asset -> Visibility]
        /\ pos \in Position /\ token \in Position \cup {NoToken}
        /\ seen \in SUBSET Asset /\ passedOver \in SUBSET Asset
    BY DEF SyncInit
  <2>4. /\ access \in BOOLEAN /\ photos \in BOOLEAN /\ pipeline \in BOOLEAN
        /\ up \in BOOLEAN /\ flag \in {"none", "on", "off"} /\ watch \in BOOLEAN
        /\ signal \in BOOLEAN /\ lastPass \in {"none", "ok", "failed", "skipped"}
    BY DEF SyncInit
  <2> QED
    BY <2>1, <2>2, <2>3, <2>4 DEF SyncTypeOK
<1>2. InThePast /\ KnowsItsKind /\ src.at # "store"
  BY PassAtFields DEF SyncInit, InThePast, KnowsItsKind
<1>3. \A a \in There : Kept(a) /\ InHand(a)
  BY PassAtFields DEF SyncInit, Kept, InHand
<1> QED
  BY <1>1, <1>2, <1>3 DEF SyncInv

\* A step of the source, or of the tray, that leaves the library and the
\* database alone: it keeps the invariant when its pass does.
LEMMA SourceMoves ==
  ASSUME SyncInv, UNCHANGED <<libraryVars, photos, dbVars, passedOver>>,
         pipeline' \in BOOLEAN, up' \in BOOLEAN, flag' \in {"none", "on", "off"},
         watch' \in BOOLEAN, signal' \in BOOLEAN,
         lastPass' \in {"none", "ok", "failed", "skipped"},
         src' \in Pass, src'.tok <= pos, KnowsItsKind',
         src'.at = "store" => src'.ids = {},
         \A a \in There : InHand(a)'
  PROVE  SyncInv'
<1> USE DEF SyncInv, libraryVars, dbVars
<1>1. SyncTypeOK'
  BY DEF SyncTypeOK
<1>2. InThePast'
  BY DEF InThePast
<1>3. \A a \in There' : Kept(a)' /\ InHand(a)'
  BY DEF There, Kept
<1> QED
  BY <1>1, <1>2, <1>3

\* In particular when its pass is over, or has not begun.
LEMMA NothingInHand ==
  ASSUME SyncInv, UNCHANGED <<libraryVars, photos, dbVars, passedOver>>,
         pipeline' \in BOOLEAN, up' \in BOOLEAN, flag' \in {"none", "on", "off"},
         watch' \in BOOLEAN, signal' \in BOOLEAN,
         lastPass' \in {"none", "ok", "failed", "skipped"},
         NEW at \in {"none", "start", "pass", "idle"}, src' = PassAt(at)
  PROVE  SyncInv'
<1>1. src' \in Pass /\ src'.at = at /\ src'.tok = 0
  BY PassAtFields
<1>2. pos \in Nat
  BY DEF SyncInv, SyncTypeOK
<1> QED
  BY <1>1, <1>2, SourceMoves DEF KnowsItsKind, InHand

----------------------------------------------------------------------------
(* The library, the user and the application.                              *)

LEMMA InsertStep ==
  ASSUME SyncInv, NEW b \in Asset, Insert(b) PROVE SyncInv'
<1> USE DEF SyncInv, Insert, LibraryChanged, appVars, dbVars
<1>1. SyncTypeOK'
  BY DEF SyncTypeOK
<1>2. /\ pos \in Nat /\ pos' = pos + 1
      /\ src \in Pass /\ src.tok \in Nat
      /\ born \in [Asset -> Position]
      /\ born' = [born EXCEPT ![b] = pos + 1]
      /\ UNCHANGED <<src, token, seen>>
      /\ token \in Nat
  BY DEF SyncTypeOK, Pass
<1>3. /\ InThePast' /\ KnowsItsKind'
      /\ src'.at = "store" => src'.ids = {}
  BY <1>2 DEF InThePast, KnowsItsKind
<1>4. ASSUME NEW a \in There' PROVE Kept(a)' /\ InHand(a)'
  <2>1. CASE a = b
    BY <1>2, <2>1 DEF Kept, InHand, InThePast
  <2>2. CASE a # b
    <3>1. a \in There /\ born'[a] = born[a]
      BY <1>2, <1>4, <2>2 DEF There, SyncTypeOK
    <3> QED
      BY <1>2, <2>2, <3>1 DEF Kept, InHand
  <2> QED
    BY <2>1, <2>2
<1> QED
  BY <1>1, <1>3, <1>4

LEMMA UpdateStep ==
  ASSUME SyncInv, NEW b \in Asset, Update(b) PROVE SyncInv'
<1> USE DEF SyncInv, Update, LibraryChanged, appVars, dbVars
<1>1. SyncTypeOK'
  BY DEF SyncTypeOK
<1>2. /\ InThePast' /\ KnowsItsKind'
      /\ src'.at = "store" => src'.ids = {}
  <2>1. pos \in Nat /\ src.tok \in Nat /\ token \in Nat /\ born \in [Asset -> Nat]
    BY DEF SyncTypeOK, Pass
  <2> QED
    BY <2>1 DEF InThePast, KnowsItsKind
<1>3. ASSUME NEW a \in There' PROVE Kept(a)' /\ InHand(a)'
  BY <1>3 DEF There, Kept, InHand, SyncTypeOK, InThePast, KnowsItsKind
<1> QED
  BY <1>1, <1>2, <1>3

LEMMA SetAccessStep ==
  ASSUME SyncInv, SetAccess PROVE SyncInv'
<1> USE DEF SyncInv, SetAccess, appVars, dbVars
<1>1. SyncTypeOK'
  BY DEF SyncTypeOK
<1>2. /\ InThePast' /\ KnowsItsKind'
      /\ src'.at = "store" => src'.ids = {}
  BY DEF SyncTypeOK, InThePast, KnowsItsKind
<1>3. ASSUME NEW a \in There' PROVE Kept(a)' /\ InHand(a)'
  BY <1>3 DEF There, Kept, InHand, SyncTypeOK, InThePast, KnowsItsKind
<1> QED
  BY <1>1, <1>2, <1>3

LEMMA LaunchSyncStep ==
  ASSUME SyncInv, Launch PROVE SyncInv'
<1> USE DEF SyncInv, SyncTypeOK, Launch, start_photos_source
<1>1. CASE UNCHANGED src
  BY <1>1, SourceMoves DEF KnowsItsKind, InHand, InThePast, libraryVars, dbVars
<1>2. CASE src' = PassAt("start")
  BY <1>2, NothingInHand
<1> QED
  BY <1>1, <1>2

LEMMA ApplyNewConfigStep ==
  ASSUME SyncInv, ApplyNewConfig PROVE SyncInv'
<1> USE DEF SyncInv, ApplyNewConfig, start_photos_source, libraryVars, dbVars
<1>1. CASE UNCHANGED src
  <2>1. SyncTypeOK'
    BY <1>1 DEF SyncTypeOK
  <2> QED
    BY <1>1, <2>1 DEF KnowsItsKind, InThePast, There, Kept, InHand
<1>2. CASE src' = PassAt("start")
  <2>1. src' \in Pass /\ src'.at = "start" /\ src'.tok = 0
    BY <1>2, PassAtFields
  <2>2. SyncTypeOK'
    BY <1>2, <2>1 DEF SyncTypeOK
  <2> QED
    BY <2>1, <2>2 DEF KnowsItsKind, InThePast, There, Kept, InHand, SyncTypeOK
<1> QED
  BY <1>1, <1>2

LEMMA TrayEndsStep ==
  ASSUME SyncInv, TrayEnds PROVE SyncInv'
  BY NothingInHand DEF SyncInv, SyncTypeOK, TrayEnds

----------------------------------------------------------------------------
(* The source thread.                                                      *)

LEMMA PassEndsStep ==
  ASSUME SyncInv, sourceStays, UNCHANGED <<dbVars, passedOver>>,
         NEW r \in {"ok", "failed", "skipped"}, PassEnds(r)
  PROVE  SyncInv'
  BY NothingInHand DEF SyncInv, SyncTypeOK, PassEnds, sourceStays, appVars

LEMMA PassGoesOnStep ==
  ASSUME SyncInv, sourceStays, UNCHANGED <<dbVars, passedOver>>,
         NEW next \in Pass, PassGoesOn(next),
         next.tok <= pos, KnowsItsKind', next.at = "store" => next.ids = {},
         \A a \in There : InHand(a)'
  PROVE  SyncInv'
  BY SourceMoves DEF SyncInv, SyncTypeOK, PassGoesOn, sourceStays, appVars

LEMMA RegisterStep ==
  ASSUME SyncInv, Register PROVE SyncInv'
  BY NothingInHand DEF SyncInv, SyncTypeOK, Register, sourceStays, appVars

LEMMA WakeStep ==
  ASSUME SyncInv, Wake PROVE SyncInv'
  BY NothingInHand DEF SyncInv, SyncTypeOK, Wake, sourceStays, appVars

LEMMA PassStartsStep ==
  ASSUME SyncInv, PassStarts PROVE SyncInv'
<1>1. CASE \E r \in {"ok", "failed", "skipped"} : PassEnds(r)
  BY <1>1, PassEndsStep DEF PassStarts
<1>2. CASE PassGoesOn([src EXCEPT !.at = IF token = NoToken THEN "current" ELSE "changes"])
  <2> DEFINE next == [src EXCEPT !.at = IF token = NoToken THEN "current" ELSE "changes"]
  <2>1. src \in Pass /\ src.tok <= pos /\ PassGoesOn(next)
    BY <1>2 DEF SyncInv, SyncTypeOK, InThePast
  <2>2. /\ next \in Pass
        /\ next.tok <= pos
        /\ next.at = IF token = NoToken THEN "current" ELSE "changes"
        /\ src' = next
    BY <1>2, <2>1 DEF Pass, PassGoesOn
  <2> HIDE DEF next
  <2>3. KnowsItsKind' /\ \A a \in There : InHand(a)'
    BY <2>2 DEF PassStarts, KnowsItsKind, InHand, dbVars
  <2> QED
    BY <2>1, <2>2, <2>3, PassGoesOnStep DEF PassStarts
<1> QED
  BY <1>1, <1>2 DEF PassStarts

\* The history after the stored token, in one piece.
LEMMA ReadChangesStep ==
  ASSUME SyncInv, ReadChanges PROVE SyncInv'
<1> USE DEF ReadChanges
<1>1. CASE PassEnds("failed")
  BY <1>1, PassEndsStep
<1>2. CASE PassGoesOn([src EXCEPT !.at = "current"])
  <2> DEFINE next == [src EXCEPT !.at = "current"]
  <2>1. src \in Pass /\ src.tok <= pos
    BY DEF SyncInv, SyncTypeOK, InThePast
  <2>2. next \in Pass /\ next.tok <= pos /\ next.at = "current" /\ src' = next
    BY <1>2, <2>1 DEF Pass, PassGoesOn
  <2> HIDE DEF next
  <2>3. KnowsItsKind' /\ \A a \in There : InHand(a)'
    BY <2>2 DEF KnowsItsKind, InHand
  <2> QED
    BY <1>2, <2>2, <2>3, PassGoesOnStep DEF next
<1>3. ASSUME NEW unreadable \in SUBSET {a \in Asset : born[a] > token},
             PassGoesOn([at |-> "filter", full |-> FALSE, tok |-> pos,
                         ids |-> {a \in Asset : born[a] > token} \ unreadable,
                         missed |-> unreadable])
      PROVE  SyncInv'
  <2> DEFINE inserted == {a \in Asset : born[a] > token}
             next == [at |-> "filter", full |-> FALSE, tok |-> pos,
                      ids |-> inserted \ unreadable, missed |-> unreadable]
  <2>1. /\ pos \in Position /\ token \in Nat /\ token # NoToken
        /\ born \in [Asset -> Position]
    BY DEF SyncInv, SyncTypeOK, KnowsItsKind
  <2>2. /\ next \in Pass /\ next.tok = pos /\ next.at = "filter" /\ ~next.full
        /\ next.ids = inserted \ unreadable /\ next.missed = unreadable
    BY <2>1 DEF Pass
  <2>3. PassGoesOn(next) /\ src' = next /\ UNCHANGED <<token, born, seen>>
    BY <1>3 DEF PassGoesOn, sourceStays, libraryVars, dbVars
  <2> HIDE DEF next
  <2>4. KnowsItsKind'
    BY <2>1, <2>2, <2>3 DEF KnowsItsKind
  <2>5. ASSUME NEW a \in There PROVE InHand(a)'
    BY <2>1, <2>2, <2>3 DEF InHand, There
  <2> QED
    BY <2>1, <2>2, <2>3, <2>4, <2>5, PassGoesOnStep
<1> QED
  BY <1>1, <1>2, <1>3

\* What the filter drops is hidden, or gone and new when it comes back.
LEMMA FilterInsertsStep ==
  ASSUME SyncInv, FilterInserts PROVE SyncInv'
<1> DEFINE next == [src EXCEPT !.at = "enqueue", !.ids = @ \cap Shown,
                               !.missed = @ \cup (src.ids \cap Hidden)]
<1>1. /\ src \in Pass /\ src.tok <= pos /\ ~src.full /\ token # NoToken
      /\ src.at = "filter" /\ library \in [Asset -> Visibility]
  BY DEF SyncInv, SyncTypeOK, InThePast, KnowsItsKind, FilterInserts
<1>2. /\ next \in Pass /\ next.at = "enqueue" /\ next.full = src.full
      /\ next.tok = src.tok /\ next.ids = src.ids \cap Shown
      /\ next.missed = src.missed \cup (src.ids \cap Hidden)
  BY <1>1 DEF Pass, Hidden
<1>3. src' = next /\ UNCHANGED <<born, token, seen>>
  BY DEF FilterInserts, PassGoesOn, sourceStays, libraryVars, appVars, dbVars
<1>4. PassGoesOn(next)
  BY DEF FilterInserts
<1> HIDE DEF next
<1>5. KnowsItsKind'
  BY <1>1, <1>2, <1>3 DEF KnowsItsKind
<1>6. ASSUME NEW a \in There PROVE InHand(a)'
  <2>1. library[a] \in {"shown", "hidden"} /\ a \in Asset
    BY <1>1 DEF There
  <2>2. InHand(a)
    BY DEF SyncInv
  <2> QED
    BY <1>1, <1>2, <1>3, <2>1, <2>2 DEF InHand, Shown, Hidden
<1> QED
  BY <1>1, <1>2, <1>4, <1>5, <1>6, PassGoesOnStep DEF FilterInserts

LEMMA ReadCurrentTokenStep ==
  ASSUME SyncInv, ReadCurrentToken PROVE SyncInv'
<1> USE DEF ReadCurrentToken
<1>1. CASE PassEnds("failed")
  BY <1>1, PassEndsStep
<1>2. CASE PassGoesOn([src EXCEPT !.at = "enumerate", !.full = TRUE, !.tok = pos])
  <2> DEFINE next == [src EXCEPT !.at = "enumerate", !.full = TRUE, !.tok = pos]
  <2>1. src \in Pass /\ pos \in Position /\ PassGoesOn(next)
    BY <1>2 DEF SyncInv, SyncTypeOK
  <2>2. next \in Pass /\ next.tok = pos /\ next.at = "enumerate" /\ next.full /\ src' = next
    BY <1>2, <2>1 DEF Pass, PassGoesOn
  <2> HIDE DEF next
  <2>3. KnowsItsKind' /\ \A a \in There : InHand(a)'
    BY <2>2 DEF KnowsItsKind, InHand
  <2> QED
    BY <2>1, <2>2, <2>3, PassGoesOnStep
<1> QED
  BY <1>1, <1>2

\* The walk sees all that is there, if only to leave the hidden out.
LEMMA EnumerateStep ==
  ASSUME SyncInv, Enumerate PROVE SyncInv'
<1> USE DEF Enumerate
<1>1. CASE PassEnds("failed")
  BY <1>1, PassEndsStep
<1>2. CASE PassGoesOn([src EXCEPT !.at = "enqueue", !.ids = Shown, !.missed = Hidden])
  <2> DEFINE next == [src EXCEPT !.at = "enqueue", !.ids = Shown, !.missed = Hidden]
  <2>1. /\ src \in Pass /\ src.full /\ src.tok <= pos /\ library \in [Asset -> Visibility]
        /\ PassGoesOn(next)
    BY <1>2 DEF SyncInv, SyncTypeOK, InThePast, KnowsItsKind
  <2>2. /\ next \in Pass /\ next.tok = src.tok /\ next.at = "enqueue" /\ next.full
        /\ next.ids = Shown /\ next.missed = Hidden /\ src' = next
    BY <1>2, <2>1 DEF Pass, PassGoesOn, Shown, Hidden
  <2> HIDE DEF next
  <2>3. KnowsItsKind' /\ \A a \in There : InHand(a)'
    BY <2>1, <2>2 DEF KnowsItsKind, InHand, There, Shown, Hidden
  <2> QED
    BY <1>2, <2>1, <2>2, <2>3, PassGoesOnStep DEF next
<1> QED
  BY <1>1, <1>2

LEMMA EnqueueStep ==
  ASSUME SyncInv, Enqueue PROVE SyncInv'
<1> USE DEF Enqueue
<1>1. CASE PassEnds("failed") /\ UNCHANGED seen
  BY <1>1, PassEndsStep DEF dbVars
<1>2. CASE /\ PassGoesOn([src EXCEPT !.at = "store", !.ids = {}])
           /\ seen' = seen \cup src.ids
  <2> DEFINE next == [src EXCEPT !.at = "store", !.ids = {}]
  <2>1. src \in Pass
    BY DEF SyncInv, SyncTypeOK
  <2>2. /\ next \in Pass /\ next.tok = src.tok /\ next.at = "store"
        /\ next.full = src.full /\ next.ids = {} /\ next.missed = src.missed
        /\ src' = next /\ src.ids \subseteq Asset
    BY <1>2, <2>1 DEF Pass, PassGoesOn
  <2> HIDE DEF next
  <2>3. SyncTypeOK'
    BY <1>2, <2>2 DEF SyncInv, SyncTypeOK, PassGoesOn, sourceStays, libraryVars, appVars, dbVars
  <2>4. InThePast' /\ KnowsItsKind' /\ src'.ids = {}
    BY <2>2 DEF SyncInv, InThePast, KnowsItsKind, sourceStays, libraryVars, appVars, dbVars
  <2>5. ASSUME NEW a \in There' PROVE Kept(a)' /\ InHand(a)'
    <3>1. a \in There /\ Kept(a) /\ InHand(a)
      BY DEF SyncInv, There, sourceStays, libraryVars, appVars, dbVars
    <3> QED
      BY <1>2, <2>2, <3>1 DEF Kept, InHand, sourceStays, libraryVars, appVars, dbVars
  <2> QED
    BY <2>3, <2>4, <2>5 DEF SyncInv
<1> QED
  BY <1>1, <1>2

\* The token moves to the one in hand: what lies behind it now was handed over
\* or given up in this pass, or lay behind the old one.
LEMMA StoreTokenStep ==
  ASSUME SyncInv, StoreToken PROVE SyncInv'
<1> USE DEF StoreToken
<1>1. CASE PassEnds("failed") /\ UNCHANGED <<token, passedOver>>
  BY <1>1, PassEndsStep DEF dbVars
<1>2. CASE /\ PassEnds("ok")
           /\ token' = src.tok
           /\ passedOver' = {a \in src.missed : born[a] <= src.tok} \cup
                            (IF src.full THEN {} ELSE passedOver)
  <2>1. /\ src \in Pass /\ src.tok \in Position /\ src.missed \subseteq Asset
        /\ src.ids = {} /\ born \in [Asset -> Position] /\ src.tok <= pos
        /\ token \in Position \cup {NoToken} /\ passedOver \subseteq Asset
        /\ pos \in Position
    BY DEF SyncInv, SyncTypeOK, Pass, InThePast
  <2>2. src' \in Pass /\ src'.at = "idle" /\ src'.tok = 0
    BY <1>2, PassAtFields DEF PassEnds
  <2>3. SyncTypeOK'
    BY <1>2, <2>1, <2>2 DEF SyncInv, SyncTypeOK, PassEnds, sourceStays, libraryVars, appVars, dbVars
  <2>4. InThePast' /\ KnowsItsKind' /\ src'.at # "store"
    BY <1>2, <2>1, <2>2 DEF SyncInv, InThePast, KnowsItsKind, sourceStays, libraryVars, appVars, dbVars
  <2>5. ASSUME NEW a \in There' PROVE Kept(a)' /\ InHand(a)'
    <3>1. a \in Asset /\ Kept(a) /\ InHand(a)
      BY DEF SyncInv, There, sourceStays, libraryVars, appVars, dbVars
    <3>2. born' = born /\ seen' = seen
      BY DEF sourceStays, libraryVars, appVars, dbVars
    <3>3. ~src.full => token # NoToken
      BY DEF SyncInv, KnowsItsKind
    <3>4. InHand(a)'
      BY <2>2 DEF InHand
    <3>5. Kept(a)'
      BY <1>2, <2>1, <3>1, <3>2, <3>3 DEF Kept, InHand
    <3> QED
      BY <3>4, <3>5
  <2> QED
    BY <2>3, <2>4, <2>5 DEF SyncInv
<1> QED
  BY <1>1, <1>2

LEMMA SyncStutter ==
  ASSUME SyncInv, UNCHANGED syncVars PROVE SyncInv'
<1> USE DEF SyncInv, syncVars, libraryVars, appVars, dbVars
<1>1. SyncTypeOK'
  BY DEF SyncTypeOK
<1> QED
  BY <1>1 DEF InThePast, KnowsItsKind, There, Kept, InHand

LEMMA SyncNextStep == SyncInv /\ [SyncNext]_syncVars => SyncInv'
  BY InsertStep, UpdateStep, SetAccessStep, LaunchSyncStep, ApplyNewConfigStep,
     TrayEndsStep, RegisterStep, WakeStep, PassStartsStep, ReadChangesStep,
     FilterInsertsStep, ReadCurrentTokenStep, EnumerateStep, EnqueueStep,
     StoreTokenStep, SyncStutter
     DEF SyncNext, SourceStep

THEOREM SyncInvariant == SyncSpec => []SyncInv
  BY InitSync, SyncNextStep, PTL DEF SyncSpec

\* The state is what the types of database, thread and PhotoKit say.
THEOREM SyncTypes == SyncSpec => []SyncTypeOK
<1>1. SyncInv => SyncTypeOK
  BY DEF SyncInv
<1> QED
  BY <1>1, SyncInvariant, PTL

\* No passes cut short, failed writes, restarts, or changes of the library
\* meanwhile leave a shown asset behind the token that was not handed over,
\* but for those that the pass could not see.
THEOREM NothingIsMissed == SyncSpec => []NothingMissed
<1>1. SyncInv => NothingMissed
  BY DEF SyncInv, NothingMissed, Kept, There, Shown
<1> QED
  BY <1>1, SyncInvariant, PTL

----------------------------------------------------------------------------
(* Albums.  MirrorsAreOwn and PlacedIsThere need what a task knows of the  *)
(* album it holds; OneMirror and OneByName need the locks: that one task   *)
(* at a time is in its pipeline's section, and what it found on entering   *)
(* is so still, as long as nobody else was about.                          *)

HIDE SyncAssumption
HIDE DEF SourceAt, Position, NoToken, Visibility

AlbumType == [name : Title, live : BOOLEAN, for : Purpose, members : SUBSET Task]
TaskType == [at : Step, pipe : Pipe \cup {None}, todo : SUBSET Collection,
             title : [Collection -> Title], c : Collection \cup {None},
             id : 0..MaxAlbums, attempt : 0..1]

\* Where a library task holds an album of its collection.
Holding == {"rename", "recordName", "recordAlbum", "add", "forget"}

Live(i) == i \in Ids /\ album[i].live
MadeFor(i, c) == i \in Ids /\ album[i].for = c

\* What a task's place says of the album it holds.
Holds(t) ==
  /\ t \in LibTask => /\ task[t].at \in Holding => MadeFor(task[t].id, task[t].c)
                      /\ task[t].at \in Holding \cup {"create"} => task[t].c \in Collection
                      /\ task[t].at = "forget" => ~Live(task[t].id) /\ task[t].attempt = 0
  /\ t \in FolderTask => task[t].at \in {"idle", "done"} \cup NameStep
  /\ task[t].at = "addByName" => task[t].id \in Ids

\* A recorded mirror is an album of that collection.
Own(c) == mirrored[c] # None => MadeFor(mirrored[c].id, c)

\* The album_lock of a pipeline, and all of them as long as none overlapped.
LockHeld ==
  \A t, u \in LibTask :
    (InSection(t) /\ InSection(u) /\ (task[t].pipe = task[u].pipe \/ ~overlapped)) => t = u

\* What a task saw in its collection's row: it holds the recorded mirror, or
\* none is recorded that is there.
Sure(t) ==
  /\ task[t].at \in {"rename", "recordName", "add", "forget"} =>
       mirrored[task[t].c] # None /\ mirrored[task[t].c].id = task[t].id
  /\ task[t].at \in {"create", "recordAlbum"} =>
       mirrored[task[t].c] = None \/ ~Live(mirrored[task[t].c].id)

\* Albums made by name keep it, and a find that missed them was right.
NamesStay == \A i \in Ids : album[i].for = "name" => album[i].name = AllIn
NoneByName == \A i \in Ids : ~(album[i].for = "name" /\ album[i].live)

AlbumsInv ==
  /\ TypeOK
  /\ \A t \in Task : Holds(t)
  /\ \A c \in Collection : Own(c)
  /\ LockHeld
  /\ ~overlapped => \A t \in LibTask : Sure(t)
  /\ OneMirror
  /\ NamesStay
  /\ ~raced => \A t \in Task : task[t].at = "createByName" => NoneByName
  /\ OneByName
  /\ PlacedIsThere

USE AlbumsAssumption DEF Id, Ids

LEMMA TypesAre ==
  ASSUME AlbumsInv
  PROVE  /\ title \in [Collection -> Title]
         /\ mirrored \in [Collection -> {None} \cup [id : Id, name : Title]]
         /\ made \in 0..MaxAlbums
         /\ album \in [Ids -> AlbumType]
         /\ task \in [Task -> TaskType]
         /\ placed \in SUBSET (LibTask \X Collection)
         /\ refused \in SUBSET (LibTask \X Collection)
         /\ orphan \in SUBSET Ids
         /\ overlapped \in BOOLEAN /\ raced \in BOOLEAN
         /\ faults \in 0..MaxEvents /\ acts \in 0..MaxEvents
  BY DEF AlbumsInv, TypeOK, AlbumType, TaskType

LEMMA TypesTogether ==
  ASSUME title' \in [Collection -> Title],
         mirrored' \in [Collection -> {None} \cup [id : Id, name : Title]],
         made' \in 0..MaxAlbums,
         album' \in [Ids' -> AlbumType],
         task' \in [Task -> TaskType],
         placed' \in SUBSET (LibTask \X Collection),
         refused' \in SUBSET (LibTask \X Collection),
         orphan' \in SUBSET Ids',
         overlapped' \in BOOLEAN, raced' \in BOOLEAN,
         faults' \in 0..MaxEvents, acts' \in 0..MaxEvents
  PROVE  TypeOK'
  BY DEF TypeOK, AlbumType, TaskType

----------------------------------------------------------------------------
(* The server: albums come, never go, and stay what they were made for.    *)

Grows ==
  /\ made' \in 0..MaxAlbums /\ made <= made'
  /\ album' \in [Ids' -> AlbumType]
  /\ \A i \in Ids :
       /\ album'[i].for = album[i].for
       /\ album[i].members \subseteq album'[i].members
       /\ album'[i].live => album[i].live
       /\ album[i].for = "name" => album'[i].name = album[i].name

LEMMA SameGrows ==
  ASSUME AlbumsInv, UNCHANGED <<album, made>> PROVE Grows
  BY TypesAre DEF Grows

LEMMA AddGrows ==
  ASSUME AlbumsInv, NEW i \in Ids, NEW t \in Task, add_assets_to_album(i, t), UNCHANGED made
  PROVE  Grows /\ t \in album'[i].members
<1>1. made \in Nat /\ album \in [Ids -> AlbumType] /\ album[i] \in AlbumType
  BY TypesAre
<1>2. [album[i] EXCEPT !.members = @ \cup {t}] \in AlbumType
  BY <1>1 DEF AlbumType
<1>3. album' = [album EXCEPT ![i] = [album[i] EXCEPT !.members = @ \cup {t}]]
  BY DEF add_assets_to_album
<1>4. album' \in [Ids -> AlbumType] /\ made' \in 0..MaxAlbums
  BY <1>1, <1>2, <1>3, TypesAre
<1>5. ASSUME NEW j \in Ids
      PROVE  /\ album'[j].for = album[j].for
             /\ album[j].members \subseteq album'[j].members
             /\ album'[j].live => album[j].live
             /\ album[j].for = "name" => album'[j].name = album[j].name
  <2>1. album[j] \in AlbumType
    BY <1>1
  <2> QED
    BY <1>1, <1>3, <2>1 DEF AlbumType
<1>6. t \in album'[i].members
  BY <1>1, <1>3 DEF AlbumType
<1> QED
  BY <1>1, <1>4, <1>5, <1>6 DEF Grows

\* Only a mirror is ever renamed.
LEMMA RenameGrows ==
  ASSUME AlbumsInv, NEW c \in Collection, NEW i, MadeFor(i, c), NEW n \in Title,
         rename_album(i, n), UNCHANGED made
  PROVE  Grows
<1>1. /\ made \in Nat /\ album \in [Ids -> AlbumType] /\ i \in Ids
      /\ album[i] \in AlbumType /\ album[i].for # "name"
  BY TypesAre DEF MadeFor
<1>2. [album[i] EXCEPT !.name = n] \in AlbumType
  BY <1>1 DEF AlbumType
<1>3. album' = [album EXCEPT ![i] = [album[i] EXCEPT !.name = n]]
  BY DEF rename_album
<1>4. album' \in [Ids -> AlbumType] /\ made' \in 0..MaxAlbums
  BY <1>1, <1>2, <1>3, TypesAre
<1>5. ASSUME NEW j \in Ids
      PROVE  /\ album'[j].for = album[j].for
             /\ album[j].members \subseteq album'[j].members
             /\ album'[j].live => album[j].live
             /\ album[j].for = "name" => album'[j].name = album[j].name
  <2>1. album[j] \in AlbumType
    BY <1>1
  <2> QED
    BY <1>1, <1>3, <2>1 DEF AlbumType
<1> QED
  BY <1>1, <1>4, <1>5 DEF Grows

LEMMA DeleteGrows ==
  ASSUME AlbumsInv, NEW i \in Ids, album' = [album EXCEPT ![i].live = FALSE], UNCHANGED made
  PROVE  Grows
<1>1. made \in Nat /\ album \in [Ids -> AlbumType] /\ album[i] \in AlbumType
  BY TypesAre
<1>2. [album[i] EXCEPT !.live = FALSE] \in AlbumType
  BY <1>1 DEF AlbumType
<1>3. album' = [album EXCEPT ![i] = [album[i] EXCEPT !.live = FALSE]]
  OBVIOUS
<1>4. album' \in [Ids -> AlbumType] /\ made' \in 0..MaxAlbums
  BY <1>1, <1>2, <1>3, TypesAre
<1>5. ASSUME NEW j \in Ids
      PROVE  /\ album'[j].for = album[j].for
             /\ album[j].members \subseteq album'[j].members
             /\ album'[j].live => album[j].live
             /\ album[j].for = "name" => album'[j].name = album[j].name
  <2>1. album[j] \in AlbumType
    BY <1>1
  <2> QED
    BY <1>1, <1>3, <2>1 DEF AlbumType
<1> QED
  BY <1>1, <1>4, <1>5 DEF Grows

LEMMA CreateGrows ==
  ASSUME AlbumsInv, NEW n \in Title, NEW f \in Purpose, create_album(n, f)
  PROVE  /\ Grows
         /\ made' = made + 1 /\ made' \in Id /\ made' \notin Ids
         /\ Ids' = Ids \cup {made'}
         /\ \A i \in Ids : album'[i] = album[i]
         /\ album'[made'].for = f /\ album'[made'].name = n /\ album'[made'].live
<1> DEFINE new == [name |-> n, live |-> TRUE, for |-> f, members |-> {}]
<1>1. /\ made \in 0..MaxAlbums /\ made < MaxAlbums /\ made' = made + 1
      /\ album \in [Ids -> AlbumType]
      /\ album' = [i \in 1..(made + 1) |-> IF i <= made THEN album[i] ELSE new]
  BY TypesAre DEF create_album
<1>2. new \in AlbumType /\ new.for = f /\ new.name = n /\ new.live
  BY DEF AlbumType
<1> HIDE DEF new
<1>3. /\ made' \in 0..MaxAlbums /\ made <= made' /\ made' \in Id /\ made' \notin Ids
      /\ Ids' = 1..(made + 1) /\ Ids' = Ids \cup {made'}
  BY <1>1
<1>4. \A i \in Ids : album'[i] = album[i]
  BY <1>1
<1>5. album'[made'] = new
  BY <1>1
<1>6. album' \in [Ids' -> AlbumType]
  <2>1. ASSUME NEW i \in Ids'
        PROVE  (IF i <= made THEN album[i] ELSE new) \in AlbumType
    BY <1>1, <1>2, <1>3
  <2> QED
    BY <1>1, <1>3, <2>1
<1> QED
  BY <1>1, <1>2, <1>3, <1>4, <1>5, <1>6 DEF Grows

\* What is known of an album outlives every call.
LEMMA GrownKeeps ==
  ASSUME AlbumsInv, Grows
  PROVE  /\ Ids \subseteq Ids'
         /\ \A i, c : MadeFor(i, c) => MadeFor(i, c)'
         /\ \A i \in Ids : Live(i)' => Live(i)
  BY TypesAre DEF Grows, MadeFor, Live

\* What the part of the invariant of a task, or of a row, that a step leaves
\* alone.
LEMMA HoldsKept ==
  ASSUME AlbumsInv, Grows, NEW u \in Task, task'[u] = task[u]
  PROVE  Holds(u)'
<1>1. Holds(u)
  BY DEF AlbumsInv
<1>2. /\ \A i \in Ids : i \in Ids' /\ album'[i].for = album[i].for
      /\ \A i \in Ids : album'[i].live => album[i].live
  BY GrownKeeps DEF Grows
<1> HIDE DEF Ids
<1> QED
  BY <1>1, <1>2 DEF Holds, MadeFor, Live, Holding

LEMMA OwnKept ==
  ASSUME AlbumsInv, Grows, NEW c \in Collection, mirrored'[c] = mirrored[c]
  PROVE  Own(c)'
<1>1. Own(c)
  BY DEF AlbumsInv
<1> QED
  BY <1>1, GrownKeeps DEF Own

LEMMA SureKept ==
  ASSUME AlbumsInv, Grows, NEW u \in LibTask, task'[u] = task[u], UNCHANGED mirrored,
         Sure(u)
  PROVE  Sure(u)'
<1>1. Holds(u) /\ \A c \in Collection : Own(c)
  BY DEF AlbumsInv, Task
<1>2. /\ \A i \in Ids : i \in Ids' /\ album'[i].for = album[i].for
      /\ \A i \in Ids : album'[i].live => album[i].live
  BY GrownKeeps DEF Grows
<1> HIDE DEF Ids
<1>3. CASE task[u].at \in {"rename", "recordName", "add", "forget"}
  BY <1>3 DEF Sure
<1>4. CASE task[u].at \in {"create", "recordAlbum"}
  <2>1. task[u].c \in Collection
    BY <1>1, <1>4 DEF Holds, Holding
  <2> QED
    BY <1>1, <1>2, <1>4, <2>1 DEF Sure, Own, MadeFor, Live
<1> QED
  BY <1>3, <1>4 DEF Sure

LEMMA PlacedKept ==
  ASSUME AlbumsInv, Grows, placed' \ refused' \subseteq placed \ refused PROVE PlacedIsThere'
<1>1. placed \subseteq LibTask \X Collection /\ PlacedIsThere /\ Ids \subseteq Ids'
  BY TypesAre, GrownKeeps DEF AlbumsInv
<1>2. ASSUME NEW q \in placed \ refused
      PROVE  \E i \in Ids' : album'[i].for = q[2] /\ q[1] \in album'[i].members
  <2>1. PICK i \in Ids : album[i].for = q[2] /\ q[1] \in album[i].members
    BY <1>1 DEF PlacedIsThere
  <2> QED
    BY <1>1, <2>1 DEF Grows
<1> QED
  BY <1>2 DEF PlacedIsThere

LEMMA LockKept ==
  ASSUME AlbumsInv, overlapped' = overlapped,
         \A u \in LibTask : InSection(u)' => InSection(u) /\ task'[u].pipe = task[u].pipe
  PROVE  LockHeld'
  BY DEF AlbumsInv, LockHeld

\* How an album made for a collection is accounted for.
Accounted(i, c) ==
  \/ mirrored[c] # None /\ mirrored[c].id = i
  \/ \E t \in LibTask : task[t].at = "recordAlbum" /\ task[t].id = i
  \/ i \in orphan

LEMMA OneMirrorMeans ==
  OneMirror <=> (~overlapped => \A i \in Ids : \A c \in Collection :
                   (album[i].for = c /\ album[i].live) => Accounted(i, c))
  BY DEF OneMirror, Accounted

\* A step of one task that makes no album and takes no lock.
LEMMA TaskMoves ==
  ASSUME AlbumsInv, NEW t \in Task, NEW new \in TaskType, task' = [task EXCEPT ![t] = new],
         Grows, made' = made, UNCHANGED <<title, overlapped, raced, acts>>,
         faults' \in 0..MaxEvents,
         mirrored' \in [Collection -> {None} \cup [id : Id, name : Title]],
         orphan' \in SUBSET Ids,
         placed' \in SUBSET (LibTask \X Collection),
         refused' \in SUBSET (LibTask \X Collection), PlacedIsThere',
         Holds(t)', \A c \in Collection : Own(c)',
         t \in LibTask /\ InSection(t)' => InSection(t) /\ new.pipe = task[t].pipe,
         mirrored' = mirrored \/ (t \in LibTask /\ InSection(t)),
         t \in LibTask /\ ~overlapped => Sure(t)',
         ~raced /\ new.at = "createByName" => NoneByName,
         ~overlapped => \A i \in Ids : \A c \in Collection :
           (MadeFor(i, c) /\ Live(i)' /\ Accounted(i, c)) => Accounted(i, c)'
  PROVE  AlbumsInv'
<1>1. /\ task \in [Task -> TaskType] /\ task' \in [Task -> TaskType] /\ task'[t] = new
      /\ \A u \in Task \ {t} : task'[u] = task[u]
      /\ Ids' = Ids
  BY TypesAre
<1>2. TypeOK'
  BY <1>1, TypesAre, TypesTogether DEF Grows
<1>3. ASSUME NEW u \in Task PROVE Holds(u)'
  BY <1>1, HoldsKept
<1>4. LockHeld'
  <2>1. ASSUME NEW u \in LibTask, InSection(u)'
        PROVE  InSection(u) /\ task'[u].pipe = task[u].pipe
    <3>1. CASE u = t
      BY <1>1, <2>1, <3>1
    <3>2. CASE u # t
      BY <1>1, <2>1, <3>2 DEF InSection, Task
    <3> QED
      BY <3>1, <3>2
  <2> QED
    BY <2>1, LockKept
<1>5. ASSUME ~overlapped', NEW u \in LibTask PROVE Sure(u)'
  <2>1. Sure(u)
    BY <1>5 DEF AlbumsInv
  <2>2. CASE u # t /\ mirrored' = mirrored
    BY <1>1, <2>1, <2>2, SureKept DEF Task
  <2>3. CASE u # t /\ t \in LibTask /\ InSection(t)
    <3>1. ~InSection(u)
      BY <1>5, <2>3 DEF AlbumsInv, LockHeld
    <3>2. task'[u] = task[u]
      BY <1>1, <2>3 DEF Task
    <3> QED
      BY <3>1, <3>2 DEF InSection, MirrorStep, Sure
  <2>4. CASE u = t
    BY <1>5, <2>4
  <2> QED
    BY <2>2, <2>3, <2>4
<1>6. OneMirror'
  <2>1. ASSUME ~overlapped', NEW i \in Ids', NEW c \in Collection,
               album'[i].for = c, album'[i].live
        PROVE  Accounted(i, c)'
    <3>1. MadeFor(i, c) /\ album[i].for = c /\ album[i].live /\ Live(i)'
      BY <1>1, <2>1 DEF Grows, MadeFor, Live
    <3>2. Accounted(i, c)
      BY <1>1, <2>1, <3>1, OneMirrorMeans DEF AlbumsInv
    <3> QED
      BY <1>1, <2>1, <3>1, <3>2
  <2> QED
    BY <2>1 DEF OneMirror, Accounted
<1>7. NamesStay'
  BY <1>1 DEF AlbumsInv, NamesStay, Grows
<1>8. NoneByName => NoneByName'
  BY <1>1 DEF NoneByName, Grows
<1>9. ASSUME ~raced', NEW u \in Task, task'[u].at = "createByName" PROVE NoneByName'
  <2>1. CASE u = t
    BY <1>1, <1>8, <1>9, <2>1
  <2>2. CASE u # t
    BY <1>1, <1>8, <1>9, <2>2 DEF AlbumsInv
  <2> QED
    BY <2>1, <2>2
<1>10. OneByName'
  <2>1. ASSUME ~raced', NEW i \in Ids', NEW j \in Ids',
               album'[i].for = "name", album'[j].for = "name",
               album'[i].live, album'[j].live
        PROVE  i = j
    <3>1. /\ i \in Ids /\ j \in Ids /\ ~raced
          /\ album[i].for = "name" /\ album[j].for = "name" /\ album[i].live /\ album[j].live
      BY <1>1, <2>1 DEF Grows
    <3> HIDE DEF Ids
    <3> QED
      BY <3>1 DEF AlbumsInv, OneByName
  <2> QED
    BY <2>1 DEF OneByName
<1> QED
  BY <1>2, <1>3, <1>4, <1>5, <1>6, <1>7, <1>9, <1>10 DEF AlbumsInv

LEMMA IdleIs ==
  /\ Idle \in TaskType
  /\ Idle.at = "idle" /\ Idle.pipe = None
<1> DEFINE names == [c \in Collection |-> AllIn]
<1>1. names \in [Collection -> Title]
  OBVIOUS
<1>2. "idle" \in Step /\ 0 \in 0..MaxAlbums /\ 0 \in 0..1
  BY DEF Step
<1>3. Idle = [at |-> "idle", pipe |-> None, todo |-> {}, title |-> names,
              c |-> None, id |-> 0, attempt |-> 0]
  BY DEF Idle
<1> HIDE DEF names
<1> QED
  BY <1>1, <1>2, <1>3 DEF TaskType

\* ... and that leaves the recorded mirrors alone.
LEMMA QuietMove ==
  ASSUME AlbumsInv, NEW t \in Task, NEW new \in TaskType, task' = [task EXCEPT ![t] = new],
         Grows, made' = made, UNCHANGED <<title, mirrored, overlapped, raced, acts>>,
         faults' \in 0..MaxEvents,
         orphan' \in SUBSET Ids, orphan \subseteq orphan',
         task[t].at = "recordAlbum" => task[t].id \in orphan',
         placed' \in SUBSET (LibTask \X Collection),
         refused' \in SUBSET (LibTask \X Collection), PlacedIsThere',
         Holds(t)',
         t \in LibTask /\ InSection(t)' => InSection(t) /\ new.pipe = task[t].pipe,
         t \in LibTask /\ ~overlapped => Sure(t)',
         ~raced /\ new.at = "createByName" => NoneByName
  PROVE  AlbumsInv'
<1>1. \A c \in Collection : Own(c)'
  BY OwnKept
<1>2. \A u \in Task \ {t} : task'[u] = task[u]
  BY TypesAre
<1>3. ASSUME NEW i \in Ids, NEW c \in Collection, Accounted(i, c) PROVE Accounted(i, c)'
  BY <1>2, <1>3 DEF Accounted, Task
<1> QED
  BY <1>1, <1>3, TypesAre, TaskMoves

\* A library task is done with one album, or with one failure of it.
LEMMA NextAlbumMove ==
  ASSUME AlbumsInv, NEW t \in LibTask, InSection(t), NextAlbum(t),
         Grows, made' = made, UNCHANGED <<title, mirrored, overlapped, raced, acts>>,
         faults' \in 0..MaxEvents,
         orphan' \in SUBSET Ids, orphan \subseteq orphan',
         task[t].at = "recordAlbum" => task[t].id \in orphan',
         placed' \in SUBSET (LibTask \X Collection),
         refused' \in SUBSET (LibTask \X Collection), PlacedIsThere'
  PROVE  AlbumsInv'
<1> DEFINE new == [task[t] EXCEPT !.at = "next", !.c = None, !.id = 0, !.attempt = 0]
<1>1. t \in Task /\ t \notin FolderTask /\ task \in [Task -> TaskType] /\ task[t] \in TaskType
  BY TypesAre DEF Task
<1>2. new \in TaskType /\ new.at = "next" /\ new.pipe = task[t].pipe
  <2>1. "next" \in Step /\ 0 \in 0..MaxAlbums /\ 0 \in 0..1
    BY DEF Step, MirrorStep
  <2> QED
    BY <1>1, <2>1 DEF TaskType
<1>3. task' = [task EXCEPT ![t] = new]
  BY DEF NextAlbum
<1> HIDE DEF new
<1>4. task'[t] = new
  BY <1>1, <1>3
<1>5. Holds(t)' /\ Sure(t)'
  BY <1>1, <1>2, <1>4 DEF Holds, Sure, Holding
<1> QED
  BY <1>1, <1>2, <1>3, <1>5, QuietMove

\* A task is over.
LEMMA DoneMove ==
  ASSUME AlbumsInv, NEW t \in Task, task[t].at # "recordAlbum", Done(t),
         Grows, made' = made, UNCHANGED <<title, mirrored, ghosts, acts>>,
         faults' \in 0..MaxEvents
  PROVE  AlbumsInv'
<1> DEFINE new == [Idle EXCEPT !.at = "done"]
<1>1. task \in [Task -> TaskType]
  BY TypesAre
<1>2. new \in TaskType /\ new.at = "done"
  BY IdleIs DEF TaskType, Step
<1>3. task' = [task EXCEPT ![t] = new]
  BY DEF Done
<1> HIDE DEF new
<1>4. task'[t] = new
  BY <1>1, <1>3
<1>5. Holds(t)' /\ Sure(t)' /\ ~InSection(t)'
  BY <1>2, <1>4 DEF Holds, Sure, Holding, InSection, MirrorStep, NameStep
<1>6. PlacedIsThere'
  BY PlacedKept DEF ghosts
<1> QED
  BY <1>2, <1>3, <1>5, <1>6, TypesAre, QuietMove DEF ghosts

\* The task goes on, with what it holds.
LEMMA GoesMove ==
  ASSUME AlbumsInv, NEW t \in Task, NEW at \in Step, Goes(t, at),
         task[t].at # "recordAlbum",
         at \in {"add", "create", "recordName", "forget", "find"} \/
           (at = "createByName" /\ (~raced => NoneByName)),
         t \in LibTask => InSection(t),
         Grows, made' = made, UNCHANGED <<title, mirrored, ghosts, acts>>,
         faults' \in 0..MaxEvents,
         Holds(t)', t \in LibTask /\ ~overlapped => Sure(t)'
  PROVE  AlbumsInv'
<1> DEFINE new == [task[t] EXCEPT !.at = at]
<1>1. task \in [Task -> TaskType] /\ task[t] \in TaskType
  BY TypesAre
<1>2. new \in TaskType /\ new.at = at /\ new.pipe = task[t].pipe
  BY <1>1 DEF TaskType
<1>3. task' = [task EXCEPT ![t] = new]
  BY DEF Goes
<1> HIDE DEF new
<1>4. PlacedIsThere'
  BY PlacedKept DEF ghosts
<1> QED
  BY <1>2, <1>3, <1>4, TypesAre, QuietMove DEF ghosts

----------------------------------------------------------------------------
(* The steps of a library task.                                            *)

LEMMA FaultIs ==
  ASSUME AlbumsInv, Fault \/ NoFault PROVE faults' \in 0..MaxEvents
  BY TypesAre DEF Fault, NoFault

LEMMA ExportStep ==
  ASSUME AlbumsInv, NEW t \in LibTask, ExportNamesAlbums(t) PROVE AlbumsInv'
<1> USE DEF ExportNamesAlbums
<1>1. PICK p \in Pipe, cs \in SUBSET Collection :
       task' = [task EXCEPT ![t] = [Idle EXCEPT !.at = "lock", !.pipe = p, !.todo = cs,
                                                !.title = [c \in Collection |->
                                                            IF c \in cs THEN title[c] ELSE AllIn]]]
  OBVIOUS
<1> DEFINE names == [c \in Collection |-> IF c \in cs THEN title[c] ELSE AllIn]
           new == [Idle EXCEPT !.at = "lock", !.pipe = p, !.todo = cs, !.title = names]
<1>2. t \in Task /\ t \notin FolderTask /\ task \in [Task -> TaskType] /\ Grows
  BY TypesAre, SameGrows DEF Task, serverVars
<1>3. names \in [Collection -> Title]
  BY TypesAre
<1> HIDE DEF names
<1>4. new \in TaskType /\ new.at = "lock"
  <2>1. "lock" \in Step
    BY DEF Step
  <2> QED
    BY <1>3, <2>1, IdleIs DEF TaskType
<1>5. task' = [task EXCEPT ![t] = new]
  BY <1>1 DEF names
<1> HIDE DEF new
<1>6. task'[t] = new
  BY <1>2, <1>5
<1>7. Holds(t)' /\ Sure(t)' /\ ~InSection(t)'
  BY <1>2, <1>4, <1>6 DEF Holds, Sure, Holding, InSection, MirrorStep, NameStep
<1>8. PlacedIsThere'
  BY <1>2, PlacedKept DEF ghosts
<1> QED
  BY <1>2, <1>4, <1>5, <1>7, <1>8, TypesAre, QuietMove DEF ghosts, serverVars

\* The lock of its pipeline is free; another's section may be entered.
LEMMA TakeAlbumLockStep ==
  ASSUME AlbumsInv, NEW t \in LibTask, TakeAlbumLock(t) PROVE AlbumsInv'
<1> USE DEF TakeAlbumLock
<1> DEFINE new == [task[t] EXCEPT !.at = "next"]
<1>1. /\ t \in Task /\ t \notin FolderTask /\ task \in [Task -> TaskType]
      /\ task[t] \in TaskType /\ Grows /\ task[t].at = "lock"
      /\ UNCHANGED <<title, mirrored, album, made, placed, refused, orphan, raced, faults, acts>>
  BY TypesAre, SameGrows DEF Task, serverVars
<1>2. new \in TaskType /\ new.at = "next" /\ new.pipe = task[t].pipe
  BY <1>1 DEF TaskType, Step, MirrorStep
<1>3. task' = [task EXCEPT ![t] = new]
  BY DEF Goes
<1> HIDE DEF new
<1>4. task'[t] = new /\ task' \in [Task -> TaskType] /\ \A u \in Task \ {t} : task'[u] = task[u]
  BY <1>1, <1>2, <1>3
<1>5. TypeOK'
  BY <1>1, <1>4, TypesAre, TypesTogether
<1>6. ASSUME NEW u \in Task PROVE Holds(u)'
  <2>1. CASE u = t
    BY <1>1, <1>2, <1>4, <2>1 DEF Holds, Holding
  <2>2. CASE u # t
    BY <1>1, <1>4, <2>2, HoldsKept
  <2> QED
    BY <2>1, <2>2
<1>7. \A c \in Collection : Own(c)'
  BY <1>1, OwnKept
<1>8. ASSUME NEW u \in LibTask, u # t, InSection(u)'
      PROVE  InSection(u) /\ task'[u].pipe = task[u].pipe
                          /\ task[u].pipe # task'[t].pipe /\ overlapped'
  BY <1>2, <1>4, <1>8 DEF InSection, Task
<1>9. LockHeld'
  <2>1. ASSUME NEW u \in LibTask, NEW v \in LibTask, InSection(u)', InSection(v)',
               task'[u].pipe = task'[v].pipe \/ ~overlapped'
        PROVE  u = v
    <3>1. CASE u = t \/ v = t
      BY <1>8, <2>1, <3>1
    <3>2. CASE u # t /\ v # t
      BY <1>8, <2>1, <3>2 DEF AlbumsInv, LockHeld
    <3> QED
      BY <3>1, <3>2
  <2> QED
    BY <2>1 DEF LockHeld
<1>10. ASSUME ~overlapped', NEW u \in LibTask PROVE Sure(u)'
  <2>1. CASE u = t
    BY <1>2, <1>4, <2>1 DEF Sure
  <2>2. CASE u # t
    BY <1>1, <1>4, <1>10, <2>2, SureKept DEF AlbumsInv, Task
  <2> QED
    BY <2>1, <2>2
<1>11. OneMirror'
  <2>1. ASSUME ~overlapped', NEW i \in Ids', NEW c \in Collection,
               album'[i].for = c, album'[i].live
        PROVE  Accounted(i, c)'
    <3>1. Accounted(i, c)
      BY <1>1, <2>1, OneMirrorMeans DEF AlbumsInv
    <3> QED
      BY <1>1, <1>4, <3>1 DEF Accounted, Task
  <2> QED
    BY <2>1 DEF OneMirror, Accounted
<1>12. NamesStay' /\ OneByName' /\ PlacedIsThere'
  BY <1>1 DEF AlbumsInv, NamesStay, OneByName, PlacedIsThere
<1>13. ASSUME ~raced', NEW u \in Task, task'[u].at = "createByName" PROVE NoneByName'
  <2>1. u # t
    BY <1>2, <1>4, <1>13
  <2>2. NoneByName
    BY <1>1, <1>4, <1>13, <2>1 DEF AlbumsInv
  <2> QED
    BY <1>1, <2>2 DEF NoneByName
<1> QED
  BY <1>5, <1>6, <1>7, <1>9, <1>10, <1>11, <1>12, <1>13 DEF AlbumsInv

\* What the row says is what the task goes by.
LEMMA PlaceInMirrorStep ==
  ASSUME AlbumsInv, NEW t \in LibTask, place_in_mirror(t) PROVE AlbumsInv'
<1>1. PICK c \in task[t].todo :
        task' = [task EXCEPT ![t] = [task[t] EXCEPT
            !.todo = task[t].todo \ {c}, !.c = c, !.attempt = 0,
            !.id = IF mirrored[c] = None THEN 0 ELSE mirrored[c].id,
            !.at = IF mirrored[c] = None THEN "create"
                   ELSE IF mirrored[c].name # task[t].title[c] THEN "rename" ELSE "add"]]
  BY DEF place_in_mirror
<1> DEFINE id == IF mirrored[c] = None THEN 0 ELSE mirrored[c].id
           at == IF mirrored[c] = None THEN "create"
                 ELSE IF mirrored[c].name # task[t].title[c] THEN "rename" ELSE "add"
           new == [task[t] EXCEPT !.todo = @ \ {c}, !.c = c, !.attempt = 0, !.id = id, !.at = at]
<1>2. /\ t \in Task /\ t \notin FolderTask /\ task \in [Task -> TaskType]
      /\ task[t] \in TaskType /\ Grows /\ task[t].at = "next" /\ c \in Collection
      /\ UNCHANGED <<title, mirrored, album, made, placed, refused, orphan, overlapped, raced,
                     faults, acts>>
  <2>1. task \in [Task -> TaskType]
    BY TypesAre
  <2> QED
    BY <2>1, SameGrows DEF Task, serverVars, ghosts, TaskType, place_in_mirror
<1>3. /\ id \in 0..MaxAlbums /\ (mirrored[c] # None => id = mirrored[c].id)
      /\ at \in {"create", "rename", "add"} /\ (at = "create" <=> mirrored[c] = None)
  BY <1>2, TypesAre
<1>4. task' = [task EXCEPT ![t] = [task[t] EXCEPT
         !.todo = task[t].todo \ {c}, !.c = c, !.attempt = 0, !.id = id, !.at = at]]
  BY ONLY <1>1
<1> HIDE DEF id, at
<1>5. /\ new \in TaskType
      /\ new.at = at /\ new.id = id /\ new.c = c /\ new.pipe = task[t].pipe
  <2>1. at \in Step /\ 0 \in 0..1
    BY <1>3 DEF Step, MirrorStep
  <2> QED
    BY <1>2, <1>3, <2>1 DEF TaskType
<1>6. task' = [task EXCEPT ![t] = new]
  BY ONLY <1>4
<1> HIDE DEF new
<1>7. task'[t] = new
  BY <1>2, <1>6
<1>8. Holds(t)' /\ Sure(t)' /\ InSection(t)
  <2>1. Own(c)
    BY <1>2 DEF AlbumsInv
  <2> QED
    BY <1>2, <1>3, <1>5, <1>7, <2>1
       DEF Holds, Sure, Own, MadeFor, Holding, InSection, MirrorStep
<1>9. PlacedIsThere'
  BY <1>2, PlacedKept
<1> QED
  BY <1>2, <1>3, <1>5, <1>6, <1>8, <1>9, TypesAre, QuietMove

LEMMA MirrorsDoneStep ==
  ASSUME AlbumsInv, NEW t \in LibTask, MirrorsDone(t) PROVE AlbumsInv'
<1> USE DEF MirrorsDone
<1> DEFINE new == [Idle EXCEPT !.at = "find", !.pipe = task[t].pipe]
<1>1. /\ t \in Task /\ t \notin FolderTask /\ task \in [Task -> TaskType]
      /\ task[t] \in TaskType /\ Grows /\ task[t].at = "next"
      /\ UNCHANGED <<title, mirrored, album, made, placed, refused, orphan, overlapped, raced,
                     faults, acts>>
  BY TypesAre, SameGrows DEF Task, serverVars, ghosts
<1>2. new \in TaskType /\ new.at = "find" /\ new.pipe = task[t].pipe
  BY <1>1, IdleIs DEF TaskType, Step, NameStep
<1>3. task' = [task EXCEPT ![t] = new]
  OBVIOUS
<1> HIDE DEF new
<1>4. task'[t] = new
  BY <1>1, <1>3
<1>5. Holds(t)' /\ Sure(t)' /\ InSection(t)
  BY <1>1, <1>2, <1>4 DEF Holds, Sure, Holding, InSection, MirrorStep
<1>6. PlacedIsThere'
  BY <1>1, PlacedKept
<1> QED
  BY <1>1, <1>2, <1>3, <1>5, <1>6, TypesAre, QuietMove

\* A task that goes on with the album it holds, which is still what it was.
LEMMA KeepsHold ==
  ASSUME AlbumsInv, Grows, NEW t \in LibTask, UNCHANGED mirrored,
         NEW at \in {"recordName", "add", "create", "forget"}, Goes(t, at),
         task[t].at \in {"rename", "add"},
         at \in {"create", "forget"} => album_is_gone(task[t].id),
         at = "forget" => task[t].attempt = 0
  PROVE  Holds(t)' /\ (~overlapped => Sure(t)')
<1> DEFINE a == task[t]
<1>1. /\ t \in Task /\ t \notin FolderTask /\ a \in TaskType
      /\ task' = [task EXCEPT ![t].at = at] /\ task \in [Task -> TaskType]
  BY TypesAre DEF Task, Goes
<1>2. /\ task'[t].at = at /\ task'[t].id = a.id /\ task'[t].c = a.c
      /\ task'[t].attempt = a.attempt
  BY <1>1 DEF TaskType
<1>3. MadeFor(a.id, a.c) /\ a.c \in Collection /\ Own(a.c)
  BY <1>1 DEF AlbumsInv, Holds, Holding
<1>4. /\ a.id \in Ids /\ a.id \in Ids' /\ album'[a.id].for = a.c
      /\ album_is_gone(a.id) => ~album[a.id].live /\ ~album'[a.id].live
  BY <1>3, GrownKeeps DEF MadeFor, Grows, album_is_gone
<1>5. ~overlapped => mirrored[a.c] # None /\ mirrored[a.c].id = a.id
  BY DEF AlbumsInv, Sure
<1> HIDE DEF a, Ids
<1> QED
  BY <1>1, <1>2, <1>3, <1>4, <1>5 DEF Holds, Sure, MadeFor, Live, Holding

LEMMA RenameMirrorStep ==
  ASSUME AlbumsInv, NEW t \in LibTask, RenameMirror(t) PROVE AlbumsInv'
<1> DEFINE i == task[t].id
           name == task[t].title[task[t].c]
<1>1. /\ t \in Task /\ task[t] \in TaskType /\ task[t].at = "rename"
      /\ UNCHANGED <<title, mirrored, made, ghosts, acts>>
      /\ InSection(t)
  BY TypesAre DEF Task, RenameMirror, InSection, MirrorStep
<1>2. MadeFor(i, task[t].c) /\ task[t].c \in Collection /\ name \in Title
  BY <1>1 DEF AlbumsInv, Holds, Holding, TaskType
<1>3. \/ rename_album(i, name) /\ Goes(t, "recordName") /\ NoFault
      \/ album_is_gone(i) /\ UNCHANGED album /\ Goes(t, "create") /\ NoFault
      \/ Fault /\ (UNCHANGED album \/ rename_album(i, name)) /\ Goes(t, "add")
  BY DEF RenameMirror
<1>4. Grows /\ faults' \in 0..MaxEvents
  BY <1>1, <1>2, <1>3, RenameGrows, SameGrows, FaultIs
<1>5. PICK at \in {"recordName", "create", "add"} :
        Goes(t, at) /\ (at = "create" => album_is_gone(i))
  BY <1>3
<1>6. Holds(t)' /\ (~overlapped => Sure(t)')
  BY <1>1, <1>4, <1>5, KeepsHold
<1>7. at \in Step
  BY DEF Step, MirrorStep
<1> QED
  BY <1>1, <1>4, <1>5, <1>6, <1>7, GoesMove

\* A gone album is forgotten before a new one is made.
LEMMA AddToMirrorStep ==
  ASSUME AlbumsInv, NEW t \in LibTask, AddToMirror(t) PROVE AlbumsInv'
<1> DEFINE i == task[t].id
<1>1. /\ t \in Task /\ task[t] \in TaskType /\ task[t].at = "add"
      /\ UNCHANGED <<title, mirrored, made, orphan, overlapped, raced, acts>>
      /\ InSection(t)
  BY TypesAre DEF Task, AddToMirror, InSection, MirrorStep
<1>2. MadeFor(i, task[t].c) /\ task[t].c \in Collection
  BY <1>1 DEF AlbumsInv, Holds, Holding
<1>3. faults' \in 0..MaxEvents
  BY FaultIs DEF AddToMirror
<1>4. CASE /\ add_assets_to_album(i, t)
           /\ placed' = placed \cup {<<t, task[t].c>>} /\ UNCHANGED refused
           /\ NextAlbum(t)
  <2>1. Grows /\ t \in album'[i].members
    BY <1>1, <1>2, <1>4, AddGrows DEF MadeFor
  <2>2. i \in Ids' /\ album'[i].for = task[t].c
    BY <1>2, <2>1, GrownKeeps DEF MadeFor, Grows
  <2>3. ASSUME NEW q \in placed' \ refused'
        PROVE  \E j \in Ids' : album'[j].for = q[2] /\ q[1] \in album'[j].members
    <3>1. CASE q = <<t, task[t].c>>
      BY <2>1, <2>2, <3>1
    <3>2. CASE q \in placed \ refused
      <4>1. PICK j \in Ids : album[j].for = q[2] /\ q[1] \in album[j].members
        BY <3>2 DEF AlbumsInv, PlacedIsThere
      <4> QED
        BY <2>1, <4>1, GrownKeeps DEF Grows
    <3> QED
      BY <1>4, <3>1, <3>2
  <2>4. PlacedIsThere' /\ placed' \in SUBSET (LibTask \X Collection)
        /\ refused' \in SUBSET (LibTask \X Collection)
    BY <1>2, <1>4, <2>3, TypesAre DEF PlacedIsThere
  <2> QED
    BY <1>1, <1>3, <1>4, <2>1, <2>4, TypesAre, NextAlbumMove
<1>5. CASE UNCHANGED <<placed, refused>> /\ NextAlbum(t)
           /\ (UNCHANGED album \/ add_assets_to_album(i, t))
  <2>1. Grows
    BY <1>1, <1>2, <1>5, SameGrows, AddGrows DEF MadeFor
  <2> QED
    BY <1>1, <1>3, <1>5, <2>1, PlacedKept, TypesAre, NextAlbumMove
<1>7. CASE /\ UNCHANGED album /\ NextAlbum(t)
           /\ placed' = placed \cup {<<t, task[t].c>>}
           /\ refused' = refused \cup {<<t, task[t].c>>}
  <2>1. Grows
    BY <1>1, <1>7, SameGrows
  <2>2. /\ placed' \in SUBSET (LibTask \X Collection)
        /\ refused' \in SUBSET (LibTask \X Collection)
    BY <1>2, <1>7, TypesAre
  <2>3. PlacedIsThere'
    BY <1>7, <2>1, PlacedKept
  <2> QED
    BY <1>1, <1>3, <1>7, <2>1, <2>2, <2>3, TypesAre, NextAlbumMove
<1>6. CASE /\ album_is_gone(i) /\ task[t].attempt = 0
           /\ UNCHANGED <<album, placed, refused>> /\ Goes(t, "forget")
  <2>1. Grows /\ "forget" \in Step
    BY <1>1, <1>6, SameGrows DEF Step, MirrorStep
  <2>2. Holds(t)' /\ (~overlapped => Sure(t)')
    BY <1>1, <1>6, <2>1, KeepsHold
  <2> QED
    BY <1>1, <1>3, <1>6, <2>1, <2>2, GoesMove DEF ghosts
<1> QED
  BY <1>4, <1>5, <1>6, <1>7 DEF AddToMirror

\* A record after a rename: the mirror's number stays.
LEMMA RecordNameStep ==
  ASSUME AlbumsInv, NEW t \in LibTask, RecordName(t) PROVE AlbumsInv'
<1> DEFINE a == task[t]
           row == [id |-> a.id, name |-> a.title[a.c]]
           new == [a EXCEPT !.at = "add"]
<1>1. /\ t \in Task /\ t \notin FolderTask /\ task \in [Task -> TaskType] /\ a \in TaskType
      /\ a.at = "recordName" /\ InSection(t) /\ Grows
      /\ UNCHANGED <<title, album, made, placed, refused, orphan, overlapped, raced, acts>>
  BY TypesAre, SameGrows DEF Task, RecordName, InSection, MirrorStep, serverVars, ghosts
<1>2. /\ MadeFor(a.id, a.c) /\ a.c \in Collection
      /\ ~overlapped => mirrored[a.c] # None /\ mirrored[a.c].id = a.id
  BY <1>1 DEF AlbumsInv, Holds, Holding, Sure
<1>3. faults' \in 0..MaxEvents
  BY FaultIs DEF RecordName
<1>4. CASE UNCHANGED mirrored /\ NextAlbum(t)
  BY <1>1, <1>3, <1>4, PlacedKept, TypesAre, NextAlbumMove
<1>5. CASE mirrored' = [mirrored EXCEPT ![a.c] = row] /\ Goes(t, "add")
  <2>1. /\ row \in [id : Id, name : Title] /\ row.id = a.id /\ row # None
    <3>1. a.id \in Id /\ a.title[a.c] \in Title /\ row \in [id : Nat, name : Title]
      BY <1>1, <1>2, TypesAre DEF MadeFor, TaskType
    <3> QED
      BY <3>1
  <2> HIDE DEF row
  <2>2. mirrored \in [Collection -> {None} \cup [id : Id, name : Title]]
    BY TypesAre
  <2>3. /\ mirrored' \in [Collection -> {None} \cup [id : Id, name : Title]]
        /\ mirrored'[a.c] = row
        /\ \A c \in Collection \ {a.c} : mirrored'[c] = mirrored[c]
    BY <1>2, <1>5, <2>1, <2>2
  <2>4. new \in TaskType /\ new.at = "add" /\ new.id = a.id /\ new.c = a.c /\ new.pipe = a.pipe
    BY <1>1 DEF TaskType, Step, MirrorStep
  <2>5. task' = [task EXCEPT ![t] = new]
    BY <1>5 DEF Goes
  <2> HIDE DEF new
  <2>6. task'[t] = new /\ \A u \in Task \ {t} : task'[u] = task[u]
    BY <1>1, <2>5
  <2>7. Holds(t)' /\ Sure(t)'
    BY <1>1, <1>2, <2>1, <2>3, <2>4, <2>6 DEF Holds, Sure, MadeFor, Holding
  <2>8. ASSUME NEW c \in Collection PROVE Own(c)'
    <3>1. CASE c = a.c
      BY <1>1, <1>2, <2>1, <2>3, <3>1 DEF Own, MadeFor
    <3>2. CASE c # a.c
      BY <1>1, <2>3, <3>2, OwnKept
    <3> QED
      BY <3>1, <3>2
  <2>9. ASSUME ~overlapped, NEW i \in Ids, NEW c \in Collection, Accounted(i, c)
        PROVE  Accounted(i, c)'
    <3>1. CASE mirrored[c] # None /\ mirrored[c].id = i
      BY <1>2, <2>1, <2>3, <2>9, <3>1 DEF Accounted
    <3>2. CASE \E u \in LibTask : task[u].at = "recordAlbum" /\ task[u].id = i
      BY <1>1, <2>6, <3>2 DEF Accounted, Task
    <3> QED
      BY <1>1, <2>9, <3>1, <3>2 DEF Accounted
  <2> QED
    BY <1>1, <1>3, <2>3, <2>4, <2>5, <2>7, <2>8, <2>9, PlacedKept, TypesAre, TaskMoves
<1> QED
  BY <1>4, <1>5 DEF RecordName

\* The new mirror takes the place of one that is gone.
LEMMA RecordMirrorStep ==
  ASSUME AlbumsInv, NEW t \in LibTask, RecordMirror(t) PROVE AlbumsInv'
<1> DEFINE a == task[t]
           row == [id |-> a.id, name |-> a.title[a.c]]
           new == [a EXCEPT !.at = "add"]
<1>1. /\ t \in Task /\ t \notin FolderTask /\ task \in [Task -> TaskType] /\ a \in TaskType
      /\ a.at = "recordAlbum" /\ InSection(t) /\ Grows
      /\ UNCHANGED <<title, album, made, placed, refused, overlapped, raced, acts>>
  BY TypesAre, SameGrows DEF Task, RecordMirror, InSection, MirrorStep, serverVars
<1>2. /\ MadeFor(a.id, a.c) /\ a.c \in Collection /\ a.id \in Ids
      /\ ~overlapped => mirrored[a.c] = None \/ ~Live(mirrored[a.c].id)
  BY <1>1 DEF AlbumsInv, Holds, Holding, Sure, MadeFor
<1>3. faults' \in 0..MaxEvents
  BY FaultIs DEF RecordMirror
<1>4. CASE UNCHANGED mirrored /\ orphan' = orphan \cup {a.id} /\ NextAlbum(t)
  <2>1. orphan' \in SUBSET Ids /\ orphan \subseteq orphan' /\ a.id \in orphan'
    BY <1>2, <1>4, TypesAre
  <2> QED
    BY <1>1, <1>3, <1>4, <2>1, PlacedKept, TypesAre, NextAlbumMove
<1>5. CASE mirrored' = [mirrored EXCEPT ![a.c] = row] /\ Goes(t, "add") /\ UNCHANGED orphan
  <2>1. /\ row \in [id : Id, name : Title] /\ row.id = a.id /\ row # None
    <3>1. a.id \in Id /\ a.title[a.c] \in Title /\ row \in [id : Nat, name : Title]
      BY <1>1, <1>2, TypesAre DEF MadeFor, TaskType
    <3> QED
      BY <3>1
  <2> HIDE DEF row
  <2>2. mirrored \in [Collection -> {None} \cup [id : Id, name : Title]]
    BY TypesAre
  <2>3. /\ mirrored' \in [Collection -> {None} \cup [id : Id, name : Title]]
        /\ mirrored'[a.c] = row
        /\ \A c \in Collection \ {a.c} : mirrored'[c] = mirrored[c]
    BY <1>2, <1>5, <2>1, <2>2
  <2>4. new \in TaskType /\ new.at = "add" /\ new.id = a.id /\ new.c = a.c /\ new.pipe = a.pipe
    BY <1>1 DEF TaskType, Step, MirrorStep
  <2>5. task' = [task EXCEPT ![t] = new]
    BY <1>5 DEF Goes
  <2> HIDE DEF new
  <2>6. task'[t] = new /\ \A u \in Task \ {t} : task'[u] = task[u]
    BY <1>1, <2>5
  <2>7. Holds(t)' /\ Sure(t)'
    BY <1>1, <1>2, <2>1, <2>3, <2>4, <2>6 DEF Holds, Sure, MadeFor, Holding
  <2>8. ASSUME NEW c \in Collection PROVE Own(c)'
    <3>1. CASE c = a.c
      BY <1>1, <1>2, <2>1, <2>3, <3>1 DEF Own, MadeFor
    <3>2. CASE c # a.c
      BY <1>1, <2>3, <3>2, OwnKept
    <3> QED
      BY <3>1, <3>2
  <2>9. ASSUME ~overlapped, NEW i \in Ids, NEW c \in Collection,
               MadeFor(i, c), Live(i)', Accounted(i, c)
        PROVE  Accounted(i, c)'
    <3>1. CASE mirrored[c] # None /\ mirrored[c].id = i
      <4>1. Live(i)
        BY <1>1, <2>9 DEF Live
      <4>2. c # a.c
        BY <1>2, <2>9, <3>1, <4>1
      <4> QED
        BY <2>3, <3>1, <4>2 DEF Accounted
    <3>2. CASE i = a.id
      <4>1. c = a.c
        BY <1>2, <2>9, <3>2 DEF MadeFor
      <4> QED
        BY <2>1, <2>3, <3>2, <4>1 DEF Accounted
    <3>3. CASE \E u \in LibTask \ {t} : task[u].at = "recordAlbum" /\ task[u].id = i
      BY <1>1, <2>6, <3>3 DEF Accounted, Task
    <3> QED
      BY <1>5, <2>9, <3>1, <3>2, <3>3 DEF Accounted
  <2> QED
    BY <1>1, <1>3, <1>5, <2>3, <2>4, <2>5, <2>7, <2>8, <2>9, PlacedKept, TypesAre, TaskMoves
<1> QED
  BY <1>4, <1>5 DEF RecordMirror

\* What is forgotten was the mirror this task holds, and that is gone.
LEMMA ForgetMirrorStep ==
  ASSUME AlbumsInv, NEW t \in LibTask, ForgetMirror(t) PROVE AlbumsInv'
<1> DEFINE a == task[t]
           new == [a EXCEPT !.at = "create", !.attempt = @ + 1]
<1>1. /\ t \in Task /\ t \notin FolderTask /\ task \in [Task -> TaskType] /\ a \in TaskType
      /\ a.at = "forget" /\ InSection(t) /\ Grows
      /\ UNCHANGED <<title, album, made, placed, refused, orphan, overlapped, raced, acts>>
  BY TypesAre, SameGrows DEF Task, ForgetMirror, InSection, MirrorStep, serverVars, ghosts
<1>2. /\ MadeFor(a.id, a.c) /\ a.c \in Collection /\ ~Live(a.id)
      /\ ~overlapped => mirrored[a.c] # None /\ mirrored[a.c].id = a.id
  BY <1>1 DEF AlbumsInv, Holds, Holding, Sure
<1>3. faults' \in 0..MaxEvents
  BY FaultIs DEF ForgetMirror
<1>4. CASE UNCHANGED mirrored /\ NextAlbum(t)
  BY <1>1, <1>3, <1>4, PlacedKept, TypesAre, NextAlbumMove
<1>5. CASE /\ mirrored' = [mirrored EXCEPT ![a.c] = None]
           /\ task' = [task EXCEPT ![t].at = "create", ![t].attempt = @ + 1]
  <2>1. a.attempt = 0
    BY <1>1 DEF AlbumsInv, Holds
  <2>2. mirrored \in [Collection -> {None} \cup [id : Id, name : Title]]
    BY TypesAre
  <2>3. /\ mirrored' \in [Collection -> {None} \cup [id : Id, name : Title]]
        /\ mirrored'[a.c] = None
        /\ \A c \in Collection \ {a.c} : mirrored'[c] = mirrored[c]
    BY <1>2, <1>5, <2>2
  <2>4. new \in TaskType /\ new.at = "create" /\ new.id = a.id /\ new.c = a.c /\ new.pipe = a.pipe
    <3>1. "create" \in Step /\ a.attempt + 1 \in 0..1
      BY <2>1 DEF Step, MirrorStep
    <3> QED
      BY <1>1, <3>1 DEF TaskType
  <2>5. task' = [task EXCEPT ![t] = new]
    BY <1>5
  <2> HIDE DEF new
  <2>6. task'[t] = new /\ \A u \in Task \ {t} : task'[u] = task[u]
    BY <1>1, <2>5
  <2>7. Holds(t)' /\ Sure(t)'
    BY <1>1, <1>2, <2>3, <2>4, <2>6 DEF Holds, Sure, MadeFor, Holding
  <2>8. ASSUME NEW c \in Collection PROVE Own(c)'
    <3>1. CASE c = a.c
      BY <2>3, <3>1 DEF Own
    <3>2. CASE c # a.c
      BY <1>1, <2>3, <3>2, OwnKept
    <3> QED
      BY <3>1, <3>2
  <2>9. ASSUME ~overlapped, NEW i \in Ids, NEW c \in Collection,
               MadeFor(i, c), Live(i)', Accounted(i, c)
        PROVE  Accounted(i, c)'
    <3>1. CASE mirrored[c] # None /\ mirrored[c].id = i
      <4>1. Live(i)
        BY <1>1, <2>9 DEF Live
      <4>2. c # a.c
        BY <1>2, <2>9, <3>1, <4>1
      <4> QED
        BY <2>3, <3>1, <4>2 DEF Accounted
    <3>2. CASE \E u \in LibTask : task[u].at = "recordAlbum" /\ task[u].id = i
      BY <1>1, <2>6, <3>2 DEF Accounted, Task
    <3> QED
      BY <1>1, <2>9, <3>1, <3>2 DEF Accounted
  <2> QED
    BY <1>1, <1>3, <2>3, <2>4, <2>5, <2>7, <2>8, <2>9, PlacedKept, TypesAre, TaskMoves
<1> QED
  BY <1>4, <1>5 DEF ForgetMirror

\* A new album, made by the tasks of S or by nobody of them.
LEMMA NewAlbum ==
  ASSUME AlbumsInv, NEW S \in SUBSET Task, task' \in [Task -> TaskType],
         \A u \in Task \ S : task'[u] = task[u],
         NEW n \in Title, NEW f \in Purpose, create_album(n, f),
         UNCHANGED <<title, mirrored, placed, refused, overlapped>>,
         orphan' \in SUBSET Ids', orphan \subseteq orphan',
         raced' \in BOOLEAN, raced => raced',
         faults' \in 0..MaxEvents, acts' \in 0..MaxEvents,
         \A u \in S : /\ Holds(u)' /\ task[u].at # "recordAlbum"
                      /\ task'[u].at # "createByName"
                      /\ u \in LibTask /\ InSection(u)' =>
                           InSection(u) /\ task'[u].pipe = task[u].pipe
                      /\ u \in LibTask /\ ~overlapped => Sure(u)',
         \A i \in Ids' \ Ids : f \in Collection => Accounted(i, f)',
         f = "name" => /\ n = AllIn
                       /\ ~raced' => /\ NoneByName
                                     /\ \A u \in Task : task'[u].at # "createByName"
  PROVE  AlbumsInv'
<1>1. /\ Grows /\ made' \in Id /\ made' \notin Ids /\ Ids' = Ids \cup {made'}
      /\ \A i \in Ids : album'[i] = album[i]
      /\ album'[made'].for = f /\ album'[made'].name = n
  BY CreateGrows
<1> HIDE DEF Ids
<1>2. TypeOK'
  BY <1>1, TypesAre, TypesTogether DEF Grows
<1>3. ASSUME NEW u \in Task PROVE Holds(u)'
  BY <1>1, HoldsKept
<1>4. \A c \in Collection : Own(c)'
  BY <1>1, OwnKept
<1>5. LockHeld'
  <2>1. ASSUME NEW u \in LibTask, InSection(u)'
        PROVE  InSection(u) /\ task'[u].pipe = task[u].pipe
    <3>1. CASE u \in S
      BY <2>1, <3>1
    <3>2. CASE u \notin S
      BY <2>1, <3>2 DEF InSection, Task
    <3> QED
      BY <3>1, <3>2
  <2> QED
    BY <2>1, LockKept
<1>6. ASSUME ~overlapped', NEW u \in LibTask PROVE Sure(u)'
  <2>1. Sure(u) /\ u \in Task
    BY <1>6 DEF AlbumsInv, Task
  <2>2. CASE u \in S
    BY <1>6, <2>2
  <2>3. CASE u \notin S
    BY <1>1, <2>1, <2>3, SureKept
  <2> QED
    BY <2>2, <2>3
<1>7. OneMirror'
  <2>1. ASSUME ~overlapped', NEW i \in Ids', NEW c \in Collection,
               album'[i].for = c, album'[i].live
        PROVE  Accounted(i, c)'
    <3>1. CASE i = made'
      <4>1. i \in Ids' \ Ids /\ c = f
        BY <1>1, <2>1, <3>1
      <4> QED
        BY <4>1
    <3>2. CASE i \in Ids
      <4>1. Accounted(i, c)
        BY <1>1, <2>1, <3>2, OneMirrorMeans DEF AlbumsInv
      <4>2. ASSUME NEW u \in LibTask, task[u].at = "recordAlbum"
            PROVE  task'[u] = task[u]
        BY <4>2 DEF Task
      <4> QED
        BY <4>1, <4>2 DEF Accounted
    <3> QED
      BY <1>1, <3>1, <3>2
  <2> QED
    BY <2>1 DEF OneMirror, Accounted
<1>8. NamesStay'
  BY <1>1 DEF AlbumsInv, NamesStay
<1>9. ASSUME ~raced', NEW u \in Task, task'[u].at = "createByName" PROVE NoneByName'
  <2>1. f # "name" /\ u \notin S /\ task'[u] = task[u] /\ ~raced
    BY <1>9
  <2>2. NoneByName
    BY <1>9, <2>1 DEF AlbumsInv
  <2> QED
    BY <1>1, <2>1, <2>2 DEF NoneByName
<1>10. OneByName'
  <2>1. ASSUME ~raced', NEW i \in Ids', NEW j \in Ids',
               album'[i].for = "name", album'[j].for = "name",
               album'[i].live, album'[j].live
        PROVE  i = j
    <3>1. CASE f = "name"
      BY <1>1, <2>1, <3>1 DEF NoneByName
    <3>2. CASE f # "name"
      <4>1. /\ i \in Ids /\ j \in Ids /\ ~raced
            /\ album[i].for = "name" /\ album[j].for = "name" /\ album[i].live /\ album[j].live
        BY <1>1, <2>1, <3>2
      <4> QED
        BY <4>1 DEF AlbumsInv, OneByName
    <3> QED
      BY <3>1, <3>2
  <2> QED
    BY <2>1 DEF OneByName
<1>11. PlacedIsThere'
  BY <1>1, PlacedKept
<1> QED
  BY <1>2, <1>3, <1>4, <1>5, <1>6, <1>7, <1>8, <1>9, <1>10, <1>11 DEF AlbumsInv

LEMMA NewAlbumOfTask ==
  ASSUME AlbumsInv, NEW t \in Task, task' \in [Task -> TaskType],
         \A u \in Task \ {t} : task'[u] = task[u],
         NEW n \in Title, NEW f \in Purpose, create_album(n, f),
         UNCHANGED <<title, mirrored, placed, refused, overlapped, acts>>,
         orphan' \in SUBSET Ids', orphan \subseteq orphan',
         raced' \in BOOLEAN, raced => raced', faults' \in 0..MaxEvents,
         Holds(t)', task[t].at # "recordAlbum", task'[t].at # "createByName",
         t \in LibTask /\ InSection(t)' => InSection(t) /\ task'[t].pipe = task[t].pipe,
         t \in LibTask /\ ~overlapped => Sure(t)',
         \A i \in Ids' \ Ids : f \in Collection => Accounted(i, f)',
         f = "name" => /\ n = AllIn
                       /\ ~raced' => /\ NoneByName
                                     /\ \A u \in Task : task'[u].at # "createByName"
  PROVE  AlbumsInv'
<1> DEFINE S == {t}
<1>1. S \in SUBSET Task /\ acts' \in 0..MaxEvents
  BY TypesAre
<1>2. \A u \in S : /\ Holds(u)' /\ task[u].at # "recordAlbum"
                   /\ task'[u].at # "createByName"
                   /\ u \in LibTask /\ InSection(u)' =>
                        InSection(u) /\ task'[u].pipe = task[u].pipe
                   /\ u \in LibTask /\ ~overlapped => Sure(u)'
  OBVIOUS
<1> QED
  BY <1>1, <1>2, NewAlbum

\* The new mirror is in the task's hands, or its number lost with the answer.
LEMMA CreateMirrorStep ==
  ASSUME AlbumsInv, NEW t \in LibTask, CreateMirror(t) PROVE AlbumsInv'
<1> DEFINE a == task[t]
           name == a.title[a.c]
<1>1. /\ t \in Task /\ t \notin FolderTask /\ task \in [Task -> TaskType] /\ a \in TaskType
      /\ a.at = "create" /\ InSection(t) /\ raced \in BOOLEAN
      /\ UNCHANGED <<title, mirrored, placed, refused, overlapped, raced, acts>>
  BY TypesAre DEF Task, CreateMirror, InSection, MirrorStep
<1> PICK c \in Collection : c = a.c
  BY <1>1 DEF AlbumsInv, Holds
<1> PICK n \in Title : n = name
  BY <1>1 DEF TaskType
<1>2. a.c = c /\ name = n /\ c \in Purpose
  BY DEF Purpose
<1>3. faults' \in 0..MaxEvents
  BY FaultIs DEF CreateMirror
<1>4. CASE /\ create_album(n, c)
           /\ task' = [task EXCEPT ![t].at = "recordAlbum", ![t].id = made + 1]
           /\ UNCHANGED orphan
  <2> DEFINE new == [a EXCEPT !.at = "recordAlbum", !.id = made']
  <2>1. /\ Grows /\ made' = made + 1 /\ made' \in Id /\ made' \in Ids' /\ made' \notin Ids
        /\ album'[made'].for = a.c /\ Ids \subseteq Ids'
        /\ made' \in 0..MaxAlbums
    BY <1>2, <1>4, CreateGrows
  <2>2. /\ new \in TaskType /\ new.at = "recordAlbum" /\ new.id = made' /\ new.c = a.c
        /\ new.pipe = a.pipe
    <3>1. "recordAlbum" \in Step
      BY DEF Step, MirrorStep
    <3> QED
      BY <1>1, <2>1, <3>1 DEF TaskType
  <2>3. task' = [task EXCEPT ![t] = new]
    BY <1>4, <2>1
  <2> HIDE DEF new
  <2>4. /\ task' \in [Task -> TaskType] /\ task'[t] = new
        /\ \A u \in Task \ {t} : task'[u] = task[u]
    BY <1>1, <2>2, <2>3
  <2>5. Holds(t)'
    BY <1>1, <1>2, <2>1, <2>2, <2>4 DEF Holds, MadeFor, Holding
  <2>6. ~overlapped => Sure(t)'
    <3>1. ~overlapped => mirrored[a.c] = None \/ ~Live(mirrored[a.c].id)
      BY <1>1 DEF AlbumsInv, Sure
    <3>2. Own(a.c)
      BY <1>2 DEF AlbumsInv
    <3>3. \A i \in Ids : album'[i].live => album[i].live
      BY <2>1 DEF Grows
    <3> QED
      BY <1>1, <2>2, <2>4, <3>1, <3>2, <3>3 DEF Sure, Own, MadeFor, Live
  <2>7. ASSUME NEW i \in Ids' \ Ids PROVE Accounted(i, c)'
    <3>1. i = made'
      BY <1>1, <2>1, TypesAre
    <3> QED
      BY <2>2, <2>4, <3>1 DEF Accounted
  <2>8. c # "name"
    BY <1>2
  <2>9. orphan' \in SUBSET Ids'
    BY <1>4, <2>1, TypesAre
  <2> QED
    BY <1>1, <1>2, <1>3, <1>4, <2>2, <2>4, <2>5, <2>6, <2>7, <2>8, <2>9, TypesAre,
       NewAlbumOfTask
<1>5. CASE /\ create_album(n, c)
           /\ orphan' = orphan \cup {made + 1}
           /\ NextAlbum(t)
  <2> DEFINE new == [a EXCEPT !.at = "next", !.c = None, !.id = 0, !.attempt = 0]
  <2>1. /\ Grows /\ made' = made + 1 /\ made' \in Id /\ made' \in Ids' /\ Ids \subseteq Ids'
    BY <1>2, <1>5, CreateGrows
  <2>2. new \in TaskType /\ new.at = "next" /\ new.pipe = a.pipe
    <3>1. "next" \in Step /\ 0 \in 0..MaxAlbums /\ 0 \in 0..1
      BY DEF Step, MirrorStep
    <3> QED
      BY <1>1, <3>1 DEF TaskType
  <2>3. task' = [task EXCEPT ![t] = new]
    BY <1>5 DEF NextAlbum
  <2> HIDE DEF new
  <2>4. /\ task' \in [Task -> TaskType] /\ task'[t] = new
        /\ \A u \in Task \ {t} : task'[u] = task[u]
    BY <1>1, <2>2, <2>3
  <2>5. Holds(t)' /\ Sure(t)'
    BY <1>1, <2>2, <2>4 DEF Holds, Sure, Holding
  <2>6. orphan' \in SUBSET Ids' /\ orphan \subseteq orphan'
    BY <1>5, <2>1, TypesAre
  <2>8. ASSUME NEW i \in Ids' \ Ids PROVE Accounted(i, c)'
    <3>1. i = made'
      BY <1>1, <2>1, TypesAre
    <3> QED
      BY <1>5, <2>1, <3>1 DEF Accounted
  <2>7. c # "name"
    BY <1>2
  <2>9. task[t].at # "recordAlbum" /\ task'[t].at = "next" /\ task'[t].pipe = task[t].pipe
    BY <1>1, <2>2, <2>4
  <2>10. create_album(n, c)
    BY <1>5
  <2> HIDE DEF Ids
  <2> QED
    BY <1>1, <1>2, <1>3, <2>4, <2>5, <2>6, <2>7, <2>8, <2>9, <2>10, NewAlbumOfTask
<1>6. CASE UNCHANGED <<serverVars, orphan>> /\ NextAlbum(t)
  <2>1. Grows /\ made' = made
    BY <1>6, SameGrows DEF serverVars
  <2> QED
    BY <1>1, <1>3, <1>6, <2>1, PlacedKept, TypesAre, NextAlbumMove
<1> QED
  BY <1>2, <1>4, <1>5, <1>6 DEF CreateMirror

----------------------------------------------------------------------------
(* By name.                                                                *)

LEMMA ResolveStep ==
  ASSUME AlbumsInv, NEW t \in FolderTask, ResolveAlbumName(t) PROVE AlbumsInv'
<1>1. /\ t \in Task /\ t \notin LibTask /\ task \in [Task -> TaskType] /\ task[t] \in TaskType
      /\ task[t].at = "idle" /\ Goes(t, "find") /\ "find" \in Step /\ Grows
      /\ UNCHANGED <<title, mirrored, album, made, ghosts, faults, acts>>
  BY TypesAre, SameGrows DEF Task, ResolveAlbumName, serverVars, Step, NameStep
<1>2. task'[t].at = "find"
  BY <1>1 DEF Goes, TaskType
<1>3. Holds(t)'
  BY <1>1, <1>2 DEF Holds, NameStep
<1> QED
  BY <1>1, <1>3, TypesAre, GoesMove

\* An album of that name, or none: then none made by name is there.
LEMMA FindByNameStep ==
  ASSUME AlbumsInv, NEW t \in Task, FindByName(t) PROVE AlbumsInv'
<1> DEFINE named == {i \in Ids : album[i].live /\ album[i].name = AllIn}
<1>1. /\ task \in [Task -> TaskType] /\ task[t] \in TaskType /\ task[t].at = "find" /\ Grows
      /\ UNCHANGED <<title, mirrored, album, made, ghosts, acts>>
      /\ t \in LibTask => InSection(t)
  BY TypesAre, SameGrows DEF FindByName, serverVars, InSection, NameStep
<1>2. faults' \in 0..MaxEvents
  BY FaultIs DEF FindByName
<1>3. CASE named = {} /\ Goes(t, "createByName")
  <2>1. NoneByName
    BY <1>3 DEF AlbumsInv, NamesStay, NoneByName
  <2>2. "createByName" \in Step /\ task'[t].at = "createByName"
    BY <1>1, <1>3 DEF Goes, TaskType, Step, NameStep
  <2>3. Holds(t)' /\ Sure(t)'
    BY <1>1, <2>2 DEF Holds, Sure, NameStep, Holding
  <2> QED
    BY <1>1, <1>2, <1>3, <2>1, <2>2, <2>3, GoesMove
<1>4. CASE \E i \in named : task' = [task EXCEPT ![t].at = "addByName", ![t].id = i]
  <2>1. PICK i \in Ids : task' = [task EXCEPT ![t].at = "addByName", ![t].id = i]
    BY <1>4
  <2> DEFINE new == [task[t] EXCEPT !.at = "addByName", !.id = i]
  <2>2. i \in 0..MaxAlbums
    BY TypesAre
  <2>3. new \in TaskType /\ new.at = "addByName" /\ new.id = i /\ new.pipe = task[t].pipe
    <3>1. "addByName" \in Step
      BY DEF Step, NameStep
    <3> QED
      BY <1>1, <2>2, <3>1 DEF TaskType
  <2>4. task' = [task EXCEPT ![t] = new]
    BY <2>1
  <2> HIDE DEF new
  <2>5. task'[t] = new /\ i \in Ids'
    BY <1>1, <2>4
  <2>6. Holds(t)' /\ Sure(t)'
    BY <1>1, <2>3, <2>5 DEF Holds, Sure, NameStep, Holding
  <2>7. PlacedIsThere'
    BY <1>1, PlacedKept DEF ghosts
  <2> QED
    BY <1>1, <1>2, <2>3, <2>4, <2>6, <2>7, TypesAre, QuietMove DEF ghosts
<1>5. CASE Done(t)
  BY <1>1, <1>2, <1>5, DoneMove
<1> QED
  BY <1>3, <1>4, <1>5 DEF FindByName

\* Two creations by name race only if no lock orders them.
LEMMA CreateByNameStep ==
  ASSUME AlbumsInv, NEW t \in Task, CreateByName(t) PROVE AlbumsInv'
<1>1. /\ task \in [Task -> TaskType] /\ task[t] \in TaskType /\ task[t].at = "createByName"
      /\ UNCHANGED <<title, mirrored, placed, refused, orphan, overlapped, acts>>
      /\ t \in LibTask => InSection(t)
      /\ AllIn \in Title /\ "name" \in Purpose /\ "name" \notin Collection
  BY TypesAre DEF CreateByName, InSection, NameStep, Purpose
<1>2. faults' \in 0..MaxEvents
  BY FaultIs DEF CreateByName
<1>3. CASE UNCHANGED <<serverVars, raced>> /\ Done(t)
  <2>1. Grows /\ made' = made
    BY <1>3, SameGrows DEF serverVars
  <2> QED
    BY <1>1, <1>2, <1>3, <2>1, DoneMove DEF ghosts
<1>4. CASE /\ create_album(AllIn, "name")
           /\ \/ task' = [task EXCEPT ![t].at = "addByName", ![t].id = made + 1]
              \/ Done(t)
           /\ raced' = (raced \/ \E u \in Task \ {t} :
                                   task[u].at = "createByName" /\ Unordered(t, u))
  <2>1. /\ Grows /\ made' = made + 1 /\ made' \in Id /\ made' \in Ids' /\ Ids \subseteq Ids'
        /\ made' \in 0..MaxAlbums
    BY <1>1, <1>4, CreateGrows
  <2>2. PICK new \in TaskType :
          /\ task' = [task EXCEPT ![t] = new]
          /\ \/ new.at = "addByName" /\ new.id = made' /\ new.pipe = task[t].pipe
             \/ new.at = "done"
    <3>1. CASE task' = [task EXCEPT ![t].at = "addByName", ![t].id = made + 1]
      <4> DEFINE n == [task[t] EXCEPT !.at = "addByName", !.id = made']
      <4>1. "addByName" \in Step
        BY DEF Step, NameStep
      <4>2. n \in TaskType /\ n.at = "addByName" /\ n.id = made' /\ n.pipe = task[t].pipe
        BY <1>1, <2>1, <4>1 DEF TaskType
      <4>3. task' = [task EXCEPT ![t] = n]
        BY <2>1, <3>1
      <4> QED
        BY <4>2, <4>3
    <3>2. CASE Done(t)
      <4>1. [Idle EXCEPT !.at = "done"] \in TaskType /\ [Idle EXCEPT !.at = "done"].at = "done"
        BY IdleIs DEF TaskType, Step
      <4> QED
        BY <3>2, <4>1 DEF Done
    <3> QED
      BY <1>4, <3>1, <3>2
  <2>3. /\ task' \in [Task -> TaskType] /\ task'[t] = new
        /\ \A u \in Task \ {t} : task'[u] = task[u]
    BY <1>1, <2>2
  <2>4. task[t].at # "recordAlbum" /\ task'[t].at \in {"addByName", "done"}
    BY <1>1, <2>2, <2>3
  <2>5. Holds(t)' /\ Sure(t)'
    BY <1>1, <2>1, <2>2, <2>3 DEF Holds, Sure, NameStep, Holding
  <2>6. t \in LibTask /\ InSection(t)' => InSection(t) /\ task'[t].pipe = task[t].pipe
    BY <1>1, <2>2, <2>3 DEF InSection, MirrorStep, NameStep
  <2>7. orphan' \in SUBSET Ids' /\ orphan \subseteq orphan'
    BY <1>1, <2>1, TypesAre
  <2>8. raced' \in BOOLEAN /\ (raced => raced')
    BY <1>4, TypesAre
  <2>9. ASSUME ~raced' PROVE NoneByName /\ \A u \in Task : task'[u].at # "createByName"
    <3>1. ~raced /\ ~\E u \in Task \ {t} : task[u].at = "createByName" /\ Unordered(t, u)
      BY <1>4, <2>9, TypesAre
    <3>2. NoneByName
      BY <1>1, <3>1 DEF AlbumsInv
    <3>3. ASSUME NEW u \in Task, task'[u].at = "createByName" PROVE FALSE
      <4>1. u # t /\ task[u].at = "createByName"
        BY <2>3, <2>4, <3>3
      <4>2. t \in LibTask /\ u \in LibTask /\ task[t].pipe = task[u].pipe
        BY <3>1, <4>1 DEF Unordered, Task
      <4>3. InSection(t) /\ InSection(u)
        BY <1>1, <4>1, <4>2 DEF InSection, NameStep
      <4> QED
        BY <4>1, <4>2, <4>3 DEF AlbumsInv, LockHeld
    <3> QED
      BY <3>2, <3>3
  <2>10. create_album(AllIn, "name")
    BY <1>4
  <2> HIDE DEF Ids
  <2> QED
    BY <1>1, <1>2, <2>3, <2>4, <2>5, <2>6, <2>7, <2>8, <2>9, <2>10, NewAlbumOfTask
<1> QED
  BY <1>3, <1>4 DEF CreateByName

LEMMA AddByNameStep ==
  ASSUME AlbumsInv, NEW t \in Task, AddByName(t) PROVE AlbumsInv'
<1>1. /\ task[t].at = "addByName" /\ Done(t)
      /\ UNCHANGED <<title, mirrored, made, ghosts, acts>>
      /\ faults' \in 0..MaxEvents
  BY FaultIs DEF AddByName
<1>2. task[t].id \in Ids
  BY <1>1 DEF AlbumsInv, Holds
<1>3. Grows
  <2>1. CASE UNCHANGED album
    BY <1>1, <2>1, SameGrows
  <2>2. CASE add_assets_to_album(task[t].id, t)
    BY <1>1, <1>2, <2>2, AddGrows
  <2> QED
    BY <2>1, <2>2 DEF AddByName
<1> QED
  BY <1>1, <1>3, DoneMove

----------------------------------------------------------------------------
(* People, and the end of the process.                                     *)

\* Nothing but names in Photos, albums that are gone, and counts.
LEMMA AsideStep ==
  ASSUME AlbumsInv, title' \in [Collection -> Title], Grows, made' = made,
         UNCHANGED <<mirrored, task, ghosts>>,
         faults' \in 0..MaxEvents, acts' \in 0..MaxEvents
  PROVE  AlbumsInv'
<1> USE DEF ghosts
<1>1. Ids' = Ids
  OBVIOUS
<1>2. TypeOK'
  BY <1>1, TypesAre, TypesTogether DEF Grows
<1>3. (\A u \in Task : Holds(u)') /\ (\A c \in Collection : Own(c)') /\ PlacedIsThere'
  BY HoldsKept, OwnKept, PlacedKept
<1>4. LockHeld'
  BY DEF AlbumsInv, LockHeld, InSection
<1>5. ~overlapped' => \A u \in LibTask : Sure(u)'
  BY SureKept DEF AlbumsInv
<1>6. OneMirror'
  <2>1. ASSUME ~overlapped', NEW i \in Ids', NEW c \in Collection,
               album'[i].for = c, album'[i].live
        PROVE  Accounted(i, c)'
    <3>1. album[i].for = c /\ album[i].live /\ i \in Ids
      BY <1>1, <2>1 DEF Grows
    <3>2. Accounted(i, c)
      BY <2>1, <3>1, OneMirrorMeans DEF AlbumsInv
    <3> QED
      BY <3>2 DEF Accounted
  <2> QED
    BY <2>1 DEF OneMirror, Accounted
<1>7. NamesStay' /\ (NoneByName => NoneByName')
  BY <1>1 DEF AlbumsInv, NamesStay, NoneByName, Grows
<1>8. ~raced' => \A u \in Task : task'[u].at = "createByName" => NoneByName'
  BY <1>7 DEF AlbumsInv
<1>9. OneByName'
  <2>1. ASSUME ~raced', NEW i \in Ids', NEW j \in Ids',
               album'[i].for = "name", album'[j].for = "name",
               album'[i].live, album'[j].live
        PROVE  i = j
    <3>1. /\ i \in Ids /\ j \in Ids /\ ~raced
          /\ album[i].for = "name" /\ album[j].for = "name" /\ album[i].live /\ album[j].live
      BY <1>1, <2>1 DEF Grows
    <3> HIDE DEF Ids
    <3> QED
      BY <3>1 DEF AlbumsInv, OneByName
  <2> QED
    BY <2>1 DEF OneByName
<1> QED
  BY <1>2, <1>3, <1>4, <1>5, <1>6, <1>7, <1>8, <1>9 DEF AlbumsInv

LEMMA ActIs ==
  ASSUME AlbumsInv, Act PROVE acts' \in 0..MaxEvents
  BY TypesAre DEF Act

LEMMA RenamePhotosAlbumStep ==
  ASSUME AlbumsInv, NEW c \in Collection, RenamePhotosAlbum(c) PROVE AlbumsInv'
<1>1. /\ title' \in [Collection -> Title] /\ acts' \in 0..MaxEvents
      /\ UNCHANGED <<mirrored, album, made, task, ghosts, faults>>
  BY TypesAre, ActIs DEF RenamePhotosAlbum, serverVars
<1> QED
  BY <1>1, TypesAre, SameGrows, AsideStep

LEMMA PersonDeletesStep ==
  ASSUME AlbumsInv, PersonDeletesAlbum PROVE AlbumsInv'
<1>1. PICK i \in Ids : album' = [album EXCEPT ![i].live = FALSE]
  BY DEF PersonDeletesAlbum
<1>2. UNCHANGED <<title, mirrored, made, task, ghosts, faults>> /\ acts' \in 0..MaxEvents
  BY ActIs DEF PersonDeletesAlbum
<1> QED
  BY <1>1, <1>2, TypesAre, DeleteGrows, AsideStep

LEMMA PersonMakesStep ==
  ASSUME AlbumsInv, PersonMakesAlbum PROVE AlbumsInv'
<1> DEFINE S == {}
<1>1. PICK n \in Title : create_album(n, "person")
  BY DEF PersonMakesAlbum
<1>2. /\ UNCHANGED <<title, mirrored, task, placed, refused, orphan, overlapped, raced, faults>>
      /\ acts' \in 0..MaxEvents
  BY ActIs DEF PersonMakesAlbum, ghosts
<1>3. "person" \in Purpose /\ "person" \notin Collection
  BY DEF Purpose
<1>4. Ids \subseteq Ids' /\ orphan' \in SUBSET Ids'
  BY <1>1, <1>2, <1>3, CreateGrows, TypesAre
<1>5. S \in SUBSET Task /\ task' \in [Task -> TaskType] /\ faults' \in 0..MaxEvents
      /\ raced' \in BOOLEAN /\ \A u \in Task \ S : task'[u] = task[u]
  BY <1>2, TypesAre
<1> HIDE DEF Ids
<1> QED
  BY <1>1, <1>2, <1>3, <1>4, <1>5, NewAlbum

\* What a task was about to record is lost with it.
LEMMA AlbumsEndStep ==
  ASSUME AlbumsInv, ProcessEnds PROVE AlbumsInv'
<1> USE DEF ProcessEnds
<1>1. /\ task \in [Task -> TaskType] /\ Grows /\ faults' \in 0..MaxEvents
      /\ UNCHANGED <<title, mirrored, album, made, placed, refused, overlapped, raced, acts>>
      /\ task' = [t \in Task |-> IF task[t].at = "done" THEN task[t] ELSE Idle]
      /\ orphan' = orphan \cup {task[t].id : t \in {u \in Task : task[u].at = "recordAlbum"}}
  BY TypesAre, SameGrows, FaultIs DEF serverVars
<1>2. /\ task' \in [Task -> TaskType]
      /\ \A u \in Task : task'[u].at \in {"done", "idle"}
  BY <1>1, IdleIs
<1>3. \A u \in Task : Holds(u)' /\ Sure(u)' /\ ~InSection(u)'
  BY <1>2 DEF Holds, Sure, InSection, Holding, MirrorStep, NameStep
<1>4. ASSUME NEW u \in Task, task[u].at = "recordAlbum" PROVE task[u].id \in Ids
  <2>1. u \in LibTask
    BY <1>4 DEF AlbumsInv, Holds, Task, NameStep
  <2> QED
    BY <1>4, <2>1 DEF AlbumsInv, Holds, Holding, MadeFor, Task
<1>5. orphan' \in SUBSET Ids' /\ orphan \subseteq orphan'
  BY <1>1, <1>4, TypesAre
<1>6. TypeOK'
  BY <1>1, <1>2, <1>5, TypesAre, TypesTogether
<1>7. \A c \in Collection : Own(c)'
  BY <1>1, OwnKept
<1>8. LockHeld' /\ (~overlapped' => \A u \in LibTask : Sure(u)')
  BY <1>3 DEF LockHeld, Task
<1>9. OneMirror'
  <2>1. ASSUME ~overlapped', NEW i \in Ids', NEW c \in Collection,
               album'[i].for = c, album'[i].live
        PROVE  Accounted(i, c)'
    <3>1. Accounted(i, c)
      BY <1>1, <2>1, OneMirrorMeans DEF AlbumsInv
    <3> QED
      BY <1>1, <3>1 DEF Accounted, Task
  <2> QED
    BY <2>1 DEF OneMirror, Accounted
<1>10. NamesStay' /\ OneByName' /\ PlacedIsThere'
  BY <1>1 DEF AlbumsInv, NamesStay, OneByName, PlacedIsThere
<1>11. \A u \in Task : task'[u].at # "createByName"
  BY <1>2
<1> QED
  BY <1>3, <1>6, <1>7, <1>8, <1>9, <1>10, <1>11 DEF AlbumsInv

----------------------------------------------------------------------------
(* The theorems.                                                           *)

LEMMA InitAlbums == Init => AlbumsInv
<1> SUFFICES ASSUME Init PROVE AlbumsInv
  OBVIOUS
<1> USE DEF Init
<1>1. \A u \in Task : task[u] = Idle /\ Holds(u) /\ Sure(u) /\ ~InSection(u)
  BY IdleIs DEF Holds, Sure, InSection, Holding, MirrorStep, NameStep
<1>2. TypeOK
  <2>1. task \in [Task -> TaskType]
    BY IdleIs
  <2>2. made \in 0..MaxAlbums /\ Ids = {} /\ album \in [Ids -> AlbumType]
    OBVIOUS
  <2>3. /\ title \in [Collection -> Title]
        /\ mirrored \in [Collection -> {None} \cup [id : Id, name : Title]]
    OBVIOUS
  <2>4. placed \in SUBSET (LibTask \X Collection) /\ orphan \in SUBSET Ids
        /\ refused \in SUBSET (LibTask \X Collection)
    <3>1. placed = {} /\ refused = {} /\ orphan = {}
      OBVIOUS
    <3> HIDE DEF Init, Ids
    <3> QED
      BY <3>1
  <2>5. overlapped \in BOOLEAN /\ raced \in BOOLEAN
    OBVIOUS
  <2>6. faults \in 0..MaxEvents /\ acts \in 0..MaxEvents
    OBVIOUS
  <2> HIDE DEF Init
  <2> QED
    BY <2>1, <2>2, <2>3, <2>4, <2>5, <2>6 DEF TypeOK, TaskType, AlbumType
<1>3. (\A c \in Collection : Own(c)) /\ LockHeld /\ \A u \in LibTask : Sure(u)
  BY <1>1 DEF Own, LockHeld, Task
<1>4. OneMirror /\ NamesStay /\ OneByName /\ PlacedIsThere
  BY DEF OneMirror, NamesStay, OneByName, PlacedIsThere
<1>5. \A u \in Task : task[u].at # "createByName"
  BY <1>1, IdleIs
<1> QED
  BY <1>1, <1>2, <1>3, <1>4, <1>5 DEF AlbumsInv

LEMMA NextAlbums == AlbumsInv /\ [Next]_vars => AlbumsInv'
<1> SUFFICES ASSUME AlbumsInv, [Next]_vars PROVE AlbumsInv'
  OBVIOUS
<1>1. CASE \/ \E c \in Collection : RenamePhotosAlbum(c)
           \/ PersonMakesAlbum \/ PersonDeletesAlbum \/ ProcessEnds
  BY <1>1, RenamePhotosAlbumStep, PersonMakesStep, PersonDeletesStep, AlbumsEndStep
<1>2. CASE \E t \in LibTask : LibStep(t)
  BY <1>2, ExportStep, TakeAlbumLockStep, PlaceInMirrorStep, MirrorsDoneStep,
     RenameMirrorStep, RecordNameStep, CreateMirrorStep, RecordMirrorStep,
     AddToMirrorStep, ForgetMirrorStep DEF LibStep
<1>3. CASE \E t \in FolderTask : ResolveAlbumName(t)
  BY <1>3, ResolveStep
<1>4. CASE \E t \in Task : ByName(t)
  BY <1>4, FindByNameStep, CreateByNameStep, AddByNameStep DEF ByName
<1>5. CASE UNCHANGED vars
  BY <1>5, TypesAre, SameGrows, AsideStep DEF vars, serverVars
<1> QED
  BY <1>1, <1>2, <1>3, <1>4, <1>5 DEF Next

THEOREM AlbumsInvariant == Spec => []AlbumsInv
  BY InitAlbums, NextAlbums, PTL DEF Spec

\* Tasks, rows and the server's albums keep their shape.
THEOREM AlbumTypes == Spec => []TypeOK
<1>1. AlbumsInv => TypeOK
  BY DEF AlbumsInv
<1> QED
  BY <1>1, AlbumsInvariant, PTL

\* Whatever albums people make, rename and delete, and whatever fails: the row
\* of a Photos album names an album that was made for it.
THEOREM MirrorsStayOwn == Spec => []MirrorsAreOwn
<1>1. AlbumsInv => MirrorsAreOwn
  BY DEF AlbumsInv, Own, MadeFor, MirrorsAreOwn
<1> QED
  BY <1>1, AlbumsInvariant, PTL

\* No second mirror of a Photos album, unless two pipelines were in their
\* sections at once, or a failure lost the first one's number.
THEOREM NoSecondMirror == Spec => []OneMirror
<1>1. AlbumsInv => OneMirror
  BY DEF AlbumsInv
<1> QED
  BY <1>1, AlbumsInvariant, PTL

\* The lock keeps two tasks of a pipeline from making two albums of one name.
THEOREM NoSecondByName == Spec => []OneByName
<1>1. AlbumsInv => OneByName
  BY DEF AlbumsInv
<1> QED
  BY <1>1, AlbumsInvariant, PTL

\* What a placement reports is so, unless the server's success was a refusal,
\* though the album was renamed, forgotten or made anew meanwhile.
THEOREM PlacementsHold == Spec => []PlacedIsThere
<1>1. AlbumsInv => PlacedIsThere
  BY DEF AlbumsInv
<1> QED
  BY <1>1, AlbumsInvariant, PTL
=============================================================================
