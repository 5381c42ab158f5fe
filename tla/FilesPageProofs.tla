--------------------------- MODULE FilesPageProofs ---------------------------
(***************************************************************************)
(* Proofs about FilesPage for every set of folders and files and every     *)
(* number of changes and lost answers: the page shows the folder that the   *)
(* URL names, with the files it has, and the modal shows what was clicked.  *)
(***************************************************************************)
EXTENDS FilesPage, TLAPS

-----------------------------------------------------------------------------
(* Types *)

Ids == Files \cup Folders

Lists == [Places -> {None} \cup SUBSET Files]
Fetches == [Places -> {Idle} \cup SUBSET Files]

TabType ==
    [url : Places \cup {Elsewhere}, request : Places, directory : Places,
     tree : {None} \cup SUBSET Folders, treeFetch : {Idle} \cup SUBSET Folders,
     treeOK : BOOLEAN, list : Lists, fetch : Fetches,
     selected : Files \cup {None}, open : BOOLEAN, chosen : Files \cup {None},
     astray : BOOLEAN, op : Ops \cup {Idle}]

Made == {x \in Ids : home[x] # None}

Base ==
    /\ home \in [Ids -> Places \cup {None}]
    /\ trashed \subseteq Made
    /\ tab \in TabType
    /\ late \subseteq Places \cup {None}
    /\ lost \in Nat /\ changes \in Nat /\ lost + changes <= MaxEvents

LEMMA BaseIsTypeOK == Base <=> TypeOK
BY DEF Base, TypeOK, TabType, Lists, Fetches, Made, Ids

LEMMA Distinct ==
    /\ Files \cap Folders = {} /\ Files \cap Places = {}
    /\ Root \in Places /\ Root \notin Folders /\ Elsewhere \notin Places
    /\ None \notin Places /\ None \notin Files /\ None \notin Folders /\ None # Elsewhere
    /\ Idle # None /\ Idle \notin Places /\ Idle \notin Ops
    /\ None \notin SUBSET Files /\ Idle \notin SUBSET Files
    /\ None \notin SUBSET Folders /\ Idle \notin SUBSET Folders
    /\ Folders \subseteq Places
BY FilesPageAssumption, NoneAssumption DEF Places

\* What a list or the tree is read to be.
LEMMA ReadTypes ==
    ASSUME home \in [Ids -> Places \cup {None}]
    PROVE  /\ \A p \in Places : Contents(p) \in SUBSET Files /\ Contents(p) # Idle /\ Contents(p) # None
                                /\ Contents(p) \subseteq Made
           /\ folders \in SUBSET Folders /\ folders # Idle /\ folders # None /\ folders \subseteq Made
<1>1. \A p \in Places : Contents(p) \in SUBSET Files /\ Contents(p) \subseteq Made
  BY Distinct DEF Contents, Made, Ids
<1>2. folders \in SUBSET Folders /\ folders \subseteq Made
  BY Distinct DEF folders, Made, Ids
<1>3. QED
  BY <1>1, <1>2, Distinct

LEMMA DerivedTypes ==
    ASSUME NEW t \in TabType
    PROVE  /\ Requested(t) \in Places /\ Directory(t) \in Places
           /\ Observed(t) \in Places \cup {None}
           /\ Observed(t) # None => Observed(t) = Directory(t)
           /\ Records(t) \in SUBSET Files /\ Rows(t) \in SUBSET Records(t)
<1>1. Requested(t) \in Places /\ Directory(t) \in Places
  BY Distinct DEF Requested, Directory, TabType
<1>2. Observed(t) \in Places \cup {None} /\ (Observed(t) # None => Observed(t) = Directory(t))
  BY <1>1 DEF Observed
<1>3. t.list[Directory(t)] \in {None} \cup SUBSET Files
  BY <1>1 DEF TabType, Lists
<1>4. Records(t) \in SUBSET Files /\ Rows(t) \in SUBSET Records(t)
  BY <1>3 DEF Records, Rows
<1>5. QED
  BY <1>1, <1>2, <1>4

-----------------------------------------------------------------------------
(* The effects *)

\* What the effects leave alone.
SameData(t, u) ==
    /\ u.tree = t.tree /\ u.treeFetch = t.treeFetch /\ u.treeOK = t.treeOK
    /\ u.list = t.list /\ u.open = t.open /\ u.op = t.op

SameChoice(t, u) == u.selected = t.selected /\ u.chosen = t.chosen /\ u.astray = t.astray

\* The tree has told what the URL asks for, and the URL asks for a folder of it.
Settled(t) ==
    t.treeOK =>
        /\ t.request = Requested(t)
        /\ t.directory = IF Requested(t) \in t.tree THEN Requested(t) ELSE Root
        /\ t.url \in Folders => t.url \in t.tree

LEMMA ResolveEffect ==
    ASSUME NEW t \in TabType
    PROVE  /\ Resolve(t) \in TabType /\ SameData(t, Resolve(t)) /\ SameChoice(t, Resolve(t))
           /\ Resolve(t).url = t.url /\ Resolve(t).fetch = t.fetch
           /\ t.treeOK => /\ Resolve(t).request = Requested(t)
                          /\ Resolve(t).directory = IF Requested(t) \in t.tree THEN Requested(t) ELSE Root
<1>1. CASE t.treeOK
  <2> DEFINE r == Requested(t)
             d == IF r \in t.tree THEN r ELSE Root
             u == [t EXCEPT !.request = r, !.directory = d]
  <2>1. Resolve(t) = u
    BY <1>1 DEF Resolve
  <2>2. r \in Places /\ d \in Places
    BY DerivedTypes, Distinct
  <2> HIDE DEF r, d
  <2>3. u \in TabType
    BY <2>2 DEF TabType
  <2>4. /\ SameData(t, u) /\ SameChoice(t, u) /\ u.url = t.url /\ u.fetch = t.fetch
        /\ u.request = r /\ u.directory = d
    BY DEF TabType, SameData, SameChoice
  <2> HIDE DEF u
  <2>5. QED
    BY <2>1, <2>3, <2>4 DEF r, d
<1>2. CASE ~t.treeOK
  BY <1>2 DEF Resolve, SameData, SameChoice
<1>3. QED
  BY <1>1, <1>2

LEMMA RedirectEffect ==
    ASSUME NEW t \in TabType
    PROVE  LET u == RedirectUnknown(Resolve(t)) IN
           u \in TabType /\ SameData(t, u) /\ SameChoice(t, u) /\ u.fetch = t.fetch /\ Settled(u)
<1> DEFINE r == Resolve(t)
           v == [r EXCEPT !.url = Root]
<1>1. /\ r \in TabType /\ SameData(t, r) /\ SameChoice(t, r) /\ r.url = t.url /\ r.fetch = t.fetch
      /\ t.treeOK => /\ r.request = Requested(t)
                     /\ r.directory = IF Requested(t) \in t.tree THEN Requested(t) ELSE Root
  BY ResolveEffect
<1>2. Requested(r) = Requested(t)
  BY <1>1 DEF Requested
<1> HIDE DEF r
<1>3. CASE r.url \in Folders /\ Ready(r) /\ Directory(r) = Root
  <2>1. RedirectUnknown(r) = Resolve(v)
    BY <1>3 DEF RedirectUnknown
  <2>2. v \in TabType /\ SameData(r, v) /\ SameChoice(r, v) /\ v.fetch = r.fetch /\ v.url = Root
    BY <1>1, Distinct DEF TabType, SameData, SameChoice
  <2> HIDE DEF v
  <2>3. /\ Resolve(v) \in TabType /\ SameData(v, Resolve(v)) /\ SameChoice(v, Resolve(v))
        /\ Resolve(v).url = v.url /\ Resolve(v).fetch = v.fetch
        /\ v.treeOK => /\ Resolve(v).request = Requested(v)
                       /\ Resolve(v).directory = IF Requested(v) \in v.tree THEN Requested(v) ELSE Root
    BY <2>2, ResolveEffect
  <2>4. Settled(Resolve(v))
    <3>1. Requested(Resolve(v)) = Requested(v)
      BY <2>3 DEF Requested
    <3>2. QED
      BY <2>2, <2>3, <3>1, Distinct DEF Settled, SameData
  <2>5. QED
    BY <1>1, <2>1, <2>2, <2>3, <2>4 DEF SameData, SameChoice, r
<1>4. CASE ~(r.url \in Folders /\ Ready(r) /\ Directory(r) = Root)
  <2>1. RedirectUnknown(r) = r
    BY <1>4 DEF RedirectUnknown
  <2>2. ASSUME r.treeOK PROVE r.url \in Folders => r.url \in r.tree
    <3>1. r.request = Requested(r) /\ r.directory = IF Requested(r) \in r.tree THEN Requested(r) ELSE Root
      BY <1>1, <1>2, <2>2 DEF SameData
    <3>2. r.url \in Folders => Requested(r) = r.url
      BY Distinct DEF Requested
    <3>3. r.url \in Folders => Ready(r) /\ Directory(r) = r.directory
      BY <2>2, <3>1, <3>2 DEF Ready, Directory
    <3>4. QED
      BY <1>4, <3>1, <3>2, <3>3
  <2>3. Settled(r)
    BY <1>1, <1>2, <2>2 DEF Settled, SameData
  <2>4. QED
    BY <1>1, <2>1, <2>3 DEF r
<1>5. QED
  BY <1>3, <1>4

\* What is on the screen is said by these.
SameView(t, u) == u.url = t.url /\ u.request = t.request /\ u.directory = t.directory

LEMMA SameViewObserves ==
    ASSUME NEW t \in TabType, NEW u \in TabType, SameView(t, u), u.treeOK = t.treeOK
    PROVE  Observed(u) = Observed(t) /\ Directory(u) = Directory(t)
BY DEF SameView, Observed, Ready, Directory, Requested

LEMMA ObserveEffect ==
    ASSUME home \in [Ids -> Places \cup {None}], NEW before \in TabType, NEW t \in TabType
    PROVE  LET u == Observe(before, t) IN
           /\ u \in TabType /\ SameData(t, u) /\ SameChoice(t, u) /\ SameView(t, u)
           /\ \A p \in Places : u.fetch[p] \in {t.fetch[p], Contents(p)}
           /\ Observed(u) \in {None, Observed(before)} \/ u.fetch[Observed(u)] # Idle
<1> DEFINE place == Observed(t)
           u == Observe(before, t)
<1>1. CASE place \in {None, Observed(before)} \/ t.fetch[place] # Idle
  <2>1. u = t
    BY <1>1 DEF Observe
  <2>2. QED
    BY <1>1, <2>1 DEF SameData, SameChoice, SameView
<1>2. CASE ~(place \in {None, Observed(before)} \/ t.fetch[place] # Idle)
  <2> DEFINE f == [t.fetch EXCEPT ![place] = Contents(place)]
             v == [t EXCEPT !.fetch = f]
  <2>1. u = v
    BY <1>2 DEF Observe
  <2>2. place \in Places /\ Contents(place) \in SUBSET Files /\ Contents(place) # Idle
    BY <1>2, DerivedTypes, ReadTypes
  <2>3. t.fetch \in Fetches
    BY DEF TabType
  <2>4. f \in Fetches
    BY <2>2, <2>3 DEF Fetches
  <2>5. f[place] = Contents(place) /\ \A p \in Places : f[p] \in {t.fetch[p], Contents(p)}
    BY <2>2, <2>3 DEF Fetches
  <2> HIDE DEF f, place
  <2>6. v \in TabType
    BY <2>4 DEF TabType
  <2>7. v.fetch = f /\ SameData(t, v) /\ SameChoice(t, v) /\ SameView(t, v)
    BY DEF TabType, SameData, SameChoice, SameView
  <2> HIDE DEF v
  <2>8. Observed(v) = place
    BY <2>6, <2>7, SameViewObserves DEF SameData, place
  <2>9. QED
    BY <2>1, <2>2, <2>5, <2>6, <2>7, <2>8
<1>3. QED
  BY <1>1, <1>2

\* What selecting a record does: what is selected stays so, unless new records come
\* without it.
LEMMA ReselectEffect ==
    ASSUME NEW before, NEW t \in TabType,
           NEW first \in IF Records(t) = {} THEN {None} ELSE Records(t)
    PROVE  LET u == Reselect(before, t, first) IN
           /\ u \in TabType /\ SameData(t, u) /\ SameView(t, u)
           /\ u.fetch = t.fetch /\ u.chosen = t.chosen
           /\ ~NewRecords(before, t) \/ t.selected \in Records(t) => u.selected = t.selected
           /\ u.selected = t.selected \/ u.selected \in Records(t) \cup {None}
           /\ Records(u) = Records(t) /\ Rows(u) = Rows(t)
<1> DEFINE u == Reselect(before, t, first)
           s == IF Records(t) = {} THEN None ELSE IF t.selected \in Records(t) THEN t.selected ELSE first
           v == [t EXCEPT !.selected = s]
<1>1. (u = t \/ u = v) /\ (~NewRecords(before, t) => u = t)
  BY DEF Reselect
<1>2. Records(t) \in SUBSET Files
  BY DerivedTypes
<1>3. s \in Records(t) \cup {None} /\ (t.selected \in Records(t) => s = t.selected)
  OBVIOUS
<1> HIDE DEF s
<1>4. v \in TabType
  BY <1>2, <1>3 DEF TabType
<1>5. /\ SameData(t, v) /\ SameView(t, v) /\ v.fetch = t.fetch /\ v.chosen = t.chosen
      /\ v.selected = s
  BY DEF TabType, SameData, SameView
<1> HIDE DEF v
<1>6. Records(v) = Records(t) /\ Rows(v) = Rows(t)
  <2>1. Observed(v) = Observed(t) /\ Directory(v) = Directory(t)
    BY <1>4, <1>5, SameViewObserves DEF SameData
  <2>2. QED
    BY <1>5, <2>1 DEF Records, Rows, SameData
<1>7. QED
  BY <1>1, <1>3, <1>4, <1>5, <1>6 DEF SameData, SameView

\* What every change does, with all its effects.
LEMMA BecomesEffect ==
    ASSUME Base, NEW t \in TabType, Becomes(t)
    PROVE  /\ tab' \in TabType /\ SameData(t, tab') /\ Settled(tab')
           /\ \A p \in Places : tab'.fetch[p] \in {t.fetch[p], Contents(p)}
           /\ Observed(tab') \in {None, Observed(tab)} \/ tab'.fetch[Observed(tab')] # Idle
           /\ tab'.chosen = t.chosen
           /\ t.chosen # None /\ (t.selected = t.chosen \/ t.astray)
                => tab'.selected = t.chosen \/ tab'.astray
           /\ late' \subseteq late
           /\ \A p \in Places : p \in late \ late' => tab'.fetch[p] \notin {Idle, tab.fetch[p]}
           /\ None \in late \ late' => tab'.treeFetch \notin {Idle, tab.treeFetch}
<1> DEFINE r == RedirectUnknown(Resolve(t))
           settled == Observe(tab, r)
<1>1. /\ r \in TabType /\ SameData(t, r) /\ SameChoice(t, r) /\ r.fetch = t.fetch /\ Settled(r)
  BY RedirectEffect
<1> HIDE DEF r
<1>2. /\ settled \in TabType /\ SameData(r, settled) /\ SameChoice(r, settled) /\ SameView(r, settled)
      /\ \A p \in Places : settled.fetch[p] \in {r.fetch[p], Contents(p)}
      /\ Observed(settled) \in {None, Observed(tab)} \/ settled.fetch[Observed(settled)] # Idle
  BY <1>1, ObserveEffect DEF Base
<1>3. /\ \E first \in IF Records(settled) = {} THEN {None} ELSE Records(settled) :
            tab' = [Reselect(tab, settled, first) EXCEPT !.astray = Astray(tab, settled)]
      /\ late' = {p \in late : ~Refetched(p, settled)}
  BY DEF Becomes, r
<1> HIDE DEF settled
<1>4. PICK first \in IF Records(settled) = {} THEN {None} ELSE Records(settled) :
            tab' = [Reselect(tab, settled, first) EXCEPT !.astray = Astray(tab, settled)]
  BY <1>3
<1> DEFINE shown == Reselect(tab, settled, first)
           a == Astray(tab, settled)
<1>5. /\ shown \in TabType /\ SameData(settled, shown) /\ SameView(settled, shown)
      /\ shown.fetch = settled.fetch /\ shown.chosen = settled.chosen
      /\ ~NewRecords(tab, settled) \/ settled.selected \in Records(settled)
           => shown.selected = settled.selected
  BY <1>2, <1>4, ReselectEffect
<1>6. tab' = [shown EXCEPT !.astray = a]
  BY <1>4
<1> HIDE DEF shown
<1>7. /\ a \in BOOLEAN
      /\ a <=> /\ settled.chosen # None
               /\ \/ settled.astray
                  \/ NewRecords(tab, settled) /\ settled.chosen \notin Records(settled)
  BY DEF Astray
<1> HIDE DEF a
<1>8. /\ tab' \in TabType
      /\ SameData(shown, tab') /\ SameView(shown, tab') /\ tab'.fetch = shown.fetch
      /\ tab'.selected = shown.selected /\ tab'.chosen = shown.chosen /\ tab'.astray = a
  BY <1>5, <1>6, <1>7 DEF TabType, SameData, SameView
<1>9. SameData(t, tab') /\ SameView(r, tab') /\ tab'.fetch = settled.fetch
  BY <1>1, <1>2, <1>5, <1>8 DEF SameData, SameView
<1>10. Settled(tab')
  BY <1>1, <1>9 DEF Settled, SameView, SameData, Requested
<1>11. Observed(tab') = Observed(settled)
  <2>1. SameView(settled, tab') /\ tab'.treeOK = settled.treeOK
    BY <1>5, <1>8 DEF SameView, SameData
  <2>2. QED
    BY <1>2, <1>8, <2>1, SameViewObserves
<1>12. t.chosen # None /\ (t.selected = t.chosen \/ t.astray)
         => tab'.selected = t.chosen \/ tab'.astray
  <2> SUFFICES ASSUME t.chosen # None, t.selected = t.chosen \/ t.astray, ~a
               PROVE  tab'.selected = t.chosen
    BY <1>8
  <2>1. settled.chosen = t.chosen /\ settled.selected = t.selected /\ settled.astray = t.astray
    BY <1>1, <1>2 DEF SameChoice
  <2>2. ~settled.astray /\ (~NewRecords(tab, settled) \/ settled.chosen \in Records(settled))
    BY <1>7, <2>1
  <2>3. QED
    BY <1>5, <1>8, <2>1, <2>2
<1>13. \A p \in Places : p \in late \ late' => tab'.fetch[p] \notin {Idle, tab.fetch[p]}
  BY <1>3, <1>9, Distinct DEF Refetched
<1>14. None \in late \ late' => tab'.treeFetch \notin {Idle, tab.treeFetch}
  <2>1. tab'.treeFetch = settled.treeFetch
    BY <1>5, <1>8 DEF SameData
  <2>2. QED
    BY <1>3, <2>1 DEF Refetched
<1>15. late' \subseteq late
  BY <1>3
<1>16. tab'.chosen = t.chosen
  BY <1>1, <1>2, <1>5, <1>8 DEF SameChoice
<1>17. \A p \in Places : tab'.fetch[p] \in {t.fetch[p], Contents(p)}
  BY <1>1, <1>2, <1>9
<1>18. QED
  BY <1>2, <1>8, <1>9, <1>10, <1>11, <1>12, <1>13, <1>14, <1>15, <1>16, <1>17

-----------------------------------------------------------------------------
(* What the steps bring about, before the effects *)

\* Only what has been made is listed, in the trash, or the target of a change but an upload.
KnownTab(t) ==
    /\ t.tree # None => t.tree \subseteq Made
    /\ t.treeFetch # Idle => t.treeFetch \subseteq Made
    /\ \A p \in Places : /\ t.list[p] # None => t.list[p] \subseteq Made
                         /\ t.fetch[p] # Idle => t.fetch[p] \subseteq Made

KnownOp(op) ==
    op # Idle =>
        /\ op.kind = "upload" /\ op.at = "sent" => home[op.target] = None
        /\ op.kind \in {"delete", "deleteFolder", "restore", "restoreFolder"} => op.target \in Made

Typed == Base /\ KnownTab(tab) /\ KnownOp(tab.op)

\* The file that has been clicked is the one that the modal shows, unless it was not
\* among new records.
Clicked(t) == t.chosen # None => t.open /\ (t.selected = t.chosen \/ t.astray)

\* Nothing happens to the query cache, nor to the change under way.
Stays(t) ==
    /\ t.tree = tab.tree /\ t.treeFetch = tab.treeFetch /\ t.treeOK = tab.treeOK
    /\ t.list = tab.list /\ t.fetch = tab.fetch /\ t.op = tab.op

BecomesKnown(t) ==
    t \in TabType /\ KnownTab(t) /\ KnownOp(t.op) /\ (Clicked(tab) => Clicked(t)) /\ Becomes(t)

StaysKnown(t) == BecomesKnown(t) /\ Stays(t)

LEMMA OpTypes ==
    ASSUME NEW op \in Ops
    PROVE  /\ op.place \in Places
           /\ \/ op.kind \in {"upload", "delete", "restore"} /\ op.target \in Files
              \/ /\ op.kind \in {"deleteFolder", "createFolder", "restoreFolder"} /\ op.target \in Folders
                 /\ op.at \in {"sent", "served"}
           /\ op.at \in {"sent", "served", "tree"}
BY DEF Ops

LEMMA ContentsStay ==
    ASSUME UNCHANGED <<home, trashed>>
    PROVE  /\ folders' = folders /\ Made' = Made
           /\ \A p \in Places : Contents(p)' = Contents(p)
BY DEF folders, Made, Contents

\* The user moves about.
Move ==
    \/ SelectDirectory \/ LeavePage \/ Back
    \/ \E f \in Files : SelectFile(f) \/ SelectFileElsewhere(f) \/ SelectSearchResult(f)

LEMMA MoveEffect ==
    ASSUME Typed, Move
    PROVE  (\E t \in TabType : StaysKnown(t)) /\ UNCHANGED <<home, trashed, lost, changes>>
<1>1. tab \in TabType /\ KnownTab(tab) /\ KnownOp(tab.op) /\ home \in [Ids -> Places \cup {None}]
  BY DEF Typed, Base
<1>2. ASSUME NEW t \in TabType, Stays(t), Clicked(tab) => Clicked(t), Becomes(t)
      PROVE  StaysKnown(t)
  BY <1>1, <1>2 DEF StaysKnown, BecomesKnown, Stays, KnownTab
<1>3. ASSUME NEW url \in Places \cup {Elsewhere}, GoTo(url)
      PROVE  (\E t \in TabType : StaysKnown(t)) /\ UNCHANGED <<home, trashed, lost, changes>>
  <2> DEFINE t == [tab EXCEPT !.url = url]
  <2>1. t \in TabType /\ Stays(t) /\ (Clicked(tab) => Clicked(t))
    BY <1>1 DEF TabType, Stays, Clicked
  <2>2. Becomes(t) /\ UNCHANGED <<home, trashed, lost, changes>>
    BY <1>3 DEF GoTo
  <2> HIDE DEF t
  <2>3. QED
    BY <1>2, <2>1, <2>2
<1>4. CASE SelectDirectory \/ LeavePage \/ Back
  BY <1>3, <1>4 DEF SelectDirectory, LeavePage, Back
<1>5. ASSUME NEW f \in Files, SelectFile(f)
      PROVE  (\E t \in TabType : StaysKnown(t)) /\ UNCHANGED <<home, trashed, lost, changes>>
  <2> DEFINE t == OpenFile(tab, f)
  <2>1. t \in TabType /\ Stays(t) /\ Clicked(t)
    BY <1>1 DEF TabType, Stays, Clicked, OpenFile
  <2>2. Becomes(t) /\ UNCHANGED <<home, trashed, lost, changes>>
    BY <1>5 DEF SelectFile
  <2> HIDE DEF t
  <2>3. QED
    BY <1>2, <2>1, <2>2
<1>6. ASSUME NEW f \in Files, SelectFileElsewhere(f)
      PROVE  (\E t \in TabType : StaysKnown(t)) /\ UNCHANGED <<home, trashed, lost, changes>>
  <2> DEFINE t == OpenFile(tab, f)
  <2>1. t \in TabType /\ Stays(t) /\ Clicked(t)
    BY <1>1 DEF TabType, Stays, Clicked, OpenFile
  <2>2. Becomes(t) /\ UNCHANGED <<home, trashed, lost, changes>>
    BY <1>6 DEF SelectFileElsewhere
  <2> HIDE DEF t
  <2>3. QED
    BY <1>2, <2>1, <2>2
<1>7. ASSUME NEW f \in Files, SelectSearchResult(f)
      PROVE  (\E t \in TabType : StaysKnown(t)) /\ UNCHANGED <<home, trashed, lost, changes>>
  <2> DEFINE t == [OpenFile(tab, f) EXCEPT !.url = home[f]]
  <2>1. home[f] \in Places
    BY <1>1, <1>7 DEF SelectSearchResult, Ids
  <2>2. t \in TabType /\ Stays(t) /\ Clicked(t)
    BY <1>1, <2>1 DEF TabType, Stays, Clicked, OpenFile
  <2>3. Becomes(t) /\ UNCHANGED <<home, trashed, lost, changes>>
    BY <1>7 DEF SelectSearchResult
  <2> HIDE DEF t
  <2>4. QED
    BY <1>2, <2>2, <2>3
<1>8. QED
  BY <1>4, <1>5, <1>6, <1>7 DEF Move

\* The tree comes, or fails to.
LEMMA TreeEffect ==
    ASSUME Typed, TreeArrives \/ TreeFails
    PROVE  /\ tab.treeFetch # Idle /\ UNCHANGED <<home, trashed, changes>>
           /\ lost' \in Nat /\ lost' + changes <= MaxEvents
           /\ \E t \in TabType :
                 /\ BecomesKnown(t) /\ t.treeFetch = Idle
                 /\ t.list = tab.list /\ t.fetch = tab.fetch /\ t.op = tab.op
                 /\ \/ lost' = lost /\ t.tree = tab.treeFetch /\ t.treeOK
                    \/ lost' # 0 /\ ~t.treeOK
<1>1. /\ tab \in TabType /\ KnownTab(tab) /\ KnownOp(tab.op)
      /\ lost \in Nat /\ changes \in Nat /\ lost + changes <= MaxEvents
  BY DEF Typed, Base
<1>2. CASE TreeArrives
  <2> DEFINE t == [tab EXCEPT !.tree = tab.treeFetch, !.treeFetch = Idle, !.treeOK = TRUE]
  <2>1. tab.treeFetch # Idle /\ UNCHANGED <<home, trashed, lost, changes>> /\ Becomes(t)
    BY <1>2 DEF TreeArrives
  <2>2. tab.treeFetch \in SUBSET Folders /\ tab.treeFetch \subseteq Made
    BY <1>1, <2>1 DEF TabType, KnownTab
  <2>3. /\ t \in TabType /\ t.treeFetch = Idle /\ t.list = tab.list /\ t.fetch = tab.fetch
        /\ t.op = tab.op /\ t.tree = tab.treeFetch /\ t.treeOK = TRUE
        /\ (Clicked(tab) => Clicked(t))
    BY <1>1, <2>2 DEF TabType, Clicked
  <2> HIDE DEF t
  <2>4. KnownTab(t)
    BY <1>1, <2>2, <2>3 DEF KnownTab
  <2>5. QED
    BY <1>1, <2>1, <2>3, <2>4 DEF BecomesKnown
<1>3. CASE TreeFails
  <2> DEFINE t == [tab EXCEPT !.treeFetch = Idle, !.treeOK = FALSE]
  <2>1. /\ tab.treeFetch # Idle /\ UNCHANGED <<home, trashed, changes>> /\ Becomes(t)
        /\ lost' = lost + 1 /\ lost + changes < MaxEvents
    BY <1>3 DEF TreeFails, Lose
  <2>2. /\ t \in TabType /\ t.treeFetch = Idle /\ t.list = tab.list /\ t.fetch = tab.fetch
        /\ t.op = tab.op /\ t.tree = tab.tree /\ t.treeOK = FALSE /\ (Clicked(tab) => Clicked(t))
    BY <1>1 DEF TabType, Clicked
  <2> HIDE DEF t
  <2>3. KnownTab(t)
    BY <1>1, <2>2 DEF KnownTab
  <2>4. lost' \in Nat /\ lost' # 0 /\ lost' + changes <= MaxEvents
    BY <1>1, <2>1, FilesPageAssumption
  <2>5. QED
    BY <1>1, <2>1, <2>2, <2>3, <2>4 DEF BecomesKnown
<1>4. QED
  BY <1>2, <1>3

\* A list comes, or fails to.
LEMMA FilesEffect ==
    ASSUME Typed, NEW place \in Places, FilesArrive(place) \/ FilesFail(place)
    PROVE  /\ tab.fetch[place] # Idle /\ UNCHANGED <<home, trashed, changes>>
           /\ lost' \in Nat /\ lost' + changes <= MaxEvents
           /\ \E t \in TabType :
                 /\ BecomesKnown(t) /\ t.tree = tab.tree /\ t.treeFetch = tab.treeFetch
                 /\ t.treeOK = tab.treeOK /\ t.op = tab.op
                 /\ t.fetch[place] = Idle
                 /\ \A p \in Places : p # place => t.fetch[p] = tab.fetch[p] /\ t.list[p] = tab.list[p]
                 /\ \/ lost' = lost /\ t.list[place] = tab.fetch[place]
                    \/ lost' # 0
<1>1. /\ tab \in TabType /\ KnownTab(tab) /\ KnownOp(tab.op)
      /\ tab.list \in Lists /\ tab.fetch \in Fetches
      /\ lost \in Nat /\ changes \in Nat /\ lost + changes <= MaxEvents
  BY DEF Typed, Base, TabType
<1> DEFINE f == [tab.fetch EXCEPT ![place] = Idle]
<1>2. f \in Fetches /\ f[place] = Idle /\ \A p \in Places : p # place => f[p] = tab.fetch[p]
  BY <1>1 DEF Fetches
<1>3. CASE FilesArrive(place)
  <2> DEFINE l == [tab.list EXCEPT ![place] = tab.fetch[place]]
             t == [tab EXCEPT !.list = l, !.fetch = f]
  <2>1. tab.fetch[place] # Idle /\ UNCHANGED <<home, trashed, lost, changes>> /\ Becomes(t)
    BY <1>3 DEF FilesArrive
  <2>2. tab.fetch[place] \in SUBSET Files
    BY <1>1, <2>1 DEF Fetches
  <2>3. /\ l \in Lists /\ l[place] = tab.fetch[place]
        /\ \A p \in Places : p # place => l[p] = tab.list[p]
    BY <1>1, <2>2 DEF Lists
  <2> HIDE DEF f, l
  <2>4. /\ t \in TabType /\ t.list = l /\ t.fetch = f /\ t.tree = tab.tree /\ t.treeFetch = tab.treeFetch
        /\ t.treeOK = tab.treeOK /\ t.op = tab.op /\ (Clicked(tab) => Clicked(t))
    BY <1>1, <1>2, <2>3 DEF TabType, Clicked
  <2> HIDE DEF t
  <2>5. KnownTab(t)
    BY <1>1, <1>2, <2>1, <2>3, <2>4 DEF KnownTab
  <2>6. QED
    BY <1>1, <1>2, <2>1, <2>3, <2>4, <2>5 DEF BecomesKnown
<1>4. CASE FilesFail(place)
  <2> DEFINE t == [tab EXCEPT !.fetch = f]
  <2>1. /\ tab.fetch[place] # Idle /\ UNCHANGED <<home, trashed, changes>> /\ Becomes(t)
        /\ lost' = lost + 1 /\ lost + changes < MaxEvents
    BY <1>4 DEF FilesFail, Lose
  <2> HIDE DEF f
  <2>2. /\ t \in TabType /\ t.list = tab.list /\ t.fetch = f /\ t.tree = tab.tree
        /\ t.treeFetch = tab.treeFetch /\ t.treeOK = tab.treeOK /\ t.op = tab.op /\ (Clicked(tab) => Clicked(t))
    BY <1>1, <1>2 DEF TabType, Clicked
  <2> HIDE DEF t
  <2>3. KnownTab(t)
    BY <1>1, <1>2, <2>2 DEF KnownTab
  <2>4. lost' \in Nat /\ lost' # 0 /\ lost' + changes <= MaxEvents
    BY <1>1, <2>1, FilesPageAssumption
  <2>5. QED
    BY <1>1, <1>2, <2>1, <2>2, <2>3, <2>4 DEF BecomesKnown
<1>5. QED
  BY <1>3, <1>4

\* A change is carried one step further.
LEMMA OpMoves ==
    ASSUME NEW op \in Ops, NEW at \in {"sent", "served", "tree"}, at = "tree" => op.kind = "upload"
    PROVE  LET o == [op EXCEPT !.at = at] IN
           /\ o \in Ops /\ o # Idle
           /\ o.kind = op.kind /\ o.target = op.target /\ o.place = op.place /\ o.at = at
BY Distinct DEF Ops

\* The change that has been served may still owe something to a list, or to the tree.
Owes(op, p) ==
    op # Idle /\ \/ op.kind = "delete" /\ op.at = "served"
                 \/ op.kind = "restore" /\ op.at = "served" /\ home[op.target] = p
                 \/ op.kind = "upload" /\ op.at # "sent" /\ op.place = p

TreeOwed(op) == op # Idle /\ op.at = "served" /\ op.target \in Folders

LEMMA InvalidateTreeEffect ==
    ASSUME Typed
    PROVE  LET u == InvalidateTree(tab) IN
           /\ u \in TabType /\ KnownTab(u) /\ SameView(tab, u) /\ SameChoice(tab, u)
           /\ u.tree = tab.tree /\ u.treeOK = tab.treeOK /\ u.list = tab.list /\ u.fetch = tab.fetch
           /\ u.open = tab.open /\ u.op = tab.op
           /\ u.treeFetch \in {tab.treeFetch, folders} /\ u.treeFetch # Idle
<1>1. tab \in TabType /\ KnownTab(tab) /\ home \in [Ids -> Places \cup {None}]
  BY DEF Typed, Base
<1>2. CASE tab.tree = None /\ tab.treeFetch # Idle
  BY <1>1, <1>2 DEF InvalidateTree, SameView, SameChoice
<1>3. CASE ~(tab.tree = None /\ tab.treeFetch # Idle)
  <2> DEFINE u == [tab EXCEPT !.treeFetch = folders]
  <2>1. InvalidateTree(tab) = u
    BY <1>3 DEF InvalidateTree
  <2>2. folders \in SUBSET Folders /\ folders # Idle /\ folders \subseteq Made
    BY <1>1, ReadTypes
  <2>3. /\ u \in TabType /\ SameView(tab, u) /\ SameChoice(tab, u)
        /\ u.tree = tab.tree /\ u.treeOK = tab.treeOK /\ u.list = tab.list /\ u.fetch = tab.fetch
        /\ u.open = tab.open /\ u.op = tab.op /\ u.treeFetch = folders
    BY <1>1, <2>2 DEF TabType, SameView, SameChoice
  <2> HIDE DEF u
  <2>4. KnownTab(u)
    BY <1>1, <2>2, <2>3 DEF KnownTab
  <2>5. QED
    BY <2>1, <2>2, <2>3, <2>4
<1>4. QED
  BY <1>2, <1>3

LEMMA InvalidateFilesEffect ==
    ASSUME Typed, NEW place \in Places
    PROVE  LET u == InvalidateFiles(tab, place) IN
           /\ u \in TabType /\ KnownTab(u) /\ SameView(tab, u) /\ SameChoice(tab, u)
           /\ u.tree = tab.tree /\ u.treeOK = tab.treeOK /\ u.list = tab.list
           /\ u.treeFetch = tab.treeFetch /\ u.open = tab.open /\ u.op = tab.op
           /\ \A p \in Places : u.fetch[p] \in {tab.fetch[p], Contents(p)}
           /\ Observed(tab) = place => u.fetch[place] # Idle
<1>1. /\ tab \in TabType /\ KnownTab(tab) /\ home \in [Ids -> Places \cup {None}]
      /\ tab.fetch \in Fetches
  BY DEF Typed, Base, TabType
<1>2. CASE Observed(tab) # place \/ (tab.list[place] = None /\ tab.fetch[place] # Idle)
  BY <1>1, <1>2 DEF InvalidateFiles, SameView, SameChoice
<1>3. CASE ~(Observed(tab) # place \/ (tab.list[place] = None /\ tab.fetch[place] # Idle))
  <2> DEFINE f == [tab.fetch EXCEPT ![place] = Contents(place)]
             u == [tab EXCEPT !.fetch = f]
  <2>1. InvalidateFiles(tab, place) = u
    BY <1>3 DEF InvalidateFiles
  <2>2. Contents(place) \in SUBSET Files /\ Contents(place) # Idle /\ Contents(place) \subseteq Made
    BY <1>1, ReadTypes
  <2>3. /\ f \in Fetches /\ f[place] = Contents(place)
        /\ \A p \in Places : p # place => f[p] = tab.fetch[p]
    BY <1>1, <2>2 DEF Fetches
  <2> HIDE DEF f
  <2>4. /\ u \in TabType /\ SameView(tab, u) /\ SameChoice(tab, u) /\ u.fetch = f
        /\ u.tree = tab.tree /\ u.treeOK = tab.treeOK /\ u.list = tab.list
        /\ u.treeFetch = tab.treeFetch /\ u.open = tab.open /\ u.op = tab.op
    BY <1>1, <2>3 DEF TabType, SameView, SameChoice
  <2> HIDE DEF u
  <2>5. KnownTab(u)
    BY <1>1, <2>2, <2>3, <2>4 DEF KnownTab
  <2>6. QED
    BY <2>1, <2>2, <2>3, <2>4, <2>5
<1>4. QED
  BY <1>2, <1>3

\* A change is over.
LEMMA DoneEffect ==
    ASSUME NEW u \in TabType, KnownTab(u)
    PROVE  /\ Done(u) \in TabType /\ KnownTab(Done(u)) /\ SameView(u, Done(u)) /\ SameChoice(u, Done(u))
           /\ Done(u).tree = u.tree /\ Done(u).treeOK = u.treeOK /\ Done(u).treeFetch = u.treeFetch
           /\ Done(u).list = u.list /\ Done(u).fetch = u.fetch
           /\ Done(u).open = u.open /\ Done(u).op = Idle
BY DEF Done, TabType, KnownTab, SameView, SameChoice

\* What the answer to a change is followed by, at once or when the tree has come: what
\* the change owes to the screen is fetched, or owed still.
Paid(t) ==
    /\ t.tree = tab.tree /\ t.treeOK = tab.treeOK /\ t.list = tab.list
    /\ t.treeFetch \in {tab.treeFetch, folders}
    /\ TreeOwed(tab.op) => t.treeFetch # Idle
    /\ \A p \in Places : t.fetch[p] \in {tab.fetch[p], Contents(p)}
    /\ \A p \in Places : p = Observed(tab) /\ Owes(tab.op, p) => Owes(t.op, p) \/ t.fetch[p] # Idle

LEMMA ReplyEffect ==
    ASSUME Typed, Answered \/ AfterTree
    PROVE  /\ UNCHANGED <<home, trashed, lost, changes>>
           /\ \E t \in TabType : BecomesKnown(t) /\ Paid(t)
<1>1. tab \in TabType /\ KnownTab(tab) /\ KnownOp(tab.op) /\ home \in [Ids -> Places \cup {None}]
  BY DEF Typed, Base
<1>2. tab.op \in Ops /\ tab.op # Idle /\ UNCHANGED <<home, trashed, lost, changes>>
  <2>1. tab.op # Idle /\ UNCHANGED <<home, trashed, lost, changes>>
    BY DEF Answered, AfterTree
  <2>2. QED
    BY <1>1, <2>1 DEF TabType
<1> SUFFICES \E t \in TabType : BecomesKnown(t) /\ Paid(t)
  BY <1>2
<1>3. /\ tab.op.place \in Places
      /\ \/ tab.op.kind \in {"upload", "delete", "restore"} /\ tab.op.target \in Files
         \/ /\ tab.op.kind \in {"deleteFolder", "createFolder", "restoreFolder"} /\ tab.op.target \in Folders
            /\ tab.op.at \in {"sent", "served"}
      /\ tab.op.at \in {"sent", "served", "tree"}
  BY <1>2, OpTypes
<1>4. ASSUME NEW place \in Places, Becomes(Done(InvalidateFiles(tab, place))), tab.op.target \in Files,
             \A p \in Places : p = Observed(tab) /\ Owes(tab.op, p) => p = place
      PROVE  \E t \in TabType : BecomesKnown(t) /\ Paid(t)
  <2> DEFINE u == InvalidateFiles(tab, place)
             t == Done(u)
  <2>1. /\ u \in TabType /\ KnownTab(u) /\ SameView(tab, u) /\ SameChoice(tab, u)
        /\ u.tree = tab.tree /\ u.treeOK = tab.treeOK /\ u.list = tab.list
        /\ u.treeFetch = tab.treeFetch /\ u.open = tab.open
        /\ \A p \in Places : u.fetch[p] \in {tab.fetch[p], Contents(p)}
        /\ Observed(tab) = place => u.fetch[place] # Idle
    BY InvalidateFilesEffect
  <2> HIDE DEF u
  <2>2. /\ t \in TabType /\ KnownTab(t) /\ SameChoice(u, t)
        /\ t.tree = u.tree /\ t.treeOK = u.treeOK /\ t.treeFetch = u.treeFetch
        /\ t.list = u.list /\ t.fetch = u.fetch /\ t.open = u.open /\ t.op = Idle
    BY <2>1, DoneEffect
  <2>3. Becomes(t)
    BY <1>4 DEF u
  <2> HIDE DEF t
  <2>4. BecomesKnown(t)
    BY <2>1, <2>2, <2>3 DEF BecomesKnown, KnownOp, Clicked, SameChoice
  <2>5. ~TreeOwed(tab.op)
    BY <1>4, Distinct DEF TreeOwed
  <2>6. Paid(t)
    BY <1>4, <2>1, <2>2, <2>5 DEF Paid
  <2>7. QED
    BY <2>2, <2>4, <2>6
<1>5. CASE AfterTree
  <2>1. tab.op.at = "tree" /\ Becomes(Done(InvalidateFiles(tab, tab.op.place)))
    BY <1>5 DEF AfterTree
  <2>2. tab.op.target \in Files
    BY <1>3, <2>1
  <2>3. \A p \in Places : Owes(tab.op, p) => p = tab.op.place
    BY <2>1 DEF Owes
  <2>4. QED
    BY <1>3, <1>4, <2>1, <2>2, <2>3
<1>6. CASE Answered /\ tab.op.kind = "delete"
  <2>1. Becomes(Done(InvalidateFiles(tab, Directory(tab))))
    BY <1>6 DEF Answered
  <2>2. Directory(tab) \in Places /\ \A p \in Places : p = Observed(tab) => p = Directory(tab)
    BY <1>1, DerivedTypes, Distinct
  <2>3. tab.op.target \in Files
    BY <1>3, <1>6
  <2>4. QED
    BY <1>4, <2>1, <2>2, <2>3
<1>7. CASE Answered /\ tab.op.kind = "restore"
  <2>1. Becomes(Done(InvalidateFiles(tab, home[tab.op.target])))
    BY <1>7 DEF Answered
  <2>2. tab.op.target \in Files /\ home[tab.op.target] \in Places
    <3>1. tab.op.target \in Files
      BY <1>3, <1>7
    <3>2. tab.op.target \in Made
      BY <1>1, <1>2, <1>7 DEF KnownOp
    <3>3. QED
      BY <1>1, <3>1, <3>2 DEF Made, Ids
  <2>3. \A p \in Places : Owes(tab.op, p) => p = home[tab.op.target]
    BY <1>7 DEF Owes
  <2>4. QED
    BY <1>4, <2>1, <2>2, <2>3
<1>8. CASE Answered /\ tab.op.kind \notin {"delete", "restore"}
  <2> DEFINE u == InvalidateTree(tab)
  <2>1. /\ u \in TabType /\ KnownTab(u) /\ SameView(tab, u) /\ SameChoice(tab, u)
        /\ u.tree = tab.tree /\ u.treeOK = tab.treeOK /\ u.list = tab.list /\ u.fetch = tab.fetch
        /\ u.open = tab.open /\ u.op = tab.op
        /\ u.treeFetch \in {tab.treeFetch, folders} /\ u.treeFetch # Idle
    BY InvalidateTreeEffect
  <2>2. CASE tab.op.kind = "upload"
    <3> DEFINE o == [tab.op EXCEPT !.at = "tree"]
               t == [u EXCEPT !.selected = tab.op.target, !.chosen = None, !.astray = FALSE,
                          !.op.at = "tree"]
    <3>1. Becomes(t)
      BY <1>8, <2>2 DEF Answered
    <3>2. tab.op.target \in Files /\ tab.op.at = "served"
      BY <1>3, <1>8, <2>2 DEF Answered
    <3>3. /\ o \in Ops /\ o # Idle /\ o.kind = "upload" /\ o.target = tab.op.target
          /\ o.place = tab.op.place /\ o.at = "tree"
      BY <1>2, <2>2, OpMoves
    <3> HIDE DEF u
    <3>4. t = [u EXCEPT !.selected = tab.op.target, !.chosen = None, !.astray = FALSE, !.op = o]
      BY <2>1 DEF TabType
    <3> HIDE DEF o
    <3>5. /\ t \in TabType /\ t.tree = u.tree /\ t.treeOK = u.treeOK /\ t.treeFetch = u.treeFetch
          /\ t.list = u.list /\ t.fetch = u.fetch /\ t.chosen = None /\ t.op = o
      BY <2>1, <3>2, <3>3, <3>4 DEF TabType
    <3> HIDE DEF t
    <3>6. KnownTab(t) /\ KnownOp(t.op) /\ Clicked(t)
      BY <2>1, <3>3, <3>5 DEF KnownTab, KnownOp, Clicked
    <3>7. \A p \in Places : Owes(tab.op, p) => Owes(t.op, p)
      BY <2>2, <3>3, <3>5 DEF Owes
    <3>8. Paid(t)
      BY <2>1, <3>5, <3>7 DEF Paid
    <3>9. QED
      BY <3>1, <3>5, <3>6, <3>8 DEF BecomesKnown
  <2>3. CASE tab.op.kind # "upload"
    <3> DEFINE t == Done(u)
    <3>1. Becomes(t)
      BY <1>8, <2>3 DEF Answered
    <3> HIDE DEF u
    <3>2. /\ t \in TabType /\ KnownTab(t) /\ SameChoice(u, t)
          /\ t.tree = u.tree /\ t.treeOK = u.treeOK /\ t.treeFetch = u.treeFetch
          /\ t.list = u.list /\ t.fetch = u.fetch /\ t.open = u.open /\ t.op = Idle
      BY <2>1, DoneEffect
    <3> HIDE DEF t
    <3>3. BecomesKnown(t)
      BY <2>1, <3>1, <3>2 DEF BecomesKnown, KnownOp, Clicked, SameChoice
    <3>4. \A p \in Places : ~Owes(tab.op, p)
      BY <1>8, <2>3 DEF Owes
    <3>5. Paid(t)
      BY <2>1, <3>2, <3>4 DEF Paid
    <3>6. QED
      BY <3>2, <3>3, <3>5
  <2>4. QED
    BY <2>2, <2>3
<1>9. QED
  BY <1>2, <1>5, <1>6, <1>7, <1>8

\* The user asks for a change.
Starts ==
    \/ \E f \in Files : Upload(f) \/ SoftDelete(f)
    \/ \E d \in Folders : SoftDeleteFolder(d) \/ CreateFolder(d)
    \/ \E x \in trashed : Restore(x)

\* The screen and the query cache are left alone.
Still(t) ==
    /\ SameView(tab, t)
    /\ t.tree = tab.tree /\ t.treeFetch = tab.treeFetch /\ t.treeOK = tab.treeOK
    /\ t.list = tab.list /\ t.fetch = tab.fetch

LEMMA StartsEffect ==
    ASSUME Typed, Starts
    PROVE  \E kind, target : /\ Start(kind, target)
                             /\ \A place \in Places :
                                   LET op == [kind |-> kind, target |-> target, place |-> place, at |-> "sent"]
                                   IN op \in Ops /\ KnownOp(op)
<1>1. /\ tab \in TabType /\ KnownTab(tab) /\ trashed \subseteq Made
      /\ home \in [Ids -> Places \cup {None}]
  BY DEF Typed, Base
<1>2. ASSUME NEW f \in Files, Upload(f)
      PROVE  /\ Start("upload", f)
             /\ \A place \in Places :
                   LET op == [kind |-> "upload", target |-> f, place |-> place, at |-> "sent"]
                   IN op \in Ops /\ KnownOp(op)
  BY <1>2 DEF Upload, Ops, KnownOp
<1>3. ASSUME NEW f \in Files, SoftDelete(f)
      PROVE  /\ Start("delete", f)
             /\ \A place \in Places :
                   LET op == [kind |-> "delete", target |-> f, place |-> place, at |-> "sent"]
                   IN op \in Ops /\ KnownOp(op)
  <2>1. f \in Records(tab) /\ Start("delete", f) /\ Directory(tab) \in Places
    BY <1>1, <1>3, DerivedTypes DEF SoftDelete
  <2>2. f \in Made
    BY <1>1, <2>1 DEF Records, KnownTab
  <2>3. QED
    BY <2>1, <2>2 DEF Ops, KnownOp
<1>4. ASSUME NEW d \in Folders, SoftDeleteFolder(d)
      PROVE  /\ Start("deleteFolder", d)
             /\ \A place \in Places :
                   LET op == [kind |-> "deleteFolder", target |-> d, place |-> place, at |-> "sent"]
                   IN op \in Ops /\ KnownOp(op)
  <2>1. d \in Made /\ Start("deleteFolder", d)
    BY <1>1, <1>4 DEF SoftDeleteFolder, KnownTab
  <2>2. QED
    BY <2>1 DEF Ops, KnownOp
<1>5. ASSUME NEW d \in Folders, CreateFolder(d)
      PROVE  /\ Start("createFolder", d)
             /\ \A place \in Places :
                   LET op == [kind |-> "createFolder", target |-> d, place |-> place, at |-> "sent"]
                   IN op \in Ops /\ KnownOp(op)
  BY <1>5 DEF CreateFolder, Ops, KnownOp
<1>6. ASSUME NEW x \in trashed, Restore(x)
      PROVE  \E kind : /\ Start(kind, x)
                       /\ \A place \in Places :
                             LET op == [kind |-> kind, target |-> x, place |-> place, at |-> "sent"]
                             IN op \in Ops /\ KnownOp(op)
  <2> DEFINE k == IF x \in Folders THEN "restoreFolder" ELSE "restore"
  <2>1. Start(k, x) /\ x \in Made /\ x \in Ids
    BY <1>1, <1>6 DEF Restore, Made
  <2>2. \/ x \in Folders /\ k = "restoreFolder"
        \/ x \in Files /\ k = "restore"
    BY <2>1 DEF Ids
  <2>3. \A place \in Places :
            LET op == [kind |-> k, target |-> x, place |-> place, at |-> "sent"]
            IN op \in Ops /\ KnownOp(op)
    BY <2>1, <2>2 DEF Ops, KnownOp
  <2> HIDE DEF k
  <2>4. QED
    BY <2>1, <2>3
<1>7. QED
  BY <1>2, <1>3, <1>4, <1>5, <1>6 DEF Starts

LEMMA StillEffect ==
    ASSUME Typed, Starts \/ CloseModal \/ Fails
    PROVE  /\ tab' \in TabType /\ Still(tab') /\ KnownOp(tab'.op)
           /\ Clicked(tab) => Clicked(tab')
           /\ UNCHANGED <<home, trashed, late>>
           /\ lost' \in Nat /\ changes' \in Nat /\ lost' + changes' <= MaxEvents
           /\ lost' = 0 => /\ lost = 0
                           /\ TreeOwed(tab.op) => TreeOwed(tab'.op)
                           /\ \A p \in Places : Owes(tab.op, p) => Owes(tab'.op, p)
<1>1. /\ tab \in TabType /\ KnownOp(tab.op)
      /\ lost \in Nat /\ changes \in Nat /\ lost + changes <= MaxEvents
  BY DEF Typed, Base
<1>2. CASE Starts
  <2>1. PICK kind, target : /\ Start(kind, target)
                            /\ \A place \in Places :
                                  LET op == [kind |-> kind, target |-> target, place |-> place, at |-> "sent"]
                                  IN op \in Ops /\ KnownOp(op)
    BY <1>2, StartsEffect
  <2> DEFINE o == [kind |-> kind, target |-> target, place |-> Directory(tab), at |-> "sent"]
  <2>2. /\ tab.op = Idle /\ tab' = [tab EXCEPT !.op = o]
        /\ UNCHANGED <<home, trashed, late, lost>>
        /\ lost + changes < MaxEvents /\ changes' = changes + 1
    BY <2>1 DEF Start
  <2>3. o \in Ops /\ KnownOp(o)
    <3>1. Directory(tab) \in Places
      BY <1>1, DerivedTypes
    <3>2. QED
      BY <2>1, <3>1
  <2> HIDE DEF o
  <2>4. /\ tab' \in TabType /\ Still(tab') /\ SameChoice(tab, tab') /\ tab'.open = tab.open /\ tab'.op = o
    BY <1>1, <2>2, <2>3 DEF TabType, Still, SameView, SameChoice
  <2>5. lost' \in Nat /\ changes' \in Nat /\ lost' + changes' <= MaxEvents
    BY <1>1, <2>2, FilesPageAssumption
  <2>6. ~TreeOwed(tab.op) /\ \A p \in Places : ~Owes(tab.op, p)
    BY <2>2 DEF TreeOwed, Owes
  <2>7. QED
    BY <2>2, <2>3, <2>4, <2>5, <2>6 DEF Clicked, SameChoice
<1>3. CASE CloseModal
  <2>1. /\ tab' = [tab EXCEPT !.open = FALSE, !.chosen = None, !.astray = FALSE]
        /\ UNCHANGED <<home, trashed, late, lost, changes>>
    BY <1>3 DEF CloseModal
  <2>2. tab' \in TabType /\ Still(tab') /\ tab'.chosen = None /\ tab'.op = tab.op
    BY <1>1, <2>1 DEF TabType, Still, SameView
  <2>3. QED
    BY <1>1, <2>1, <2>2 DEF Clicked
<1>4. CASE Fails
  <2>1. tab' = Done(tab) /\ UNCHANGED <<home, trashed, late, changes>>
    BY <1>4 DEF Fails
  <2>2. /\ tab' \in TabType /\ Still(tab') /\ SameChoice(tab, tab') /\ tab'.open = tab.open /\ tab'.op = Idle
    BY <1>1, <2>1 DEF Done, TabType, Still, SameView, SameChoice
  <2>3. CASE tab.op.at = "sent" /\ UNCHANGED lost
    <3>1. ~TreeOwed(tab.op) /\ \A p \in Places : ~Owes(tab.op, p)
      BY <2>3 DEF TreeOwed, Owes
    <3>2. QED
      BY <1>1, <2>1, <2>2, <2>3, <3>1 DEF Clicked, SameChoice, KnownOp
  <2>4. CASE lost + changes < MaxEvents /\ lost' = lost + 1
    <3>1. lost' \in Nat /\ changes' \in Nat /\ lost' + changes' <= MaxEvents /\ lost' # 0
      BY <1>1, <2>1, <2>4, FilesPageAssumption
    <3>2. QED
      BY <2>1, <2>2, <3>1 DEF Clicked, SameChoice, KnownOp
  <2>5. QED
    BY <1>4, <2>3, <2>4 DEF Fails, Lose
<1>5. QED
  BY <1>2, <1>3, <1>4

\* The API service does what has been asked.
LEMMA ServeEffect ==
    ASSUME Typed, Serve
    PROVE  /\ tab' \in TabType /\ Still(tab') /\ SameChoice(tab, tab') /\ tab'.open = tab.open
           /\ tab.op \in Ops /\ tab'.op \in Ops /\ tab.op.at = "sent" /\ tab'.op.at = "served"
           /\ tab'.op.kind = tab.op.kind /\ tab'.op.target = tab.op.target /\ tab'.op.place = tab.op.place
           /\ home' \in [Ids -> Places \cup {None}] /\ Made \subseteq Made' /\ trashed' \subseteq Made'
           /\ ServeOn(tab.op.kind, tab.op.target, tab.op.place)
           /\ UNCHANGED <<lost, changes>> /\ late' = late \cup Changed
<1>1. /\ tab \in TabType /\ KnownOp(tab.op) /\ home \in [Ids -> Places \cup {None}] /\ trashed \subseteq Made
  BY DEF Typed, Base
<1>2. /\ tab.op # Idle /\ tab.op.at = "sent"
      /\ ServeOn(tab.op.kind, tab.op.target, tab.op.place)
      /\ late' = late \cup Changed
      /\ tab' = [tab EXCEPT !.op.at = "served"]
      /\ UNCHANGED <<lost, changes>>
  BY DEF Serve
<1>3. tab.op \in Ops
  BY <1>1, <1>2 DEF TabType
<1> DEFINE o == [tab.op EXCEPT !.at = "served"]
           x == tab.op.target
<1>4. /\ o \in Ops /\ o # Idle /\ o.kind = tab.op.kind /\ o.target = tab.op.target
      /\ o.place = tab.op.place /\ o.at = "served"
  BY <1>3, OpMoves
<1>5. tab' = [tab EXCEPT !.op = o]
  BY <1>1, <1>2 DEF TabType
<1> HIDE DEF o
<1>6. /\ tab' \in TabType /\ Still(tab') /\ SameChoice(tab, tab') /\ tab'.open = tab.open /\ tab'.op = o
  BY <1>1, <1>4, <1>5 DEF TabType, Still, SameView, SameChoice
<1>7. tab.op.place \in Places /\ x \in Ids
  BY <1>3, OpTypes DEF Ids
<1>8. home' \in [Ids -> Places \cup {None}] /\ Made \subseteq Made' /\ trashed' \subseteq Made'
  <2> HIDE DEF x
  <2>1. CASE tab.op.kind \in {"upload", "createFolder"}
    <3> DEFINE p == IF tab.op.kind = "upload" THEN tab.op.place ELSE Root
    <3>1. home' = [home EXCEPT ![x] = p] /\ trashed' = trashed
      BY <1>2, <2>1 DEF ServeOn, x
    <3>2. p \in Places /\ p # None
      BY <1>7, Distinct
    <3> HIDE DEF p
    <3>3. home' \in [Ids -> Places \cup {None}] /\ \A y \in Ids : home'[y] \in {home[y], p}
      BY <1>1, <1>7, <3>1, <3>2
    <3>4. Made \subseteq Made'
      BY <3>2, <3>3 DEF Made, Ids
    <3>5. QED
      BY <1>1, <3>1, <3>3, <3>4
  <2>2. CASE tab.op.kind \in {"delete", "deleteFolder"}
    <3>1. home' = home /\ trashed' = trashed \cup With(x)
      BY <1>2, <2>2 DEF ServeOn, x
    <3>2. x \in Made
      BY <1>1, <1>2, <2>2 DEF KnownOp, x
    <3>3. x # None
      BY <1>7, Distinct DEF Ids
    <3>4. With(x) \subseteq Made
      BY <3>2, <3>3 DEF With, Made, Ids
    <3>5. QED
      BY <1>1, <3>1, <3>4 DEF Made
  <2>3. CASE tab.op.kind \notin {"upload", "createFolder", "delete", "deleteFolder"}
    <3>1. home' = home /\ trashed' = trashed \ With(x)
      BY <1>2, <2>3 DEF ServeOn, x
    <3>2. QED
      BY <1>1, <3>1 DEF Made
  <2>4. QED
    BY <2>1, <2>2, <2>3
<1>9. QED
  BY <1>2, <1>3, <1>4, <1>6, <1>8

-----------------------------------------------------------------------------
(* Typing *)

LEMMA InitTyped ==
    ASSUME Init
    PROVE  Typed
<1>1. PICK url \in Places \cup {Elsewhere} : tab = Mounted(url)
  BY DEF Init
<1> DEFINE f == [p \in Places |-> IF p = Root /\ url = Root THEN Contents(Root) ELSE Idle]
<1>2. home \in [Ids -> Places \cup {None}] /\ trashed = {} /\ late = {} /\ lost = 0 /\ changes = 0
  BY DEF Init, Ids
<1>3. /\ folders \in SUBSET Folders /\ folders # Idle /\ folders \subseteq Made
      /\ Contents(Root) \in SUBSET Files /\ Contents(Root) # Idle /\ Contents(Root) \subseteq Made
  BY <1>2, ReadTypes, Distinct
<1>4. f \in Fetches /\ \A p \in Places : f[p] # Idle => f[p] \subseteq Made
  BY <1>3 DEF Fetches
<1>5. Nothing \in Lists /\ \A p \in Places : Nothing[p] = None
  BY DEF Nothing, Lists
<1>6. tab = [url |-> url, request |-> Root, directory |-> Root,
             tree |-> None, treeFetch |-> folders, treeOK |-> FALSE,
             list |-> Nothing, fetch |-> f,
             selected |-> None, open |-> FALSE, chosen |-> None, astray |-> FALSE,
             op |-> Idle]
  BY <1>1 DEF Mounted
<1> HIDE DEF f
<1>7. tab \in TabType /\ KnownTab(tab) /\ KnownOp(tab.op)
  BY <1>3, <1>4, <1>5, <1>6, Distinct DEF TabType, KnownTab, KnownOp
<1>8. QED
  BY <1>2, <1>7, FilesPageAssumption DEF Typed, Base

\* A change of the tab that is known to be in order, with its effects.
LEMMA BecomesTyped ==
    ASSUME Typed, NEW t \in TabType, BecomesKnown(t), UNCHANGED <<home, trashed, changes>>,
           lost' \in Nat, lost' + changes <= MaxEvents
    PROVE  Typed' /\ (Clicked(tab) => Clicked(tab'))
<1>1. Base /\ t \in TabType /\ KnownTab(t) /\ KnownOp(t.op) /\ (Clicked(tab) => Clicked(t)) /\ Becomes(t)
  BY DEF BecomesKnown, Typed
<1>2. /\ tab' \in TabType /\ SameData(t, tab') /\ late' \subseteq late
      /\ \A p \in Places : tab'.fetch[p] \in {t.fetch[p], Contents(p)}
      /\ tab'.chosen = t.chosen
      /\ t.chosen # None /\ (t.selected = t.chosen \/ t.astray)
           => tab'.selected = t.chosen \/ tab'.astray
  BY <1>1, BecomesEffect
<1>3. Made' = Made /\ \A p \in Places : Contents(p) \subseteq Made
  BY <1>1, ReadTypes, ContentsStay DEF Base
<1>4. Base'
  <2>1. changes' = changes /\ home' = home /\ trashed' = trashed
    OBVIOUS
  <2>2. QED
    BY <1>1, <1>2, <1>3, <2>1 DEF Base
<1>5. KnownTab(tab)'
  <2>1. (KnownTab(t) /\ \A p \in Places : tab'.fetch[p] # Idle => tab'.fetch[p] \subseteq Made)
    BY <1>1, <1>2, <1>3 DEF KnownTab
  <2>2. QED
    BY <1>2, <1>3, <2>1 DEF KnownTab, SameData
<1>6. KnownOp(tab.op)'
  BY <1>1, <1>2, <1>3 DEF KnownOp, SameData
<1>7. Clicked(tab) => Clicked(tab')
  BY <1>1, <1>2 DEF Clicked, SameData
<1>8. QED
  BY <1>4, <1>5, <1>6, <1>7 DEF Typed

LEMMA NextCases ==
    ASSUME Next
    PROVE  \/ Move \/ Answered \/ AfterTree \/ TreeArrives \/ TreeFails
           \/ \E p \in Places : FilesArrive(p) \/ FilesFail(p)
           \/ Starts \/ CloseModal \/ Fails
           \/ Serve
BY DEF Next, Move, Starts

LEMMA StepTyped ==
    ASSUME Typed, [Next]_vars
    PROVE  Typed' /\ (Clicked(tab) => Clicked(tab'))
<1>1. /\ lost \in Nat /\ lost + changes <= MaxEvents /\ late \subseteq Places \cup {None}
      /\ KnownTab(tab) /\ KnownOp(tab.op) /\ tab \in TabType
      /\ home \in [Ids -> Places \cup {None}] /\ trashed \subseteq Made
  BY DEF Typed, Base
<1>2. CASE Move \/ Answered \/ AfterTree
  <2>1. (\E t \in TabType : BecomesKnown(t)) /\ UNCHANGED <<home, trashed, lost, changes>>
    BY <1>2, MoveEffect, ReplyEffect DEF StaysKnown
  <2>2. QED
    BY <1>1, <2>1, BecomesTyped
<1>3. CASE TreeArrives \/ TreeFails
  BY <1>3, TreeEffect, BecomesTyped
<1>4. ASSUME NEW p \in Places, FilesArrive(p) \/ FilesFail(p)
      PROVE  Typed' /\ (Clicked(tab) => Clicked(tab'))
  BY <1>4, FilesEffect, BecomesTyped
<1>5. CASE Starts \/ CloseModal \/ Fails
  <2>1. /\ tab' \in TabType /\ Still(tab') /\ KnownOp(tab'.op)
        /\ Clicked(tab) => Clicked(tab')
        /\ UNCHANGED <<home, trashed, late>>
        /\ lost' \in Nat /\ changes' \in Nat /\ lost' + changes' <= MaxEvents
    BY <1>5, StillEffect
  <2>2. Made' = Made
    BY <2>1, ContentsStay
  <2>3. Base'
    <3>1. home' = home /\ trashed' = trashed /\ late' = late
      BY <2>1
    <3>2. QED
      BY <1>1, <2>1, <2>2, <3>1 DEF Base
  <2>4. KnownTab(tab)' /\ KnownOp(tab.op)'
    BY <1>1, <2>1, <2>2 DEF KnownTab, KnownOp, Still
  <2>5. QED
    BY <2>1, <2>3, <2>4 DEF Typed
<1>6. CASE Serve
  <2>1. /\ tab' \in TabType /\ Still(tab') /\ SameChoice(tab, tab') /\ tab'.open = tab.open
        /\ tab'.op \in Ops /\ tab'.op.at = "served"
        /\ tab.op \in Ops /\ tab'.op.kind = tab.op.kind /\ tab'.op.target = tab.op.target
        /\ home' \in [Ids -> Places \cup {None}] /\ Made \subseteq Made' /\ trashed' \subseteq Made'
        /\ UNCHANGED <<lost, changes>> /\ late' = late \cup Changed
    BY <1>6, ServeEffect
  <2>2. Changed \subseteq Places \cup {None}
    BY DEF Changed
  <2>3. Base'
    <3>1. lost' = lost /\ changes' = changes
      BY <2>1
    <3>2. QED
      BY <1>1, <2>1, <2>2, <3>1 DEF Base, Typed
  <2>4. KnownTab(tab)'
    BY <1>1, <2>1 DEF KnownTab, Still
  <2>5. KnownOp(tab.op)'
    <3>1. tab.op # Idle
      BY <2>1, Distinct
    <3>2. QED
      BY <1>1, <2>1, <3>1 DEF KnownOp
  <2>6. QED
    BY <2>1, <2>3, <2>4, <2>5 DEF Typed, Clicked, SameChoice
<1>7. CASE UNCHANGED vars
  <2>1. home' = home /\ trashed' = trashed /\ tab' = tab /\ late' = late /\ lost' = lost /\ changes' = changes
    BY <1>7 DEF vars
  <2>2. Made' = Made
    BY <2>1 DEF Made
  <2>3. QED
    BY <2>1, <2>2 DEF Typed, Base, KnownTab, KnownOp
<1>8. QED
  BY <1>2, <1>3, <1>4, <1>5, <1>6, <1>7, NextCases

\* Every variable has its type, the trash holds only what has been made, and no more is
\* counted as lost or changed than the bound allows: what the effects make of the URL, the
\* tree and the lists is always a state the page can render.
THEOREM TypeCorrect == Spec => []TypeOK
<1>1. Init => Typed
  BY InitTyped
<1>2. Typed /\ [Next]_vars => Typed'
  BY StepTyped
<1>3. Typed => TypeOK
  BY BaseIsTypeOK DEF Typed
<1>4. QED
  BY <1>1, <1>2, <1>3, PTL DEF Spec

\* While the modal is open it shows the file that was clicked, on whatever page it was clicked
\* or found, however often the list behind it is fetched again and its selection made anew
\* (useFilesWorkspace's effect on the records), unless there were no records for that effect
\* to run on, or new ones came without the file, or an upload ended under the modal.
THEOREM ClickedShown == Spec => []ClickedIsShown
<1> DEFINE IInv == Typed /\ Clicked(tab)
<1>1. Init => IInv
  <2>1. Init => Clicked(tab)
    BY DEF Init, Mounted, Clicked
  <2>2. QED
    BY <2>1, InitTyped
<1>2. IInv /\ [Next]_vars => IInv'
  BY StepTyped DEF Clicked
<1>3. IInv => ClickedIsShown
  BY DEF Clicked, ClickedIsShown
<1>4. QED
  BY <1>1, <1>2, <1>3, PTL DEF Spec

-----------------------------------------------------------------------------
(* What is shown and what is there *)

\* The tree, unless it was changed behind a fetch, is the one that is there, is being
\* fetched, or will be when the change under way has been answered.
TreeTold ==
    /\ lost = 0 /\ ~tab.treeOK => tab.treeFetch # Idle
    /\ None \notin late =>
        /\ tab.treeFetch # Idle => tab.treeFetch = folders
        /\ tab.treeFetch = Idle /\ lost = 0 => tab.tree = folders \/ TreeOwed(tab.op)

\* So is the list on the screen.
ListTold ==
    \A p \in Places \ late :
        /\ tab.fetch[p] # Idle => tab.fetch[p] = Contents(p)
        /\ tab.fetch[p] = Idle /\ lost = 0 /\ p = Observed(tab) =>
             tab.list[p] = Contents(p) \/ Owes(tab.op, p)

HasTree(t) == t.treeOK => t.tree # None

Told == Settled(tab) /\ HasTree(tab) /\ TreeTold /\ ListTold

LEMMA InitTold ==
    ASSUME Init
    PROVE  Told
<1>1. PICK url \in Places \cup {Elsewhere} : tab = Mounted(url)
  BY DEF Init
<1>2. home \in [Ids -> Places \cup {None}]
  BY DEF Init, Ids
<1>3. tab.treeFetch = folders /\ folders # Idle /\ tab.treeOK = FALSE /\ tab.url = url /\ tab.request = Root
  BY <1>1, <1>2, ReadTypes DEF Mounted
<1>4. \A p \in Places : tab.fetch[p] = IF p = Root /\ url = Root THEN Contents(Root) ELSE Idle
  BY <1>1 DEF Mounted
<1>5. Observed(tab) \in {None, Root} /\ (Observed(tab) = Root => url = Root)
  <2>1. tab.directory = Root
    BY <1>1 DEF Mounted
  <2>2. QED
    BY <1>1, <1>3, <2>1, Distinct DEF Observed, Ready, Directory, Requested
<1>6. Contents(Root) # Idle
  BY <1>2, ReadTypes, Distinct
<1>7. ListTold
  BY <1>4, <1>5, <1>6, Distinct DEF ListTold
<1>8. QED
  BY <1>3, <1>7 DEF Told, Settled, HasTree, TreeTold

\* A change of the tab, made while the API service does nothing, keeps the tree as it is
\* there when the change itself does.
LEMMA BecomesTold ==
    ASSUME Typed, Told, NEW t \in TabType, Becomes(t), UNCHANGED <<home, trashed>>, HasTree(t),
           t.treeFetch \in {tab.treeFetch, folders, Idle},
           lost' = 0 /\ ~t.treeOK => t.treeFetch # Idle,
           None \notin late /\ t.treeFetch = Idle /\ lost' = 0 => t.tree = folders \/ TreeOwed(t.op),
           \A p \in Places : t.fetch[p] \in {tab.fetch[p], Contents(p), Idle},
           \A p \in Places \ late : t.fetch[p] = Idle /\ lost' = 0 /\ p = Observed(tab) =>
                                        t.list[p] = Contents(p) \/ Owes(t.op, p)
    PROVE  Told'
<1>1. Base /\ tab \in TabType
  BY DEF Typed, Base
<1>2. /\ tab' \in TabType /\ SameData(t, tab') /\ Settled(tab')
      /\ \A p \in Places : tab'.fetch[p] \in {t.fetch[p], Contents(p)}
      /\ Observed(tab') \in {None, Observed(tab)} \/ tab'.fetch[Observed(tab')] # Idle
      /\ late' \subseteq late
      /\ \A p \in Places : p \in late \ late' => tab'.fetch[p] \notin {Idle, tab.fetch[p]}
      /\ None \in late \ late' => tab'.treeFetch \notin {Idle, tab.treeFetch}
  BY <1>1, BecomesEffect
<1>3. /\ folders' = folders /\ folders # Idle /\ \A p \in Places : Contents(p)' = Contents(p) /\ Contents(p) # Idle
      /\ home' = home
  BY <1>1, ReadTypes, ContentsStay DEF Base
<1>4. HasTree(tab)'
  BY <1>2 DEF HasTree, SameData
<1>5. TreeTold'
  <2>1. tab'.tree = t.tree /\ tab'.treeOK = t.treeOK /\ tab'.treeFetch = t.treeFetch /\ tab'.op = t.op
    BY <1>2 DEF SameData
  <2>2. lost' = 0 /\ ~tab'.treeOK => tab'.treeFetch # Idle
    BY <2>1
  <2>3. ASSUME None \notin late', tab'.treeFetch # Idle PROVE tab'.treeFetch = folders
    <3>1. CASE None \in late
      BY <1>2, <2>1, <2>3, <3>1
    <3>2. CASE None \notin late
      <4>1. tab.treeFetch # Idle => tab.treeFetch = folders
        BY <3>2 DEF Told, TreeTold
      <4>2. QED
        BY <2>1, <2>3, <4>1
    <3>3. QED
      BY <3>1, <3>2
  <2>4. ASSUME None \notin late', tab'.treeFetch = Idle, lost' = 0
        PROVE  tab'.tree = folders \/ TreeOwed(tab'.op)
    <3>1. None \notin late
      BY <1>2, <2>4
    <3>2. QED
      BY <2>1, <2>4, <3>1
  <2>5. TreeOwed(tab'.op) = TreeOwed(tab.op)'
    BY DEF TreeOwed
  <2>6. QED
    BY <1>3, <2>2, <2>3, <2>4, <2>5 DEF TreeTold
<1>6. ListTold'
  <2>1. tab'.list = t.list /\ tab'.op = t.op
    BY <1>2 DEF SameData
  <2>2. ASSUME NEW p \in Places, p \notin late', tab'.fetch[p] # Idle PROVE tab'.fetch[p] = Contents(p)
    <3>1. tab'.fetch[p] \in {tab.fetch[p], Contents(p)}
      BY <1>2, <2>2
    <3>2. CASE p \in late
      BY <1>2, <2>2, <3>1, <3>2
    <3>3. CASE p \notin late
      <4>1. tab.fetch[p] # Idle => tab.fetch[p] = Contents(p)
        BY <3>3 DEF Told, ListTold
      <4>2. QED
        BY <2>2, <3>1, <4>1
    <3>4. QED
      BY <3>2, <3>3
  <2>3. ASSUME NEW p \in Places, p \notin late', tab'.fetch[p] = Idle, lost' = 0, p = Observed(tab')
        PROVE  tab'.list[p] = Contents(p) \/ Owes(tab'.op, p)
    <3>1. p # None /\ p = Observed(tab)
      BY <1>2, <2>3, Distinct
    <3>2. p \notin late
      BY <1>2, <2>3
    <3>3. t.fetch[p] = Idle
      BY <1>2, <1>3, <2>3
    <3>4. QED
      BY <2>1, <2>3, <3>1, <3>2, <3>3
  <2>4. \A p : Owes(tab.op, p)' = Owes(tab'.op, p)
    BY <1>3 DEF Owes
  <2>5. \A p \in Places \ late' :
           /\ tab'.fetch[p] # Idle => tab'.fetch[p] = Contents(p)'
           /\ tab'.fetch[p] = Idle /\ lost' = 0 /\ p = Observed(tab') =>
                tab'.list[p] = Contents(p)' \/ Owes(tab.op, p)'
    BY <1>3, <2>2, <2>3, <2>4
  <2>6. Observed(tab)' = Observed(tab')
    BY DEF Observed, Ready, Directory, Requested
  <2>7. QED
    BY <2>5, <2>6 DEF ListTold
<1>7. Settled(tab)'
  BY <1>2 DEF Settled, Requested
<1>8. QED
  BY <1>4, <1>5, <1>6, <1>7 DEF Told

\* What is in a place changes only as the change under way says; and so do the folders.
LEMMA ServeContents ==
    ASSUME Typed, Serve
    PROVE  /\ folders' = folders \/ tab.op.target \in Folders
           /\ \A p \in Places :
                 \/ Contents(p)' = Contents(p)
                 \/ tab.op.target \in Folders
                 \/ tab.op.kind = "delete"
                 \/ tab.op.kind = "restore" /\ home'[tab.op.target] = p
                 \/ tab.op.kind = "upload" /\ tab.op.place = p
<1> DEFINE x == tab.op.target
<1>1. /\ tab.op \in Ops /\ tab.op.at = "sent" /\ tab.op # Idle
      /\ home \in [Ids -> Places \cup {None}]
      /\ ServeOn(tab.op.kind, x, tab.op.place)
      /\ KnownOp(tab.op)
  BY ServeEffect, Distinct DEF Typed, Base
<1>2. \/ tab.op.kind \in {"upload", "delete", "restore"} /\ x \in Files
      \/ x \in Folders
  BY <1>1, OpTypes
<1> SUFFICES ASSUME x \in Files, tab.op.kind \in {"upload", "delete", "restore"}
             PROVE  /\ folders' = folders
                    /\ \A p \in Places :
                          \/ Contents(p)' = Contents(p)
                          \/ tab.op.kind = "delete"
                          \/ tab.op.kind = "restore" /\ home'[x] = p
                          \/ tab.op.kind = "upload" /\ tab.op.place = p
  BY <1>2
<1> HIDE DEF x
<1>3. With(x) = {x} /\ x \notin Folders
  <2>1. \A f \in Files : home[f] \notin Files
    BY <1>1, Distinct DEF Ids
  <2>2. QED
    BY <2>1, Distinct DEF With
<1>4. CASE tab.op.kind = "upload"
  <2>1. home' = [home EXCEPT ![x] = tab.op.place] /\ trashed' = trashed
    BY <1>1, <1>4 DEF ServeOn
  <2>2. home[x] = None
    BY <1>1, <1>4 DEF KnownOp, x
  <2>3. home'[x] = tab.op.place /\ \A y \in Ids : y # x => home'[y] = home[y]
    BY <1>1, <2>1 DEF Ids
  <2>4. folders' = folders
    BY <1>3, <2>1, <2>3 DEF folders, Ids
  <2>5. ASSUME NEW p \in Places, p # tab.op.place PROVE Contents(p)' = Contents(p)
    BY <2>1, <2>2, <2>3, <2>5, Distinct DEF Contents, Ids
  <2>6. QED
    BY <1>4, <2>4, <2>5
<1>5. CASE tab.op.kind = "delete"
  <2>1. home' = home /\ trashed' = trashed \cup {x}
    BY <1>1, <1>3, <1>5 DEF ServeOn
  <2>2. folders' = folders
    BY <1>3, <2>1 DEF folders
  <2>3. QED
    BY <1>5, <2>2
<1>6. CASE tab.op.kind = "restore"
  <2>1. home' = home /\ trashed' = trashed \ {x}
    BY <1>1, <1>3, <1>6 DEF ServeOn
  <2>2. folders' = folders
    BY <1>3, <2>1 DEF folders
  <2>3. ASSUME NEW p \in Places, home[x] # p PROVE Contents(p)' = Contents(p)
    BY <2>1, <2>3 DEF Contents
  <2>4. QED
    BY <1>6, <2>1, <2>2, <2>3
<1>7. QED
  BY <1>4, <1>5, <1>6

LEMMA ServeTold ==
    ASSUME Typed, Told, Serve
    PROVE  Told'
<1>1. /\ tab' \in TabType /\ Still(tab')
      /\ tab.op \in Ops /\ tab'.op \in Ops /\ tab.op.at = "sent" /\ tab'.op.at = "served"
      /\ tab'.op.kind = tab.op.kind /\ tab'.op.target = tab.op.target /\ tab'.op.place = tab.op.place
      /\ UNCHANGED <<lost, changes>> /\ late' = late \cup Changed
  BY ServeEffect
<1>2. /\ folders' = folders \/ tab.op.target \in Folders
      /\ \A p \in Places :
            \/ Contents(p)' = Contents(p)
            \/ tab.op.target \in Folders
            \/ tab.op.kind = "delete"
            \/ tab.op.kind = "restore" /\ home'[tab.op.target] = p
            \/ tab.op.kind = "upload" /\ tab.op.place = p
  BY ServeContents
<1>3. tab.op # Idle /\ tab'.op # Idle /\ tab \in TabType /\ lost' = lost
  BY <1>1, Distinct DEF Typed, Base
<1>4. ~TreeOwed(tab.op) /\ \A p : ~Owes(tab.op, p)
  BY <1>1 DEF TreeOwed, Owes
<1>5. Settled(tab)' /\ HasTree(tab)'
  BY <1>1 DEF Told, Settled, HasTree, Still, SameView, Requested
<1>6. TreeTold'
  <2>1. tab'.tree = tab.tree /\ tab'.treeFetch = tab.treeFetch /\ tab'.treeOK = tab.treeOK
    BY <1>1 DEF Still
  <2>2. tab.op.target \in Folders => TreeOwed(tab.op)'
    BY <1>1, <1>3 DEF TreeOwed
  <2>3. None \notin late' => None \notin late /\ (tab.treeFetch # Idle => folders' = folders)
    BY <1>1, Distinct DEF Changed
  <2>4. QED
    BY <1>2, <1>3, <1>4, <2>1, <2>2, <2>3 DEF Told, TreeTold
<1>7. ListTold'
  <2>1. tab'.list = tab.list /\ tab'.fetch = tab.fetch
    BY <1>1 DEF Still
  <2>2. Observed(tab)' = Observed(tab)
    BY <1>1 DEF Still, SameView, Observed, Ready, Directory, Requested
  <2>3. ASSUME NEW p \in Places, p \notin late', tab.fetch[p] # Idle
        PROVE  tab'.fetch[p] = Contents(p)'
    <3>1. p \notin late /\ Contents(p)' = Contents(p)
      BY <1>1, <2>3 DEF Changed
    <3>2. QED
      BY <2>1, <2>3, <3>1 DEF Told, ListTold
  <2>4. ASSUME NEW p \in Places, p \notin late', tab.fetch[p] = Idle, lost = 0, p = Observed(tab)
        PROVE  tab'.list[p] = Contents(p)' \/ Owes(tab.op, p)'
    <3>1. p \notin late /\ tab.list[p] = Contents(p)
      BY <1>1, <1>4, <2>4 DEF Told, ListTold
    <3>2. CASE Contents(p)' = Contents(p)
      BY <2>1, <3>1, <3>2
    <3>3. CASE Contents(p)' # Contents(p)
      <4>1. tab.op.target \notin Folders
        BY <1>1, <2>4, <3>3 DEF Changed
      <4>2. QED
        BY <1>1, <1>2, <1>3, <3>3, <4>1 DEF Owes
    <3>4. QED
      BY <3>2, <3>3
  <2>5. QED
    BY <1>3, <2>1, <2>2, <2>3, <2>4 DEF ListTold
<1>8. QED
  BY <1>5, <1>6, <1>7 DEF Told

LEMMA StillTold ==
    ASSUME Typed, Told, Starts \/ CloseModal \/ Fails
    PROVE  Told'
<1>1. /\ tab' \in TabType /\ Still(tab')
      /\ UNCHANGED <<home, trashed, late>> /\ lost' \in Nat
      /\ lost' = 0 => /\ lost = 0
                      /\ TreeOwed(tab.op) => TreeOwed(tab'.op)
                      /\ \A p \in Places : Owes(tab.op, p) => Owes(tab'.op, p)
  BY StillEffect
<1>2. folders' = folders /\ home' = home /\ late' = late /\ \A p \in Places : Contents(p)' = Contents(p)
  BY <1>1, ContentsStay
<1>3. TreeOwed(tab.op)' = TreeOwed(tab'.op) /\ \A p : Owes(tab.op, p)' = Owes(tab'.op, p)
  BY <1>2 DEF TreeOwed, Owes
<1>4. Settled(tab)' /\ HasTree(tab)'
  BY <1>1 DEF Told, Settled, HasTree, Still, SameView, Requested
<1>5. TreeTold'
  BY <1>1, <1>2, <1>3 DEF Told, TreeTold, Still
<1>6. Observed(tab)' = Observed(tab)
  BY <1>1 DEF Still, SameView, Observed, Ready, Directory, Requested
<1>7. ListTold'
  BY <1>1, <1>2, <1>3, <1>6 DEF Told, ListTold, Still
<1>8. QED
  BY <1>4, <1>5, <1>7 DEF Told

LEMMA StepTold ==
    ASSUME Typed, Told, [Next]_vars
    PROVE  Told'
<1>1. Settled(tab) /\ HasTree(tab) /\ TreeTold /\ ListTold /\ tab \in TabType
  BY DEF Told, Typed, Base
<1>2. CASE Move
  <2>1. PICK t \in TabType : StaysKnown(t)
    BY <1>2, MoveEffect
  <2>2. Becomes(t) /\ Stays(t) /\ HasTree(t)
    BY <1>1, <2>1 DEF StaysKnown, BecomesKnown, Stays, HasTree
  <2>3. UNCHANGED <<home, trashed, lost>>
    BY <1>2, MoveEffect
  <2>4. /\ lost' = 0 /\ ~t.treeOK => t.treeFetch # Idle
        /\ None \notin late /\ t.treeFetch = Idle /\ lost' = 0 => t.tree = folders \/ TreeOwed(t.op)
        /\ \A p \in Places \ late : t.fetch[p] = Idle /\ lost' = 0 /\ p = Observed(tab) =>
                                        t.list[p] = Contents(p) \/ Owes(t.op, p)
    BY <1>1, <2>2, <2>3 DEF Stays, TreeTold, ListTold
  <2>5. QED
    BY <2>2, <2>3, <2>4, BecomesTold DEF Stays
<1>3. CASE Answered \/ AfterTree
  <2>1. PICK t \in TabType : BecomesKnown(t) /\ Paid(t)
    BY <1>3, ReplyEffect
  <2>2. UNCHANGED <<home, trashed, lost>>
    BY <1>3, ReplyEffect
  <2>3. Becomes(t) /\ HasTree(t)
    BY <1>1, <2>1 DEF BecomesKnown, Paid, HasTree
  <2>4. folders # Idle /\ \A p \in Places : Contents(p) # Idle
    BY ReadTypes DEF Typed, Base
  <2>5. /\ lost' = 0 /\ ~t.treeOK => t.treeFetch # Idle
        /\ None \notin late /\ t.treeFetch = Idle /\ lost' = 0 => t.tree = folders \/ TreeOwed(t.op)
    BY <1>1, <2>1, <2>2, <2>4 DEF Paid, TreeTold
  <2>6. \A p \in Places \ late : t.fetch[p] = Idle /\ lost' = 0 /\ p = Observed(tab) =>
                                     t.list[p] = Contents(p) \/ Owes(t.op, p)
    BY <1>1, <2>1, <2>2, <2>4 DEF Paid, ListTold
  <2>7. QED
    BY <2>1, <2>2, <2>3, <2>5, <2>6, BecomesTold DEF Paid
<1>4. CASE TreeArrives \/ TreeFails
  <2>1. tab.treeFetch # Idle /\ UNCHANGED <<home, trashed>>
    BY <1>4, TreeEffect
  <2>2. PICK t \in TabType :
            /\ BecomesKnown(t) /\ t.treeFetch = Idle
            /\ t.list = tab.list /\ t.fetch = tab.fetch /\ t.op = tab.op
            /\ \/ lost' = lost /\ t.tree = tab.treeFetch /\ t.treeOK
               \/ lost' # 0 /\ ~t.treeOK
    BY <1>4, TreeEffect
  <2>3. Becomes(t) /\ (lost' = 0 => lost = 0)
    BY <1>4, <2>2 DEF BecomesKnown, TreeArrives, TreeFails, Lose, Typed, Base
  <2>4. HasTree(t)
    <3>1. tab.treeFetch # None
      BY <1>1, <2>1, Distinct DEF TabType
    <3>2. QED
      BY <2>2, <3>1 DEF HasTree
  <2>5. /\ lost' = 0 /\ ~t.treeOK => t.treeFetch # Idle
        /\ None \notin late /\ t.treeFetch = Idle /\ lost' = 0 => t.tree = folders \/ TreeOwed(t.op)
    BY <1>1, <2>1, <2>2 DEF TreeTold
  <2>6. \A p \in Places \ late : t.fetch[p] = Idle /\ lost' = 0 /\ p = Observed(tab) =>
                                     t.list[p] = Contents(p) \/ Owes(t.op, p)
    BY <1>1, <2>2, <2>3 DEF ListTold
  <2>7. QED
    BY <2>1, <2>2, <2>3, <2>4, <2>5, <2>6, BecomesTold
<1>5. ASSUME NEW place \in Places, FilesArrive(place) \/ FilesFail(place) PROVE Told'
  <2>1. tab.fetch[place] # Idle /\ UNCHANGED <<home, trashed>>
    BY <1>5, FilesEffect
  <2>2. PICK t \in TabType :
            /\ BecomesKnown(t) /\ t.tree = tab.tree /\ t.treeFetch = tab.treeFetch
            /\ t.treeOK = tab.treeOK /\ t.op = tab.op
            /\ t.fetch[place] = Idle
            /\ \A p \in Places : p # place => t.fetch[p] = tab.fetch[p] /\ t.list[p] = tab.list[p]
            /\ \/ lost' = lost /\ t.list[place] = tab.fetch[place]
               \/ lost' # 0
    BY <1>5, FilesEffect
  <2>3. Becomes(t) /\ HasTree(t)
    BY <1>1, <2>2 DEF BecomesKnown, HasTree
  <2>4. lost' = 0 => lost = 0
    BY <1>5 DEF FilesArrive, FilesFail, Lose, Typed, Base
  <2>5. /\ lost' = 0 /\ ~t.treeOK => t.treeFetch # Idle
        /\ None \notin late /\ t.treeFetch = Idle /\ lost' = 0 => t.tree = folders \/ TreeOwed(t.op)
    BY <1>1, <2>2, <2>4 DEF TreeTold
  <2>6. \A p \in Places \ late : t.fetch[p] = Idle /\ lost' = 0 /\ p = Observed(tab) =>
                                     t.list[p] = Contents(p) \/ Owes(t.op, p)
    BY <1>1, <2>1, <2>2, <2>4 DEF ListTold
  <2>7. \A p \in Places : t.fetch[p] \in {tab.fetch[p], Contents(p), Idle}
    BY <2>2
  <2>8. QED
    BY <2>1, <2>2, <2>3, <2>5, <2>6, <2>7, BecomesTold
<1>6. CASE Starts \/ CloseModal \/ Fails
  BY <1>6, StillTold
<1>7. CASE Serve
  BY <1>7, ServeTold
<1>8. CASE UNCHANGED vars
  BY <1>8 DEF vars, Told, Settled, Requested, HasTree, TreeTold, ListTold, TreeOwed, Owes, folders,
              Contents, Observed, Ready, Directory
<1>9. QED
  BY <1>2, <1>3, <1>4, <1>5, <1>6, <1>7, <1>8, NextCases

\* When nothing is under way the page of files shows the files that its folder has, and the
\* URL names that folder, whatever came between: moves to other folders during an upload, a
\* deletion or a fetch, a folder that turned out not to exist, answers in any order.
THEOREM ShownAsIs == Spec => []ShowsWhatIs
<1> DEFINE IInv == Typed /\ Told
<1>1. Init => IInv
  BY InitTyped, InitTold
<1>2. IInv /\ [Next]_vars => IInv'
  BY StepTyped, StepTold
<1>3. IInv => ShowsWhatIs
  <2> SUFFICES ASSUME Typed, Told, Quiet, tab.url # Elsewhere, lost = 0
               PROVE  /\ None \in late \/ tab.tree = folders
                      /\ Ready(tab) /\ Directory(tab) = tab.url
                      /\ tab.url \in late \/ None \in late \/ Rows(tab) = Contents(tab.url)
    BY DEF ShowsWhatIs
  <2>1. /\ tab \in TabType /\ home \in [Ids -> Places \cup {None}]
        /\ tab.op = Idle /\ tab.treeFetch = Idle /\ \A p \in Places : tab.fetch[p] = Idle
    BY DEF Typed, Base, Quiet
  <2>2. tab.treeOK /\ (None \notin late => tab.tree = folders)
    BY <2>1 DEF Told, TreeTold, TreeOwed
  <2>3. /\ tab.url \in Places /\ Requested(tab) = tab.url /\ tab.request = tab.url
        /\ tab.directory = IF tab.url \in tab.tree THEN tab.url ELSE Root
        /\ tab.url \in Folders => tab.url \in tab.tree
    BY <2>1, <2>2 DEF Told, Settled, Requested, TabType
  <2>4. Ready(tab) /\ Directory(tab) = tab.url /\ Observed(tab) = tab.url
    BY <2>2, <2>3 DEF Ready, Directory, Observed, Places
  <2>5. ASSUME tab.url \notin late PROVE Rows(tab) = Contents(tab.url)
    <3>1. tab.list[tab.url] = Contents(tab.url)
      BY <2>1, <2>3, <2>4, <2>5 DEF Told, ListTold, Owes
    <3>2. Contents(tab.url) # None /\ tab.url # None
      BY <2>1, <2>3, ReadTypes, Distinct
    <3>3. QED
      BY <2>4, <3>1, <3>2 DEF Rows, Records
  <2>6. QED
    BY <2>2, <2>4, <2>5
<1>4. QED
  BY <1>1, <1>2, <1>3, PTL DEF Spec
==============================================================================
