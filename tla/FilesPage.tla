------------------------------ MODULE FilesPage ------------------------------
(***************************************************************************)
(* The page of a user's files ("Berkas Saya") and the layout around it:    *)
(* the folder named in the URL, the cached tree of folders, one cached     *)
(* list of files per folder, the selected file and its modal, and uploads, *)
(* deletions and new folders under way while the user moves about.         *)
(*                                                                         *)
(* Code: web-client/src: pages/dashboard/_hooks/{useFilesWorkspace,        *)
(* useDirectoryTree}.ts, pages/dashboard/files,                            *)
(* widgets/dashboard/_components/UserDashboardLayout.tsx.                  *)
(*                                                                         *)
(* A list is the set of its files; its pages, filter and order are left   *)
(* out.  A request is read by the API service when it is sent, which       *)
(* is the earliest, and therefore the worst, moment.                       *)
(***************************************************************************)
EXTENDS Naturals

CONSTANTS
    Folders,    \* ids of folders, existing or not, all below the root
    Files,      \* ids of files
    Root,       \* "Berkas Saya" itself
    Elsewhere,  \* any other page of the layout
    None,       \* no data, no file
    Idle,       \* nothing under way
    MaxEvents   \* bound on what the user changes and on lost answers, together

Places == Folders \cup {Root}

ASSUME FilesPageAssumption ==
    /\ MaxEvents \in Nat
    /\ Files \cap Folders = {}
    /\ {Root, Elsewhere, None, Idle} \cap (Folders \cup Files) = {}
    /\ Root \notin {Elsewhere, None, Idle} /\ Elsewhere \notin {None, Idle} /\ None # Idle

\* A change under way: what is done to what, the folder on the screen when it was
\* started, and how far it has come.
Ops == [kind : {"upload", "delete", "restore"}, target : Files, place : Places,
        at : {"sent", "served", "tree"}]
       \cup [kind : {"deleteFolder", "createFolder", "restoreFolder"}, target : Folders, place : Places,
             at : {"sent", "served"}]

\* What stands for the lack of a value is no value.
ASSUME NoneAssumption ==
    /\ \A list \in (SUBSET Files) \cup (SUBSET Folders) : list \notin {None, Idle}
    /\ \A op \in Ops : op # Idle

VARIABLES
    home,       \* server: where each file or folder is, None before it is made
    trashed,    \* server: the files and folders in the trash
    tab,        \* the state of the layout and of the query cache
    late,       \* history: places changed behind their list, None for the tree
    lost,       \* how many answers, to a fetch or a change, never came
    changes     \* how much the user has changed

vars == <<home, trashed, tab, late, lost, changes>>

folders == {d \in Folders : home[d] # None} \ trashed

Contents(place) == {f \in Files \ trashed : home[f] = place}

-----------------------------------------------------------------------------
(* What is derived from the state when it is rendered *)

\* Faulty variant: whatever page is open is taken for a folder.
RequestedAnywhere(t) == t.url

Requested(t) == IF t.url = Elsewhere THEN Root ELSE t.url

Ready(t) == t.url \in {Root, Elsewhere} \/ (t.treeOK /\ t.request = t.url)

\* effectiveSelectedDirectoryID; Root for null.
Directory(t) == IF t.request = Requested(t) THEN t.directory ELSE Root

\* The list that is fetched: the query is disabled on other pages and until the
\* tree has told what the URL means.
Observed(t) == IF t.url # Elsewhere /\ Ready(t) THEN Directory(t) ELSE None

Records(t) == IF t.list[Directory(t)] = None THEN {} ELSE t.list[Directory(t)]

\* The rows on the screen, as soon as there is something to show.
Rows(t) == IF Observed(t) = None THEN {} ELSE Records(t)

-----------------------------------------------------------------------------
(* The effects that follow every change, in the order they run *)

\* useDirectoryTree: what the URL asks for is a folder of the tree, or the root.
Resolve(t) ==
    IF ~t.treeOK THEN t
    ELSE [t EXCEPT !.request = Requested(t),
                   !.directory = IF Requested(t) \in t.tree THEN Requested(t) ELSE Root]

\* UserDashboardLayout: a folder that is unknown is taken out of the URL.
RedirectUnknown(t) ==
    IF t.url \in Folders /\ Ready(t) /\ Directory(t) = Root
    THEN Resolve([t EXCEPT !.url = Root]) ELSE t

\* A list that comes to be observed is fetched, unless it is being fetched already.
Observe(before, t) ==
    LET place == Observed(t) IN
    IF place \in {None, Observed(before)} \/ t.fetch[place] # Idle THEN t
    ELSE [t EXCEPT !.fetch[place] = Contents(place)]

\* The records of t are others than before; without data they are new on every
\* rendering.
NewRecords(before, t) ==
    \/ t.list[Directory(t)] = None
    \/ Directory(t) # Directory(before)
    \/ Records(t) # Records(before)

\* Faulty variant: whatever was selected gives way to the first record.
SelectFirst(before, t, first) ==
    IF ~NewRecords(before, t) THEN t
    ELSE [t EXCEPT !.selected = IF Records(t) = {} THEN None ELSE first]

\* The selection follows the records when these change.
Reselect(before, t, first) ==
    IF ~NewRecords(before, t) THEN t
    ELSE [t EXCEPT !.selected = IF Records(t) = {} THEN None
                                ELSE IF t.selected \in Records(t) THEN t.selected ELSE first]

\* A fetch of place p, or of the tree, has been started.
Refetched(p, t) ==
    LET old == IF p = None THEN tab.treeFetch ELSE tab.fetch[p]
        new == IF p = None THEN t.treeFetch ELSE t.fetch[p]
    IN new \notin {Idle, old}

\* The file t.chosen has been clicked, and new records came without it.
Astray(before, t) ==
    t.chosen # None /\ (t.astray \/ (NewRecords(before, t) /\ t.chosen \notin Records(t)))

\* A change of the tab together with its effects; the first record depends on
\* the order the user has chosen.
Becomes(t) ==
    LET settled == Observe(tab, RedirectUnknown(Resolve(t))) IN
    /\ \E first \in IF Records(settled) = {} THEN {None} ELSE Records(settled) :
           tab' = [Reselect(tab, settled, first) EXCEPT !.astray = Astray(tab, settled)]
    /\ late' = {p \in late : ~Refetched(p, settled)}

-----------------------------------------------------------------------------
(* The query cache *)

\* invalidateQueries: an observed query is fetched again, in place of a fetch
\* under way if it has data already; if it has none, the fetch under way is joined.
InvalidateTree(t) ==
    IF t.tree = None /\ t.treeFetch # Idle THEN t ELSE [t EXCEPT !.treeFetch = folders]

\* Faulty variant: the list is left as it is.
KeepFiles(t, place) == t

InvalidateFiles(t, place) ==
    IF Observed(t) # place \/ (t.list[place] = None /\ t.fetch[place] # Idle) THEN t
    ELSE [t EXCEPT !.fetch[place] = Contents(place)]

Nothing == [p \in Places |-> None]

\* The layout right after it has been mounted by the URL url.  Two fields are
\* history: chosen, the file clicked for the modal that is open, and astray, that
\* new records have come without it.
Mounted(url) ==
    [url |-> url, request |-> Root, directory |-> Root,
     tree |-> None, treeFetch |-> folders, treeOK |-> FALSE,
     list |-> Nothing,
     fetch |-> [p \in Places |-> IF p = Root /\ url = Root THEN Contents(Root) ELSE Idle],
     selected |-> None, open |-> FALSE, chosen |-> None, astray |-> FALSE,
     op |-> Idle]

Init ==
    /\ home \in [Files \cup Folders -> Places \cup {None}]
    /\ \A d \in Folders : home[d] \in {Root, None}
    /\ \A f \in Files : home[f] \in Folders => home[home[f]] = Root
    /\ trashed = {}
    /\ \E url \in Places \cup {Elsewhere} : tab = Mounted(url)
    /\ late = {}
    /\ lost = 0 /\ changes = 0

TreeArrives ==
    /\ tab.treeFetch # Idle
    /\ Becomes([tab EXCEPT !.tree = tab.treeFetch, !.treeFetch = Idle, !.treeOK = TRUE])
    /\ UNCHANGED <<home, trashed, lost, changes>>

FilesArrive(place) ==
    /\ tab.fetch[place] # Idle
    /\ Becomes([tab EXCEPT !.list[place] = tab.fetch[place], !.fetch[place] = Idle])
    /\ UNCHANGED <<home, trashed, lost, changes>>

Lose == lost + changes < MaxEvents /\ lost' = lost + 1

\* Both attempts have failed; the data of before stay.
TreeFails ==
    /\ tab.treeFetch # Idle /\ Lose
    /\ Becomes([tab EXCEPT !.treeFetch = Idle, !.treeOK = FALSE])
    /\ UNCHANGED <<home, trashed, changes>>

FilesFail(place) ==
    /\ tab.fetch[place] # Idle /\ Lose
    /\ Becomes([tab EXCEPT !.fetch[place] = Idle])
    /\ UNCHANGED <<home, trashed, changes>>

-----------------------------------------------------------------------------
(* Moving about *)

GoTo(url) ==
    /\ url # tab.url
    /\ Becomes([tab EXCEPT !.url = url])
    /\ UNCHANGED <<home, trashed, lost, changes>>

\* A row, an entry of the breadcrumb or of the sidebar, while no modal covers them.
SelectDirectory ==
    /\ ~tab.open
    /\ \E place \in Places : place \in {Root, Requested(tab)} \cup Folders
          /\ (place = Root \/ (tab.tree # None /\ place \in tab.tree))
          /\ GoTo(place)

LeavePage == ~tab.open /\ GoTo(Elsewhere)

\* Back and forward, to whatever has been in the URL.
Back == \E url \in Places \cup {Elsewhere} : GoTo(url)

\* A click on file f: it is selected and the modal opened.
OpenFile(t, f) == [t EXCEPT !.selected = f, !.open = TRUE, !.chosen = f, !.astray = FALSE]

SelectFile(f) ==
    /\ ~tab.open /\ f \in Rows(tab)
    /\ Becomes(OpenFile(tab, f))
    /\ UNCHANGED <<home, trashed, lost, changes>>

\* The same handler serves the rows of the trash and of starred files, which
\* are not among the records.
SelectFileElsewhere(f) ==
    /\ ~tab.open /\ tab.url = Elsewhere /\ home[f] # None
    /\ Becomes(OpenFile(tab, f))
    /\ UNCHANGED <<home, trashed, lost, changes>>

\* A result of the search in the topbar, which is on every page.
SelectSearchResult(f) ==
    /\ ~tab.open /\ home[f] # None /\ f \notin trashed
    /\ Becomes([OpenFile(tab, f) EXCEPT !.url = home[f]])
    /\ UNCHANGED <<home, trashed, lost, changes>>

CloseModal ==
    /\ tab.open
    /\ tab' = [tab EXCEPT !.open = FALSE, !.chosen = None, !.astray = FALSE]
    /\ UNCHANGED <<home, trashed, late, lost, changes>>

-----------------------------------------------------------------------------
(* Changes: one at a time is under way *)

Start(kind, target) ==
    /\ tab.op = Idle /\ ~tab.open
    /\ lost + changes < MaxEvents /\ changes' = changes + 1
    /\ tab' = [tab EXCEPT !.op =
                  [kind |-> kind, target |-> target, place |-> Directory(tab), at |-> "sent"]]
    /\ UNCHANGED <<home, trashed, late, lost>>

\* By the button or by a drop, also while the page is still loading.
Upload(f) == tab.url # Elsewhere /\ home[f] = None /\ Start("upload", f)

SoftDelete(f) == f \in Rows(tab) /\ Start("delete", f)

SoftDeleteFolder(d) ==
    /\ tab.url = Root /\ tab.tree # None /\ d \in tab.tree
    /\ Start("deleteFolder", d)

CreateFolder(d) == home[d] = None /\ Start("createFolder", d)

\* On the page of the trash.
Restore(x) ==
    /\ tab.url = Elsewhere /\ x \in trashed
    /\ Start(IF x \in Folders THEN "restoreFolder" ELSE "restore", x)

\* What the API service does to target x: its file or folder, and with a folder
\* the files in it.
With(x) == {x} \cup {f \in Files : home[f] = x}

ServeOn(kind, x, place) ==
    CASE kind \in {"upload", "createFolder"} ->
           /\ home' = [home EXCEPT ![x] = IF kind = "upload" THEN place ELSE Root]
           /\ UNCHANGED trashed
      [] kind \in {"delete", "deleteFolder"} -> trashed' = trashed \cup With(x) /\ UNCHANGED home
      [] OTHER -> trashed' = trashed \ With(x) /\ UNCHANGED home

\* The places whose list will not tell of the change: it was being fetched, or a
\* folder went to the trash or came back, which makes no list of files stale.
Changed ==
    {p \in Places : /\ Contents(p) # Contents(p)'
                    /\ tab.fetch[p] # Idle \/ tab.op.target \in Folders}
    \cup (IF tab.treeFetch # Idle /\ folders # folders' THEN {None} ELSE {})

\* The API service does it, in a folder that is there; fetches under way have
\* been read before.
Serve ==
    /\ tab.op # Idle /\ tab.op.at = "sent"
    /\ tab.op.kind = "upload" => tab.op.place \in folders \cup {Root}
    /\ tab.op.kind = "restore" => home[tab.op.target] \in folders \cup {Root}
    /\ ServeOn(tab.op.kind, tab.op.target, tab.op.place)
    /\ late' = late \cup Changed
    /\ tab' = [tab EXCEPT !.op.at = "served"]
    /\ UNCHANGED <<lost, changes>>

Done(t) == [t EXCEPT !.op = Idle]

\* onSuccess of each mutation.  What a deletion makes stale is the list of the
\* folder on the screen by now.
Answered ==
    /\ tab.op # Idle /\ tab.op.at = "served"
    /\ LET t == CASE tab.op.kind = "upload" ->
                       [InvalidateTree(tab) EXCEPT
                           !.selected = tab.op.target, !.chosen = None, !.astray = FALSE,
                           !.op.at = "tree"]
                  [] tab.op.kind = "delete" -> Done(InvalidateFiles(tab, Directory(tab)))
                  [] tab.op.kind = "restore" -> Done(InvalidateFiles(tab, home[tab.op.target]))
                  [] OTHER -> Done(InvalidateTree(tab))
       IN Becomes(t)
    /\ UNCHANGED <<home, trashed, lost, changes>>

\* An upload waits for the tree before it makes the list of its folder stale.
AfterTree ==
    /\ tab.op # Idle /\ tab.op.at = "tree" /\ tab.treeFetch = Idle
    /\ LET t == Done(InvalidateFiles(tab, tab.op.place))
       IN Becomes(t)
    /\ UNCHANGED <<home, trashed, lost, changes>>

\* Refused or failed, or done and its answer lost: a notice is all that follows.
Fails ==
    /\ tab.op # Idle
    /\ \/ tab.op.at = "sent" /\ UNCHANGED lost
       \/ tab.op.at = "served" /\ Lose
    /\ tab' = Done(tab)
    /\ UNCHANGED <<home, trashed, late, changes>>

Next ==
    \/ TreeArrives \/ TreeFails
    \/ \E p \in Places : FilesArrive(p) \/ FilesFail(p)
    \/ SelectDirectory \/ LeavePage \/ Back \/ CloseModal
    \/ \E f \in Files : SelectFile(f) \/ SelectFileElsewhere(f) \/ SelectSearchResult(f)
                        \/ Upload(f) \/ SoftDelete(f)
    \/ \E d \in Folders : SoftDeleteFolder(d) \/ CreateFolder(d)
    \/ \E x \in trashed : Restore(x)
    \/ Serve \/ Answered \/ AfterTree \/ Fails

Spec == Init /\ [][Next]_vars

-----------------------------------------------------------------------------
(* Properties *)

TypeOK ==
    /\ home \in [Files \cup Folders -> Places \cup {None}]
    /\ trashed \subseteq {x \in Files \cup Folders : home[x] # None}
    /\ tab \in
         [url : Places \cup {Elsewhere}, request : Places, directory : Places,
          tree : {None} \cup SUBSET Folders, treeFetch : {Idle} \cup SUBSET Folders,
          treeOK : BOOLEAN, list : [Places -> {None} \cup SUBSET Files],
          fetch : [Places -> {Idle} \cup SUBSET Files],
          selected : Files \cup {None}, open : BOOLEAN, chosen : Files \cup {None},
          astray : BOOLEAN, op : Ops \cup {Idle}]
    /\ late \subseteq Places \cup {None}
    /\ lost \in Nat /\ changes \in Nat /\ lost + changes <= MaxEvents

Quiet ==
    /\ tab.op = Idle /\ tab.treeFetch = Idle
    /\ \A p \in Places : tab.fetch[p] = Idle

\* When nothing is under way, the page shows the files its folder has and the
\* URL names the folder it shows, however the user has moved about during an
\* upload, a deletion or a fetch; unless something has failed, a change was
\* made while the list or the tree was being fetched for the first time, or the
\* folder itself went to the trash or came back since its list was fetched.
ShowsWhatIs ==
    Quiet /\ tab.url # Elsewhere /\ lost = 0 =>
        /\ None \in late \/ tab.tree = folders
        /\ Ready(tab) /\ Directory(tab) = tab.url
        /\ tab.url \in late \/ None \in late \/ Rows(tab) = Contents(tab.url)

\* The modal shows the file that was clicked, be it a row of the page, a row of
\* another page or a result of the search, until it is closed or an upload ends:
\* neither the page changing behind it nor lists and trees arriving late put
\* another file there, unless the records of the folder on the screen were
\* absent when it was clicked or have been replaced by records without it.
ClickedIsShown ==
    tab.open /\ tab.chosen # None => tab.selected = tab.chosen \/ tab.astray
=============================================================================
