--------------------------- MODULE WorkspaceActions ---------------------------
(***************************************************************************)
(* What a user does to files and folders of the workspace: deleting,       *)
(* restoring, deleting for good, starring; one item from its row, a folder *)
(* from its detail page, or many items at once.  Most of it asks first, in *)
(* the one dialog there is; each item is a request of its own; every       *)
(* answer makes the lists of the trash and of the starred items stale; a   *)
(* notice tells the end.                                                   *)
(*                                                                         *)
(* Code: web-client/src: widgets/dashboard/hooks/useDashboard{File,        *)
(* Directory,Bulk}Actions.ts, components/shared/ConfirmDialogProvider.tsx, *)
(* widgets/dashboard/components/WorkspaceItemsView.tsx,                    *)
(* pages/dashboard/{trash,starred,folder-detail}/page.tsx and the hooks    *)
(* they use.                                                               *)
(*                                                                         *)
(* The dialog covers the page but keeps no focus: with the keyboard, all   *)
(* that is below it can still be used, and so can the browser's Back.      *)
(* Of "Berkas Saya" the root is seen, and seen as it is: FilesPage is      *)
(* about the rest.                                                         *)
(***************************************************************************)
EXTENDS Naturals

CONSTANTS
    Files,     \* ids of files
    Folder,    \* the folder whose detail page can be opened
    Inside,    \* the files that are in it
    Calls,     \* what the user sets going, once each: a bound
    Kinds,     \* what the user does of softDelete, restore, purge, star and unstar
    Apart,     \* pairs of these that are not under way at once: a bound
    None,      \* no data, no dialog, nothing pending
    Idle,      \* nothing under way any more
    Forsaken,  \* a call whose question was replaced: its promise never settles
    MaxEvents  \* bound on changes of the page by the user and on lost answers, together

Items == Files \cup {Folder}

ASSUME WorkspaceActionsAssumption ==
    /\ Inside \subseteq Files /\ Folder \notin Files
    /\ Kinds \subseteq {"softDelete", "restore", "purge", "star", "unstar"}
    /\ Apart \subseteq SUBSET Kinds
    /\ MaxEvents \in Nat
    /\ None # Idle /\ None # Forsaken /\ Idle # Forsaken
    /\ {None, Idle, Forsaken} \cap (Items \cup Calls) = {}
    /\ None \notin {"success", "error"}

\* A call: what is done, from where it was started, how far each item has come.
Steps == {"asked", "sent", "served", "trash", "starred", "done", "failed"}
CallType == [kind : Kinds, from : {"row", "bulk", "detail", "left"},
             at : UNION {[targets -> Steps] : targets \in SUBSET Items}]
Questions == [id : Calls, does : Kinds, names : SUBSET Items]

\* What stands for the lack of a value is no value.
ASSUME NoneAssumption ==
    \A none \in {None, Idle, Forsaken} :
        /\ \A list \in SUBSET Items : none # list
        /\ \A call \in CallType : none # call
        /\ \A question \in Questions : none # question

VARIABLES
    state,      \* server: each item is "active", "trashed" or "gone"
    starred,    \* server: the items with a star
    page,       \* where the user is
    cache,      \* per collection: what is shown of it, and the fetch under way
    detail,     \* what the detail page shows, as it was when the page was opened
    selection,  \* the items ticked on the page
    dialog,     \* the question on the screen: for which call, to do what, naming what
    calls,      \* what is under way
    pending,    \* detail page: the call that has disabled its buttons
    notices,    \* the notice each call has ended with
    late,       \* history: lists changed behind a fetch of theirs
    lost,       \* how many answers, to a fetch or a change, never came
    moves       \* how often the user has gone to another page

vars == <<state, starred, page, cache, detail, selection, dialog, calls, pending,
          notices, late, lost, moves>>
server == <<state, starred>>

Collections == {"trash", "starred"}
Details == {"trashDetail", "starredDetail"}
Pages == Collections \cup Details \cup {"files"}

Asking == {"softDelete", "restore", "purge"}

-----------------------------------------------------------------------------
(* The API service *)

InUse(x) == x \in Inside => state[Folder] = "active"

With(x) == IF x = Folder THEN {Folder} \cup Inside ELSE {x}

\* What a list would tell; a detail page without its folder is "not available".
Listed(list) ==
    CASE list = "trash" -> {x \in Items : state[x] = "trashed" /\ InUse(x)}
      [] list = "starred" -> {x \in starred : state[x] = "active" /\ InUse(x)}
      [] list = "trashDetail" ->
            IF state[Folder] # "trashed" THEN {} ELSE {x \in With(Folder) : state[x] = "trashed"}
      [] list = "starredDetail" ->
            IF state[Folder] # "active" \/ Folder \notin starred THEN {}
            ELSE {x \in With(Folder) : state[x] = "active"}

Serves(kind, x) ==
    /\ InUse(x)
    /\ state[x] = IF kind \in {"restore", "purge"} THEN "trashed" ELSE "active"

Apply(kind, x) ==
    /\ state' = [y \in Items |->
                    IF y \notin With(x) \/ state[y] = "gone" THEN state[y]
                    ELSE CASE kind = "softDelete" -> "trashed"
                           [] kind = "restore" -> "active"
                           [] kind = "purge" -> "gone"
                           [] OTHER -> state[y]]
    /\ starred' = CASE kind = "star" -> starred \cup {x}
                    [] kind = "unstar" -> starred \ {x}
                    [] OTHER -> starred

-----------------------------------------------------------------------------
(* The page and the query cache *)

Shown == IF cache[page].data = None THEN {} ELSE cache[page].data

FilesRows == {x \in Items \ Inside : state[x] = "active"}

Rows == CASE page = "files" -> FilesRows
          [] page \in Collections -> Shown
          [] OTHER -> detail \ {Folder}

\* A fetch is read by the server when it is sent, the earliest and worst moment.
Fetched(list) == cache' = [cache EXCEPT ![list].fetch = Listed(list)]

\* Faulty variant: the list is left as it is.
KeepList(list) == UNCHANGED <<cache, late>>

\* invalidateQueries on one of the two collections: what is observed is fetched
\* again, except that the first fetch of all is joined.
Invalidate(list) ==
    IF page # list \/ (cache[list].data = None /\ cache[list].fetch # Idle)
    THEN UNCHANGED <<cache, late>>
    ELSE Fetched(list) /\ late' = late \ {list}

\* A page that opens fetches its list, unless a fetch is still under way.
Observe(list) ==
    IF list \notin Collections \/ cache[list].fetch # Idle
    THEN UNCHANGED <<cache, late>>
    ELSE Fetched(list) /\ late' = late \ {list}

Live(call) == call \notin {None, Idle, Forsaken}

\* What was started from a page that is left finds neither its selection nor
\* its buttons again; the two detail pages are one component.
Leave(to, current) ==
    IF page \in Details /\ to \in Details THEN UNCHANGED <<selection, pending>> /\ calls' = current
    ELSE /\ selection' = {} /\ pending' = None
         /\ calls' = [id \in Calls |->
                         IF ~Live(current[id]) THEN current[id]
                         ELSE [current[id] EXCEPT !.from = CASE @ = "bulk" -> "row"
                                                             [] @ = "detail" -> "left"
                                                             [] OTHER -> @]]

GoTo(to, current) ==
    /\ page' = to
    /\ detail' = IF to = page THEN detail ELSE IF to \in Details THEN Listed(to) ELSE {}
    /\ IF to = page THEN UNCHANGED <<selection, pending, cache, late>> /\ calls' = current
       ELSE Leave(to, current) /\ Observe(to)

\* Pruning by the effect of WorkspaceItemsView when its rows have changed.
Arrives(list) ==
    /\ cache[list].fetch # Idle
    /\ cache' = [cache EXCEPT ![list] = [data |-> @.fetch, fetch |-> Idle]]
    /\ selection' = IF page = list THEN selection \cap cache[list].fetch ELSE selection
    /\ UNCHANGED <<server, page, detail, dialog, calls, pending, notices, late, lost, moves>>

Lose == lost + moves < MaxEvents /\ lost' = lost + 1

FetchFails(list) ==
    /\ cache[list].fetch # Idle /\ Lose
    /\ cache' = [cache EXCEPT ![list].fetch = Idle]
    /\ UNCHANGED <<server, page, detail, selection, dialog, calls, pending, notices, late, moves>>

Navigate ==
    /\ lost + moves < MaxEvents /\ moves' = moves + 1
    /\ \E to \in Pages \ {page} : GoTo(to, calls)
    /\ UNCHANGED <<server, dialog, notices, lost>>

Select(items) ==
    /\ page \notin Details
    /\ selection' = items
    /\ UNCHANGED <<server, page, cache, detail, dialog, calls, pending, notices, late, lost, moves>>

Toggle(x) ==
    /\ x \in Rows
    /\ Select(IF x \in selection THEN selection \ {x} ELSE selection \cup {x})

\* The toolbar, which is there while something is ticked.
ToggleAll == selection # {} /\ Select(IF selection = Rows THEN {} ELSE Rows)
ClearSelection == selection # {} /\ Select({})

-----------------------------------------------------------------------------
(* Setting something going *)

Call(kind, targets, from) ==
    [kind |-> kind, from |-> from,
     at |-> [x \in targets |-> IF kind \in Asking THEN "asked" ELSE "sent"]]

Asked(id) == Live(calls[id]) /\ \E x \in DOMAIN calls[id].at : calls[id].at[x] = "asked"
Running(id) == Live(calls[id]) /\ ~Asked(id)

\* Whoever had asked and is replaced is never answered: its promise stays.
Replaced(current) ==
    IF dialog = None THEN current ELSE [current EXCEPT ![dialog.id] = Forsaken]

Question(id, call) == [id |-> id, does |-> call.kind, names |-> DOMAIN call.at]

\* Faulty variant: the question changes, but whoever asked first gets the answer.
AskFirst(id, call) ==
    IF dialog = None
    THEN /\ dialog' = Question(id, call) /\ calls' = [calls EXCEPT ![id] = call]
    ELSE /\ dialog' = [Question(id, call) EXCEPT !.id = dialog.id] /\ UNCHANGED calls

\* confirm(): the question, and who waits for the answer.
Ask(id, call) ==
    /\ dialog' = Question(id, call)
    /\ calls' = [Replaced(calls) EXCEPT ![id] = call]

Start(id, kind, targets, from) ==
    /\ calls[id] = None
    /\ \A other \in Calls : Live(calls[other]) => {kind, calls[other].kind} \notin Apart
    /\ IF kind \in Asking THEN Ask(id, Call(kind, targets, from))
       ELSE /\ calls' = [calls EXCEPT ![id] = Call(kind, targets, from)]
            /\ UNCHANGED dialog
    /\ UNCHANGED <<server, page, cache, detail, selection, notices, late, lost, moves>>

\* What the star of item x does: it is shown as the page knows it, and a detail
\* page does not hear of stars that are given or taken.
StarOf(x) ==
    CASE page = "starred" -> {"unstar"}
      [] page = "starredDetail" -> {"star", "unstar"}
      [] OTHER -> IF x \in starred THEN {"unstar"} ELSE {"star"}

\* What is offered for item x, by its row and by the toolbar.
Offers(kind, x) ==
    IF page \in {"trash", "trashDetail"} THEN kind \in {"restore", "purge"}
    ELSE kind = "softDelete" \/ kind \in StarOf(x)

StartRow(id, kind, x) ==
    /\ x \in Rows /\ Offers(kind, x)
    /\ Start(id, kind, {x}, "row") /\ UNCHANGED pending

StartFile(id, kind) == \E f \in Files : StartRow(id, kind, f)
StartFolder(id, kind) == StartRow(id, kind, Folder)

\* Items that have their star, or have none, are passed over.
StartBulk(id, kind) ==
    LET targets == {x \in selection : Offers(kind, x)} IN
    /\ page \notin Details /\ targets # {}
    /\ Start(id, kind, targets, "bulk") /\ UNCHANGED pending

\* With nothing left to star, a notice is all.
StartNothing ==
    /\ page \in {"files", "starred"} /\ selection # {}
    /\ \E kind \in Kinds \ Asking : \A x \in selection : ~Offers(kind, x)
    /\ selection' = {}
    /\ UNCHANGED <<server, page, cache, detail, dialog, calls, pending, notices, late, lost, moves>>

\* The buttons in the header of a detail page.
DetailOffers == IF page = "trashDetail" THEN {"restore", "purge"} ELSE {"unstar"}

\* runAction of the detail page.
StartDetail(id, kind) ==
    /\ page \in Details /\ Folder \in detail /\ pending = None
    /\ kind \in DetailOffers
    /\ Start(id, kind, {Folder}, "detail") /\ pending' = id

\* The buttons of the detail page wait for the end of call id, however it ends.
Released(id, free) ==
    IF calls[id].from = "bulk" THEN selection' = {} /\ pending' = pending
    ELSE /\ selection' = selection
         /\ pending' = IF free /\ calls[id].from = "detail" /\ pending = id THEN None ELSE pending

\* Faulty variant: the dialog goes away without an answer.
RefuseInSilence == dialog' = None /\ UNCHANGED <<calls, selection, pending>>

Refuse ==
    /\ dialog' = None
    /\ calls' = [calls EXCEPT ![dialog.id] = Idle]
    /\ Released(dialog.id, TRUE)

Dismiss ==
    /\ dialog # None /\ Refuse
    /\ UNCHANGED <<server, page, cache, detail, notices, late, lost, moves>>

Accept ==
    /\ dialog # None
    /\ dialog' = None
    /\ calls' = [calls EXCEPT ![dialog.id].at = [x \in DOMAIN @ |-> "sent"]]
    /\ UNCHANGED <<server, page, cache, detail, selection, pending, notices, late, lost, moves>>

-----------------------------------------------------------------------------
(* The requests of a call, all at once *)

At(id, x, where) == Running(id) /\ x \in DOMAIN calls[id].at /\ calls[id].at[x] = where

Put(id, x, where) == calls' = [calls EXCEPT ![id].at[x] = where]

Serve(id, x) ==
    /\ At(id, x, "sent") /\ Serves(calls[id].kind, x)
    /\ Apply(calls[id].kind, x)
    /\ Put(id, x, "served")
    /\ late' = late \cup {list \in Collections : cache[list].fetch # Idle /\ Listed(list) # Listed(list)'}
    /\ selection' = IF page = "files" THEN selection \cap FilesRows' ELSE selection
    /\ UNCHANGED <<page, cache, detail, dialog, pending, notices, lost, moves>>

\* Refused by the server, or lost on its way.
Rejected(id, x) ==
    /\ At(id, x, "sent")
    /\ Put(id, x, "failed")
    /\ UNCHANGED <<server, page, cache, detail, selection, dialog, pending, notices, late, lost, moves>>

\* What has been done is answered, and the answer never comes.
Breaks(id, x) ==
    /\ At(id, x, "served") /\ Lose
    /\ Put(id, x, "failed")
    /\ UNCHANGED <<server, page, cache, detail, selection, dialog, pending, notices, late, moves>>

\* onSuccess: the trash, then the starred items, each waited for while it is
\* observed.  The wait ends with the fetch or with one that takes its place.
Answered(id, x) ==
    /\ At(id, x, "served") /\ Put(id, x, "trash")
    /\ Invalidate("trash")
    /\ UNCHANGED <<server, page, detail, selection, dialog, pending, notices, lost, moves>>

\* Faulty variant: a list that nobody looks at is waited for as well.
AwaitedAlways(list) == cache[list].fetch = Idle /\ page = list

Awaited(list) == cache[list].fetch = Idle \/ page # list

Continue(id, x) ==
    /\ At(id, x, "trash") /\ Awaited("trash") /\ Put(id, x, "starred")
    /\ Invalidate("starred")
    /\ UNCHANGED <<server, page, detail, selection, dialog, pending, notices, lost, moves>>

Settle(id, x) ==
    /\ At(id, x, "starred") /\ Awaited("starred") /\ Put(id, x, "done")
    /\ UNCHANGED <<server, page, cache, detail, selection, dialog, pending, notices, late, lost, moves>>

Ended(id) == \A x \in DOMAIN calls[id].at : calls[id].at[x] \in {"done", "failed"}

\* Faulty variant: the first request that is done speaks for all.
AnyDone(id) == \E x \in DOMAIN calls[id].at : calls[id].at[x] = "done"

AllDone(id) == \A x \in DOMAIN calls[id].at : calls[id].at[x] = "done"

\* The detail page goes back to where its folder was listed, wherever the user is by now.
Source(kind) == IF kind = "unstar" THEN "starred" ELSE "trash"

Succeeds(id) ==
    /\ Running(id) /\ AllDone(id)
    /\ notices' = [notices EXCEPT ![id] = "success"]
    /\ IF calls[id].from \in {"detail", "left"}
       THEN GoTo(Source(calls[id].kind), [calls EXCEPT ![id] = Idle])
       ELSE /\ calls' = [calls EXCEPT ![id] = Idle]
            /\ Released(id, TRUE)
            /\ UNCHANGED <<page, cache, detail, late>>
    /\ UNCHANGED <<server, dialog, lost, moves>>

\* Promise.all gives up at the first failure; the other requests go on unheard.
Fails(id) ==
    /\ Running(id) /\ notices[id] = None
    /\ \E x \in DOMAIN calls[id].at : calls[id].at[x] = "failed"
    /\ notices' = [notices EXCEPT ![id] = "error"]
    /\ calls' = [calls EXCEPT ![id].from = "row"]
    /\ Released(id, TRUE)
    /\ UNCHANGED <<server, page, cache, detail, dialog, late, lost, moves>>

Forgotten(id) ==
    /\ Running(id) /\ notices[id] = "error" /\ Ended(id)
    /\ calls' = [calls EXCEPT ![id] = Idle]
    /\ UNCHANGED <<server, page, cache, detail, selection, dialog, pending, notices, late, lost, moves>>

-----------------------------------------------------------------------------
Init ==
    /\ state \in {[x \in Items |-> IF x \in trashed THEN "trashed" ELSE "active"] :
                    trashed \in {{}, With(Folder)}}
    /\ starred \in {{}, Items}
    /\ page \in Pages
    /\ detail = IF page \in Details THEN Listed(page) ELSE {}
    /\ cache = [list \in Collections |->
                   [data |-> None, fetch |-> IF list = page THEN Listed(list) ELSE Idle]]
    /\ selection = {} /\ dialog = None /\ pending = None /\ notices = [id \in Calls |-> None]
    /\ calls = [id \in Calls |-> None]
    /\ late = {} /\ lost = 0 /\ moves = 0

\* What the network and the browser do by themselves.
Progress(id) ==
    \/ \E x \in Items : \/ Serve(id, x) \/ Rejected(id, x)
                        \/ Answered(id, x) \/ Continue(id, x) \/ Settle(id, x)
    \/ Succeeds(id) \/ Fails(id) \/ Forgotten(id)

Next ==
    \/ Navigate \/ Dismiss \/ Accept \/ StartNothing
    \/ \E list \in Collections : Arrives(list) \/ FetchFails(list)
    \/ \E x \in Items : Toggle(x)
    \/ ToggleAll \/ ClearSelection
    \/ \E id \in Calls :
          \/ Progress(id)
          \/ \E kind \in Kinds : \/ StartFile(id, kind) \/ StartFolder(id, kind)
                                 \/ StartBulk(id, kind) \/ StartDetail(id, kind)
          \/ \E x \in Items : Breaks(id, x)

Spec == Init /\ [][Next]_vars

-----------------------------------------------------------------------------
(* Properties *)

TypeOK ==
    /\ state \in [Items -> {"active", "trashed", "gone"}] /\ starred \subseteq Items
    /\ page \in Pages
    /\ cache \in [Collections -> [data : {None} \cup SUBSET Items, fetch : {Idle} \cup SUBSET Items]]
    /\ detail \subseteq Items /\ selection \subseteq Items
    /\ dialog \in {None} \cup Questions /\ (dialog # None => Asked(dialog.id))
    /\ calls \in [Calls -> {None, Idle, Forsaken} \cup CallType]
    /\ pending \in Calls \cup {None}
    /\ notices \in [Calls -> {None, "success", "error"}]
    /\ late \subseteq Collections
    /\ lost \in Nat /\ moves \in Nat /\ lost + moves <= MaxEvents

\* Accepting does what the question on the screen says: whoever gets the answer
\* has asked for just that, and for exactly the items it names.
AnswersItsQuestion ==
    dialog # None => /\ calls[dialog.id].kind = dialog.does
                     /\ DOMAIN calls[dialog.id].at = dialog.names

AtRest(list) ==
    /\ cache[list].fetch = Idle /\ list \notin late /\ lost = 0
    /\ \A id \in Calls : ~Running(id)

\* When nothing is under way, the trash and the starred items are shown as they
\* are, whatever has been done to them, at once or one after the other, also when
\* part of it was refused; unless an answer was lost, or a change overtook a fetch
\* that nothing could start again.
CatchesUp == page \in Collections /\ AtRest(page) => Shown = Listed(page)

\* The list that an item is taken from.
TakenFrom(kind) ==
    CASE kind \in {"restore", "purge"} -> "trash"
      [] kind \in {"softDelete", "unstar"} -> "starred"
      [] OTHER -> None

\* A change of item x that is done, and that the list has not heard of yet.
Untold(list, x) ==
    \E id \in Calls : Running(id) /\ \E y \in DOMAIN calls[id].at :
        /\ x \in With(y)
        /\ calls[id].at[y] = "served" \/ (calls[id].at[y] = "trash" /\ list = "starred")

\* By the time of the notice of success, the server has done it to every item,
\* and the list on the screen that they are taken from shows them no more, unless
\* they are back in it already, or back and taken from it again this very moment.
NoticeIsTrue ==
    [][\A id \in Calls : notices[id] = None /\ notices'[id] = "success" =>
         \A x \in DOMAIN calls[id].at :
            /\ calls[id].at[x] \notin {"sent", "failed"}
            /\ page \in Collections => \/ page # TakenFrom(calls[id].kind)
                                      \/ cache[page].fetch # Idle \/ page \in late \/ lost > 0
                                      \/ x \notin Shown \/ x \in Listed(page)
                                      \/ Untold(page, x)]_vars

\* The buttons of the detail page are off only while their call is asking or
\* under way, or has been forsaken for another question.
DetailIsFreed ==
    pending # None =>
        \/ Running(pending) \/ calls[pending] = Forsaken
        \/ dialog # None /\ dialog.id = pending

\* A call that has been accepted is never stuck: it can go on by itself, or once
\* the fetch it waits for has come.
CallsCanGoOn ==
    \A id \in Calls : Running(id) =>
        (\E list \in Collections : cache[list].fetch # Idle) \/ ENABLED Progress(id)
=============================================================================
