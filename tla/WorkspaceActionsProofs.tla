----------------------- MODULE WorkspaceActionsProofs -----------------------
(***************************************************************************)
(* Proofs about WorkspaceActions for every set of files and of calls, every *)
(* kind of call and every number of moves and of lost answers: accepting   *)
(* does what the question says, the buttons of a detail page come back,    *)
(* and the lists tell what has been done.                                  *)
(***************************************************************************)
EXTENDS WorkspaceActions, TLAPS

-----------------------------------------------------------------------------
(* Types, without what relates the dialog and the calls *)

CallState == {None, Idle, Forsaken} \cup CallType

CacheEntry == [data : {None} \cup SUBSET Items, fetch : {Idle} \cup SUBSET Items]

Base ==
    /\ state \in [Items -> {"active", "trashed", "gone"}] /\ starred \subseteq Items
    /\ page \in Pages
    /\ cache \in [Collections -> CacheEntry]
    /\ detail \subseteq Items /\ selection \subseteq Items
    /\ dialog \in {None} \cup Questions
    /\ calls \in [Calls -> CallState]
    /\ pending \in Calls \cup {None}
    /\ notices \in [Calls -> {None, "success", "error"}]
    /\ late \subseteq Collections
    /\ lost \in Nat /\ moves \in Nat /\ lost + moves <= MaxEvents

\* Who is on the screen has asked, and for exactly what the question names.
Asks ==
    dialog # None =>
        /\ calls[dialog.id] \in CallType
        /\ calls[dialog.id].kind = dialog.does
        /\ DOMAIN calls[dialog.id].at = dialog.names
        /\ \E x \in DOMAIN calls[dialog.id].at : calls[dialog.id].at[x] = "asked"

LEMMA Distinct ==
    /\ None # Idle /\ None # Forsaken /\ Idle # Forsaken
    /\ None \notin Calls /\ Idle \notin Calls /\ Forsaken \notin Calls
    /\ None \notin CallType /\ Idle \notin CallType /\ Forsaken \notin CallType
    /\ None \notin SUBSET Items /\ Idle \notin SUBSET Items /\ None \notin Questions
    /\ Inside \subseteq Files /\ Folder \notin Files /\ None \notin {"success", "error"}
BY WorkspaceActionsAssumption, NoneAssumption

\* A call is live when it is one.
LEMMA LiveCalls ==
    ASSUME NEW c \in CallState
    PROVE  Live(c) <=> c \in CallType
BY Distinct DEF CallState, Live

LEMMA BaseIsTypeOK == Base /\ Asks => TypeOK
<1> SUFFICES ASSUME Base, Asks PROVE TypeOK
  OBVIOUS
<1>1. dialog # None => Asked(dialog.id)
  BY LiveCalls DEF Asks, Asked, CallState
<1>2. QED
  BY <1>1 DEF Base, TypeOK, CallState, CacheEntry

LEMMA CallParts ==
    ASSUME NEW c \in CallType
    PROVE  /\ c = [kind |-> c.kind, from |-> c.from, at |-> c.at]
           /\ c.kind \in Kinds /\ c.from \in {"row", "bulk", "detail", "left"}
           /\ DOMAIN c.at \subseteq Items /\ c.at \in [DOMAIN c.at -> Steps]
<1>1. PICK targets \in SUBSET Items : c.at \in [targets -> Steps]
  BY DEF CallType
<1>2. QED
  BY <1>1 DEF CallType

LEMMA CallMade ==
    ASSUME NEW kind \in Kinds, NEW from \in {"row", "bulk", "detail", "left"},
           NEW at, DOMAIN at \subseteq Items, at \in [DOMAIN at -> Steps]
    PROVE  [kind |-> kind, from |-> from, at |-> at] \in CallType
<1>1. at \in UNION {[targets -> Steps] : targets \in SUBSET Items}
  OBVIOUS
<1>2. QED
  BY <1>1 DEF CallType

\* One item of a call goes on.
LEMMA PutEffect ==
    ASSUME Base, NEW id \in Calls, calls[id] \in CallType, NEW x \in DOMAIN calls[id].at,
           NEW where \in Steps, Put(id, x, where)
    PROVE  /\ calls' \in [Calls -> CallState]
           /\ \A other \in Calls : other # id => calls'[other] = calls[other]
           /\ calls'[id] \in CallType
           /\ calls'[id].kind = calls[id].kind /\ calls'[id].from = calls[id].from
           /\ DOMAIN calls'[id].at = DOMAIN calls[id].at
           /\ calls'[id].at = [calls[id].at EXCEPT ![x] = where]
<1> DEFINE c == calls[id]
           at == [c.at EXCEPT ![x] = where]
           d == [kind |-> c.kind, from |-> c.from, at |-> at]
<1>1. /\ c = [kind |-> c.kind, from |-> c.from, at |-> c.at] /\ c.kind \in Kinds
      /\ c.from \in {"row", "bulk", "detail", "left"}
      /\ DOMAIN c.at \subseteq Items /\ c.at \in [DOMAIN c.at -> Steps]
  BY CallParts
<1>2. DOMAIN at = DOMAIN c.at /\ at \in [DOMAIN at -> Steps] /\ DOMAIN at \subseteq Items
  BY <1>1
<1>3. d \in CallType
  <2> HIDE DEF at, c
  <2>1. QED
    BY <1>1, <1>2, CallMade
<1>4. calls' = [calls EXCEPT ![id] = d]
  <2>1. calls' = [calls EXCEPT ![id] = [c EXCEPT !.at = at]]
    BY DEF Put, Base
  <2>2. [c EXCEPT !.at = at] = d
    BY <1>1
  <2>3. QED
    BY <2>1, <2>2
<1>5. calls \in [Calls -> CallState] /\ d \in CallState
  BY <1>3 DEF Base, CallState
<1>6. calls'[id] = d /\ calls' \in [Calls -> CallState] /\ \A other \in Calls : other # id => calls'[other] = calls[other]
  BY <1>4, <1>5
<1>7. QED
  BY <1>2, <1>3, <1>6

\* A call is started.
LEMMA CallType1 ==
    ASSUME NEW kind \in Kinds, NEW targets \in SUBSET Items, targets # {},
           NEW from \in {"row", "bulk", "detail", "left"}
    PROVE  /\ Call(kind, targets, from) \in CallType
           /\ Call(kind, targets, from).kind = kind /\ Call(kind, targets, from).from = from
           /\ DOMAIN Call(kind, targets, from).at = targets
           /\ \A x \in targets : Call(kind, targets, from).at[x]
                                    = IF kind \in Asking THEN "asked" ELSE "sent"
<1> DEFINE at == [x \in targets |-> IF kind \in Asking THEN "asked" ELSE "sent"]
<1>1. DOMAIN at = targets /\ at \in [DOMAIN at -> Steps]
  BY DEF Steps
<1>2. Call(kind, targets, from) = [kind |-> kind, from |-> from, at |-> at]
  BY DEF Call
<1>3. \A x \in targets : at[x] = IF kind \in Asking THEN "asked" ELSE "sent"
  OBVIOUS
<1> HIDE DEF at
<1>4. [kind |-> kind, from |-> from, at |-> at] \in CallType
  BY <1>1, CallMade
<1>5. QED
  BY <1>1, <1>2, <1>3, <1>4

LEMMA ListedItems ==
    ASSUME Base, NEW list \in Collections \cup Details
    PROVE  Listed(list) \in SUBSET Items
<1>1. With(Folder) \subseteq Items
  BY Distinct DEF With, Items
<1>2. QED
  BY <1>1 DEF Base, Listed, Collections, Details

-----------------------------------------------------------------------------
(* Going to a page *)

\* What is under way stays so, and its parts stay, but for where it was started.
SameWork(c, d) ==
    /\ c \notin CallType => d = c
    /\ c \in CallType => d \in CallType /\ d.kind = c.kind /\ d.at = c.at

LEMMA CacheFetched ==
    ASSUME Base, NEW list \in Collections, Fetched(list)
    PROVE  /\ cache' \in [Collections -> CacheEntry]
           /\ cache'[list].fetch = Listed(list) /\ cache'[list].data = cache[list].data
           /\ \A other \in Collections : other # list => cache'[other] = cache[other]
<1>1. cache \in [Collections -> CacheEntry] /\ cache[list] \in CacheEntry
  BY DEF Base
<1>2. Listed(list) \in SUBSET Items
  BY ListedItems
<1>3. cache' = [cache EXCEPT ![list] = [cache[list] EXCEPT !.fetch = Listed(list)]]
  BY <1>1 DEF Fetched
<1>4. [cache[list] EXCEPT !.fetch = Listed(list)] \in CacheEntry
  BY <1>1, <1>2 DEF CacheEntry
<1>5. QED
  BY <1>1, <1>3, <1>4 DEF CacheEntry

LEMMA InvalidateType ==
    ASSUME Base, NEW list \in Collections, Invalidate(list)
    PROVE  cache' \in [Collections -> CacheEntry] /\ late' \subseteq Collections
BY CacheFetched DEF Invalidate, Base

LEMMA ObserveType ==
    ASSUME Base, NEW list, Observe(list)
    PROVE  cache' \in [Collections -> CacheEntry] /\ late' \subseteq Collections
BY CacheFetched DEF Observe, Base

\* Where a call was started from, once its page is left.
Origin(from) == CASE from = "bulk" -> "row" [] from = "detail" -> "left" [] OTHER -> from

LEMMA LeaveEffect ==
    ASSUME NEW to, NEW current \in [Calls -> CallState], Leave(to, current)
    PROVE  /\ calls' \in [Calls -> CallState]
           /\ \A id \in Calls : SameWork(current[id], calls'[id])
           /\ IF page \in Details /\ to \in Details
              THEN UNCHANGED <<selection, pending>> /\ calls' = current
              ELSE /\ selection' = {} /\ pending' = None
                   /\ \A id \in Calls : current[id] \in CallType =>
                                           calls'[id].from = Origin(current[id].from)
<1>1. CASE page \in Details /\ to \in Details
  BY <1>1 DEF Leave, SameWork
<1>2. CASE ~(page \in Details /\ to \in Details)
  <2> DEFINE Left(c) == [c EXCEPT !.from = Origin(c.from)]
  <2>1. ASSUME NEW c \in CallType
        PROVE  /\ Left(c) \in CallType /\ Left(c).kind = c.kind /\ Left(c).at = c.at
               /\ Left(c).from = Origin(c.from)
    <3>1. /\ c = [kind |-> c.kind, from |-> c.from, at |-> c.at]
          /\ c.kind \in Kinds /\ c.from \in {"row", "bulk", "detail", "left"}
          /\ DOMAIN c.at \subseteq Items /\ c.at \in [DOMAIN c.at -> Steps]
      BY CallParts
    <3>2. Left(c) = [kind |-> c.kind, from |-> Origin(c.from), at |-> c.at]
      BY <3>1
    <3>3. Origin(c.from) \in {"row", "bulk", "detail", "left"}
      BY <3>1 DEF Origin
    <3>4. [kind |-> c.kind, from |-> Origin(c.from), at |-> c.at] \in CallType
      BY <3>1, <3>3, CallMade
    <3>5. QED
      BY <3>2, <3>4
  <2>2. calls' = [id \in Calls |-> IF ~Live(current[id]) THEN current[id] ELSE Left(current[id])]
    BY <1>2 DEF Leave, Origin
  <2>3. \A id \in Calls : calls'[id] = IF current[id] \in CallType THEN Left(current[id]) ELSE current[id]
    BY <2>2, LiveCalls
  <2> HIDE DEF Left
  <2>4. \A id \in Calls : calls'[id] \in CallState
    BY <2>1, <2>3 DEF CallState
  <2>5. calls' \in [Calls -> CallState]
    BY <2>2, <2>4
  <2>6. \A id \in Calls : SameWork(current[id], calls'[id])
    BY <2>1, <2>3 DEF SameWork
  <2>7. \A id \in Calls : current[id] \in CallType => calls'[id].from = Origin(current[id].from)
    BY <2>1, <2>3
  <2>8. QED
    BY <1>2, <2>5, <2>6, <2>7 DEF Leave
<1>3. QED
  BY <1>1, <1>2

\* A page that was on the screen already is not gone to.
LEMMA GoToEffect ==
    ASSUME Base, NEW to \in Pages, NEW current \in [Calls -> CallState], GoTo(to, current)
    PROVE  /\ page' = to /\ detail' \in SUBSET Items /\ selection' \in SUBSET Items
           /\ pending' \in {pending, None}
           /\ cache' \in [Collections -> CacheEntry] /\ late' \subseteq Collections
           /\ calls' \in [Calls -> CallState]
           /\ \A id \in Calls : SameWork(current[id], calls'[id])
<1>1. detail' \in SUBSET Items
  BY ListedItems DEF GoTo, Base
<1>2. CASE to = page
  BY <1>1, <1>2 DEF GoTo, Base, SameWork
<1>3. CASE to # page
  <2>1. Leave(to, current) /\ Observe(to)
    BY <1>3 DEF GoTo
  <2>2. selection' \in SUBSET Items /\ pending' \in {pending, None}
    BY <2>1, LeaveEffect DEF Base
  <2>3. QED
    BY <1>1, <2>1, <2>2, LeaveEffect, ObserveType DEF GoTo
<1>4. QED
  BY <1>2, <1>3

\* Work that is the same asks the same.
LEMMA SameWorkAsks ==
    ASSUME Asks, dialog \in {None} \cup Questions, dialog' = dialog,
           \A id \in Calls : SameWork(calls[id], calls'[id])
    PROVE  Asks'
BY DEF Asks, SameWork, Questions

-----------------------------------------------------------------------------
(* Every step keeps the types, and the question with who asked it *)

Typed == Base /\ Asks

LEMMA InitTyped == Init => Typed
<1> SUFFICES ASSUME Init PROVE Typed
  OBVIOUS
<1>1. state \in [Items -> {"active", "trashed", "gone"}] /\ starred \subseteq Items
  BY DEF Init
<1>2. \A list \in Collections \cup Details : Listed(list) \in SUBSET Items
  <2>1. With(Folder) \subseteq Items
    BY Distinct DEF With, Items
  <2>2. QED
    BY <1>1, <2>1 DEF Listed, Collections, Details
<1>3. page \in Pages /\ detail \subseteq Items
  BY <1>2 DEF Init
<1>4. cache \in [Collections -> CacheEntry]
  BY <1>2 DEF Init, CacheEntry
<1>5. calls \in [Calls -> CallState] /\ notices \in [Calls -> {None, "success", "error"}]
  BY DEF Init, CallState
<1>6. /\ selection = {} /\ dialog = None /\ pending = None /\ late = {} /\ lost = 0 /\ moves = 0
  BY DEF Init
<1>7. QED
  BY <1>1, <1>3, <1>4, <1>5, <1>6, WorkspaceActionsAssumption DEF Typed, Base, Asks

LEMMA PageTyped ==
    ASSUME Typed,
           \/ \E list \in Collections : Arrives(list) \/ FetchFails(list)
           \/ \E x \in Items : Toggle(x)
           \/ ToggleAll \/ ClearSelection \/ StartNothing
    PROVE  Typed' /\ UNCHANGED <<server, page, detail, dialog, calls, pending, notices, late, moves>>
<1>1. /\ Base /\ cache \in [Collections -> CacheEntry] /\ selection \subseteq Items
      /\ lost \in Nat /\ moves \in Nat /\ lost + moves <= MaxEvents /\ detail \subseteq Items
  BY DEF Typed, Base
<1>2. UNCHANGED <<server, page, detail, dialog, calls, pending, notices, late, moves>>
  BY DEF Arrives, FetchFails, Toggle, Select, ToggleAll, ClearSelection, StartNothing
<1>3. /\ cache' \in [Collections -> CacheEntry] /\ selection' \subseteq Items
      /\ lost' \in Nat /\ lost' + moves' <= MaxEvents
  <2>1. ASSUME NEW list \in Collections, Arrives(list)
        PROVE  cache' \in [Collections -> CacheEntry] /\ selection' \subseteq Items /\ lost' = lost
    <3>1. cache[list].fetch \in SUBSET Items
      BY <1>1, <2>1 DEF Arrives, CacheEntry
    <3>2. [data |-> cache[list].fetch, fetch |-> Idle] \in CacheEntry
      BY <3>1 DEF CacheEntry
    <3>3. QED
      BY <1>1, <2>1, <3>2 DEF Arrives
  <2>2. ASSUME NEW list \in Collections, FetchFails(list)
        PROVE  /\ cache' \in [Collections -> CacheEntry] /\ selection' \subseteq Items
               /\ lost' \in Nat /\ lost' + moves' <= MaxEvents
    <3>1. [cache[list] EXCEPT !.fetch = Idle] \in CacheEntry
      BY <1>1 DEF CacheEntry
    <3>2. cache' = [cache EXCEPT ![list] = [cache[list] EXCEPT !.fetch = Idle]]
      BY <1>1, <2>2 DEF FetchFails
    <3>3. lost' \in Nat /\ lost' + moves' <= MaxEvents
      BY <1>1, <2>2, WorkspaceActionsAssumption DEF FetchFails, Lose
    <3>4. QED
      BY <1>1, <2>2, <3>1, <3>2, <3>3 DEF FetchFails
  <2>3. Rows \subseteq Items
    BY <1>1 DEF Rows, FilesRows, Shown, CacheEntry, Pages, Collections
  <2>4. CASE (\E x \in Items : Toggle(x)) \/ ToggleAll \/ ClearSelection \/ StartNothing
    BY <1>1, <2>3, <2>4 DEF Toggle, Select, ToggleAll, ClearSelection, StartNothing
  <2>5. QED
    BY <1>1, <1>2, <2>1, <2>2, <2>4
<1>4. Base'
  BY <1>2, <1>3 DEF Typed, Base, server
<1>5. Asks'
  BY <1>2 DEF Typed, Asks
<1>6. QED
  BY <1>2, <1>4, <1>5 DEF Typed

\* A new question, and who had asked before gets no answer.
LEMMA AskEffect ==
    ASSUME Typed, NEW id \in Calls, NEW call \in CallType, calls[id] = None, Ask(id, call)
    PROVE  /\ calls' \in [Calls -> CallState] /\ calls'[id] = call
           /\ \A other \in Calls : other # id =>
                  calls'[other] = IF dialog # None /\ other = dialog.id THEN Forsaken ELSE calls[other]
           /\ dialog' = Question(id, call) /\ dialog' \in Questions
<1>1. calls \in [Calls -> CallState] /\ Replaced(calls) \in [Calls -> CallState]
  BY DEF Typed, Base, Replaced, CallState
<1>2. calls' = [Replaced(calls) EXCEPT ![id] = call] /\ call \in CallState
  BY DEF Ask, CallState
<1>3. \A other \in Calls : Replaced(calls)[other]
                             = IF dialog # None /\ other = dialog.id THEN Forsaken ELSE calls[other]
  BY <1>1 DEF Replaced
<1>4. DOMAIN call.at \subseteq Items
  BY CallParts
<1>5. dialog' = Question(id, call) /\ dialog' \in Questions
  BY <1>4, CallParts DEF Ask, Question, Questions
<1>6. QED
  BY <1>1, <1>2, <1>3, <1>5

\* What starting does to the calls: the new one has asked for its items, or has sent all.
LEMMA StartEffect ==
    ASSUME Typed, NEW id \in Calls, NEW kind \in Kinds, NEW targets \in SUBSET Items, targets # {},
           NEW from \in {"row", "bulk", "detail", "left"}, Start(id, kind, targets, from)
    PROVE  /\ calls[id] = None
           /\ calls' \in [Calls -> CallState]
           /\ calls'[id] \in CallType /\ calls'[id].kind = kind /\ calls'[id].from = from
           /\ DOMAIN calls'[id].at = targets
           /\ \A x \in targets : calls'[id].at[x] = IF kind \in Asking THEN "asked" ELSE "sent"
           /\ dialog' \in {None} \cup Questions
           /\ IF kind \in Asking
              THEN /\ dialog' # None /\ dialog'.id = id /\ dialog'.does = kind /\ dialog'.names = targets
                   /\ \A other \in Calls : other # id =>
                         calls'[other] = IF dialog # None /\ other = dialog.id THEN Forsaken ELSE calls[other]
              ELSE /\ dialog' = dialog
                   /\ \A other \in Calls : other # id => calls'[other] = calls[other]
           /\ UNCHANGED <<server, page, cache, detail, selection, notices, late, lost, moves>>
<1> DEFINE call == Call(kind, targets, from)
<1>1. /\ call \in CallType /\ call.kind = kind /\ call.from = from /\ DOMAIN call.at = targets
      /\ \A x \in targets : call.at[x] = IF kind \in Asking THEN "asked" ELSE "sent"
  BY CallType1
<1>2. /\ calls[id] = None /\ calls \in [Calls -> CallState]
      /\ UNCHANGED <<server, page, cache, detail, selection, notices, late, lost, moves>>
      /\ dialog \in {None} \cup Questions
  BY DEF Start, Typed, Base
<1>3. CASE kind \in Asking
  <2>1. Ask(id, call)
    BY <1>3 DEF Start
  <2> HIDE DEF call
  <2>2. /\ calls' \in [Calls -> CallState] /\ calls'[id] = call
        /\ \A other \in Calls : other # id =>
               calls'[other] = IF dialog # None /\ other = dialog.id THEN Forsaken ELSE calls[other]
        /\ dialog' = Question(id, call) /\ dialog' \in Questions
    BY <1>1, <1>2, <2>1, AskEffect
  <2>3. dialog' # None
    BY <2>2, Distinct
  <2>4. QED
    BY <1>1, <1>2, <1>3, <2>2, <2>3 DEF Question
<1>4. CASE kind \notin Asking
  <2>1. calls' = [calls EXCEPT ![id] = call] /\ dialog' = dialog
    BY <1>4 DEF Start
  <2> HIDE DEF call
  <2>2. calls' \in [Calls -> CallState] /\ calls'[id] = call
    BY <1>1, <1>2, <2>1 DEF CallState
  <2>3. \A other \in Calls : other # id => calls'[other] = calls[other]
    BY <1>2, <2>1
  <2>4. QED
    BY <1>1, <1>2, <1>4, <2>1, <2>2, <2>3
<1>5. QED
  BY <1>3, <1>4

\* The ways to start a call, and what each does to the buttons of the detail page.
LEMMA StartsAre ==
    ASSUME Typed, NEW id \in Calls, NEW kind \in Kinds,
           StartFile(id, kind) \/ StartFolder(id, kind) \/ StartBulk(id, kind) \/ StartDetail(id, kind)
    PROVE  \E targets \in SUBSET Items, from \in {"row", "bulk", "detail"} :
               /\ targets # {} /\ Start(id, kind, targets, from)
               /\ IF from = "detail" THEN page \in Details /\ pending = None /\ pending' = id
                  ELSE UNCHANGED pending
<1>1. Folder \in Items /\ Files \subseteq Items /\ selection \subseteq Items
  BY DEF Items, Typed, Base
<1>2. ASSUME NEW x \in Items, StartRow(id, kind, x)
      PROVE  /\ {x} \in SUBSET Items /\ {x} # {} /\ Start(id, kind, {x}, "row") /\ UNCHANGED pending
  BY <1>2 DEF StartRow
<1>3. CASE StartFile(id, kind) \/ StartFolder(id, kind)
  BY <1>1, <1>2, <1>3 DEF StartFile, StartFolder
<1>4. CASE StartBulk(id, kind)
  <2> DEFINE targets == {x \in selection : Offers(kind, x)}
  <2>1. targets # {} /\ Start(id, kind, targets, "bulk") /\ UNCHANGED pending
    BY <1>4 DEF StartBulk
  <2>2. targets \in SUBSET Items
    BY <1>1
  <2> HIDE DEF targets
  <2>3. QED
    BY <2>1, <2>2
<1>5. CASE StartDetail(id, kind)
  BY <1>1, <1>5 DEF StartDetail
<1>6. QED
  BY <1>3, <1>4, <1>5

LEMMA StartTyped ==
    ASSUME Typed, NEW id \in Calls, NEW kind \in Kinds,
           StartFile(id, kind) \/ StartFolder(id, kind) \/ StartBulk(id, kind) \/ StartDetail(id, kind)
    PROVE  Typed'
<1>1. PICK targets \in SUBSET Items, from \in {"row", "bulk", "detail"} :
               /\ targets # {} /\ Start(id, kind, targets, from)
               /\ IF from = "detail" THEN page \in Details /\ pending = None /\ pending' = id
                  ELSE UNCHANGED pending
  BY StartsAre
<1>2. from \in {"row", "bulk", "detail", "left"} /\ pending' \in Calls \cup {None}
  BY <1>1 DEF Typed, Base
<1>3. /\ calls[id] = None
      /\ calls' \in [Calls -> CallState]
      /\ calls'[id] \in CallType /\ calls'[id].kind = kind /\ DOMAIN calls'[id].at = targets
      /\ \A x \in targets : calls'[id].at[x] = IF kind \in Asking THEN "asked" ELSE "sent"
      /\ dialog' \in {None} \cup Questions
      /\ kind \in Asking => dialog' # None /\ dialog'.id = id /\ dialog'.does = kind /\ dialog'.names = targets
      /\ kind \notin Asking => /\ dialog' = dialog
                               /\ \A other \in Calls : other # id => calls'[other] = calls[other]
      /\ UNCHANGED <<server, page, cache, detail, selection, notices, late, lost, moves>>
  BY <1>1, <1>2, StartEffect
<1>4. Base'
  BY <1>2, <1>3 DEF Typed, Base, server
<1>5. Asks'
  <2>1. CASE kind \in Asking
    BY <1>1, <1>3, <2>1 DEF Asks
  <2>2. CASE kind \notin Asking
    <3>1. dialog # None => dialog.id \in Calls /\ dialog.id # id
      BY <1>3, Distinct DEF Typed, Base, Asks, Questions
    <3>2. QED
      BY <1>3, <2>2, <3>1 DEF Typed, Asks
  <2>3. QED
    BY <2>1, <2>2
<1>6. QED
  BY <1>4, <1>5 DEF Typed

\* A call that is under way: it is past the question for each of its items.
Runs(c) == c \in CallType /\ \A x \in DOMAIN c.at : c.at[x] # "asked"

LEMMA RunningIs ==
    ASSUME calls \in [Calls -> CallState], NEW id \in Calls
    PROVE  Running(id) <=> Runs(calls[id])
BY LiveCalls DEF Running, Asked, Runs

\* A request of a call goes one step on: nothing else of the calls changes, and the
\* question on the screen is another call's.
LEMMA RequestEffect ==
    ASSUME Typed, NEW id \in Calls, NEW x, NEW where \in Steps, NEW next \in Steps \ {"asked"},
           At(id, x, where), Put(id, x, next)
    PROVE  /\ Runs(calls[id]) /\ x \in DOMAIN calls[id].at /\ calls[id].at[x] = where
           /\ calls' \in [Calls -> CallState]
           /\ Runs(calls'[id])
           /\ \A other \in Calls : other # id => calls'[other] = calls[other]
           /\ calls'[id].kind = calls[id].kind /\ calls'[id].from = calls[id].from
           /\ DOMAIN calls'[id].at = DOMAIN calls[id].at
           /\ calls'[id].at[x] = next
           /\ \A y \in DOMAIN calls[id].at : y # x => calls'[id].at[y] = calls[id].at[y]
           /\ dialog # None => dialog.id # id
<1>1. calls \in [Calls -> CallState] /\ Base
  BY DEF Typed, Base
<1>2. Runs(calls[id]) /\ x \in DOMAIN calls[id].at /\ calls[id].at[x] = where
  BY <1>1, RunningIs DEF At
<1>3. /\ calls' \in [Calls -> CallState]
      /\ \A other \in Calls : other # id => calls'[other] = calls[other]
      /\ calls'[id] \in CallType
      /\ calls'[id].kind = calls[id].kind /\ calls'[id].from = calls[id].from
      /\ DOMAIN calls'[id].at = DOMAIN calls[id].at
      /\ calls'[id].at = [calls[id].at EXCEPT ![x] = next]
  BY <1>1, <1>2, PutEffect DEF Runs
<1>4. calls[id].at \in [DOMAIN calls[id].at -> Steps]
  BY <1>2, CallParts DEF Runs
<1>5. calls'[id].at[x] = next /\ \A y \in DOMAIN calls[id].at : y # x => calls'[id].at[y] = calls[id].at[y]
  BY <1>2, <1>3, <1>4
<1>6. Runs(calls'[id])
  BY <1>2, <1>3, <1>5 DEF Runs
<1>7. dialog # None => dialog.id # id
  BY <1>2 DEF Typed, Asks, Runs
<1>8. QED
  BY <1>2, <1>3, <1>5, <1>6, <1>7

LEMMA RequestAsks ==
    ASSUME Typed, NEW id \in Calls, NEW x, NEW where \in Steps, NEW next \in Steps \ {"asked"},
           At(id, x, where), Put(id, x, next), dialog' = dialog
    PROVE  Asks'
<1>1. /\ \A other \in Calls : other # id => calls'[other] = calls[other]
      /\ dialog # None => dialog.id # id
  BY RequestEffect
<1>2. dialog # None => dialog.id \in Calls
  BY DEF Typed, Base, Questions
<1>3. QED
  BY <1>1, <1>2 DEF Typed, Asks

\* The steps of a request.
Request(id, x) ==
    Serve(id, x) \/ Rejected(id, x) \/ Breaks(id, x) \/ Answered(id, x) \/ Continue(id, x) \/ Settle(id, x)

LEMMA RequestIs ==
    ASSUME NEW id, NEW x, Request(id, x)
    PROVE  /\ \E where \in Steps, next \in Steps \ {"asked"} : At(id, x, where) /\ Put(id, x, next)
           /\ UNCHANGED <<page, detail, dialog, pending, notices, moves>>
<1>1. UNCHANGED <<page, detail, dialog, pending, notices, moves>>
  BY DEF Request, Serve, Rejected, Breaks, Answered, Continue, Settle
<1>2. \/ At(id, x, "sent") /\ (Put(id, x, "served") \/ Put(id, x, "failed"))
      \/ At(id, x, "served") /\ (Put(id, x, "failed") \/ Put(id, x, "trash"))
      \/ At(id, x, "trash") /\ Put(id, x, "starred")
      \/ At(id, x, "starred") /\ Put(id, x, "done")
  BY DEF Request, Serve, Rejected, Breaks, Answered, Continue, Settle
<1>3. /\ {"sent", "served", "trash", "starred"} \subseteq Steps
      /\ {"served", "failed", "trash", "starred", "done"} \subseteq Steps \ {"asked"}
  BY DEF Steps
<1>4. QED
  BY <1>1, <1>2, <1>3

LEMMA RequestTyped ==
    ASSUME Typed, NEW id \in Calls, NEW x \in Items, Request(id, x)
    PROVE  Typed'
<1>1. UNCHANGED <<page, detail, dialog, pending, notices, moves>>
  BY RequestIs
<1>2. PICK where \in Steps, next \in Steps \ {"asked"} : At(id, x, where) /\ Put(id, x, next)
  BY RequestIs
<1>3. Asks'
  BY <1>1, <1>2, RequestAsks
<1>4. calls' \in [Calls -> CallState]
  BY <1>2, RequestEffect
<1>5. /\ Base /\ calls \in [Calls -> CallState]
      /\ state \in [Items -> {"active", "trashed", "gone"}] /\ starred \subseteq Items
      /\ cache \in [Collections -> CacheEntry] /\ late \subseteq Collections
      /\ selection \subseteq Items /\ lost \in Nat /\ moves \in Nat /\ lost + moves <= MaxEvents
  BY DEF Typed, Base
<1>6. /\ state' \in [Items -> {"active", "trashed", "gone"}] /\ starred' \subseteq Items
      /\ cache' \in [Collections -> CacheEntry] /\ late' \subseteq Collections
      /\ selection' \subseteq Items /\ lost' \in Nat /\ lost' + moves <= MaxEvents
  <2>1. CASE Serve(id, x)
    <3> DEFINE kind == calls[id].kind
    <3>1. Apply(kind, x) /\ UNCHANGED <<cache, lost>>
      BY <2>1 DEF Serve
    <3>2. state' \in [Items -> {"active", "trashed", "gone"}]
      BY <1>5, <3>1 DEF Apply
    <3>3. starred' \subseteq Items
      BY <1>5, <3>1 DEF Apply
    <3>4. late' \subseteq Collections /\ selection' \subseteq Items
      BY <1>5, <2>1 DEF Serve
    <3>5. QED
      BY <1>5, <3>1, <3>2, <3>3, <3>4
  <2>2. CASE Rejected(id, x) \/ Settle(id, x)
    BY <1>5, <2>2 DEF Rejected, Settle, server
  <2>3. CASE Breaks(id, x)
    <3>1. lost' \in Nat /\ lost' + moves <= MaxEvents
      BY <1>5, <2>3, WorkspaceActionsAssumption DEF Breaks, Lose
    <3>2. QED
      BY <1>5, <2>3, <3>1 DEF Breaks, server
  <2>4. CASE Answered(id, x)
    <3>1. Invalidate("trash") /\ "trash" \in Collections
      BY <2>4 DEF Answered, Collections
    <3>2. QED
      BY <1>5, <2>4, <3>1, InvalidateType DEF Answered, server
  <2>5. CASE Continue(id, x)
    <3>1. Invalidate("starred") /\ "starred" \in Collections
      BY <2>5 DEF Continue, Collections
    <3>2. QED
      BY <1>5, <2>5, <3>1, InvalidateType DEF Continue, server
  <2>6. QED
    BY <2>1, <2>2, <2>3, <2>4, <2>5 DEF Request
<1>7. Base'
  BY <1>1, <1>4, <1>5, <1>6 DEF Base
<1>8. QED
  BY <1>3, <1>7 DEF Typed

\* The end of a question: a no, and a yes.
LEMMA DismissEffect ==
    ASSUME Typed, Dismiss
    PROVE  /\ Typed' /\ dialog # None /\ dialog' = None /\ dialog.id \in Calls
           /\ calls[dialog.id] \in CallType /\ calls'[dialog.id] = Idle
           /\ \A other \in Calls : other # dialog.id => calls'[other] = calls[other]
           /\ UNCHANGED <<server, page, cache, detail, notices, late, lost, moves>>
<1> DEFINE id == dialog.id
<1>1. /\ dialog # None /\ dialog' = None
      /\ UNCHANGED <<server, page, cache, detail, notices, late, lost, moves>>
  BY DEF Dismiss, Refuse
<1>2. id \in Calls /\ calls[id] \in CallType /\ calls \in [Calls -> CallState]
  BY <1>1 DEF Typed, Base, Questions, Asks
<1>3. calls' = [calls EXCEPT ![id] = Idle]
  BY DEF Dismiss, Refuse
<1>4. calls' \in [Calls -> CallState] /\ calls'[id] = Idle
  BY <1>2, <1>3 DEF CallState
<1>5. selection' \in {selection, {}} /\ pending' \in {pending, None}
  BY DEF Dismiss, Refuse, Released
<1>6. Base' /\ Asks'
  BY <1>1, <1>4, <1>5 DEF Typed, Base, server, Asks
<1>7. QED
  BY <1>1, <1>2, <1>3, <1>4, <1>6 DEF Typed

LEMMA AcceptEffect ==
    ASSUME Typed, Accept
    PROVE  /\ Typed' /\ dialog # None /\ dialog' = None /\ dialog.id \in Calls
           /\ ~Runs(calls[dialog.id]) /\ Runs(calls'[dialog.id])
           /\ calls[dialog.id] \in CallType /\ calls'[dialog.id].from = calls[dialog.id].from
           /\ \A other \in Calls : other # dialog.id => calls'[other] = calls[other]
           /\ UNCHANGED <<server, page, cache, detail, selection, pending, notices, late, lost, moves>>
<1> DEFINE id == dialog.id
           c == calls[id]
           at == [x \in DOMAIN c.at |-> "sent"]
           d == [kind |-> c.kind, from |-> c.from, at |-> at]
<1>1. /\ dialog # None /\ dialog' = None
      /\ UNCHANGED <<server, page, cache, detail, selection, pending, notices, late, lost, moves>>
  BY DEF Accept
<1>2. id \in Calls /\ c \in CallType /\ calls \in [Calls -> CallState] /\ ~Runs(c)
  BY <1>1 DEF Typed, Base, Questions, Asks, Runs
<1>3. /\ c = [kind |-> c.kind, from |-> c.from, at |-> c.at] /\ c.kind \in Kinds
      /\ c.from \in {"row", "bulk", "detail", "left"}
      /\ DOMAIN c.at \subseteq Items /\ c.at \in [DOMAIN c.at -> Steps]
  BY <1>2, CallParts
<1>4. calls' = [calls EXCEPT ![id] = [c EXCEPT !.at = at]]
  BY DEF Accept
<1>5. [c EXCEPT !.at = at] = d
  BY <1>3
<1>6. at \in [DOMAIN at -> Steps] /\ DOMAIN at \subseteq Items /\ \A x \in DOMAIN at : at[x] = "sent"
  BY <1>3 DEF Steps
<1>7. d \in CallType /\ d.at = at /\ d.from = c.from
  <2> HIDE DEF at, c
  <2>1. QED
    BY <1>3, <1>6, CallMade
<1>8. calls'[id] = d /\ calls' \in [Calls -> CallState]
  BY <1>2, <1>4, <1>5, <1>7 DEF CallState
<1>9. \A other \in Calls : other # id => calls'[other] = calls[other]
  BY <1>2, <1>4
<1>10. Base' /\ Asks'
  BY <1>1, <1>8 DEF Typed, Base, server, Asks
<1>11. Runs(calls'[id])
  <2> HIDE DEF at, d
  <2>1. QED
    BY <1>6, <1>7, <1>8 DEF Runs
<1>12. QED
  BY <1>1, <1>2, <1>7, <1>8, <1>9, <1>10, <1>11 DEF Typed

\* The end of a call: with success it is off, with an error it goes on unheard.
LEMMA SucceedsEffect ==
    ASSUME Typed, NEW id \in Calls, Succeeds(id)
    PROVE  /\ Typed' /\ Runs(calls[id]) /\ AllDone(id) /\ calls'[id] = Idle
           /\ \A other \in Calls : other # id => SameWork(calls[other], calls'[other])
           /\ UNCHANGED <<server, dialog, lost, moves>>
           /\ notices' = [notices EXCEPT ![id] = "success"]
           /\ IF calls[id].from \in {"detail", "left"}
              THEN GoTo(Source(calls[id].kind), [calls EXCEPT ![id] = Idle])
              ELSE /\ calls' = [calls EXCEPT ![id] = Idle] /\ Released(id, TRUE)
                   /\ UNCHANGED <<page, cache, detail, late>>
<1> DEFINE current == [calls EXCEPT ![id] = Idle]
<1>1. /\ Base /\ calls \in [Calls -> CallState] /\ notices \in [Calls -> {None, "success", "error"}]
      /\ selection \subseteq Items /\ pending \in Calls \cup {None}
  BY DEF Typed, Base
<1>2. /\ Running(id) /\ AllDone(id) /\ UNCHANGED <<server, dialog, lost, moves>>
      /\ notices' = [notices EXCEPT ![id] = "success"]
      /\ IF calls[id].from \in {"detail", "left"} THEN GoTo(Source(calls[id].kind), current)
         ELSE calls' = current /\ Released(id, TRUE) /\ UNCHANGED <<page, cache, detail, late>>
  BY DEF Succeeds
<1>3. Runs(calls[id])
  BY <1>1, <1>2, RunningIs
<1>4. current \in [Calls -> CallState] /\ current[id] = Idle /\ \A other \in Calls : other # id => current[other] = calls[other]
  BY <1>1 DEF CallState
<1> HIDE DEF current
<1>5. /\ calls' \in [Calls -> CallState] /\ \A other \in Calls : SameWork(current[other], calls'[other])
      /\ page' \in Pages /\ detail' \subseteq Items /\ selection' \subseteq Items
      /\ pending' \in Calls \cup {None}
      /\ cache' \in [Collections -> CacheEntry] /\ late' \subseteq Collections
  <2>1. CASE calls[id].from \in {"detail", "left"}
    <3>1. Source(calls[id].kind) \in Pages /\ GoTo(Source(calls[id].kind), current)
      BY <1>2, <2>1 DEF Source, Pages, Collections
    <3>2. QED
      BY <1>1, <1>4, <3>1, GoToEffect
  <2>2. CASE calls[id].from \notin {"detail", "left"}
    <3>1. selection' \in {selection, {}} /\ pending' \in {pending, None}
      BY <1>2, <2>2 DEF Released
    <3>2. \A other \in Calls : SameWork(current[other], calls'[other])
      BY <1>2, <2>2 DEF SameWork
    <3>3. QED
      BY <1>1, <1>2, <1>4, <2>2, <3>1, <3>2 DEF Base
  <2>3. QED
    BY <2>1, <2>2
<1>6. calls'[id] = Idle /\ \A other \in Calls : other # id => SameWork(calls[other], calls'[other])
  BY <1>4, <1>5, Distinct DEF SameWork
<1>7. dialog # None => dialog.id # id /\ dialog.id \in Calls
  BY <1>3 DEF Typed, Base, Questions, Asks, Runs
<1>8. Asks'
  BY <1>2, <1>6, <1>7 DEF Typed, Asks, SameWork
<1>9. Base'
  BY <1>1, <1>2, <1>5 DEF Base, server
<1>10. QED
  BY <1>2, <1>3, <1>6, <1>8, <1>9 DEF Typed, current

LEMMA FailsEffect ==
    ASSUME Typed, NEW id \in Calls, Fails(id)
    PROVE  /\ Typed' /\ Runs(calls[id]) /\ notices[id] = None
           /\ notices' = [notices EXCEPT ![id] = "error"]
           /\ SameWork(calls[id], calls'[id]) /\ calls'[id].from = "row"
           /\ \A other \in Calls : other # id => calls'[other] = calls[other]
           /\ Released(id, TRUE)
           /\ UNCHANGED <<server, page, cache, detail, dialog, late, lost, moves>>
<1> DEFINE c == calls[id]
           d == [kind |-> c.kind, from |-> "row", at |-> c.at]
<1>1. /\ Base /\ calls \in [Calls -> CallState] /\ notices \in [Calls -> {None, "success", "error"}]
      /\ selection \subseteq Items /\ pending \in Calls \cup {None}
  BY DEF Typed, Base
<1>2. /\ Running(id) /\ notices[id] = None /\ Released(id, TRUE)
      /\ notices' = [notices EXCEPT ![id] = "error"]
      /\ UNCHANGED <<server, page, cache, detail, dialog, late, lost, moves>>
      /\ calls' = [calls EXCEPT ![id] = [c EXCEPT !.from = "row"]]
  BY DEF Fails
<1>3. Runs(calls[id]) /\ c \in CallType
  BY <1>1, <1>2, RunningIs DEF Runs
<1>4. /\ c = [kind |-> c.kind, from |-> c.from, at |-> c.at] /\ c.kind \in Kinds
      /\ DOMAIN c.at \subseteq Items /\ c.at \in [DOMAIN c.at -> Steps]
  BY <1>3, CallParts
<1>5. [c EXCEPT !.from = "row"] = d
  BY <1>4
<1>6. d \in CallType /\ d.from = "row" /\ SameWork(c, d)
  BY <1>3, <1>4, CallMade DEF SameWork
<1>7. calls'[id] = d /\ calls' \in [Calls -> CallState] /\ \A other \in Calls : other # id => calls'[other] = calls[other]
  BY <1>1, <1>2, <1>5, <1>6 DEF CallState
<1>8. \A other \in Calls : SameWork(calls[other], calls'[other])
  BY <1>6, <1>7 DEF SameWork
<1>9. Asks'
  BY <1>1, <1>2, <1>8, SameWorkAsks DEF Typed, Base
<1>10. selection' \in {selection, {}} /\ pending' \in {pending, None}
  BY <1>2 DEF Released
<1>11. Base'
  BY <1>1, <1>2, <1>7, <1>10 DEF Base, server
<1>12. QED
  BY <1>2, <1>3, <1>6, <1>7, <1>9, <1>11 DEF Typed

LEMMA ForgottenEffect ==
    ASSUME Typed, NEW id \in Calls, Forgotten(id)
    PROVE  /\ Typed' /\ Runs(calls[id]) /\ Ended(id) /\ notices[id] = "error" /\ calls'[id] = Idle
           /\ \A other \in Calls : other # id => calls'[other] = calls[other]
           /\ UNCHANGED <<server, page, cache, detail, selection, dialog, pending, notices, late, lost, moves>>
<1>1. /\ Base /\ calls \in [Calls -> CallState]
  BY DEF Typed, Base
<1>2. /\ Running(id) /\ notices[id] = "error" /\ Ended(id) /\ calls' = [calls EXCEPT ![id] = Idle]
      /\ UNCHANGED <<server, page, cache, detail, selection, dialog, pending, notices, late, lost, moves>>
  BY DEF Forgotten
<1>3. Runs(calls[id])
  BY <1>1, <1>2, RunningIs
<1>4. calls'[id] = Idle /\ calls' \in [Calls -> CallState] /\ \A other \in Calls : other # id => calls'[other] = calls[other]
  BY <1>1, <1>2 DEF CallState
<1>5. dialog # None => dialog.id # id /\ dialog.id \in Calls
  BY <1>3 DEF Typed, Base, Questions, Asks, Runs
<1>6. Base' /\ Asks'
  BY <1>1, <1>2, <1>4, <1>5 DEF Typed, Base, server, Asks
<1>7. QED
  BY <1>2, <1>3, <1>4, <1>6 DEF Typed

LEMMA NavigateEffect ==
    ASSUME Typed, Navigate
    PROVE  /\ Typed'
           /\ \E to \in Pages \ {page} : GoTo(to, calls)
           /\ \A id \in Calls : SameWork(calls[id], calls'[id])
           /\ UNCHANGED <<server, dialog, notices, lost>>
<1>1. PICK to \in Pages \ {page} : GoTo(to, calls)
  BY DEF Navigate
<1>2. UNCHANGED <<server, dialog, notices, lost>> /\ moves' = moves + 1 /\ lost + moves < MaxEvents
  BY DEF Navigate
<1>3. /\ page' = to /\ detail' \in SUBSET Items /\ selection' \in SUBSET Items
      /\ pending' \in {pending, None}
      /\ cache' \in [Collections -> CacheEntry] /\ late' \subseteq Collections
      /\ calls' \in [Calls -> CallState]
      /\ \A id \in Calls : SameWork(calls[id], calls'[id])
  BY <1>1, GoToEffect DEF Typed, Base
<1>4. Asks'
  BY <1>2, <1>3, SameWorkAsks DEF Typed, Base
<1>5. moves' \in Nat /\ lost' + moves' <= MaxEvents
  BY <1>2, WorkspaceActionsAssumption DEF Typed, Base
<1>6. Base'
  BY <1>2, <1>3, <1>5 DEF Typed, Base, server
<1>7. QED
  BY <1>1, <1>2, <1>3, <1>4, <1>6 DEF Typed

LEMMA StepTyped == Typed /\ [Next]_vars => Typed'
<1> SUFFICES ASSUME Typed, [Next]_vars PROVE Typed'
  OBVIOUS
<1>1. CASE Navigate \/ Dismiss \/ Accept
  BY <1>1, NavigateEffect, DismissEffect, AcceptEffect
<1>2. CASE \/ \E list \in Collections : Arrives(list) \/ FetchFails(list)
           \/ \E x \in Items : Toggle(x)
           \/ ToggleAll \/ ClearSelection \/ StartNothing
  BY <1>2, PageTyped
<1>3. ASSUME NEW id \in Calls, NEW x \in Items, Request(id, x) PROVE Typed'
  BY <1>3, RequestTyped
<1>4. ASSUME NEW id \in Calls, Succeeds(id) \/ Fails(id) \/ Forgotten(id) PROVE Typed'
  BY <1>4, SucceedsEffect, FailsEffect, ForgottenEffect
<1>5. ASSUME NEW id \in Calls, NEW kind \in Kinds,
             StartFile(id, kind) \/ StartFolder(id, kind) \/ StartBulk(id, kind) \/ StartDetail(id, kind)
      PROVE  Typed'
  BY <1>5, StartTyped
<1>6. CASE UNCHANGED vars
  BY <1>6 DEF vars, Typed, Base, Asks
<1>7. QED
  BY <1>1, <1>2, <1>3, <1>4, <1>5, <1>6 DEF Next, Progress, Request

LEMMA TypedAlways == Spec => []Typed
BY InitTyped, StepTyped, PTL DEF Spec

\* The types of the state; the question on the screen is always one that somebody waits
\* to be answered; the user's moves and the lost answers keep to their bound.
THEOREM TypeCorrect == Spec => []TypeOK
BY TypedAlways, BaseIsTypeOK, PTL DEF Typed

\* Accepting does what the question says, to exactly the items it names, also when one
\* question has replaced another.
THEOREM QuestionAnswered == Spec => []AnswersItsQuestion
<1>1. Typed => AnswersItsQuestion
  BY DEF Typed, Asks, AnswersItsQuestion
<1>2. QED
  BY <1>1, TypedAlways, PTL

-----------------------------------------------------------------------------
(* The buttons of the detail page *)

\* Who has disabled the buttons of the detail page works still, or is asked about, or waits
\* for ever.  A call whose notice is out is none of them.
Freed ==
    /\ pending # None =>
         /\ page \in Details
         /\ \/ calls[pending] = Forsaken
            \/ /\ calls[pending] \in CallType /\ calls[pending].from = "detail"
               /\ Runs(calls[pending]) \/ (dialog # None /\ dialog.id = pending)
    /\ \A id \in Calls : notices[id] # None =>
         /\ calls[id] # None
         /\ calls[id] \in CallType => calls[id].from = "row"

LEMMA InitFreed == Init => Freed
BY DEF Init, Freed

\* The steps that leave the page, the buttons and the notices as they are.
LEMMA CallsFreed ==
    ASSUME Typed, Freed, UNCHANGED <<page, pending, notices, dialog>>,
           \A id \in Calls :
               \/ calls'[id] = calls[id]
               \/ /\ calls[id] \in CallType /\ Runs(calls[id]) /\ Runs(calls'[id])
                  /\ calls'[id].from = calls[id].from
    PROVE  Freed'
BY Distinct DEF Freed, Runs, Typed, Base

\* Another page is gone to; current is what the calls have become before.
LEMMA GoToFreed ==
    ASSUME Typed, Freed, NEW to \in Pages \ {page}, NEW current \in [Calls -> CallState],
           GoTo(to, current), UNCHANGED dialog,
           \/ to \notin Details /\ (\A id \in Calls : notices'[id] # None => current[id] = Idle \/
                                           (current[id] = calls[id] /\ notices[id] # None))
           \/ current = calls /\ notices' = notices
    PROVE  Freed'
<1>1. page' = to /\ Leave(to, current)
  BY DEF GoTo
<1>2. /\ \A id \in Calls : SameWork(current[id], calls'[id])
      /\ IF page \in Details /\ to \in Details
         THEN UNCHANGED <<selection, pending>> /\ calls' = current
         ELSE /\ selection' = {} /\ pending' = None
              /\ \A id \in Calls : current[id] \in CallType => calls'[id].from = Origin(current[id].from)
  BY <1>1, LeaveEffect
<1>3. CASE page \in Details /\ to \in Details
  BY <1>1, <1>2, <1>3 DEF Freed
<1>4. CASE ~(page \in Details /\ to \in Details)
  <2>1. pending' = None
    BY <1>2, <1>4
  <2>2. ASSUME NEW id \in Calls, notices'[id] # None
        PROVE  calls'[id] # None /\ (calls'[id] \in CallType => calls'[id].from = "row")
    <3>1. current[id] = Idle \/ (current[id] = calls[id] /\ notices[id] # None)
      BY <2>2
    <3>2. current[id] # None /\ (current[id] \in CallType => current[id].from = "row")
      BY <3>1, Distinct DEF Freed
    <3>3. CASE current[id] \in CallType
      <4>1. calls'[id] \in CallType /\ calls'[id].from = "row"
        BY <1>2, <1>4, <3>2, <3>3 DEF SameWork, Origin
      <4>2. QED
        BY <4>1, Distinct
    <3>4. CASE current[id] \notin CallType
      BY <1>2, <3>2, <3>4 DEF SameWork
    <3>5. QED
      BY <3>3, <3>4
  <2>3. QED
    BY <2>1, <2>2 DEF Freed
<1>5. QED
  BY <1>3, <1>4

LEMMA StartFreed ==
    ASSUME Typed, Freed, NEW id \in Calls, NEW kind \in Kinds,
           StartFile(id, kind) \/ StartFolder(id, kind) \/ StartBulk(id, kind) \/ StartDetail(id, kind)
    PROVE  Freed'
<1>1. PICK targets \in SUBSET Items, from \in {"row", "bulk", "detail"} :
               /\ targets # {} /\ Start(id, kind, targets, from)
               /\ IF from = "detail" THEN page \in Details /\ pending = None /\ pending' = id
                  ELSE UNCHANGED pending
  BY StartsAre
<1>2. from \in {"row", "bulk", "detail", "left"} /\ None \notin Calls /\ None \notin CallType /\ None # Forsaken
  BY Distinct
<1>3. /\ calls[id] = None /\ UNCHANGED <<page, notices>>
      /\ calls'[id] \in CallType /\ calls'[id].from = from
      /\ DOMAIN calls'[id].at = targets
      /\ \A x \in targets : calls'[id].at[x] = IF kind \in Asking THEN "asked" ELSE "sent"
      /\ IF kind \in Asking
         THEN /\ dialog' # None /\ dialog'.id = id
              /\ \A other \in Calls : other # id =>
                    calls'[other] = IF dialog # None /\ other = dialog.id THEN Forsaken ELSE calls[other]
         ELSE dialog' = dialog /\ \A other \in Calls : other # id => calls'[other] = calls[other]
  BY <1>1, <1>2, StartEffect
<1>4. notices'[id] = None
  BY <1>3 DEF Freed
<1>5. ASSUME NEW other \in Calls, notices'[other] # None
      PROVE  calls'[other] # None /\ (calls'[other] \in CallType => calls'[other].from = "row")
  <2>1. other # id /\ notices[other] # None
    BY <1>3, <1>4, <1>5
  <2>2. calls'[other] = Forsaken \/ calls'[other] = calls[other]
    BY <1>3, <2>1
  <2>3. QED
    BY <2>1, <2>2, Distinct DEF Freed
<1>6. ASSUME pending' # None
      PROVE  /\ page' \in Details
             /\ \/ calls'[pending'] = Forsaken
                \/ /\ calls'[pending'] \in CallType /\ calls'[pending'].from = "detail"
                   /\ Runs(calls'[pending']) \/ (dialog' # None /\ dialog'.id = pending')
  <2>1. CASE from = "detail"
    <3>1. kind \notin Asking => Runs(calls'[id])
      BY <1>3 DEF Runs
    <3>2. QED
      BY <1>1, <1>3, <2>1, <3>1
  <2>2. CASE from # "detail"
    <3>1. pending' = pending /\ pending \in Calls /\ pending # id
      BY <1>1, <1>2, <1>3, <1>6, <2>2 DEF Freed, Typed, Base
    <3>2. CASE kind \in Asking
      BY <1>3, <1>6, <3>1, <3>2 DEF Freed
    <3>3. CASE kind \notin Asking
      BY <1>3, <1>6, <3>1, <3>3 DEF Freed
    <3>4. QED
      BY <3>2, <3>3
  <2>3. QED
    BY <2>1, <2>2
<1>7. QED
  BY <1>5, <1>6 DEF Freed

LEMMA SucceedsFreed ==
    ASSUME Typed, Freed, NEW id \in Calls, Succeeds(id)
    PROVE  Freed'
<1> DEFINE current == [calls EXCEPT ![id] = Idle]
<1>1. /\ Runs(calls[id]) /\ calls'[id] = Idle /\ UNCHANGED dialog
      /\ notices' = [notices EXCEPT ![id] = "success"]
      /\ IF calls[id].from \in {"detail", "left"} THEN GoTo(Source(calls[id].kind), current)
         ELSE calls' = current /\ Released(id, TRUE) /\ UNCHANGED <<page, cache, detail, late>>
  BY SucceedsEffect
<1>2. /\ notices \in [Calls -> {None, "success", "error"}] /\ calls \in [Calls -> CallState]
      /\ pending \in Calls \cup {None}
  BY DEF Typed, Base
<1>3. /\ current \in [Calls -> CallState] /\ current[id] = Idle
      /\ \A other \in Calls : other # id => current[other] = calls[other]
  BY <1>2 DEF CallState
<1> HIDE DEF current
<1>4. \A other \in Calls : notices'[other] # None => current[other] = Idle \/
                               (current[other] = calls[other] /\ notices[other] # None)
  BY <1>1, <1>2, <1>3
<1>5. CASE calls[id].from \in {"detail", "left"}
  <2> DEFINE to == Source(calls[id].kind)
  <2>1. to \in Pages /\ to \notin Details /\ GoTo(to, current)
    BY <1>1, <1>5 DEF Source, Pages, Collections, Details
  <2> HIDE DEF to
  <2>2. CASE to = page
    <3>1. calls' = current /\ pending' = pending
      BY <2>1, <2>2 DEF GoTo
    <3>2. pending' = None
      BY <2>1, <2>2, <3>1 DEF Freed
    <3>3. QED
      BY <1>4, <3>1, <3>2, Distinct DEF Freed
  <2>3. CASE to # page
    BY <1>1, <1>3, <1>4, <2>1, <2>3, GoToFreed
  <2>4. QED
    BY <2>2, <2>3
<1>6. CASE calls[id].from \notin {"detail", "left"}
  <2>1. pending # id
    BY <1>1, <1>6, Distinct DEF Freed, Runs
  <2>2. pending' = pending /\ page' = page /\ calls' = current
    BY <1>1, <1>6 DEF Released
  <2>3. pending # None => calls'[pending] = calls[pending]
    BY <1>2, <1>3, <2>1, <2>2
  <2>4. QED
    BY <1>1, <1>4, <2>2, <2>3, Distinct DEF Freed
<1>7. QED
  BY <1>5, <1>6

LEMMA StepFreed == Typed /\ Freed /\ [Next]_vars => Freed'
<1> SUFFICES ASSUME Typed, Freed, [Next]_vars PROVE Freed'
  OBVIOUS
<1>1. CASE Navigate
  <2>1. PICK to \in Pages \ {page} : GoTo(to, calls)
    BY <1>1, NavigateEffect
  <2>2. UNCHANGED <<dialog, notices>> /\ calls \in [Calls -> CallState]
    BY <1>1, NavigateEffect DEF Typed, Base
  <2>3. QED
    BY <2>1, <2>2, GoToFreed
<1>2. CASE Dismiss
  <2> DEFINE id == dialog.id
  <2>1. /\ id \in Calls /\ calls[id] \in CallType /\ calls'[id] = Idle /\ UNCHANGED <<page, notices>>
        /\ \A other \in Calls : other # id => calls'[other] = calls[other]
    BY <1>2, DismissEffect
  <2>2. Released(id, TRUE)
    BY <1>2 DEF Dismiss, Refuse
  <2>3. pending' \in {pending, None} /\ (pending' # None => pending' # id /\ pending' \in Calls)
    BY <2>1, <2>2, Distinct DEF Released, Freed, Typed, Base
  <2>4. QED
    BY <2>1, <2>3, Distinct DEF Freed
<1>3. CASE Accept
  <2> DEFINE id == dialog.id
  <2>1. /\ id \in Calls /\ Runs(calls'[id]) /\ calls[id] \in CallType /\ calls'[id].from = calls[id].from
        /\ \A other \in Calls : other # id => calls'[other] = calls[other]
        /\ UNCHANGED <<page, notices, pending>>
    BY <1>3, AcceptEffect
  <2>2. pending \in Calls \cup {None}
    BY DEF Typed, Base
  <2>3. QED
    BY <2>1, <2>2, Distinct DEF Freed, Runs
<1>4. CASE \/ \E list \in Collections : Arrives(list) \/ FetchFails(list)
           \/ \E x \in Items : Toggle(x)
           \/ ToggleAll \/ ClearSelection \/ StartNothing
  <2>1. UNCHANGED <<page, pending, notices, dialog, calls>>
    BY <1>4, PageTyped
  <2>2. QED
    BY <2>1, CallsFreed
<1>5. ASSUME NEW id \in Calls, NEW x \in Items, Request(id, x) PROVE Freed'
  <2>1. UNCHANGED <<page, detail, dialog, pending, notices, moves>>
    BY <1>5, RequestIs
  <2>2. PICK where \in Steps, next \in Steps \ {"asked"} : At(id, x, where) /\ Put(id, x, next)
    BY <1>5, RequestIs
  <2>3. /\ Runs(calls[id]) /\ Runs(calls'[id]) /\ calls'[id].from = calls[id].from
        /\ \A other \in Calls : other # id => calls'[other] = calls[other]
    BY <2>2, RequestEffect
  <2>4. QED
    BY <2>1, <2>3, CallsFreed DEF Runs
<1>6. ASSUME NEW id \in Calls, Succeeds(id) PROVE Freed'
  BY <1>6, SucceedsFreed
<1>7. ASSUME NEW id \in Calls, Fails(id) PROVE Freed'
  <2>1. /\ Runs(calls[id]) /\ notices' = [notices EXCEPT ![id] = "error"]
        /\ SameWork(calls[id], calls'[id]) /\ calls'[id].from = "row"
        /\ \A other \in Calls : other # id => calls'[other] = calls[other]
        /\ Released(id, TRUE) /\ UNCHANGED <<page, dialog>>
    BY <1>7, FailsEffect
  <2>2. pending' \in {pending, None} /\ (pending' # None => pending' # id /\ pending' \in Calls)
    BY <2>1, Distinct DEF Released, Freed, Runs, Typed, Base
  <2>3. calls'[id] \in CallType /\ calls'[id] # None
    BY <2>1, Distinct DEF SameWork, Runs
  <2>4. \A other \in Calls : other # id => notices'[other] = notices[other]
    BY <2>1 DEF Typed, Base
  <2>5. QED
    BY <2>1, <2>2, <2>3, <2>4 DEF Freed
<1>8. ASSUME NEW id \in Calls, Forgotten(id) PROVE Freed'
  <2>1. /\ Runs(calls[id]) /\ notices[id] = "error" /\ calls'[id] = Idle
        /\ \A other \in Calls : other # id => calls'[other] = calls[other]
        /\ UNCHANGED <<page, dialog, pending, notices>>
    BY <1>8, ForgottenEffect
  <2>2. pending # id
    BY <2>1, Distinct DEF Freed, Runs
  <2>3. pending \in Calls \cup {None}
    BY DEF Typed, Base
  <2>4. QED
    BY <2>1, <2>2, <2>3, Distinct DEF Freed
<1>9. ASSUME NEW id \in Calls, NEW kind \in Kinds,
             StartFile(id, kind) \/ StartFolder(id, kind) \/ StartBulk(id, kind) \/ StartDetail(id, kind)
      PROVE  Freed'
  BY <1>9, StartFreed
<1>10. CASE UNCHANGED vars
  BY <1>10 DEF vars, Freed
<1>11. QED
  BY <1>1, <1>2, <1>3, <1>4, <1>5, <1>6, <1>7, <1>8, <1>9, <1>10 DEF Next, Progress, Request

\* The buttons of the detail page come back with the end of the call that disabled them,
\* however it ends; only a call whose question was replaced keeps them off.
THEOREM DetailFreed == Spec => []DetailIsFreed
<1>1. Typed /\ Freed => DetailIsFreed
  BY RunningIs DEF Typed, Base, Freed, DetailIsFreed
<1>2. Spec => []Freed
  BY InitFreed, StepFreed, TypedAlways, PTL DEF Spec
<1>3. QED
  BY <1>1, <1>2, TypedAlways, PTL

-----------------------------------------------------------------------------
(* What the lists tell *)

\* Call c has changed item x, and the list has not heard of it.
Owes(c, list, x) ==
    /\ Runs(c)
    /\ \E y \in DOMAIN c.at :
          x \in With(y) /\ (c.at[y] = "served" \/ (c.at[y] = "trash" /\ list = "starred"))

LEMMA UntoldIs ==
    ASSUME calls \in [Calls -> CallState], NEW list, NEW x
    PROVE  Untold(list, x) <=> \E id \in Calls : Owes(calls[id], list, x)
BY RunningIs DEF Untold, Owes

\* A fetch that nothing has overtaken brings the list as it is.  What the page shows of a
\* list that is not being fetched differs from the list only by what it has not heard of.
Fetching ==
    \A list \in Collections \ late : cache[list].fetch # Idle => cache[list].fetch = Listed(list)

Fresh ==
    page \in Collections \ late /\ lost = 0 /\ cache[page].fetch = Idle =>
        \A x \in Items : \/ x \in Shown <=> x \in Listed(page)
                         \/ \E id \in Calls : Owes(calls[id], page, x)

LEMMA InitFresh == Init => Fetching /\ Fresh
<1> SUFFICES ASSUME Init PROVE Fetching /\ Fresh
  OBVIOUS
<1>1. \A list \in Collections : cache[list].fetch = IF list = page THEN Listed(list) ELSE Idle
  BY DEF Init
<1>2. Base
  BY InitTyped DEF Typed
<1>3. \A list \in Collections : Listed(list) # Idle
  BY <1>2, ListedItems, Distinct
<1>4. QED
  BY <1>1, <1>3 DEF Fetching, Fresh

\* What is done to an item can change the lists only at what goes with it.
LEMMA ApplyListed ==
    ASSUME Base, NEW kind, NEW x \in Items, Apply(kind, x), NEW list \in Collections,
           NEW y \in Items, y \notin With(x)
    PROVE  y \in Listed(list)' <=> y \in Listed(list)
<1>1. \A z \in Items : z \notin With(x) => state'[z] = state[z] /\ (z \in starred' <=> z \in starred)
  <2>1. x \in With(x)
    BY DEF With
  <2>2. QED
    BY <2>1 DEF Apply
<1>2. InUse(y)' <=> InUse(y)
  <2>1. Folder \in Items /\ (y # Folder \/ y \notin Inside)
    BY Distinct DEF Items
  <2>2. y \in Inside => Folder \notin With(x)
    BY DEF With
  <2>3. QED
    BY <1>1, <2>2 DEF InUse, Items
<1>3. state'[y] = state[y] /\ (y \in starred' <=> y \in starred)
  BY <1>1
<1>4. starred \subseteq Items /\ starred' \subseteq Items
  BY DEF Base, Apply
<1>5. CASE list = "trash"
  BY <1>2, <1>3, <1>5 DEF Listed
<1>6. CASE list = "starred"
  BY <1>2, <1>3, <1>6 DEF Listed
<1>7. QED
  BY <1>5, <1>6 DEF Collections

LEMMA SameListed ==
    ASSUME UNCHANGED server, NEW list
    PROVE  Listed(list)' = Listed(list)
BY DEF server, Listed, InUse

\* The steps that change the calls alone, of what the lists depend on.
LEMMA CallsFresh ==
    ASSUME Fetching, Fresh, UNCHANGED <<server, page, cache, late>>, lost' = lost \/ lost' # 0,
           \A id \in Calls, x \in Items : Owes(calls[id], page, x) => Owes(calls'[id], page, x)
    PROVE  Fetching' /\ Fresh'
<1>1. UNCHANGED server
  OBVIOUS
<1>2. \A list \in Collections : Listed(list)' = Listed(list)
  BY <1>1, SameListed
<1>3. Fetching'
  BY <1>2 DEF Fetching
<1>4. page \in Collections => Listed(page)' = Listed(page) /\ Shown' = Shown
  BY <1>2 DEF Shown
<1>5. Fresh'
  BY <1>4 DEF Fresh
<1>6. QED
  BY <1>3, <1>5

\* Work that is the same owes the same.
LEMMA SameWorkOwes ==
    ASSUME NEW c, NEW d, SameWork(c, d), NEW list, NEW x, Owes(c, list, x)
    PROVE  Owes(d, list, x)
BY DEF SameWork, Owes, Runs

\* A list that is fetched anew, or comes into view while it is fetched.
LEMMA FetchedFetching ==
    ASSUME Base, Fetching, NEW list \in Collections, UNCHANGED server,
           \/ UNCHANGED <<cache, late>>
           \/ Fetched(list) /\ late' = late \ {list}
    PROVE  Fetching'
<1>1. \A other \in Collections : Listed(other)' = Listed(other)
  BY SameListed
<1>2. CASE UNCHANGED <<cache, late>>
  BY <1>1, <1>2 DEF Fetching
<1>3. CASE Fetched(list) /\ late' = late \ {list}
  <2>1. /\ cache'[list].fetch = Listed(list)
        /\ \A other \in Collections : other # list => cache'[other] = cache[other]
    BY <1>3, CacheFetched
  <2>2. QED
    BY <1>1, <1>3, <2>1 DEF Fetching
<1>4. QED
  BY <1>2, <1>3

\* When list is on the screen, or is gone to, it is being fetched afterwards.
LEMMA ViewFetched ==
    ASSUME Base, NEW list \in Collections,
           Observe(list) \/ (Invalidate(list) /\ page = list)
    PROVE  cache'[list].fetch # Idle
<1>1. Listed(list) # Idle
  BY ListedItems, Distinct
<1>2. CASE UNCHANGED <<cache, late>>
  BY <1>1, <1>2, CacheFetched DEF Observe, Invalidate
<1>3. CASE Fetched(list)
  BY <1>1, <1>3, CacheFetched
<1>4. QED
  BY <1>2, <1>3 DEF Observe, Invalidate

LEMMA GoToFresh ==
    ASSUME Typed, Fetching, Fresh, NEW to \in Pages, NEW current \in [Calls -> CallState],
           GoTo(to, current), UNCHANGED <<server, lost>>,
           \A id \in Calls, x \in Items : Owes(calls[id], page, x) => Owes(current[id], page, x)
    PROVE  Fetching' /\ Fresh'
<1>1. CASE to = page
  <2>1. UNCHANGED <<page, cache, late>> /\ calls' = current
    BY <1>1 DEF GoTo
  <2>2. QED
    BY <2>1, CallsFresh
<1>2. CASE to # page
  <2>1. Observe(to) /\ page' = to /\ Base
    BY <1>2 DEF GoTo, Typed
  <2>2. CASE to \in Collections
    <3>1. cache'[to].fetch # Idle
      BY <2>1, <2>2, ViewFetched
    <3>2. Fetching'
      BY <2>1, <2>2, FetchedFetching DEF Observe
    <3>3. QED
      BY <2>1, <3>1, <3>2 DEF Fresh
  <2>3. CASE to \notin Collections
    <3>1. UNCHANGED <<cache, late>> /\ "trash" \in Collections
      BY <2>1, <2>3 DEF Observe, Collections
    <3>2. Fetching'
      BY <2>1, <3>1, FetchedFetching
    <3>3. QED
      BY <2>1, <2>3, <3>2 DEF Fresh
  <2>4. QED
    BY <2>2, <2>3
<1>3. QED
  BY <1>1, <1>2

LEMMA PageFresh ==
    ASSUME Typed, Fetching, Fresh,
           \/ \E list \in Collections : Arrives(list) \/ FetchFails(list)
           \/ \E x \in Items : Toggle(x)
           \/ ToggleAll \/ ClearSelection \/ StartNothing
    PROVE  Fetching' /\ Fresh'
<1>1. /\ UNCHANGED <<server, page, calls, late>> /\ cache \in [Collections -> CacheEntry]
      /\ lost \in Nat
  BY PageTyped DEF Typed, Base
<1>2. \A list \in Collections : Listed(list)' = Listed(list)
  BY <1>1, SameListed
<1>3. ASSUME NEW list \in Collections, Arrives(list) PROVE Fetching' /\ Fresh'
  <2>1. /\ cache[list].fetch # Idle /\ lost' = lost
        /\ cache'[list] = [data |-> cache[list].fetch, fetch |-> Idle]
        /\ \A other \in Collections : other # list => cache'[other] = cache[other]
    BY <1>1, <1>3 DEF Arrives
  <2>2. Fetching'
    BY <1>1, <1>2, <2>1 DEF Fetching
  <2>3. CASE page = list
    <3>1. page \notin late => cache'[page].data = Listed(page)
      BY <2>1, <2>3 DEF Fetching
    <3>2. Listed(page) # None
      BY <2>3, ListedItems, Distinct DEF Typed
    <3>3. page \notin late => Shown' = Listed(page)'
      BY <1>1, <1>2, <2>3, <3>1, <3>2 DEF Shown
    <3>4. QED
      BY <1>1, <2>2, <3>3 DEF Fresh
  <2>4. CASE page # list
    <3>1. page \in Collections => Shown' = Shown /\ Listed(page)' = Listed(page) /\ cache'[page] = cache[page]
      BY <1>1, <1>2, <2>1, <2>4 DEF Shown
    <3>2. QED
      BY <1>1, <2>1, <2>2, <3>1 DEF Fresh
  <2>5. QED
    BY <2>3, <2>4
<1>4. ASSUME NEW list \in Collections, FetchFails(list) PROVE Fetching' /\ Fresh'
  <2>1. lost' # 0
    BY <1>1, <1>4 DEF FetchFails, Lose
  <2>2. /\ cache'[list].fetch = Idle
        /\ \A other \in Collections : other # list => cache'[other] = cache[other]
    BY <1>1, <1>4 DEF FetchFails, CacheEntry
  <2>3. QED
    BY <1>1, <1>2, <2>1, <2>2 DEF Fetching, Fresh
<1>5. CASE (\E x \in Items : Toggle(x)) \/ ToggleAll \/ ClearSelection \/ StartNothing
  <2>1. UNCHANGED <<server, page, cache, late, lost, calls>>
    BY <1>5 DEF Toggle, Select, ToggleAll, ClearSelection, StartNothing
  <2>2. QED
    BY <2>1, CallsFresh
<1>6. QED
  BY <1>3, <1>4, <1>5

LEMMA ServeFresh ==
    ASSUME Typed, Fetching, Fresh, NEW id \in Calls, NEW x \in Items, Serve(id, x)
    PROVE  Fetching' /\ Fresh'
<1> DEFINE kind == calls[id].kind
<1>1. /\ At(id, x, "sent") /\ Put(id, x, "served") /\ Apply(kind, x)
      /\ late' = late \cup {list \in Collections : cache[list].fetch # Idle /\ Listed(list) # Listed(list)'}
      /\ UNCHANGED <<page, cache, lost>>
  BY DEF Serve
<1>2. "sent" \in Steps /\ "served" \in Steps \ {"asked"} /\ Base
  BY DEF Steps, Typed
<1>3. /\ Runs(calls[id]) /\ Runs(calls'[id]) /\ x \in DOMAIN calls[id].at /\ calls[id].at[x] = "sent"
      /\ calls' \in [Calls -> CallState]
      /\ \A other \in Calls : other # id => calls'[other] = calls[other]
      /\ DOMAIN calls'[id].at = DOMAIN calls[id].at /\ calls'[id].at[x] = "served"
      /\ \A y \in DOMAIN calls[id].at : y # x => calls'[id].at[y] = calls[id].at[y]
  BY <1>1, <1>2, RequestEffect
<1>4. Fetching'
  BY <1>1 DEF Fetching
<1>5. ASSUME NEW other \in Calls, NEW z, Owes(calls[other], page, z)
      PROVE  Owes(calls'[other], page, z)
  BY <1>3, <1>5 DEF Owes
<1>6. ASSUME page \in Collections, NEW y \in Items, y \in With(x) PROVE Owes(calls'[id], page, y)
  BY <1>3, <1>6 DEF Owes
<1>7. ASSUME page \in Collections, NEW y \in Items, y \notin With(x)
      PROVE  y \in Listed(page)' <=> y \in Listed(page)
  BY <1>1, <1>2, <1>7, ApplyListed
<1>8. Shown' = Shown
  BY <1>1 DEF Shown
<1>9. Fresh'
  <2> SUFFICES ASSUME page' \in Collections \ late', lost' = 0, cache'[page'].fetch = Idle, NEW y \in Items
               PROVE  (y \in Shown' <=> y \in Listed(page)') \/ \E other \in Calls : Owes(calls'[other], page', y)
    BY DEF Fresh
  <2>1. page \in Collections \ late /\ lost = 0 /\ cache[page].fetch = Idle /\ page' = page
    BY <1>1
  <2>2. CASE y \in With(x)
    BY <1>6, <2>1, <2>2
  <2>3. CASE y \notin With(x)
    <3>1. (y \in Shown <=> y \in Listed(page)) \/ \E other \in Calls : Owes(calls[other], page, y)
      BY <2>1 DEF Fresh
    <3>2. y \in Listed(page)' <=> y \in Listed(page)
      BY <1>7, <2>1, <2>3
    <3>3. QED
      BY <1>5, <1>8, <2>1, <3>1, <3>2
  <2>4. QED
    BY <2>2, <2>3
<1>10. QED
  BY <1>4, <1>9

LEMMA RequestFresh ==
    ASSUME Typed, Fetching, Fresh, NEW id \in Calls, NEW x \in Items, Request(id, x)
    PROVE  Fetching' /\ Fresh'
<1>1. Base /\ lost \in Nat /\ {"trash", "starred"} \subseteq Collections
  BY DEF Typed, Base, Collections
\* A request that does not stop owing anything.
<1>2. ASSUME NEW where \in Steps, NEW next \in Steps \ {"asked"}, At(id, x, where), Put(id, x, next),
             NEW list,
             \/ where \notin {"served", "trash"}
             \/ where = "trash" /\ list # "starred"
             \/ where = "served" /\ next = "trash" /\ list = "starred"
      PROVE  \A other \in Calls, z \in Items : Owes(calls[other], list, z) => Owes(calls'[other], list, z)
  <2>1. /\ Runs(calls[id]) /\ Runs(calls'[id]) /\ x \in DOMAIN calls[id].at /\ calls[id].at[x] = where
        /\ \A other \in Calls : other # id => calls'[other] = calls[other]
        /\ DOMAIN calls'[id].at = DOMAIN calls[id].at /\ calls'[id].at[x] = next
        /\ \A y \in DOMAIN calls[id].at : y # x => calls'[id].at[y] = calls[id].at[y]
    BY <1>2, RequestEffect
  <2>2. \A z \in Items : Owes(calls[id], list, z) => Owes(calls'[id], list, z)
    BY <1>2, <2>1 DEF Owes
  <2>3. QED
    BY <2>1, <2>2
<1>3. {"sent", "served", "trash", "starred"} \subseteq Steps /\ {"failed", "trash", "starred", "done"} \subseteq Steps \ {"asked"}
  BY DEF Steps
<1>4. CASE Serve(id, x)
  BY <1>4, ServeFresh
<1>5. CASE Rejected(id, x)
  <2>1. At(id, x, "sent") /\ Put(id, x, "failed") /\ UNCHANGED <<server, page, cache, late, lost>>
    BY <1>5 DEF Rejected
  <2>2. \A other \in Calls, z \in Items : Owes(calls[other], page, z) => Owes(calls'[other], page, z)
    BY <1>2, <1>3, <2>1
  <2>3. QED
    BY <2>1, <2>2, CallsFresh
<1>6. CASE Breaks(id, x)
  <2>1. lost' # 0 /\ UNCHANGED <<server, cache, late>>
    BY <1>1, <1>6 DEF Breaks, Lose
  <2>2. Fetching'
    BY <1>1, <2>1, FetchedFetching
  <2>3. QED
    BY <2>1, <2>2 DEF Fresh
<1>7. CASE Settle(id, x)
  <2>1. At(id, x, "starred") /\ Put(id, x, "done") /\ UNCHANGED <<server, page, cache, late, lost>>
    BY <1>7 DEF Settle
  <2>2. \A other \in Calls, z \in Items : Owes(calls[other], page, z) => Owes(calls'[other], page, z)
    BY <1>2, <1>3, <2>1
  <2>3. QED
    BY <2>1, <2>2, CallsFresh
<1>8. ASSUME NEW list \in {"trash", "starred"}, page = list, Invalidate(list), UNCHANGED <<server, page>>
      PROVE  Fetching' /\ Fresh'
  <2>1. cache'[list].fetch # Idle
    BY <1>1, <1>8, ViewFetched
  <2>2. Fetching'
    BY <1>1, <1>8, FetchedFetching DEF Invalidate
  <2>3. QED
    BY <1>8, <2>1, <2>2 DEF Fresh
<1>9. ASSUME NEW list \in {"trash", "starred"}, page # list, Invalidate(list) PROVE UNCHANGED <<cache, late>>
  BY <1>9 DEF Invalidate
<1>10. CASE Answered(id, x)
  <2>1. /\ At(id, x, "served") /\ Put(id, x, "trash") /\ Invalidate("trash")
        /\ UNCHANGED <<server, page, lost>>
    BY <1>10 DEF Answered
  <2>2. CASE page = "trash"
    BY <1>8, <2>1, <2>2
  <2>3. CASE page = "starred"
    <3>1. \A other \in Calls, z \in Items : Owes(calls[other], page, z) => Owes(calls'[other], page, z)
      BY <1>2, <1>3, <2>1, <2>3
    <3>2. UNCHANGED <<cache, late>>
      BY <1>9, <2>1, <2>3
    <3>3. QED
      BY <2>1, <3>1, <3>2, CallsFresh
  <2>4. CASE page \notin Collections
    <3>1. UNCHANGED <<cache, late>>
      BY <1>1, <1>9, <2>1, <2>4
    <3>2. Fetching'
      BY <1>1, <2>1, <3>1, FetchedFetching
    <3>3. QED
      BY <2>1, <2>4, <3>2 DEF Fresh
  <2>5. QED
    BY <2>2, <2>3, <2>4 DEF Collections
<1>11. CASE Continue(id, x)
  <2>1. /\ At(id, x, "trash") /\ Put(id, x, "starred") /\ Invalidate("starred")
        /\ UNCHANGED <<server, page, lost>>
    BY <1>11 DEF Continue
  <2>2. CASE page = "starred"
    BY <1>8, <2>1, <2>2
  <2>3. CASE page # "starred"
    <3>1. \A other \in Calls, z \in Items : Owes(calls[other], page, z) => Owes(calls'[other], page, z)
      BY <1>2, <1>3, <2>1, <2>3
    <3>2. UNCHANGED <<cache, late>>
      BY <1>9, <2>1, <2>3
    <3>3. QED
      BY <2>1, <3>1, <3>2, CallsFresh
  <2>4. QED
    BY <2>2, <2>3
<1>12. QED
  BY <1>4, <1>5, <1>6, <1>7, <1>10, <1>11 DEF Request

LEMMA EndFresh ==
    ASSUME Typed, Fetching, Fresh, NEW id \in Calls, Succeeds(id) \/ Fails(id) \/ Forgotten(id)
    PROVE  Fetching' /\ Fresh'
<1>1. CASE Succeeds(id)
  <2> DEFINE current == [calls EXCEPT ![id] = Idle]
  <2>1. /\ AllDone(id) /\ UNCHANGED <<server, lost>>
        /\ IF calls[id].from \in {"detail", "left"} THEN GoTo(Source(calls[id].kind), current)
           ELSE calls' = current /\ UNCHANGED <<page, cache, late>>
    BY <1>1, SucceedsEffect
  <2>2. calls \in [Calls -> CallState] /\ current \in [Calls -> CallState]
    BY DEF Typed, Base, CallState
  <2>3. \A x \in Items : ~Owes(calls[id], page, x)
    BY <2>1 DEF AllDone, Owes
  <2>4. \A other \in Calls, x \in Items : Owes(calls[other], page, x) => Owes(current[other], page, x)
    BY <2>2, <2>3
  <2> HIDE DEF current
  <2>5. CASE calls[id].from \in {"detail", "left"}
    <3>1. Source(calls[id].kind) \in Pages /\ GoTo(Source(calls[id].kind), current)
      BY <2>1, <2>5 DEF Source, Pages, Collections
    <3>2. QED
      BY <2>1, <2>2, <2>4, <3>1, GoToFresh
  <2>6. CASE calls[id].from \notin {"detail", "left"}
    BY <2>1, <2>4, <2>6, CallsFresh
  <2>7. QED
    BY <2>5, <2>6
<1>2. CASE Fails(id)
  <2>1. /\ UNCHANGED <<server, page, cache, late, lost>> /\ SameWork(calls[id], calls'[id])
        /\ \A other \in Calls : other # id => calls'[other] = calls[other]
    BY <1>2, FailsEffect
  <2>2. \A other \in Calls, x \in Items : Owes(calls[other], page, x) => Owes(calls'[other], page, x)
    BY <2>1, SameWorkOwes
  <2>3. QED
    BY <2>1, <2>2, CallsFresh
<1>3. CASE Forgotten(id)
  <2>1. /\ Ended(id) /\ UNCHANGED <<server, page, cache, late, lost>>
        /\ \A other \in Calls : other # id => calls'[other] = calls[other]
    BY <1>3, ForgottenEffect
  <2>2. \A x \in Items : ~Owes(calls[id], page, x)
    BY <2>1 DEF Ended, Owes
  <2>3. QED
    BY <2>1, <2>2, CallsFresh
<1>4. QED
  BY <1>1, <1>2, <1>3

LEMMA QuestionFresh ==
    ASSUME Typed, Fetching, Fresh,
           \/ Dismiss \/ Accept
           \/ \E id \in Calls, kind \in Kinds :
                 StartFile(id, kind) \/ StartFolder(id, kind) \/ StartBulk(id, kind) \/ StartDetail(id, kind)
    PROVE  Fetching' /\ Fresh'
\* Who has only asked owes nothing.
<1>1. dialog # None => dialog.id \in Calls /\ ~Runs(calls[dialog.id])
  BY DEF Typed, Base, Asks, Questions, Runs
<1>2. CASE Dismiss \/ Accept
  <2>1. /\ UNCHANGED <<server, page, cache, late, lost>> /\ dialog # None
        /\ \A other \in Calls : other # dialog.id => calls'[other] = calls[other]
    BY <1>2, DismissEffect, AcceptEffect
  <2>2. QED
    BY <1>1, <2>1, CallsFresh DEF Owes
<1>3. ASSUME NEW id \in Calls, NEW kind \in Kinds,
             StartFile(id, kind) \/ StartFolder(id, kind) \/ StartBulk(id, kind) \/ StartDetail(id, kind)
      PROVE  Fetching' /\ Fresh'
  <2>1. PICK targets \in SUBSET Items, from \in {"row", "bulk", "detail"} :
                 /\ targets # {} /\ Start(id, kind, targets, from)
    BY <1>3, StartsAre
  <2>2. from \in {"row", "bulk", "detail", "left"}
    OBVIOUS
  <2>3. /\ calls[id] = None /\ UNCHANGED <<server, page, cache, late, lost>>
        /\ IF kind \in Asking
           THEN \A other \in Calls : other # id =>
                   calls'[other] = IF dialog # None /\ other = dialog.id THEN Forsaken ELSE calls[other]
           ELSE \A other \in Calls : other # id => calls'[other] = calls[other]
    BY <2>1, <2>2, StartEffect
  <2>4. ~Runs(calls[id])
    BY <2>3, Distinct DEF Runs
  <2>5. \A other \in Calls : Runs(calls[other]) => calls'[other] = calls[other]
    BY <1>1, <2>3, <2>4
  <2>6. \A other \in Calls, x \in Items : Owes(calls[other], page, x) => Owes(calls'[other], page, x)
    BY <2>5 DEF Owes
  <2>7. QED
    BY <2>3, <2>6, CallsFresh
<1>4. QED
  BY <1>2, <1>3

LEMMA StepFresh == Typed /\ Fetching /\ Fresh /\ [Next]_vars => Fetching' /\ Fresh'
<1> SUFFICES ASSUME Typed, Fetching, Fresh, [Next]_vars PROVE Fetching' /\ Fresh'
  OBVIOUS
<1>1. CASE Navigate
  <2>1. PICK to \in Pages \ {page} : GoTo(to, calls)
    BY <1>1, NavigateEffect
  <2>2. UNCHANGED <<server, lost>> /\ calls \in [Calls -> CallState]
    BY <1>1, NavigateEffect DEF Typed, Base
  <2>3. QED
    BY <2>1, <2>2, GoToFresh
<1>2. CASE \/ Dismiss \/ Accept
           \/ \E id \in Calls, kind \in Kinds :
                 StartFile(id, kind) \/ StartFolder(id, kind) \/ StartBulk(id, kind) \/ StartDetail(id, kind)
  BY <1>2, QuestionFresh
<1>3. CASE \/ \E list \in Collections : Arrives(list) \/ FetchFails(list)
           \/ \E x \in Items : Toggle(x)
           \/ ToggleAll \/ ClearSelection \/ StartNothing
  BY <1>3, PageFresh
<1>4. ASSUME NEW id \in Calls, NEW x \in Items, Request(id, x) PROVE Fetching' /\ Fresh'
  BY <1>4, RequestFresh
<1>5. ASSUME NEW id \in Calls, Succeeds(id) \/ Fails(id) \/ Forgotten(id) PROVE Fetching' /\ Fresh'
  BY <1>5, EndFresh
<1>6. CASE UNCHANGED vars
  BY <1>6, CallsFresh DEF vars, server
<1>7. QED
  BY <1>1, <1>2, <1>3, <1>4, <1>5, <1>6 DEF Next, Progress, Request

LEMMA FreshAlways == Spec => []Fresh
<1>1. Spec => [](Fetching /\ Fresh)
  BY InitFresh, StepFresh, TypedAlways, PTL DEF Spec
<1>2. QED
  BY <1>1, PTL

LEMMA FreshCatchesUp == Typed /\ Fresh => CatchesUp
<1> SUFFICES ASSUME Typed, Fresh, page \in Collections, AtRest(page)
             PROVE  Shown = Listed(page)
  BY DEF CatchesUp
<1>1. \A id \in Calls, x \in Items : ~Owes(calls[id], page, x)
  BY RunningIs DEF AtRest, Typed, Base, Owes
<1>2. \A x \in Items : x \in Shown <=> x \in Listed(page)
  BY <1>1 DEF AtRest, Fresh
<1>3. Shown \subseteq Items /\ Listed(page) \subseteq Items
  <2>1. Listed(page) \in SUBSET Items
    BY ListedItems DEF Typed
  <2>2. cache[page] \in CacheEntry
    BY DEF Typed, Base
  <2>3. QED
    BY <2>1, <2>2 DEF Shown, CacheEntry
<1>4. QED
  BY <1>2, <1>3

\* When nothing is under way, the trash and the starred items are shown as they are,
\* whatever calls have been made, together or one after the other, on whatever items, and
\* in part refused; unless an answer was lost, or a change overtook a fetch that nothing
\* could start again.
THEOREM ListsCatchUp == Spec => []CatchesUp
BY FreshCatchesUp, FreshAlways, TypedAlways, PTL

LEMMA StepNotice ==
    ASSUME Typed, Fresh, [Next]_vars, NEW id \in Calls, notices[id] = None, notices'[id] = "success"
    PROVE  Succeeds(id)
<1>1. None # "success" /\ notices \in [Calls -> {None, "success", "error"}]
  BY Distinct DEF Typed, Base
<1>2. ~UNCHANGED notices
  BY <1>1
<1>3. ASSUME NEW other \in Calls, NEW x \in Items, Request(other, x) PROVE FALSE
  BY <1>2, <1>3, RequestIs
<1>4. ASSUME NEW other \in Calls, Fails(other) PROVE FALSE
  BY <1>1, <1>4 DEF Fails
<1>5. ASSUME NEW other \in Calls, Succeeds(other) PROVE Succeeds(id)
  <2>1. notices' = [notices EXCEPT ![other] = "success"]
    BY <1>5 DEF Succeeds
  <2>2. other = id
    BY <1>1, <2>1
  <2>3. QED
    BY <1>5, <2>2
<1>6. ASSUME NEW other \in Calls, NEW kind \in Kinds,
             StartFile(other, kind) \/ StartFolder(other, kind) \/ StartBulk(other, kind) \/ StartDetail(other, kind)
      PROVE  FALSE
  BY <1>2, <1>6 DEF StartFile, StartFolder, StartRow, StartBulk, StartDetail, Start
<1>7. CASE \/ Navigate \/ Dismiss \/ Accept \/ StartNothing \/ ToggleAll \/ ClearSelection
           \/ \E list \in Collections : Arrives(list) \/ FetchFails(list)
           \/ \E x \in Items : Toggle(x)
           \/ \E other \in Calls : Forgotten(other)
  BY <1>2, <1>7 DEF Navigate, Dismiss, Accept, StartNothing, ToggleAll, ClearSelection, Select, Arrives,
                    FetchFails, Toggle, Forgotten
<1>8. CASE UNCHANGED vars
  BY <1>2, <1>8 DEF vars
<1>9. QED
  BY <1>3, <1>4, <1>5, <1>6, <1>7, <1>8 DEF Next, Progress, Request

\* A notice of success is never out before every item has been done, and before the list on
\* the screen that the items are taken from shows them no more, but for what has changed
\* behind it since.
THEOREM NoticeTrue == Spec => NoticeIsTrue
<1> DEFINE True(id) ==
        notices[id] = None /\ notices'[id] = "success" =>
         \A x \in DOMAIN calls[id].at :
            /\ calls[id].at[x] \notin {"sent", "failed"}
            /\ page \in Collections => \/ page # TakenFrom(calls[id].kind)
                                      \/ cache[page].fetch # Idle \/ page \in late \/ lost > 0
                                      \/ x \notin Shown \/ x \in Listed(page)
                                      \/ Untold(page, x)
<1>1. ASSUME Typed, Fresh, [Next]_vars, NEW id \in Calls PROVE True(id)
  <2> SUFFICES ASSUME notices[id] = None, notices'[id] = "success", NEW x \in DOMAIN calls[id].at
               PROVE  /\ calls[id].at[x] \notin {"sent", "failed"}
                      /\ page \in Collections => \/ page # TakenFrom(calls[id].kind)
                                                 \/ cache[page].fetch # Idle \/ page \in late \/ lost > 0
                                                 \/ x \notin Shown \/ x \in Listed(page)
                                                 \/ Untold(page, x)
    OBVIOUS
  <2>1. Succeeds(id)
    BY <1>1, StepNotice
  <2>2. AllDone(id) /\ Runs(calls[id])
    BY <1>1, <2>1, SucceedsEffect
  <2>3. calls[id].at[x] = "done"
    BY <2>2 DEF AllDone
  <2>4. x \in Items
    BY <2>2, CallParts DEF Runs
  <2>5. ASSUME page \in Collections, cache[page].fetch = Idle, page \notin late, ~(lost > 0),
               x \in Shown, x \notin Listed(page)
        PROVE  Untold(page, x)
    <3>1. lost = 0
      BY <1>1, <2>5 DEF Typed, Base
    <3>2. \E other \in Calls : Owes(calls[other], page, x)
      BY <1>1, <2>4, <2>5, <3>1 DEF Fresh
    <3>3. QED
      BY <1>1, <3>2, UntoldIs DEF Typed, Base
  <2>6. QED
    BY <2>3, <2>5
<1>2. Typed /\ Fresh /\ [Next]_vars => \A id \in Calls : True(id)
  BY <1>1
<1>3. QED
  BY <1>2, TypedAlways, FreshAlways, PTL DEF Spec, NoticeIsTrue
-----------------------------------------------------------------------------
(* No call is stuck *)

\* A notice of success is the end of its call.
Finished == \A id \in Calls : notices[id] = "success" => calls[id] = Idle

LEMMA CallsFinished ==
    ASSUME Finished, UNCHANGED notices, \A id \in Calls : calls[id] = Idle => calls'[id] = Idle
    PROVE  Finished'
BY DEF Finished

LEMMA StepFinished == Typed /\ Finished /\ [Next]_vars => Finished'
<1> SUFFICES ASSUME Typed, Finished, [Next]_vars PROVE Finished'
  OBVIOUS
<1>1. notices \in [Calls -> {None, "success", "error"}] /\ calls \in [Calls -> CallState]
  BY DEF Typed, Base
<1>2. CASE Navigate
  BY <1>2, NavigateEffect, CallsFinished, Distinct DEF SameWork
<1>3. CASE Dismiss \/ Accept
  <2>1. UNCHANGED notices /\ \A id \in Calls : calls[id] = Idle => calls'[id] = Idle
    BY <1>3, DismissEffect, AcceptEffect, Distinct
  <2>2. QED
    BY <2>1, CallsFinished
<1>4. CASE \/ \E list \in Collections : Arrives(list) \/ FetchFails(list)
           \/ \E x \in Items : Toggle(x)
           \/ ToggleAll \/ ClearSelection \/ StartNothing
  <2>1. UNCHANGED <<notices, calls>>
    BY <1>4 DEF Arrives, FetchFails, Toggle, ToggleAll, ClearSelection, StartNothing, Select
  <2>2. QED
    BY <2>1, CallsFinished
<1>5. ASSUME NEW id \in Calls, NEW x \in Items, Request(id, x) PROVE Finished'
  <2>1. UNCHANGED notices
    BY <1>5, RequestIs
  <2>2. PICK where \in Steps, next \in Steps \ {"asked"} : At(id, x, where) /\ Put(id, x, next)
    BY <1>5, RequestIs
  <2>3. Runs(calls[id]) /\ \A other \in Calls : other # id => calls'[other] = calls[other]
    BY <2>2, RequestEffect
  <2>4. calls[id] # Idle
    BY <2>3, Distinct DEF Runs
  <2>5. QED
    BY <2>1, <2>3, <2>4, CallsFinished
<1>6. ASSUME NEW id \in Calls, Succeeds(id) PROVE Finished'
  <2>1. /\ calls'[id] = Idle /\ \A other \in Calls : other # id => SameWork(calls[other], calls'[other])
        /\ notices' = [notices EXCEPT ![id] = "success"]
    BY <1>6, SucceedsEffect
  <2>2. \A other \in Calls : other # id => notices'[other] = notices[other]
    BY <1>1, <2>1
  <2>3. QED
    BY <2>1, <2>2, Distinct DEF Finished, SameWork
<1>7. ASSUME NEW id \in Calls, Fails(id) PROVE Finished'
  <2>1. /\ notices' = [notices EXCEPT ![id] = "error"]
        /\ \A other \in Calls : other # id => calls'[other] = calls[other]
    BY <1>7, FailsEffect
  <2>2. notices'[id] = "error" /\ \A other \in Calls : other # id => notices'[other] = notices[other]
    BY <1>1, <2>1
  <2>3. QED
    BY <2>1, <2>2 DEF Finished
<1>8. ASSUME NEW id \in Calls, Forgotten(id) PROVE Finished'
  <2>1. /\ UNCHANGED notices /\ calls'[id] = Idle
        /\ \A other \in Calls : other # id => calls'[other] = calls[other]
    BY <1>8, ForgottenEffect
  <2>2. QED
    BY <2>1, CallsFinished
<1>9. ASSUME NEW id \in Calls, NEW kind \in Kinds,
             StartFile(id, kind) \/ StartFolder(id, kind) \/ StartBulk(id, kind) \/ StartDetail(id, kind)
      PROVE  Finished'
  <2>1. PICK targets \in SUBSET Items, from \in {"row", "bulk", "detail"} :
             targets # {} /\ Start(id, kind, targets, from)
    BY <1>9, StartsAre
  <2>2. from \in {"row", "bulk", "detail", "left"}
    OBVIOUS
  <2>3. /\ calls[id] = None /\ notices' = notices
        /\ \A other \in Calls : other # id =>
               calls'[other] = calls[other] \/ (dialog # None /\ other = dialog.id)
    BY <2>1, <2>2, StartEffect
  <2>4. dialog # None => calls[dialog.id] # Idle
    BY Distinct DEF Typed, Asks
  <2>5. \A other \in Calls : calls[other] = Idle => calls'[other] = Idle
    BY <2>3, <2>4, Distinct
  <2>6. QED
    BY <2>3, <2>5, CallsFinished
<1>10. CASE UNCHANGED vars
  BY <1>10, CallsFinished DEF vars
<1>11. QED
  BY <1>2, <1>3, <1>4, <1>5, <1>6, <1>7, <1>8, <1>9, <1>10 DEF Next, Progress, Request

\* What a call, or the network for it, can do next: what Progress asks for.
GoesOn(id) ==
    \/ \E x \in DOMAIN calls[id].at :
          \/ calls[id].at[x] \in {"sent", "served"}
          \/ calls[id].at[x] = "trash" /\ Awaited("trash")
          \/ calls[id].at[x] = "starred" /\ Awaited("starred")
    \/ AllDone(id)
    \/ notices[id] = None /\ \E x \in DOMAIN calls[id].at : calls[id].at[x] = "failed"
    \/ notices[id] = "error" /\ Ended(id)

\* A call that has been accepted is never stuck: each request that has not ended waits at most
\* for a fetch that is under way, and a call whose requests have all ended has not been announced
\* as a success before, so that its notice or its end is still to come (CallsCanGoOn, with the
\* guards of Progress in the place of ENABLED).
THEOREM CallNeverStuck ==
    Spec => [](\A id \in Calls : Running(id) =>
                  (\E list \in Collections : cache[list].fetch # Idle) \/ GoesOn(id))
<1>1. Init => Finished
  BY Distinct DEF Init, Finished
<1>2. ASSUME Typed, Finished, NEW id \in Calls, Running(id),
             \A list \in Collections : cache[list].fetch = Idle
      PROVE  GoesOn(id)
  <2>1. calls[id] \in CallType /\ \A x \in DOMAIN calls[id].at : calls[id].at[x] # "asked"
    BY <1>2, RunningIs DEF Typed, Base, Runs
  <2>2. calls[id].at \in [DOMAIN calls[id].at -> Steps]
    BY <2>1, CallParts
  <2>3. Awaited("trash") /\ Awaited("starred")
    BY <1>2 DEF Awaited, Collections
  <2>4. notices[id] \in {None, "error"}
    BY <1>2, <2>1, Distinct DEF Typed, Base, Finished
  <2>5. CASE \E x \in DOMAIN calls[id].at : calls[id].at[x] \in {"sent", "served", "trash", "starred"}
    BY <2>3, <2>5 DEF GoesOn
  <2>6. CASE \A x \in DOMAIN calls[id].at : calls[id].at[x] \in {"done", "failed"}
    BY <2>4, <2>6 DEF GoesOn, AllDone, Ended
  <2>7. QED
    BY <2>1, <2>2, <2>5, <2>6 DEF Steps
<1>3. Typed /\ Finished =>
        \A id \in Calls : Running(id) => (\E list \in Collections : cache[list].fetch # Idle) \/ GoesOn(id)
  BY <1>2
<1>4. QED
  BY <1>1, <1>3, StepFinished, TypedAlways, PTL DEF Spec
=============================================================================
