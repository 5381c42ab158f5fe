------------------------ MODULE DirectoryTreeProofs ------------------------
(***************************************************************************)
(* The folders of DirectoryTree, for any number of folders, files and      *)
(* overlapping requests: the closure table is a tree, what is in the trash *)
(* is there as a whole and can be found, and a permanent delete takes      *)
(* nothing that is in use.                                                 *)
(***************************************************************************)
EXTENDS DirectoryTree, TLAPS

-----------------------------------------------------------------------------
(* Rows of the closure table *)

\* The rows by their columns: who is above whom, and how far.
LEMMA BelowRow ==
    ASSUME TypeOK, NEW d, NEW e
    PROVE  e \in Below(d) <=> e \in Dirs /\ \E k \in Nat : <<d, e, k>> \in closure
<1>1. \A r \in closure : r \in Dirs \X Dirs \X Nat /\ r = <<r[1], r[2], r[3]>>
  BY DEF TypeOK
<1>2. ASSUME e \in Below(d) PROVE e \in Dirs /\ \E k \in Nat : <<d, e, k>> \in closure
  <2>1. PICK r \in closure : r[1] = d /\ r[2] = e
    BY <1>2 DEF Below
  <2>2. r[3] \in Nat /\ r[2] \in Dirs /\ <<d, e, r[3]>> \in closure
    BY <1>1, <2>1
  <2>3. QED
    BY <2>1, <2>2
<1>3. ASSUME NEW k \in Nat, <<d, e, k>> \in closure PROVE e \in Below(d)
  BY <1>3 DEF Below
<1>4. QED
  BY <1>2, <1>3

LEMMA AboveRow ==
    ASSUME TypeOK, NEW d, NEW a
    PROVE  a \in Above(d) <=> a \in Dirs /\ \E k \in Nat : <<a, d, k>> \in closure
<1>1. \A r \in closure : r \in Dirs \X Dirs \X Nat /\ r = <<r[1], r[2], r[3]>>
  BY DEF TypeOK
<1>2. ASSUME a \in Above(d) PROVE a \in Dirs /\ \E k \in Nat : <<a, d, k>> \in closure
  <2>1. PICK r \in closure : r[2] = d /\ r[1] = a
    BY <1>2 DEF Above
  <2>2. r[3] \in Nat /\ r[1] \in Dirs /\ <<a, d, r[3]>> \in closure
    BY <1>1, <2>1
  <2>3. QED
    BY <2>1, <2>2
<1>3. ASSUME NEW k \in Nat, <<a, d, k>> \in closure PROVE a \in Above(d)
  BY <1>3 DEF Above
<1>4. QED
  BY <1>2, <1>3

\* The insert of PathTo, and the deletes from the table.
LEMMA PathRow ==
    ASSUME TypeOK, NEW d \in Dirs, NEW p
    PROVE  /\ PathTo(d, p) \subseteq Dirs \X Dirs \X Nat
           /\ \A a, e, k : <<a, e, k>> \in PathTo(d, p) <=>
                 e = d /\ \E j \in Nat : <<a, p, j>> \in closure /\ k = j + 1
<1>1. \A r \in closure : r \in Dirs \X Dirs \X Nat /\ r = <<r[1], r[2], r[3]>>
  BY DEF TypeOK
<1>2. PathTo(d, p) \subseteq Dirs \X Dirs \X Nat
  BY <1>1 DEF PathTo
<1>3. ASSUME NEW a, NEW e, NEW k, <<a, e, k>> \in PathTo(d, p)
      PROVE  e = d /\ \E j \in Nat : <<a, p, j>> \in closure /\ k = j + 1
  <2>1. PICK r \in closure : r[2] = p /\ <<a, e, k>> = <<r[1], d, r[3] + 1>>
    BY <1>3 DEF PathTo
  <2>2. r[3] \in Nat /\ <<a, p, r[3]>> \in closure
    BY <1>1, <2>1
  <2>3. QED
    BY <2>1, <2>2
<1>4. ASSUME NEW a, NEW j \in Nat, <<a, p, j>> \in closure
      PROVE  <<a, d, j + 1>> \in PathTo(d, p)
  <2> DEFINE r == <<a, p, j>>
  <2>1. r[1] = a /\ r[2] = p /\ r[3] = j
    OBVIOUS
  <2>2. QED
    BY <1>4, <2>1 DEF PathTo
<1>5. QED
  BY <1>2, <1>3, <1>4

LEMMA KeptRow ==
    ASSUME TypeOK, NEW S
    PROVE  /\ RowsKept(S) \subseteq closure
           /\ \A a, e, k : <<a, e, k>> \in RowsKept(S) <=>
                 <<a, e, k>> \in closure /\ a \notin S /\ e \notin S
BY DEF RowsKept

\* A forest, row by row.
Forest ==
    /\ \A a, d \in Dirs, k \in Nat :
          <<a, d, k>> \in closure => Present(a) /\ Present(d) /\ (a = d <=> k = 0)
    /\ \A d \in Dirs : Present(d) => <<d, d, 0>> \in closure
    /\ \A a, b, d \in Dirs, j, k \in Nat :
          <<a, b, j>> \in closure /\ <<b, d, k>> \in closure => <<a, d, j + k>> \in closure
    /\ \A a, b, d \in Dirs, j, k \in Nat :
          <<a, d, j>> \in closure /\ <<b, d, k>> \in closure /\ j >= k => <<a, b, j - k>> \in closure

LEMMA ForestIsClosureForest == TypeOK /\ Forest => ClosureForest
<1> SUFFICES ASSUME TypeOK, Forest PROVE ClosureForest
  OBVIOUS
<1>1. \A r \in closure : /\ r[1] \in Dirs /\ r[2] \in Dirs /\ r[3] \in Nat
                         /\ r = <<r[1], r[2], r[3]>>
  BY DEF TypeOK
<1>2. ASSUME NEW r \in closure
      PROVE  Present(r[1]) /\ Present(r[2]) /\ (r[1] = r[2] <=> r[3] = 0)
  BY <1>1 DEF Forest
<1>3. ASSUME NEW r \in closure, NEW s \in closure, r[2] = s[1]
      PROVE  <<r[1], s[2], r[3] + s[3]>> \in closure
  <2>1. <<r[1], r[2], r[3]>> \in closure /\ <<r[2], s[2], s[3]>> \in closure
    BY <1>1, <1>3
  <2>2. QED
    BY <1>1, <2>1 DEF Forest
<1>4. ASSUME NEW r \in closure, NEW s \in closure, r[2] = s[2], r[3] >= s[3]
      PROVE  <<r[1], s[1], r[3] - s[3]>> \in closure
  <2>1. <<r[1], r[2], r[3]>> \in closure /\ <<s[1], r[2], s[3]>> \in closure
    BY <1>1, <1>4
  <2>2. QED
    BY <1>1, <1>4, <2>1 DEF Forest
<1>5. QED
  BY <1>2, <1>3, <1>4 DEF ClosureForest, Forest

-----------------------------------------------------------------------------
(* Type correctness *)

\* What a request between two statements relies on: the id it is to create is new and its own,
\* and what it has collected is there or has been.
Requests ==
    /\ \A c \in Clients :
          /\ req[c].op = "create" => /\ req[c].id \in Dirs /\ dir[req[c].id] = "none"
                                     /\ req[c].in # req[c].id
          /\ req[c].op = "upload" => req[c].id \in Files /\ file[req[c].id].status = "none"
          /\ \A d \in req[c].below : dir[d] # "none"
          /\ \A f \in req[c].doomed : file[f].status # "none"
    /\ \A b, c \in Clients :
          b # c /\ req[b].op \in {"create", "upload"} /\ req[c].op = req[b].op => req[b].id # req[c].id

\* Every file is where it is said to be.
Placed == \A f \in Files : Exists(f) => file[f].in = Root \/ Present(file[f].in)

TreeInv == TypeOK /\ Requests /\ Forest /\ Placed

RequestType ==
    [op : {"none", "create", "upload", "checked", "collected", "emptied"},
     id : Dirs \cup Files \cup {Root}, in : Dirs \cup {Root},
     below : SUBSET Dirs, doomed : SUBSET Files]

FileType ==
    [in : Dirs \cup {Root}, trashed : BOOLEAN,
     status : {"none", "pending", "committed", "failed", "gone"}]

LEMMA NoRequestType == NoRequest \in RequestType /\ NoFile \in FileType
BY DEF NoRequest, NoFile, RequestType, FileType

LEMMA BelowType == TypeOK => \A d : Below(d) \subseteq Dirs /\ Above(d) \subseteq Dirs
BY BelowRow, AboveRow

LEMMA TreeInit == Init => TreeInv
<1> SUFFICES ASSUME Init PROVE TreeInv
  OBVIOUS
<1>1. TypeOK
  BY NoRequestType DEF Init, TypeOK, RequestType, FileType
<1>2. Requests
  BY DEF Init, Requests, NoRequest
<1>3. Forest /\ Placed
  BY DEF Init, Forest, Present, Placed, Exists, NoFile
<1>4. QED
  BY <1>1, <1>2, <1>3 DEF TreeInv

\* How one request changes.
LEMMA OneRequest ==
    ASSUME TypeOK, NEW c \in Clients, NEW q \in RequestType, req' = [req EXCEPT ![c] = q]
    PROVE  /\ req' \in [Clients -> RequestType]
           /\ req'[c] = q
           /\ \A b \in Clients \ {c} : req'[b] = req[b]
BY DEF TypeOK, RequestType

\* What is below a folder exists.
LEMMA BelowPresent == TreeInv => \A d : \A e \in Below(d) : e \in Dirs /\ Present(e) /\ dir[e] # "none"
<1> SUFFICES ASSUME TreeInv, NEW d, NEW e \in Below(d) PROVE e \in Dirs /\ Present(e) /\ dir[e] # "none"
  OBVIOUS
<1>1. e \in Dirs /\ \E k \in Nat : <<d, e, k>> \in closure
  BY BelowRow DEF TreeInv
<1>2. PICK k \in Nat : <<d, e, k>> \in closure
  BY <1>1
<1>3. d \in Dirs
  BY <1>2 DEF TreeInv, TypeOK
<1>4. QED
  BY <1>1, <1>2, <1>3 DEF TreeInv, Forest, Present

\* A subtree that is moved to the trash or restored stays where it is.
LEMMA Marked ==
    ASSUME TreeInv, NEW d \in Dirs, NEW b \in BOOLEAN, MarkBelow(d, b)
    PROVE  /\ dir' \in [Dirs -> {"none", "live", "trashed", "gone"}]
           /\ \A e \in Dirs \ Below(d) : dir'[e] = dir[e]
           /\ \A e \in Below(d) : dir'[e] = IF b THEN "trashed" ELSE "live"
           /\ \A e \in Dirs : (Present(e)' <=> Present(e)) /\ (dir'[e] = "none" <=> dir[e] = "none")
                              /\ (dir'[e] = "gone" <=> dir[e] = "gone")
           /\ file' \in [Files -> FileType]
           /\ \A f \in Files : file'[f].in = file[f].in /\ file'[f].status = file[f].status
           /\ \A f \in Files : file'[f].trashed = IF f \in FilesIn(Below(d)) THEN b ELSE file[f].trashed
           /\ closure' = closure /\ req' = req /\ late' = late /\ lost' = lost
<1>1. /\ dir \in [Dirs -> {"none", "live", "trashed", "gone"}] /\ file \in [Files -> FileType]
  BY DEF TreeInv, TypeOK, FileType
<1>2. \A e \in Below(d) : e \in Dirs /\ Present(e)
  BY BelowPresent
<1>3. dir' = [e \in Dirs |-> IF e \notin Below(d) THEN dir[e]
                             ELSE IF b THEN "trashed" ELSE "live"]
  BY DEF MarkBelow
<1>4. dir' \in [Dirs -> {"none", "live", "trashed", "gone"}]
  BY <1>1, <1>3
<1>5. \A e \in Dirs : (Present(e)' <=> Present(e)) /\ (dir'[e] = "none" <=> dir[e] = "none")
                      /\ (dir'[e] = "gone" <=> dir[e] = "gone")
  BY <1>2, <1>3 DEF Present
<1>6. file' = [f \in Files |-> IF f \in FilesIn(Below(d))
                                  THEN [file[f] EXCEPT !.trashed = b] ELSE file[f]]
  BY DEF MarkBelow
<1>7. ASSUME NEW f \in Files
      PROVE  /\ file'[f] \in FileType
             /\ file'[f].in = file[f].in /\ file'[f].status = file[f].status
             /\ file'[f].trashed = IF f \in FilesIn(Below(d)) THEN b ELSE file[f].trashed
  BY <1>1, <1>6 DEF FileType
<1>8. file' \in [Files -> FileType]
  BY <1>6, <1>7
<1>9. QED
  BY <1>2, <1>3, <1>4, <1>5, <1>7, <1>8 DEF MarkBelow

\* What a permanent delete keeps of its reading of the subtree.
LEMMA SubtreeCollected ==
    ASSUME TypeOK, NEW c \in Clients, CollectSubtree(c)
    PROVE  \E q \in RequestType :
              /\ req' = [req EXCEPT ![c] = q] /\ q.op \in {"none", "collected"} /\ q.doomed = {}
              /\ q.below = {} \/ (q.id = req[c].id /\ q.below = Below(q.id))
<1> DEFINE ids == Below(req[c].id)
           q == [NoRequest EXCEPT !.op = "collected", !.id = req[c].id, !.below = ids]
<1>1. req \in [Clients -> RequestType] /\ ids \subseteq Dirs
  BY BelowType DEF TypeOK, RequestType
<1>2. CASE ids = {}
  <2>1. req' = [req EXCEPT ![c] = NoRequest]
    BY <1>2 DEF CollectSubtree, End
  <2>2. NoRequest.op = "none" /\ NoRequest.doomed = {} /\ NoRequest.below = {}
    BY DEF NoRequest
  <2>3. QED
    BY <2>1, <2>2, NoRequestType
<1>3. CASE ids # {}
  <2>1. q \in RequestType
    BY <1>1, NoRequestType DEF RequestType, NoRequest
  <2>2. q.op = "collected" /\ q.id = req[c].id /\ q.below = ids /\ q.doomed = {}
    BY DEF NoRequest
  <2>3. req' = [req EXCEPT ![c] = q]
    BY <1>1, <1>3 DEF CollectSubtree
  <2> HIDE DEF q
  <2>4. QED
    BY <2>1, <2>2, <2>3
<1>4. QED
  BY <1>2, <1>3

LEMMA TypeStep == TreeInv /\ Next => TypeOK'
<1> SUFFICES ASSUME TreeInv, Next PROVE TypeOK'
  OBVIOUS
<1>0. /\ TypeOK /\ Requests /\ req \in [Clients -> RequestType] /\ file \in [Files -> FileType]
      /\ \A d : Below(d) \subseteq Dirs
  BY BelowType DEF TreeInv, TypeOK, RequestType, FileType
<1>1. ASSUME NEW c \in Clients, NEW d \in Dirs, NEW p \in Dirs \cup {Root}, CheckCreate(c, d, p)
      PROVE  TypeOK'
  <2> DEFINE q == [NoRequest EXCEPT !.op = "create", !.id = d, !.in = p]
  <2>1. q \in RequestType
    BY NoRequestType DEF RequestType, NoRequest
  <2>2. req' \in [Clients -> RequestType]
    BY <1>0, <1>1, <2>1, OneRequest DEF CheckCreate, Begin
  <2>3. QED
    BY <1>0, <1>1, <2>2 DEF CheckCreate, TypeOK, RequestType
<1>2. ASSUME NEW c \in Clients, NEW d \in Dirs, CheckTrashed(c, d) PROVE TypeOK'
  <2> DEFINE q == [NoRequest EXCEPT !.op = "checked", !.id = d]
  <2>1. q \in RequestType
    BY NoRequestType DEF RequestType, NoRequest
  <2>2. req' \in [Clients -> RequestType]
    BY <1>0, <1>2, <2>1, OneRequest DEF CheckTrashed, Begin
  <2>3. QED
    BY <1>0, <1>2, <2>2 DEF CheckTrashed, TypeOK, RequestType
<1>2a. ASSUME NEW c \in Clients, CollectSubtree(c) PROVE TypeOK'
  <2>1. PICK q \in RequestType : req' = [req EXCEPT ![c] = q]
    BY <1>0, <1>2a, SubtreeCollected
  <2>2. req' \in [Clients -> RequestType]
    BY <1>0, <2>1, OneRequest
  <2>3. QED
    BY <1>0, <1>2a, <2>2 DEF CollectSubtree, TypeOK, RequestType
<1>3. ASSUME NEW c \in Clients, NEW f \in Files, NEW d \in Dirs \cup {Root}, CheckUpload(c, f, d)
      PROVE  TypeOK'
  <2> DEFINE q == [NoRequest EXCEPT !.op = "upload", !.id = f, !.in = d]
  <2>1. q \in RequestType
    BY NoRequestType DEF RequestType, NoRequest
  <2>2. req' \in [Clients -> RequestType]
    BY <1>0, <1>3, <2>1, OneRequest DEF CheckUpload, Begin
  <2>3. QED
    BY <1>0, <1>3, <2>2 DEF CheckUpload, TypeOK, RequestType
<1>4. ASSUME NEW c \in Clients, InsertDirectory(c) PROVE TypeOK'
  <2> DEFINE d == req[c].id
             p == req[c].in
  <2>1. d \in Dirs
    BY <1>0, <1>4 DEF InsertDirectory, Requests
  <2>2. closure' \subseteq Dirs \X Dirs \X Nat
    BY <1>0, <1>4, <2>1, PathRow DEF InsertDirectory, TypeOK
  <2>3. dir' \in [Dirs -> {"none", "live", "trashed", "gone"}] /\ late' \subseteq Dirs \cup Files
    BY <1>0, <1>4, <2>1 DEF InsertDirectory, TypeOK
  <2>4. req' \in [Clients -> RequestType]
    BY <1>0, <1>4, NoRequestType, OneRequest DEF InsertDirectory, End
  <2>5. QED
    BY <1>0, <1>4, <2>2, <2>3, <2>4 DEF InsertDirectory, TypeOK, RequestType
<1>5. ASSUME NEW c \in Clients, DeleteFiles(c) PROVE TypeOK'
  <2> DEFINE q == [req[c] EXCEPT !.op = "emptied", !.doomed = FilesIn(req[c].below)]
  <2>1. FilesIn(req[c].below) \subseteq Files
    BY DEF FilesIn
  <2>2. q \in RequestType
    BY <1>0, <2>1 DEF RequestType
  <2>3. req' = [req EXCEPT ![c] = q]
    BY <1>0, <1>5 DEF DeleteFiles
  <2>4. req' \in [Clients -> RequestType]
    BY <1>0, <2>2, <2>3, OneRequest
  <2>5. QED
    BY <1>0, <1>5, <2>4 DEF DeleteFiles, TypeOK, RequestType
<1>6. ASSUME NEW c \in Clients, DeleteDirectories(c) PROVE TypeOK'
  <2>1. file' \in [Files -> FileType]
    <3>1. [NoFile EXCEPT !.status = "gone"] \in FileType
      BY NoRequestType DEF FileType
    <3>2. QED
      BY <1>0, <1>6, <3>1 DEF DeleteDirectories
  <2>2. closure' \subseteq Dirs \X Dirs \X Nat
    BY <1>0, <1>6, KeptRow DEF DeleteDirectories, TypeOK
  <2>3. late' \subseteq Dirs \cup Files /\ apart' \subseteq Dirs \cup Files
    BY <1>0, <1>6 DEF DeleteDirectories, TypeOK
  <2>4. lost' \subseteq {"late", "apart", "back", "plain"}
    BY <1>0, <1>6 DEF DeleteDirectories, TypeOK, Kind
  <2>5. dir' \in [Dirs -> {"none", "live", "trashed", "gone"}]
    BY <1>0, <1>6 DEF DeleteDirectories, TypeOK
  <2>6. req' \in [Clients -> RequestType]
    BY <1>0, <1>6, NoRequestType, OneRequest DEF DeleteDirectories, End
  <2>7. QED
    BY <2>1, <2>2, <2>3, <2>4, <2>5, <2>6 DEF TypeOK, RequestType, FileType
<1>7. ASSUME NEW c \in Clients, RollBackDelete(c) PROVE TypeOK'
  <2>1. req' \in [Clients -> RequestType]
    BY <1>0, <1>7, NoRequestType, OneRequest DEF RollBackDelete, End
  <2>2. QED
    BY <1>0, <1>7, <2>1 DEF RollBackDelete, TypeOK, RequestType
<1>8. ASSUME NEW c \in Clients, CreatePending(c) PROVE TypeOK'
  <2> DEFINE f == req[c].id
             d == req[c].in
  <2>1. f \in Files /\ d \in Dirs \cup {Root}
    BY <1>0, <1>8 DEF CreatePending, Requests, RequestType
  <2>2. [in |-> d, status |-> "pending", trashed |-> FALSE] \in FileType
    BY <2>1 DEF FileType
  <2>3. file' \in [Files -> FileType] /\ late' \subseteq Dirs \cup Files
    BY <1>0, <1>8, <2>1, <2>2 DEF CreatePending, TypeOK
  <2>4. req' \in [Clients -> RequestType]
    BY <1>0, <1>8, NoRequestType, OneRequest DEF CreatePending, End
  <2>5. QED
    BY <1>0, <1>8, <2>3, <2>4 DEF CreatePending, TypeOK, RequestType, FileType
<1>9. ASSUME NEW d \in Dirs, SoftDeleteSubtree(d) \/ RestoreSubtree(d) PROVE TypeOK'
  <2>1. PICK b \in BOOLEAN : MarkBelow(d, b)
    BY <1>9 DEF SoftDeleteSubtree, RestoreSubtree
  <2>2. /\ dir' \in [Dirs -> {"none", "live", "trashed", "gone"}] /\ file' \in [Files -> FileType]
        /\ closure' = closure /\ req' = req /\ late' = late /\ lost' = lost
    BY <2>1, Marked
  <2>3. apart' \subseteq Dirs \cup Files
    BY <1>0, <1>9 DEF SoftDeleteSubtree, RestoreSubtree, TypeOK, FilesIn
  <2>4. QED
    BY <1>0, <2>2, <2>3 DEF TypeOK, FileType
<1>10. ASSUME NEW f \in Files,
              \/ \E s \in {"committed", "failed"} : EndUpload(f, s)
              \/ SoftDelete(f) \/ Restore(f) \/ PermanentDelete(f)
       PROVE  TypeOK'
  <2>1. file[f] \in FileType /\ [NoFile EXCEPT !.status = "gone"] \in FileType
    BY <1>0, NoRequestType DEF FileType
  <2>2. PICK r \in FileType : file' = [file EXCEPT ![f] = r]
    <3>1. CASE \E s \in {"committed", "failed"} : EndUpload(f, s)
      <4>1. PICK s \in {"committed", "failed"} : EndUpload(f, s)
        BY <3>1
      <4>2. [file[f] EXCEPT !.status = s] \in FileType
        BY <2>1 DEF FileType
      <4>3. QED
        BY <1>0, <4>1, <4>2 DEF EndUpload
    <3>2. CASE SoftDelete(f)
      <4>1. [file[f] EXCEPT !.trashed = TRUE] \in FileType
        BY <2>1 DEF FileType
      <4>2. QED
        BY <1>0, <3>2, <4>1 DEF SoftDelete
    <3>3. CASE Restore(f)
      <4>1. [file[f] EXCEPT !.trashed = FALSE] \in FileType
        BY <2>1 DEF FileType
      <4>2. QED
        BY <1>0, <3>3, <4>1 DEF Restore
    <3>4. CASE PermanentDelete(f)
      BY <2>1, <3>4 DEF PermanentDelete
    <3>5. QED
      BY <1>10, <3>1, <3>2, <3>3, <3>4
  <2>3. file' \in [Files -> FileType]
    BY <1>0, <2>2
  <2>4. QED
    BY <1>0, <1>10, <2>3 DEF EndUpload, SoftDelete, Restore, PermanentDelete, TypeOK, FileType
<1>11. QED
  BY <1>1, <1>2, <1>2a, <1>3, <1>4, <1>5, <1>6, <1>7, <1>8, <1>9, <1>10 DEF Next

\* The requests when c's becomes q, or when all go on.
LEMMA RequestsKept ==
    ASSUME TypeOK, Requests,
           \A d \in Dirs : dir[d] # "none" => dir'[d] # "none",
           \A f \in Files : file[f].status # "none" => file'[f].status # "none",
           NEW c \in Clients, NEW q \in RequestType, req' = [req EXCEPT ![c] = q],
           \A b \in Clients \ {c} :
              /\ req[b].op = "create" => dir'[req[b].id] = "none"
              /\ req[b].op = "upload" => file'[req[b].id].status = "none",
           q.op = "create" => q.id \in Dirs /\ dir'[q.id] = "none" /\ q.in # q.id,
           q.op = "upload" => q.id \in Files /\ file'[q.id].status = "none",
           \A d \in q.below : dir'[d] # "none",
           \A f \in q.doomed : file'[f].status # "none",
           q.op \in {"create", "upload"} => \A b \in Clients \ {c} : req[b].id # q.id
    PROVE  Requests'
<1>1. req \in [Clients -> RequestType]
  BY DEF TypeOK, RequestType
<1>2. /\ req'[c] = q
      /\ \A b \in Clients \ {c} : req'[b] = req[b]
  BY OneRequest
<1>3. ASSUME NEW b \in Clients
      PROVE  /\ req'[b].op = "create" => /\ req'[b].id \in Dirs /\ dir'[req'[b].id] = "none"
                                          /\ req'[b].in # req'[b].id
             /\ req'[b].op = "upload" => req'[b].id \in Files /\ file'[req'[b].id].status = "none"
             /\ \A d \in req'[b].below : dir'[d] # "none"
             /\ \A f \in req'[b].doomed : file'[f].status # "none"
  <2>1. CASE b = c
    BY <1>2, <2>1
  <2>2. CASE b # c
    <3>1. req'[b] = req[b] /\ req[b].below \subseteq Dirs /\ req[b].doomed \subseteq Files
      BY <1>1, <1>2, <2>2 DEF RequestType
    <3>2. QED
      BY <2>2, <3>1 DEF Requests
  <2>3. QED
    BY <2>1, <2>2
<1>4. ASSUME NEW a \in Clients, NEW b \in Clients, a # b,
             req'[a].op \in {"create", "upload"}, req'[b].op = req'[a].op
      PROVE  req'[a].id # req'[b].id
  BY <1>2, <1>4 DEF Requests
<1>5. QED
  BY <1>3, <1>4 DEF Requests

LEMMA RequestsGoOn ==
    ASSUME TypeOK, Requests, req' = req,
           \A d \in Dirs : dir[d] = "none" <=> dir'[d] = "none",
           \A f \in Files : file[f].status = "none" <=> file'[f].status = "none"
    PROVE  Requests'
<1>1. \A c \in Clients : req[c].below \subseteq Dirs /\ req[c].doomed \subseteq Files
  BY DEF TypeOK
<1>2. QED
  BY <1>1 DEF Requests

LEMMA RequestsStep == TreeInv /\ Next => Requests'
<1> SUFFICES ASSUME TreeInv, Next PROVE Requests'
  OBVIOUS
<1>0. /\ TypeOK /\ Requests /\ req \in [Clients -> RequestType] /\ file \in [Files -> FileType]
      /\ dir \in [Dirs -> {"none", "live", "trashed", "gone"}]
      /\ \A d : Below(d) \subseteq Dirs
  BY BelowType DEF TreeInv, TypeOK, RequestType, FileType
<1>0a. \A c \in Clients : req[c].op \in {"create", "upload"} => req[c] # NoRequest
  BY DEF NoRequest
<1>1. ASSUME NEW c \in Clients, NEW d \in Dirs, NEW p \in Dirs \cup {Root}, CheckCreate(c, d, p)
      PROVE  Requests'
  <2> DEFINE q == [NoRequest EXCEPT !.op = "create", !.id = d, !.in = p]
  <2>1. q \in RequestType
    BY NoRequestType DEF RequestType, NoRequest
  <2>2. q.op = "create" /\ q.id = d /\ q.in = p /\ q.below = {} /\ q.doomed = {}
    BY DEF NoRequest
  <2>3. /\ dir[d] = "none" /\ \A b \in Clients : req[b].id # d
        /\ req' = [req EXCEPT ![c] = q] /\ dir' = dir /\ file' = file
    BY <1>1 DEF CheckCreate, Begin
  <2>4. p # d
    BY <1>1, <2>3, IdAssumption DEF CheckCreate, LiveOrRoot
  <2> HIDE DEF q
  <2>5. QED
    BY <1>0, <2>1, <2>2, <2>3, <2>4, RequestsKept DEF Requests
<1>2. ASSUME NEW c \in Clients, NEW d \in Dirs, CheckTrashed(c, d) PROVE Requests'
  <2> DEFINE q == [NoRequest EXCEPT !.op = "checked", !.id = d]
  <2>1. q \in RequestType
    BY NoRequestType DEF RequestType, NoRequest
  <2>2. q.op = "checked" /\ q.below = {} /\ q.doomed = {}
    BY DEF NoRequest
  <2>3. req' = [req EXCEPT ![c] = q] /\ dir' = dir /\ file' = file
    BY <1>2 DEF CheckTrashed, Begin
  <2> HIDE DEF q
  <2>4. QED
    BY <1>0, <2>1, <2>2, <2>3, RequestsKept DEF Requests
<1>2a. ASSUME NEW c \in Clients, CollectSubtree(c) PROVE Requests'
  <2>1. PICK q \in RequestType :
           /\ req' = [req EXCEPT ![c] = q] /\ q.op \in {"none", "collected"} /\ q.doomed = {}
           /\ q.below = {} \/ (q.id = req[c].id /\ q.below = Below(q.id))
    BY <1>0, <1>2a, SubtreeCollected
  <2>2. dir' = dir /\ file' = file
    BY <1>2a DEF CollectSubtree
  <2>3. \A e \in q.below : dir[e] # "none"
    BY <2>1, BelowPresent
  <2>4. \A f \in q.doomed : file[f].status # "none"
    BY <1>0, <2>1 DEF Requests
  <2>5. QED
    BY <1>0, <2>1, <2>2, <2>3, <2>4, RequestsKept DEF Requests
<1>3. ASSUME NEW c \in Clients, NEW f \in Files, NEW d \in Dirs \cup {Root}, CheckUpload(c, f, d)
      PROVE  Requests'
  <2> DEFINE q == [NoRequest EXCEPT !.op = "upload", !.id = f, !.in = d]
  <2>1. q \in RequestType
    BY NoRequestType DEF RequestType, NoRequest
  <2>2. q.op = "upload" /\ q.id = f /\ q.below = {} /\ q.doomed = {}
    BY DEF NoRequest
  <2>3. /\ file[f].status = "none" /\ \A b \in Clients : req[b].id # f
        /\ req' = [req EXCEPT ![c] = q] /\ dir' = dir /\ file' = file
    BY <1>3 DEF CheckUpload, Begin
  <2> HIDE DEF q
  <2>4. QED
    BY <1>0, <2>1, <2>2, <2>3, RequestsKept DEF Requests
<1>4. ASSUME NEW c \in Clients, req' = [req EXCEPT ![c] = NoRequest],
             \A e \in Dirs : dir[e] # "none" => dir'[e] # "none",
             \A f \in Files : file[f].status # "none" => file'[f].status # "none",
             \A b \in Clients \ {c} :
                /\ req[b].op = "create" => dir'[req[b].id] = "none"
                /\ req[b].op = "upload" => file'[req[b].id].status = "none"
      PROVE  Requests'
  <2>1. NoRequest.op = "none" /\ NoRequest.below = {} /\ NoRequest.doomed = {}
    BY DEF NoRequest
  <2>2. QED
    BY <1>0, <1>4, <2>1, NoRequestType, RequestsKept
<1>5. ASSUME NEW c \in Clients, InsertDirectory(c) PROVE Requests'
  <2>1. /\ req[c].op = "create" /\ req[c].id \in Dirs /\ dir' = [dir EXCEPT ![req[c].id] = "live"]
        /\ file' = file /\ req' = [req EXCEPT ![c] = NoRequest]
    BY <1>0, <1>5 DEF InsertDirectory, Requests, End
  <2>2. \A b \in Clients \ {c} : req[b].op = "create" => req[b].id # req[c].id /\ dir[req[b].id] = "none"
                                                          /\ req[b].id \in Dirs
    BY <1>0, <2>1 DEF Requests
  <2>3. \A e \in Dirs : dir'[e] = IF e = req[c].id THEN "live" ELSE dir[e]
    BY <1>0, <2>1
  <2>4. \A b \in Clients \ {c} : req[b].op = "upload" => file'[req[b].id].status = "none"
    BY <1>0, <2>1 DEF Requests
  <2>5. \A e \in Dirs : dir[e] # "none" => dir'[e] # "none"
    BY <2>3
  <2>6. \A b \in Clients \ {c} : req[b].op = "create" => dir'[req[b].id] = "none"
    BY <2>2, <2>3
  <2>7. \A f \in Files : file[f].status # "none" => file'[f].status # "none"
    BY <2>1
  <2>8. req' = [req EXCEPT ![c] = NoRequest]
    BY <2>1
  <2>9. QED
    BY <1>4, <2>4, <2>5, <2>6, <2>7, <2>8
<1>6. ASSUME NEW c \in Clients, DeleteFiles(c) PROVE Requests'
  <2> DEFINE q == [req[c] EXCEPT !.op = "emptied", !.doomed = FilesIn(req[c].below)]
  <2>1. FilesIn(req[c].below) \subseteq Files /\ req[c] \in RequestType
    BY <1>0 DEF FilesIn
  <2>2. q \in RequestType
    BY <2>1 DEF RequestType
  <2>3. q.op = "emptied" /\ q.below = req[c].below /\ q.doomed = FilesIn(req[c].below)
    BY <2>1 DEF RequestType
  <2>4. req' = [req EXCEPT ![c] = q] /\ dir' = dir /\ file' = file
    BY <1>0, <1>6 DEF DeleteFiles
  <2>5. /\ \A e \in q.below : dir[e] # "none"
        /\ \A f \in q.doomed : file[f].status # "none"
    BY <1>0, <2>3 DEF Requests, FilesIn, Exists
  <2> HIDE DEF q
  <2>6. QED
    BY <1>0, <2>2, <2>3, <2>4, <2>5, RequestsKept DEF Requests
<1>7. ASSUME NEW c \in Clients, DeleteDirectories(c) PROVE Requests'
  <2>1. /\ req' = [req EXCEPT ![c] = NoRequest]
        /\ \A e \in Dirs : dir'[e] = IF e \in req[c].below THEN "gone" ELSE dir[e]
    BY <1>7 DEF DeleteDirectories, End
  <2>2. \A f \in Files : file'[f].status = IF f \in req[c].doomed THEN "gone" ELSE file[f].status
    BY <1>7 DEF DeleteDirectories, NoFile
  <2>3. /\ \A e \in req[c].below : dir[e] # "none"
        /\ \A f \in req[c].doomed : file[f].status # "none"
    BY <1>0 DEF Requests
  <2>4. \A b \in Clients \ {c} :
           /\ req[b].op = "create" => req[b].id \in Dirs /\ dir[req[b].id] = "none"
           /\ req[b].op = "upload" => req[b].id \in Files /\ file[req[b].id].status = "none"
    BY <1>0 DEF Requests
  <2>5. \A b \in Clients \ {c} : req[b].op = "create" => dir'[req[b].id] = "none"
    BY <2>1, <2>3, <2>4
  <2>6. \A b \in Clients \ {c} : req[b].op = "upload" => file'[req[b].id].status = "none"
    BY <2>2, <2>3, <2>4
  <2>7. \A f \in Files : file[f].status # "none" => file'[f].status # "none"
    BY <2>2
  <2>8. \A e \in Dirs : dir[e] # "none" => dir'[e] # "none"
    BY <2>1
  <2>9. QED
    BY <1>4, <2>1, <2>5, <2>6, <2>7, <2>8
<1>8. ASSUME NEW c \in Clients, RollBackDelete(c) PROVE Requests'
  BY <1>0, <1>4, <1>8 DEF RollBackDelete, End, Requests
<1>9. ASSUME NEW c \in Clients, CreatePending(c) PROVE Requests'
  <2>1. /\ req[c].op = "upload" /\ req[c].id \in Files /\ req' = [req EXCEPT ![c] = NoRequest] /\ dir' = dir
        /\ \A f \in Files \ {req[c].id} : file'[f] = file[f]
        /\ file[req[c].id].status = "none"
    BY <1>0, <1>9 DEF CreatePending, Requests, End
  <2>2. \A b \in Clients \ {c} : req[b].op = "upload" => req[b].id # req[c].id /\ file[req[b].id].status = "none"
                                                          /\ req[b].id \in Files
    BY <1>0, <2>1 DEF Requests
  <2>3. \A b \in Clients \ {c} : req[b].op = "create" => dir'[req[b].id] = "none"
    BY <1>0, <2>1 DEF Requests
  <2>4. \A b \in Clients \ {c} : req[b].op = "upload" => file'[req[b].id].status = "none"
    BY <2>1, <2>2
  <2>5. \A f \in Files : file[f].status # "none" => file'[f].status # "none"
    BY <2>1
  <2>6. \A e \in Dirs : dir[e] # "none" => dir'[e] # "none"
    BY <2>1
  <2>7. req' = [req EXCEPT ![c] = NoRequest]
    BY <2>1
  <2>8. QED
    BY <1>4, <2>3, <2>4, <2>5, <2>6, <2>7
<1>10. ASSUME NEW d \in Dirs, SoftDeleteSubtree(d) \/ RestoreSubtree(d) PROVE Requests'
  <2>1. PICK b \in BOOLEAN : MarkBelow(d, b)
    BY <1>10 DEF SoftDeleteSubtree, RestoreSubtree
  <2>2. QED
    BY <1>0, <2>1, Marked, RequestsGoOn
<1>11. ASSUME NEW f \in Files,
              \/ \E s \in {"committed", "failed"} : EndUpload(f, s)
              \/ SoftDelete(f) \/ Restore(f) \/ PermanentDelete(f)
       PROVE  Requests'
  <2>1. dir' = dir /\ req' = req
    BY <1>11 DEF EndUpload, SoftDelete, Restore, PermanentDelete
  <2>2. \A g \in Files : file[g].status = "none" <=> file'[g].status = "none"
    <3>1. CASE \E s \in {"committed", "failed"} : EndUpload(f, s)
      BY <1>0, <3>1 DEF EndUpload, FileType
    <3>2. CASE SoftDelete(f)
      BY <1>0, <3>2 DEF SoftDelete, FileType
    <3>3. CASE Restore(f)
      BY <1>0, <3>3 DEF Restore, FileType
    <3>4. CASE PermanentDelete(f)
      BY <1>0, <3>4 DEF PermanentDelete, FileShown, NoFile
    <3>5. QED
      BY <1>11, <3>1, <3>2, <3>3, <3>4
  <2>3. QED
    BY <1>0, <2>1, <2>2, RequestsGoOn
<1>12. QED
  BY <1>1, <1>2, <1>2a, <1>3, <1>5, <1>6, <1>7, <1>8, <1>9, <1>10, <1>11 DEF Next

-----------------------------------------------------------------------------
(* The forest *)

\* The rows of a directory that is inserted.
LEMMA Inserted ==
    ASSUME TreeInv, NEW c \in Clients, InsertDirectory(c)
    PROVE  \E d \in Dirs, p \in Dirs \cup {Root} :
           /\ d = req[c].id /\ p = req[c].in /\ p # d /\ dir[d] = "none"
           /\ dir' = [dir EXCEPT ![d] = "live"] /\ file' = file /\ apart' = apart /\ lost' = lost
           /\ Present(d)' /\ \A e \in Dirs \ {d} : Present(e)' <=> Present(e)
           /\ \A a, k : <<a, d, k>> \notin closure /\ <<d, a, k>> \notin closure
           /\ \A a, e, k : e # d => (<<a, e, k>> \in closure' <=> <<a, e, k>> \in closure)
           /\ \A a \in Dirs, k \in Nat : <<a, d, k>> \in closure' <=>
                 \/ a = d /\ k = 0
                 \/ k > 0 /\ <<a, p, k - 1>> \in closure
<1>1. /\ TypeOK /\ Requests /\ Forest /\ req \in [Clients -> RequestType]
      /\ dir \in [Dirs -> {"none", "live", "trashed", "gone"}]
  BY DEF TreeInv, TypeOK, RequestType
<1>2. PICK d \in Dirs, p \in Dirs \cup {Root} : d = req[c].id /\ p = req[c].in /\ dir[d] = "none" /\ p # d
  BY <1>1 DEF InsertDirectory, Requests, RequestType
<1>3. dir' = [dir EXCEPT ![d] = "live"] /\ file' = file /\ apart' = apart /\ lost' = lost
  BY <1>2 DEF InsertDirectory
<1>4. Present(d)' /\ \A e \in Dirs \ {d} : Present(e)' <=> Present(e)
  BY <1>1, <1>2, <1>3 DEF Present
<1>5. \A a, k : <<a, d, k>> \notin closure /\ <<d, a, k>> \notin closure
  <2>1. ASSUME NEW a, NEW k, <<a, d, k>> \in closure PROVE FALSE
    <3>1. a \in Dirs /\ k \in Nat
      BY <1>1, <2>1 DEF TypeOK
    <3>2. QED
      BY <1>1, <1>2, <2>1, <3>1 DEF Forest, Present
  <2>2. ASSUME NEW a, NEW k, <<d, a, k>> \in closure PROVE FALSE
    <3>1. a \in Dirs /\ k \in Nat
      BY <1>1, <2>2 DEF TypeOK
    <3>2. QED
      BY <1>1, <1>2, <2>2, <3>1 DEF Forest, Present
  <2>3. QED
    BY <2>1, <2>2
<1>6. closure' = closure \cup PathTo(d, p) \cup {<<d, d, 0>>}
  BY <1>2 DEF InsertDirectory
<1>7. \A a, e, k : <<a, e, k>> \in PathTo(d, p) <=>
                      e = d /\ \E j \in Nat : <<a, p, j>> \in closure /\ k = j + 1
  BY <1>1, PathRow
<1>8. \A a, e, k : e # d => (<<a, e, k>> \in closure' <=> <<a, e, k>> \in closure)
  BY <1>6, <1>7
<1>9. ASSUME NEW a \in Dirs, NEW k \in Nat
      PROVE  <<a, d, k>> \in closure' <=> \/ a = d /\ k = 0
                                          \/ k > 0 /\ <<a, p, k - 1>> \in closure
  <2>1. <<a, d, k>> \in closure' <=> (a = d /\ k = 0) \/ <<a, d, k>> \in PathTo(d, p)
    BY <1>5, <1>6
  <2>2. ASSUME <<a, d, k>> \in PathTo(d, p) PROVE k > 0 /\ <<a, p, k - 1>> \in closure
    <3>1. PICK j \in Nat : <<a, p, j>> \in closure /\ k = j + 1
      BY <1>7, <2>2
    <3>2. k > 0 /\ k - 1 = j
      BY <3>1
    <3>3. QED
      BY <3>1, <3>2
  <2>2a. ASSUME k > 0, <<a, p, k - 1>> \in closure PROVE <<a, d, k>> \in PathTo(d, p)
    <3>1. k - 1 \in Nat /\ k = (k - 1) + 1
      BY <2>2a
    <3>2. QED
      BY <1>7, <2>2a, <3>1
  <2>3. QED
    BY <2>1, <2>2, <2>2a
<1> WITNESS d \in Dirs, p \in Dirs \cup {Root}
<1>10. QED
  BY <1>2, <1>3, <1>4, <1>5, <1>8, <1>9

LEMMA ForestInsert == ASSUME TreeInv, NEW c \in Clients, InsertDirectory(c) PROVE Forest'
<1>1. PICK d \in Dirs, p \in Dirs \cup {Root} :
      /\ d = req[c].id /\ p = req[c].in /\ p # d
      /\ Present(d)' /\ \A e \in Dirs \ {d} : Present(e)' <=> Present(e)
      /\ \A a, k : <<a, d, k>> \notin closure /\ <<d, a, k>> \notin closure
      /\ \A a, e, k : e # d => (<<a, e, k>> \in closure' <=> <<a, e, k>> \in closure)
      /\ \A a \in Dirs, k \in Nat : <<a, d, k>> \in closure' <=>
            \/ a = d /\ k = 0
            \/ k > 0 /\ <<a, p, k - 1>> \in closure
  BY Inserted
<1>2. Forest /\ \A a, k : <<a, p, k>> \in closure => p \in Dirs /\ a \in Dirs /\ k \in Nat /\ a # d
  <2>1. Forest /\ closure \subseteq Dirs \X Dirs \X Nat
    BY DEF TreeInv, TypeOK
  <2>2. QED
    BY <1>1, <2>1
<1>3. ASSUME NEW a \in Dirs, NEW e \in Dirs, NEW k \in Nat, <<a, e, k>> \in closure'
      PROVE  Present(a)' /\ Present(e)' /\ (a = e <=> k = 0)
  <2>1. CASE e # d
    BY <1>1, <1>2, <1>3, <2>1 DEF Forest
  <2>2. CASE e = d
    <3>1. CASE a = d /\ k = 0
      BY <1>1, <2>2, <3>1
    <3>2. CASE k > 0 /\ <<a, p, k - 1>> \in closure
      BY <1>1, <1>2, <2>2, <3>2 DEF Forest
    <3>3. QED
      BY <1>1, <1>3, <2>2, <3>1, <3>2
  <2>3. QED
    BY <2>1, <2>2
<1>4. ASSUME NEW e \in Dirs, Present(e)' PROVE <<e, e, 0>> \in closure'
  BY <1>1, <1>2, <1>4 DEF Forest
<1>5. ASSUME NEW a \in Dirs, NEW b \in Dirs, NEW e \in Dirs, NEW j \in Nat, NEW k \in Nat,
             <<a, b, j>> \in closure', <<b, e, k>> \in closure'
      PROVE  <<a, e, j + k>> \in closure'
  <2>1. CASE e # d
    BY <1>1, <1>2, <1>5, <2>1 DEF Forest
  <2>2. CASE e = d /\ b = d /\ k = 0
    BY <1>5, <2>2
  <2>3. CASE e = d /\ k > 0 /\ <<b, p, k - 1>> \in closure
    <3>1. b # d /\ <<a, b, j>> \in closure /\ k - 1 \in Nat /\ p \in Dirs
      BY <1>1, <1>2, <1>5, <2>3
    <3>2. <<a, p, j + (k - 1)>> \in closure
      BY <1>2, <2>3, <3>1 DEF Forest
    <3>3. j + (k - 1) = (j + k) - 1 /\ j + k > 0 /\ j + k \in Nat
      BY <2>3
    <3>4. QED
      BY <1>1, <2>3, <3>2, <3>3
  <2>4. QED
    BY <1>1, <1>5, <2>1, <2>2, <2>3
<1>6. ASSUME NEW a \in Dirs, NEW b \in Dirs, NEW e \in Dirs, NEW j \in Nat, NEW k \in Nat,
             <<a, e, j>> \in closure', <<b, e, k>> \in closure', j >= k
      PROVE  <<a, b, j - k>> \in closure'
  <2>1. CASE e # d
    <3>1. <<a, b, j - k>> \in closure
      BY <1>1, <1>2, <1>6, <2>1 DEF Forest
    <3>2. QED
      BY <1>1, <3>1
  <2>2. CASE e = d
    <3>1. CASE b = d /\ k = 0
      <4>1. j - k = j
        BY <3>1
      <4>2. QED
        BY <1>6, <2>2, <3>1, <4>1
    <3>2. CASE k > 0 /\ <<b, p, k - 1>> \in closure
      <4>1. j > 0 /\ <<a, p, j - 1>> \in closure
        BY <1>1, <1>6, <2>2, <3>2
      <4>2. p \in Dirs /\ b # d /\ j - 1 \in Nat /\ k - 1 \in Nat /\ j - 1 >= k - 1
        BY <1>2, <1>6, <3>2, <4>1
      <4>3. <<a, b, (j - 1) - (k - 1)>> \in closure
        BY <1>2, <3>2, <4>1, <4>2 DEF Forest
      <4>4. (j - 1) - (k - 1) = j - k
        OBVIOUS
      <4>5. QED
        BY <1>1, <4>2, <4>3, <4>4
    <3>3. QED
      BY <1>1, <1>6, <2>2, <3>1, <3>2
  <2>3. QED
    BY <2>1, <2>2
<1>7. QED
  BY <1>3, <1>4, <1>5, <1>6 DEF Forest

\* What a permanent delete leaves.
LEMMA Deleted ==
    ASSUME TreeInv, NEW c \in Clients, DeleteDirectories(c)
    PROVE  \E S \in SUBSET Dirs, D \in SUBSET Files :
           /\ S = req[c].below /\ D = req[c].doomed
           /\ \A e \in Dirs : dir'[e] = IF e \in S THEN "gone" ELSE dir[e]
           /\ \A e \in Dirs : Present(e)' <=> e \notin S /\ Present(e)
           /\ \A a, e, k : <<a, e, k>> \in closure' <=> <<a, e, k>> \in closure /\ a \notin S /\ e \notin S
           /\ \A f \in Files \ D : file'[f] = file[f]
           /\ \A f \in D : file'[f].status = "gone" /\ ~Exists(f)'
           /\ \A f \in Files \ D : Exists(f) => file[f].in \notin S
<1>1. TypeOK /\ req \in [Clients -> RequestType] /\ dir \in [Dirs -> {"none", "live", "trashed", "gone"}]
  BY DEF TreeInv, TypeOK, RequestType
<1>2. PICK S \in SUBSET Dirs, D \in SUBSET Files : S = req[c].below /\ D = req[c].doomed
  BY <1>1 DEF RequestType
<1>3. \A e \in Dirs : dir'[e] = IF e \in S THEN "gone" ELSE dir[e]
  BY <1>2 DEF DeleteDirectories
<1>4. \A e \in Dirs : Present(e)' <=> e \notin S /\ Present(e)
  BY <1>1, <1>3 DEF Present
<1>5. \A a, e, k : <<a, e, k>> \in closure' <=> <<a, e, k>> \in closure /\ a \notin S /\ e \notin S
  <2>1. closure' = RowsKept(S)
    BY <1>2 DEF DeleteDirectories
  <2>2. QED
    BY <1>1, <2>1, KeptRow
<1>6. file' = [f \in Files |-> IF f \in D THEN [NoFile EXCEPT !.status = "gone"] ELSE file[f]]
  BY <1>2 DEF DeleteDirectories
<1>7. \A f \in D : file'[f].status = "gone" /\ ~Exists(f)'
  BY <1>6 DEF NoFile, Exists
<1>8. \A f \in Files \ D : Exists(f) => file[f].in \notin S
  BY <1>2 DEF DeleteDirectories, Refilled, FilesIn
<1> WITNESS S \in SUBSET Dirs, D \in SUBSET Files
<1>9. QED
  BY <1>2, <1>3, <1>4, <1>5, <1>6, <1>7, <1>8

LEMMA ForestDelete == ASSUME TreeInv, NEW c \in Clients, DeleteDirectories(c) PROVE Forest'
<1>1. PICK S \in SUBSET Dirs, D \in SUBSET Files :
      /\ \A e \in Dirs : Present(e)' <=> e \notin S /\ Present(e)
      /\ \A a, e, k : <<a, e, k>> \in closure' <=> <<a, e, k>> \in closure /\ a \notin S /\ e \notin S
  BY Deleted
<1>2. Forest
  BY DEF TreeInv
<1>3. ASSUME NEW a \in Dirs, NEW e \in Dirs, NEW k \in Nat, <<a, e, k>> \in closure'
      PROVE  Present(a)' /\ Present(e)' /\ (a = e <=> k = 0)
  BY <1>1, <1>2, <1>3 DEF Forest
<1>4. ASSUME NEW e \in Dirs, Present(e)' PROVE <<e, e, 0>> \in closure'
  BY <1>1, <1>2, <1>4 DEF Forest
<1>5. ASSUME NEW a \in Dirs, NEW b \in Dirs, NEW e \in Dirs, NEW j \in Nat, NEW k \in Nat,
             <<a, b, j>> \in closure', <<b, e, k>> \in closure'
      PROVE  <<a, e, j + k>> \in closure'
  BY <1>1, <1>2, <1>5 DEF Forest
<1>6. ASSUME NEW a \in Dirs, NEW b \in Dirs, NEW e \in Dirs, NEW j \in Nat, NEW k \in Nat,
             <<a, e, j>> \in closure', <<b, e, k>> \in closure', j >= k
      PROVE  <<a, b, j - k>> \in closure'
  BY <1>1, <1>2, <1>6 DEF Forest
<1>7. QED
  BY <1>3, <1>4, <1>5, <1>6 DEF Forest

\* What the tables of the folders, or the other tables, do in a step.
OnlyRequests == \/ \E c \in Clients, d \in Dirs, p \in Dirs \cup {Root} : CheckCreate(c, d, p)
                \/ \E c \in Clients, d \in Dirs : CheckTrashed(c, d)
                \/ \E c \in Clients, f \in Files, d \in Dirs \cup {Root} : CheckUpload(c, f, d)
                \/ \E c \in Clients : CollectSubtree(c) \/ DeleteFiles(c) \/ RollBackDelete(c)

OneFile(f) == \/ \E s \in {"committed", "failed"} : EndUpload(f, s)
              \/ SoftDelete(f) \/ Restore(f) \/ PermanentDelete(f)

LEMMA StepKinds ==
    ASSUME Next
    PROVE  \/ OnlyRequests
           \/ \E c \in Clients : InsertDirectory(c) \/ DeleteDirectories(c) \/ CreatePending(c)
           \/ \E d \in Dirs : SoftDeleteSubtree(d) \/ RestoreSubtree(d)
           \/ \E f \in Files : OneFile(f)
BY DEF Next, OnlyRequests, OneFile

LEMMA OnlyRequestsKeep ==
    OnlyRequests => dir' = dir /\ closure' = closure /\ file' = file /\ late' = late /\ apart' = apart /\ lost' = lost
BY DEF OnlyRequests, CheckCreate, CheckTrashed, CollectSubtree, CheckUpload, DeleteFiles, RollBackDelete

\* What happens to one file by itself.
LEMMA OneFileKeeps ==
    ASSUME TypeOK, NEW f \in Files, OneFile(f)
    PROVE  /\ dir' = dir /\ closure' = closure /\ req' = req /\ lost' = lost
           /\ \A g \in Files \ {f} : file'[g] = file[g]
           /\ Exists(f) /\ ~RowLocked(f)
           /\ \/ late' = late /\ apart' = apart /\ Exists(f)' /\ file'[f].in = file[f].in
                 /\ (file[f].trashed => file'[f].trashed \/ LiveOrRoot(file[f].in))
              \/ late' = late \ {f} /\ apart' = apart \ {f} /\ ~Exists(f)' /\ file'[f].status = "gone"
<1>1. file \in [Files -> FileType]
  BY DEF TypeOK, FileType
<1>2. CASE \E s \in {"committed", "failed"} : EndUpload(f, s)
  BY <1>1, <1>2 DEF EndUpload, Exists, FileType
<1>3. CASE SoftDelete(f)
  BY <1>1, <1>3 DEF SoftDelete, FileShown, Exists, FileType
<1>4. CASE Restore(f)
  BY <1>1, <1>4 DEF Restore, FileShown, Exists, FileType
<1>5. CASE PermanentDelete(f)
  BY <1>1, <1>5 DEF PermanentDelete, FileShown, Exists, NoFile
<1>6. QED
  BY <1>2, <1>3, <1>4, <1>5 DEF OneFile

LEMMA ForestStep == TreeInv /\ Next => Forest'
<1> SUFFICES ASSUME TreeInv, Next PROVE Forest'
  OBVIOUS
<1>1. TypeOK /\ Forest
  BY DEF TreeInv
<1>2. ASSUME closure' = closure, \A e \in Dirs : Present(e)' <=> Present(e) PROVE Forest'
  BY <1>1, <1>2 DEF Forest
<1>3. ASSUME closure' = closure, dir' = dir PROVE Forest'
  BY <1>2, <1>3 DEF Present
<1>4. CASE OnlyRequests
  BY <1>3, <1>4, OnlyRequestsKeep
<1>5. ASSUME NEW c \in Clients, InsertDirectory(c) \/ DeleteDirectories(c) \/ CreatePending(c) PROVE Forest'
  <2>1. CASE CreatePending(c)
    BY <1>3, <2>1 DEF CreatePending
  <2>2. QED
    BY <1>5, <2>1, ForestInsert, ForestDelete
<1>6. ASSUME NEW d \in Dirs, SoftDeleteSubtree(d) \/ RestoreSubtree(d) PROVE Forest'
  <2>1. PICK b \in BOOLEAN : MarkBelow(d, b)
    BY <1>6 DEF SoftDeleteSubtree, RestoreSubtree
  <2>2. QED
    BY <1>2, <2>1, Marked
<1>7. ASSUME NEW f \in Files, OneFile(f) PROVE Forest'
  BY <1>1, <1>3, <1>7, OneFileKeeps
<1>8. QED
  BY <1>4, <1>5, <1>6, <1>7, StepKinds

LEMMA PlacedStep == TreeInv /\ Next => Placed'
<1> SUFFICES ASSUME TreeInv, Next PROVE Placed'
  OBVIOUS
<1>1. TypeOK /\ Requests /\ Placed /\ file \in [Files -> FileType] /\ req \in [Clients -> RequestType]
  BY DEF TreeInv, TypeOK, FileType, RequestType
<1>2. ASSUME \A e \in Dirs : Present(e) => Present(e)',
             \A f \in Files : Exists(f)' => Exists(f) /\ file'[f].in = file[f].in
      PROVE  Placed'
  <2>1. \A f \in Files : file[f].in \in Dirs \cup {Root}
    BY <1>1 DEF FileType
  <2>2. QED
    BY <1>1, <1>2, <2>1 DEF Placed
<1>3. ASSUME dir' = dir,
             \A f \in Files : Exists(f)' => Exists(f) /\ file'[f].in = file[f].in
      PROVE  Placed'
  BY <1>2, <1>3 DEF Present
<1>4. CASE OnlyRequests
  BY <1>3, <1>4, OnlyRequestsKeep DEF Exists
<1>5. ASSUME NEW c \in Clients, InsertDirectory(c) PROVE Placed'
  <2>1. PICK d \in Dirs, p \in Dirs \cup {Root} :
        Present(d)' /\ file' = file /\ \A e \in Dirs \ {d} : Present(e)' <=> Present(e)
    BY <1>5, Inserted
  <2>2. QED
    BY <1>2, <2>1 DEF Exists
<1>6. ASSUME NEW c \in Clients, DeleteDirectories(c) PROVE Placed'
  <2>1. PICK S \in SUBSET Dirs, D \in SUBSET Files :
        /\ \A e \in Dirs : Present(e)' <=> e \notin S /\ Present(e)
        /\ \A f \in Files \ D : file'[f] = file[f]
        /\ \A f \in D : file'[f].status = "gone" /\ ~Exists(f)'
        /\ \A f \in Files \ D : Exists(f) => file[f].in \notin S
    BY <1>6, Deleted
  <2>2. ASSUME NEW f \in Files, Exists(f)' PROVE file'[f].in = Root \/ Present(file[f].in)'
    <3>1. f \notin D /\ file'[f] = file[f] /\ Exists(f)
      BY <2>1, <2>2 DEF Exists
    <3>2. file[f].in \in Dirs \cup {Root} /\ file[f].in \notin S
      BY <1>1, <2>1, <3>1 DEF FileType
    <3>3. file[f].in = Root \/ Present(file[f].in)
      BY <1>1, <3>1 DEF Placed
    <3>4. QED
      BY <2>1, <3>1, <3>2, <3>3 DEF Present
  <2>3. QED
    BY <2>2 DEF Placed
<1>7. ASSUME NEW c \in Clients, CreatePending(c) PROVE Placed'
  <2>1. /\ dir' = dir
        /\ \A g \in Files \ {req[c].id} : file'[g] = file[g]
        /\ \/ file' = file
           \/ /\ req[c].in = Root \/ Present(req[c].in)
              /\ file' = [file EXCEPT ![req[c].id] =
                            [in |-> req[c].in, status |-> "pending", trashed |-> FALSE]]
    BY <1>1, <1>7 DEF CreatePending
  <2>2. CASE file' = file
    BY <1>3, <2>1, <2>2 DEF Exists
  <2>3. CASE /\ req[c].in = Root \/ Present(req[c].in)
             /\ file' = [file EXCEPT ![req[c].id] =
                            [in |-> req[c].in, status |-> "pending", trashed |-> FALSE]]
    <3>1. \A f \in Files : file'[f] = file[f] \/ file'[f].in = req[c].in
      BY <1>1, <2>3
    <3>2. QED
      BY <1>1, <2>1, <2>3, <3>1 DEF Placed, Exists, Present
  <2>4. QED
    BY <2>1, <2>2, <2>3
<1>8. ASSUME NEW d \in Dirs, SoftDeleteSubtree(d) \/ RestoreSubtree(d) PROVE Placed'
  <2>1. PICK b \in BOOLEAN : MarkBelow(d, b)
    BY <1>8 DEF SoftDeleteSubtree, RestoreSubtree
  <2>2. /\ \A e \in Dirs : Present(e)' <=> Present(e)
        /\ \A f \in Files : file'[f].in = file[f].in /\ file'[f].status = file[f].status
    BY <2>1, Marked
  <2>3. QED
    BY <1>2, <2>2 DEF Exists
<1>9. ASSUME NEW f \in Files, OneFile(f) PROVE Placed'
  <2>1. /\ dir' = dir
        /\ \A g \in Files \ {f} : file'[g] = file[g]
        /\ Exists(f)
        /\ Exists(f)' => file'[f].in = file[f].in
    BY <1>1, <1>9, OneFileKeeps
  <2>2. QED
    BY <1>3, <2>1 DEF Exists
<1>10. QED
  BY <1>4, <1>5, <1>6, <1>7, <1>8, <1>9, StepKinds

LEMMA TreeStuttering == TreeInv /\ UNCHANGED vars => TreeInv'
BY DEF vars, TreeInv, TypeOK, Requests, Forest, Placed, Present, Exists

\* The tables keep their types, a request's readings stay good, the closure table is a forest, and
\* files are in folders that exist.
THEOREM TreeInvariant == Spec => []TreeInv
<1>1. TreeInv /\ [Next]_vars => TreeInv'
  BY TypeStep, RequestsStep, ForestStep, PlacedStep, TreeStuttering DEF TreeInv
<1>2. QED
  BY <1>1, TreeInit, PTL DEF Spec

\* Whatever requests overlap, the tables of folders and files keep their types.
THEOREM TypeCorrect == Spec => []TypeOK
<1>1. TreeInv => TypeOK
  BY DEF TreeInv
<1>2. QED
  BY <1>1, TreeInvariant, PTL

-----------------------------------------------------------------------------
(* Paths without gaps *)

\* The path to d, row by row.
Path(d) == \A a \in Dirs, k \in Nat :
              <<a, d, k>> \in closure /\ k > 0 => \E b \in Dirs : <<b, d, k - 1>> \in closure

Paths == \A d \in Dirs \ stray : Present(d) => Path(d)

LEMMA PathsAreComplete == TypeOK /\ Paths => PathsComplete
<1> SUFFICES ASSUME TypeOK, Paths, NEW d \in Dirs \ stray, Present(d), NEW r \in closure,
                    r[2] = d, r[3] > 0
             PROVE  \E s \in closure : s[2] = d /\ s[3] = r[3] - 1
  BY DEF PathsComplete
<1>1. r[1] \in Dirs /\ r[3] \in Nat /\ r = <<r[1], r[2], r[3]>>
  BY DEF TypeOK
<1>2. PICK b \in Dirs : <<b, d, r[3] - 1>> \in closure
  BY <1>1 DEF Paths, Path
<1>3. <<b, d, r[3] - 1>>[2] = d /\ <<b, d, r[3] - 1>>[3] = r[3] - 1
  OBVIOUS
<1>4. QED
  BY <1>2, <1>3

\* What becomes of the strays when a permanent delete ends.
LEMMA StraysDeleted ==
    ASSUME TreeInv, NEW c \in Clients, DeleteDirectories(c)
    PROVE  /\ \A x : x \in stray /\ x \notin req[c].below \cup req[c].doomed => x \in stray'
           /\ \A e \in Dirs \ req[c].below : e \notin stray' =>
                 e \notin stray /\ \A a, k : <<a, e, k>> \in closure => a \notin req[c].below
<1> DEFINE S == req[c].below
           D == req[c].doomed
<1>1. TypeOK /\ S \subseteq Dirs /\ D \subseteq Files
  BY DEF TreeInv, TypeOK
<1>2. /\ late' = (late \cup ((UNION {Below(d) : d \in S}) \ apart)) \ (S \cup D)
      /\ apart' = apart \ (S \cup D)
  BY DEF DeleteDirectories
<1>3. \A x : x \in stray /\ x \notin S \cup D => x \in stray'
  BY <1>2 DEF stray
<1>4. ASSUME NEW e \in Dirs \ S, e \notin stray'
      PROVE  e \notin stray /\ \A a, k : <<a, e, k>> \in closure => a \notin S
  <2>1. e \notin S \cup D
    BY <1>1, IdAssumption
  <2>2. e \notin stray
    BY <1>3, <1>4, <2>1
  <2>3. ASSUME NEW a \in S, NEW k, <<a, e, k>> \in closure PROVE FALSE
    <3>1. k \in Nat
      BY <1>1, <2>3 DEF TypeOK
    <3>2. e \in Below(a)
      BY <1>1, <2>3, <3>1, BelowRow
    <3>3. e \in UNION {Below(d) : d \in S}
      BY <3>2
    <3>4. QED
      BY <1>2, <1>4, <2>1, <2>2, <3>3 DEF stray
  <2>4. QED
    BY <2>2, <2>3
<1>5. QED
  BY <1>3, <1>4

\* A folder that is not stray is in one that is not, and has no folder in the trash above it.
LEMMA StraysInserted ==
    ASSUME TreeInv, NEW c \in Clients, InsertDirectory(c)
    PROVE  /\ stray \subseteq stray'
           /\ req[c].id \notin stray' /\ req[c].in \in Dirs =>
                 /\ Present(req[c].in) /\ req[c].in \notin stray
                 /\ \A a \in Dirs, k \in Nat : <<a, req[c].in, k>> \in closure => dir[a] # "trashed"
<1>1. TypeOK /\ late' = (IF StrayPlace(req[c].in) THEN late \cup {req[c].id} ELSE late) /\ apart' = apart
  BY DEF TreeInv, InsertDirectory
<1>2. \A a \in Dirs, k \in Nat : <<a, req[c].in, k>> \in closure => a \in Above(req[c].in)
  BY <1>1, AboveRow
<1>3. QED
  BY <1>1, <1>2, IdAssumption DEF StrayPlace, stray

\* Most steps leave the closure table and the folders alone, and no folder in its usual place.
LEMMA OtherSteps ==
    ASSUME TreeInv, Next
    PROVE  \/ \E c \in Clients : InsertDirectory(c) \/ DeleteDirectories(c)
           \/ \E d \in Dirs : SoftDeleteSubtree(d) \/ RestoreSubtree(d)
           \/ closure' = closure /\ dir' = dir /\ stray \cap Dirs \subseteq stray'
<1>1. TypeOK
  BY DEF TreeInv
<1>2. CASE OnlyRequests
  BY <1>2, OnlyRequestsKeep DEF stray
<1>3. ASSUME NEW c \in Clients, CreatePending(c)
      PROVE  closure' = closure /\ dir' = dir /\ stray \cap Dirs \subseteq stray'
  BY <1>3 DEF CreatePending, stray
<1>4. ASSUME NEW f \in Files, OneFile(f)
      PROVE  closure' = closure /\ dir' = dir /\ stray \cap Dirs \subseteq stray'
  <2>1. f \notin Dirs
    BY IdAssumption
  <2>2. /\ closure' = closure /\ dir' = dir
        /\ \/ late' = late /\ apart' = apart
           \/ late' = late \ {f} /\ apart' = apart \ {f}
    BY <1>1, <1>4, OneFileKeeps
  <2>3. QED
    BY <2>1, <2>2 DEF stray
<1>5. QED
  BY <1>2, <1>3, <1>4, StepKinds

LEMMA MarkedStrays ==
    ASSUME NEW d \in Dirs, SoftDeleteSubtree(d) \/ RestoreSubtree(d)
    PROVE  stray \subseteq stray'
BY DEF SoftDeleteSubtree, RestoreSubtree, MarkBelow, stray

LEMMA PathsStep == TreeInv /\ Paths /\ Next => Paths'
<1> SUFFICES ASSUME TreeInv, Paths, Next PROVE Paths'
  OBVIOUS
<1>1. TypeOK /\ Forest
  BY DEF TreeInv
<1>2. ASSUME closure' = closure, stray \cap Dirs \subseteq stray', \A e \in Dirs : Present(e)' <=> Present(e)
      PROVE  Paths'
  BY <1>2 DEF Paths, Path
<1>3. ASSUME NEW c \in Clients, InsertDirectory(c) PROVE Paths'
  <2>1. PICK d \in Dirs, p \in Dirs \cup {Root} :
        /\ d = req[c].id /\ p = req[c].in /\ p # d
        /\ Present(d)' /\ \A e \in Dirs \ {d} : Present(e)' <=> Present(e)
        /\ \A a, e, k : e # d => (<<a, e, k>> \in closure' <=> <<a, e, k>> \in closure)
        /\ \A a \in Dirs, k \in Nat : <<a, d, k>> \in closure' <=>
              \/ a = d /\ k = 0
              \/ k > 0 /\ <<a, p, k - 1>> \in closure
    BY <1>3, Inserted
  <2>2. /\ stray \subseteq stray'
        /\ d \notin stray' /\ p \in Dirs => Present(p) /\ p \notin stray
    BY <1>3, <2>1, StraysInserted
  <2>3. ASSUME NEW e \in Dirs \ stray', Present(e)', e # d PROVE Path(e)'
    <3>1. Path(e)
      BY <2>1, <2>2, <2>3 DEF Paths
    <3>2. QED
      BY <2>1, <2>3, <3>1 DEF Path
  <2>4. ASSUME d \notin stray', NEW a \in Dirs, NEW k \in Nat, <<a, d, k>> \in closure', k > 0
        PROVE  \E b \in Dirs : <<b, d, k - 1>> \in closure'
    <3>1. <<a, p, k - 1>> \in closure /\ p \in Dirs /\ k - 1 \in Nat
      BY <1>1, <2>1, <2>4 DEF TypeOK
    <3>2. PICK j \in Nat : j = k - 1 /\ <<a, p, j>> \in closure
      BY <3>1
    <3>3. CASE j = 0
      <4>1. <<d, d, 0>> \in closure'
        BY <2>1
      <4>2. QED
        BY <3>2, <3>3, <4>1
    <3>4. CASE j > 0
      <4>1. Path(p)
        BY <2>2, <2>4, <3>1 DEF Paths
      <4>2. PICK b \in Dirs : <<b, p, j - 1>> \in closure
        BY <3>1, <3>2, <3>4, <4>1 DEF Path
      <4>3. <<b, d, j>> \in closure'
        BY <2>1, <3>4, <4>2
      <4>4. QED
        BY <3>2, <4>3
    <3>5. QED
      BY <3>2, <3>3, <3>4
  <2>5. QED
    BY <2>3, <2>4 DEF Paths, Path
<1>4. ASSUME NEW c \in Clients, DeleteDirectories(c) PROVE Paths'
  <2>1. PICK S \in SUBSET Dirs, D \in SUBSET Files :
        /\ S = req[c].below /\ D = req[c].doomed
        /\ \A e \in Dirs : Present(e)' <=> e \notin S /\ Present(e)
        /\ \A a, e, k : <<a, e, k>> \in closure' <=> <<a, e, k>> \in closure /\ a \notin S /\ e \notin S
    BY <1>4, Deleted
  <2>2. \A e \in Dirs \ S : e \notin stray' =>
           e \notin stray /\ \A a, k : <<a, e, k>> \in closure => a \notin S
    BY <1>4, <2>1, StraysDeleted
  <2>3. ASSUME NEW e \in Dirs \ stray', Present(e)' PROVE Path(e)'
    <3>1. e \notin S /\ Path(e) /\ \A a, k : <<a, e, k>> \in closure => a \notin S
      BY <2>1, <2>2, <2>3 DEF Paths
    <3>2. \A a, k : <<a, e, k>> \in closure' <=> <<a, e, k>> \in closure
      BY <2>1, <3>1
    <3>3. QED
      BY <3>1, <3>2 DEF Path
  <2>4. QED
    BY <2>3 DEF Paths
<1>5. ASSUME NEW d \in Dirs, SoftDeleteSubtree(d) \/ RestoreSubtree(d) PROVE Paths'
  <2>1. PICK b \in BOOLEAN : MarkBelow(d, b)
    BY <1>5 DEF SoftDeleteSubtree, RestoreSubtree
  <2>2. closure' = closure /\ \A e \in Dirs : Present(e)' <=> Present(e)
    BY <2>1, Marked
  <2>3. QED
    BY <1>2, <1>5, <2>2, MarkedStrays
<1>6. CASE closure' = closure /\ dir' = dir /\ stray \cap Dirs \subseteq stray'
  BY <1>2, <1>6 DEF Present
<1>7. QED
  BY <1>3, <1>4, <1>5, <1>6, OtherSteps

\* The closure table is a tree: its rows agree with each other and the paths it keeps have no gap,
\* except below folders that a delete or a creation in its way has cut off.
THEOREM ClosureTree == Spec => []ClosureIsTree
<1>1. Init => Paths
  BY DEF Init, Paths, Present
<1>2. TreeInv /\ Paths /\ [Next]_vars => Paths'
  <2>1. Paths /\ UNCHANGED vars => Paths'
    BY DEF vars, Paths, Path, Present, stray
  <2>2. QED
    BY <2>1, PathsStep
<1>3. TreeInv /\ Paths => ClosureIsTree
  BY ForestIsClosureForest, PathsAreComplete DEF TreeInv, ClosureIsTree
<1>4. QED
  BY <1>1, <1>2, <1>3, TreeInvariant, PTL DEF Spec

-----------------------------------------------------------------------------
(* The trash as a whole *)

\* Folder e and the files in it are beside the usual order.
Beside(e) == e \in stray /\ \A f \in Files : Exists(f) /\ file[f].in = e => f \in stray

\* What is below folder x in the trash, in folder e: a file that is taken out of the trash by itself
\* needs a folder that is in use, and so the files of such a folder count as well.
CoversAt(x, e) ==
    dir[x] = "trashed" =>
        /\ dir[e] = "trashed" \/ Beside(e)
        /\ \A f \in Files : Exists(f) /\ file[f].in = e => file[f].trashed \/ f \in stray

Covers == \A x, e \in Dirs, k \in Nat : <<x, e, k>> \in closure => CoversAt(x, e)

LEMMA CoversTrash == TypeOK /\ Covers => TrashCovers
<1> SUFFICES ASSUME TypeOK, Covers, NEW d \in Dirs, dir[d] = "trashed"
             PROVE  /\ \A e \in Below(d) \ stray : dir[e] = "trashed"
                    /\ \A f \in FilesIn(Below(d)) \ stray : file[f].trashed
  BY DEF TrashCovers
<1>1. \A e \in Below(d) : e \in Dirs /\ CoversAt(d, e)
  BY BelowRow DEF Covers
<1>2. \A f \in FilesIn(Below(d)) : f \in Files /\ Exists(f) /\ file[f].in \in Below(d)
  BY DEF FilesIn
<1>3. QED
  BY <1>1, <1>2 DEF CoversAt, Beside

LEMMA CoversInsert == ASSUME TreeInv, Covers, NEW c \in Clients, InsertDirectory(c) PROVE Covers'
<1>1. PICK d \in Dirs, p \in Dirs \cup {Root} :
      /\ d = req[c].id /\ p = req[c].in /\ p # d /\ dir[d] = "none"
      /\ dir' = [dir EXCEPT ![d] = "live"] /\ file' = file
      /\ \A a, e, k : e # d => (<<a, e, k>> \in closure' <=> <<a, e, k>> \in closure)
      /\ \A a, k : <<a, d, k>> \notin closure /\ <<d, a, k>> \notin closure
      /\ \A a \in Dirs, k \in Nat : <<a, d, k>> \in closure' <=>
            \/ a = d /\ k = 0
            \/ k > 0 /\ <<a, p, k - 1>> \in closure
  BY Inserted
<1>2. /\ stray \subseteq stray'
      /\ d \notin stray' /\ p \in Dirs =>
            \A a \in Dirs, k \in Nat : <<a, p, k>> \in closure => dir[a] # "trashed"
  BY <1>1, StraysInserted
<1>3. /\ \A e \in Dirs : dir'[e] = IF e = d THEN "live" ELSE dir[e]
      /\ TypeOK /\ Placed /\ d # Root
  BY <1>1, IdAssumption DEF TreeInv, TypeOK
<1>4. \A f \in Files : ~(Exists(f) /\ file[f].in = d)
  BY <1>1, <1>3 DEF Placed, Present
<1>5. ASSUME NEW x \in Dirs, NEW e \in Dirs, NEW k \in Nat, <<x, e, k>> \in closure', dir'[x] = "trashed"
      PROVE  CoversAt(x, e)'
  <2>1. dir[x] = "trashed" /\ x # d
    BY <1>1, <1>3, <1>5
  <2>2. CASE e # d
    <3>1. CoversAt(x, e)
      BY <1>1, <1>5, <2>2 DEF Covers
    <3>2. QED
      BY <1>1, <1>2, <1>3, <2>1, <2>2, <3>1 DEF CoversAt, Beside, Exists
  <2>3. CASE e = d
    <3>1. k > 0 /\ <<x, p, k - 1>> \in closure /\ k - 1 \in Nat
      BY <1>1, <1>5, <2>1, <2>3
    <3>2. p \in Dirs
      BY <1>3, <3>1 DEF TypeOK
    <3>3. d \in stray'
      BY <1>2, <2>1, <3>1, <3>2
    <3>4. QED
      BY <1>1, <1>4, <2>3, <3>3 DEF CoversAt, Beside, Exists
  <2>4. QED
    BY <2>2, <2>3
<1>6. QED
  BY <1>5 DEF Covers, CoversAt

LEMMA CoversDelete == ASSUME TreeInv, Covers, NEW c \in Clients, DeleteDirectories(c) PROVE Covers'
<1>1. PICK S \in SUBSET Dirs, D \in SUBSET Files :
      /\ S = req[c].below /\ D = req[c].doomed
      /\ \A e \in Dirs : dir'[e] = IF e \in S THEN "gone" ELSE dir[e]
      /\ \A a, e, k : <<a, e, k>> \in closure' <=> <<a, e, k>> \in closure /\ a \notin S /\ e \notin S
      /\ \A f \in Files \ D : file'[f] = file[f]
      /\ \A f \in D : ~Exists(f)'
  BY Deleted
<1>2. \A x : x \in stray /\ x \notin S \cup D => x \in stray'
  BY <1>1, StraysDeleted
<1>3. \A e \in Dirs : e \notin Files
  BY IdAssumption
<1>4. ASSUME NEW x \in Dirs, NEW e \in Dirs, NEW k \in Nat, <<x, e, k>> \in closure'
      PROVE  CoversAt(x, e)'
  <2>1. x \notin S /\ e \notin S /\ CoversAt(x, e) /\ dir'[x] = dir[x] /\ dir'[e] = dir[e]
    BY <1>1, <1>4 DEF Covers
  <2>2. \A f \in Files : Exists(f)' => f \notin D /\ file'[f] = file[f] /\ Exists(f)
    BY <1>1 DEF Exists
  <2>3. \A f \in Files : f \in stray /\ f \notin D => f \in stray'
    BY <1>2, <1>3
  <2>4. e \in stray => e \in stray'
    BY <1>2, <1>3, <2>1
  <2>5. QED
    BY <2>1, <2>2, <2>3, <2>4 DEF CoversAt, Beside
<1>5. QED
  BY <1>4 DEF Covers

\* A file that is placed below a folder in the trash is stray.
LEMMA CoversCreate == ASSUME TreeInv, Covers, NEW c \in Clients, CreatePending(c) PROVE Covers'
<1>1. TypeOK /\ Requests /\ file \in [Files -> FileType]
  BY DEF TreeInv, TypeOK, FileType
<1>2. PICK f, d : f = req[c].id /\ d = req[c].in
  OBVIOUS
<1>3. /\ dir' = dir /\ closure' = closure /\ stray \subseteq stray'
      /\ \A g \in Files \ {f} : file'[g] = file[g]
      /\ f \in Files
      /\ \/ file' = file
         \/ file'[f].in = d /\ (StrayPlace(d) => f \in stray')
  BY <1>1, <1>2 DEF CreatePending, Requests, stray
<1>4. ASSUME NEW x \in Dirs, NEW e \in Dirs, NEW k \in Nat, <<x, e, k>> \in closure', dir'[x] = "trashed"
      PROVE  CoversAt(x, e)'
  <2>1. CoversAt(x, e) /\ dir[x] = "trashed"
    BY <1>3, <1>4 DEF Covers
  <2>2. CASE file' = file
    BY <1>3, <2>1, <2>2 DEF CoversAt, Beside, Exists
  <2>3. CASE file'[f].in = d /\ (StrayPlace(d) => f \in stray')
    <3>1. d = e => StrayPlace(d)
      BY <1>1, <1>3, <1>4, <2>1, AboveRow, IdAssumption DEF StrayPlace
    <3>2. \A g \in Files : Exists(g)' /\ file'[g].in = e => g \in stray' \/ (Exists(g) /\ file'[g] = file[g])
      BY <1>3, <2>3, <3>1 DEF Exists
    <3>3. QED
      BY <1>3, <2>1, <3>2 DEF CoversAt, Beside
  <2>4. QED
    BY <1>3, <2>2, <2>3
<1>5. QED
  BY <1>4 DEF Covers, CoversAt

LEMMA CoversFile == ASSUME TreeInv, Covers, NEW f \in Files, OneFile(f) PROVE Covers'
<1>1. TypeOK
  BY DEF TreeInv
<1>2. /\ dir' = dir /\ closure' = closure
      /\ \A g \in Files \ {f} : file'[g] = file[g]
      /\ Exists(f)
      /\ \/ late' = late /\ apart' = apart /\ Exists(f)' /\ file'[f].in = file[f].in
            /\ (file[f].trashed => file'[f].trashed \/ LiveOrRoot(file[f].in))
         \/ late' = late \ {f} /\ apart' = apart \ {f} /\ ~Exists(f)'
  BY <1>1, OneFileKeeps
<1>3. ASSUME NEW x \in Dirs, NEW e \in Dirs, NEW k \in Nat, <<x, e, k>> \in closure', dir'[x] = "trashed"
      PROVE  CoversAt(x, e)'
  <2>1. CoversAt(x, e) /\ dir[x] = "trashed" /\ e # Root
    BY <1>2, <1>3, IdAssumption DEF Covers
  <2>2. CASE /\ late' = late /\ apart' = apart /\ file'[f].in = file[f].in
             /\ (file[f].trashed => file'[f].trashed \/ LiveOrRoot(file[f].in))
    <3>1. \A g \in Files : Exists(g)' => Exists(g) /\ file'[g].in = file[g].in
      BY <1>2, <2>2 DEF Exists
    <3>2. \A g \in Files : Exists(g) /\ file[g].in = e => file'[g].trashed \/ g \in stray
      BY <1>2, <2>1, <2>2 DEF CoversAt, Beside, LiveOrRoot
    <3>3. stray' = stray
      BY <2>2 DEF stray
    <3>4. QED
      BY <1>2, <2>1, <3>1, <3>2, <3>3 DEF CoversAt, Beside
  <2>3. CASE late' = late \ {f} /\ apart' = apart \ {f} /\ ~Exists(f)'
    <3>1. \A g \in Files : Exists(g)' => g # f /\ Exists(g) /\ file'[g] = file[g]
      BY <1>2, <2>3 DEF Exists
    <3>2. \A y : y \in stray /\ y # f => y \in stray'
      BY <2>3 DEF stray
    <3>3. e # f
      BY IdAssumption
    <3>4. QED
      BY <1>2, <2>1, <3>1, <3>2, <3>3 DEF CoversAt, Beside
  <2>4. QED
    BY <1>2, <2>2, <2>3
<1>4. QED
  BY <1>3 DEF Covers, CoversAt

LEMMA CoversSoftDelete == ASSUME TreeInv, Covers, NEW d \in Dirs, SoftDeleteSubtree(d) PROVE Covers'
<1>1. TypeOK /\ Forest /\ MarkBelow(d, TRUE) /\ apart' = apart
  BY DEF TreeInv, SoftDeleteSubtree
<1>2. /\ \A e \in Dirs \ Below(d) : dir'[e] = dir[e]
      /\ \A e \in Below(d) : dir'[e] = "trashed"
      /\ \A f \in Files : file'[f].in = file[f].in /\ file'[f].status = file[f].status
      /\ \A f \in Files : file'[f].trashed = IF f \in FilesIn(Below(d)) THEN TRUE ELSE file[f].trashed
      /\ closure' = closure /\ late' = late
  BY <1>1, Marked
<1>3. stray' = stray /\ \A f \in Files : Exists(f)' <=> Exists(f)
  BY <1>1, <1>2 DEF stray, Exists
<1>4. ASSUME NEW x \in Dirs, NEW e \in Dirs, NEW k \in Nat, <<x, e, k>> \in closure', dir'[x] = "trashed"
      PROVE  CoversAt(x, e)'
  <2>1. CoversAt(x, e) /\ <<x, e, k>> \in closure
    BY <1>2, <1>4 DEF Covers
  <2>2. CASE e \in Below(d)
    <3>1. \A f \in Files : Exists(f) /\ file[f].in = e => file'[f].trashed
      BY <1>2, <2>2 DEF FilesIn
    <3>2. QED
      BY <1>2, <1>3, <2>2, <3>1 DEF CoversAt
  <2>3. CASE e \notin Below(d)
    <3>1. x \notin Below(d)
      <4>1. ASSUME x \in Below(d) PROVE FALSE
        <5>1. PICK j \in Nat : <<d, x, j>> \in closure
          BY <1>1, <4>1, BelowRow
        <5>2. <<d, e, j + k>> \in closure
          BY <1>1, <2>1, <5>1 DEF Forest
        <5>3. QED
          BY <1>1, <2>3, <5>2, BelowRow
      <4>2. QED
        BY <4>1
    <3>2. dir'[x] = dir[x] /\ dir'[e] = dir[e]
      BY <1>2, <2>3, <3>1
    <3>3. QED
      BY <1>2, <1>3, <2>1, <3>2 DEF CoversAt, Beside
  <2>4. QED
    BY <2>2, <2>3
<1>5. QED
  BY <1>4 DEF Covers, CoversAt

\* A folder that is restored below one in the trash is set apart with all that is in it.
LEMMA CoversRestore == ASSUME TreeInv, Covers, NEW d \in Dirs, RestoreSubtree(d) PROVE Covers'
<1>1. TypeOK /\ Forest /\ MarkBelow(d, FALSE) /\ dir[d] = "trashed" /\ <<d, d, 0>> \in closure
  BY DEF TreeInv, RestoreSubtree, Forest, Present
<1>2. /\ \A e \in Dirs \ Below(d) : dir'[e] = dir[e]
      /\ \A e \in Below(d) : dir'[e] = "live"
      /\ \A f \in Files : file'[f].in = file[f].in /\ file'[f].status = file[f].status
      /\ \A f \in Files : file'[f].trashed = IF f \in FilesIn(Below(d)) THEN FALSE ELSE file[f].trashed
      /\ closure' = closure /\ late' = late
  BY <1>1, Marked
<1>3. stray \subseteq stray' /\ \A f \in Files : Exists(f)' <=> Exists(f)
  BY <1>2, MarkedStrays DEF Exists
<1>4. ASSUME NEW x \in Dirs, NEW e \in Dirs, NEW k \in Nat, <<x, e, k>> \in closure', dir'[x] = "trashed"
      PROVE  CoversAt(x, e)'
  <2>1. CoversAt(x, e) /\ <<x, e, k>> \in closure /\ x \notin Below(d) /\ dir[x] = "trashed"
    BY <1>2, <1>4 DEF Covers
  <2>2. CASE e \in Below(d)
    <3>1. PICK j \in Nat : <<d, e, j>> \in closure
      BY <1>1, <2>2, BelowRow
    <3>2. \E i \in Nat : <<x, d, i>> \in closure \/ <<d, x, i>> \in closure
      <4>1. CASE k >= j
        <5>1. <<x, d, k - j>> \in closure /\ k - j \in Nat
          BY <1>1, <2>1, <3>1, <4>1 DEF Forest
        <5>2. QED
          BY <5>1
      <4>2. CASE j >= k
        <5>1. <<d, x, j - k>> \in closure /\ j - k \in Nat
          BY <1>1, <2>1, <3>1, <4>2 DEF Forest
        <5>2. QED
          BY <5>1
      <4>3. QED
        BY <4>1, <4>2
    <3>3. x \in Above(d) \ {d}
      BY <1>1, <2>1, <3>2, AboveRow, BelowRow
    <3>4. apart' = apart \cup ((Below(d) \cup FilesIn(Below(d))) \ late)
      BY <2>1, <3>3 DEF RestoreSubtree
    <3>5. e \in stray' /\ \A f \in Files : Exists(f) /\ file[f].in = e => f \in stray'
      BY <1>2, <2>2, <3>4 DEF stray, FilesIn
    <3>6. QED
      BY <1>2, <1>3, <3>5 DEF CoversAt, Beside
  <2>3. CASE e \notin Below(d)
    <3>1. dir'[e] = dir[e]
      BY <1>2, <2>3
    <3>2. \A f \in Files : Exists(f) /\ file[f].in = e => file'[f].trashed = file[f].trashed
      BY <1>2, <2>3 DEF FilesIn
    <3>3. QED
      BY <1>2, <1>3, <2>1, <3>1, <3>2 DEF CoversAt, Beside
  <2>4. QED
    BY <2>2, <2>3
<1>5. QED
  BY <1>4 DEF Covers, CoversAt

LEMMA CoversStep == TreeInv /\ Covers /\ Next => Covers'
<1> SUFFICES ASSUME TreeInv, Covers, Next PROVE Covers'
  OBVIOUS
<1>1. CASE OnlyRequests
  BY <1>1, OnlyRequestsKeep DEF Covers, CoversAt, Beside, Exists, stray
<1>2. QED
  BY <1>1, StepKinds, CoversInsert, CoversDelete, CoversCreate, CoversFile, CoversSoftDelete, CoversRestore

-----------------------------------------------------------------------------
(* What is in the trash can be found there *)

\* Folder a is listed in the trash.
Topmost(a) == /\ dir[a] = "trashed"
              /\ \A y \in Dirs, k \in Nat : <<y, a, k>> \in closure /\ y # a => dir[y] # "trashed"

\* d is reached from a through folders in the trash.
ReachedFrom(a, d) == /\ \E k \in Nat : <<a, d, k>> \in closure
                     /\ \A e \in Dirs, i, j \in Nat :
                           <<a, e, i>> \in closure /\ <<e, d, j>> \in closure => dir[e] = "trashed"

Reached(d) == \E a \in Dirs : Topmost(a) /\ ReachedFrom(a, d)

AllReached == \A d \in Dirs \ stray : dir[d] = "trashed" => Reached(d)

LEMMA ReachedIsListed == TypeOK /\ AllReached => TrashListed
<1> SUFFICES ASSUME TypeOK, AllReached, NEW d \in Dirs \ stray, dir[d] = "trashed"
             PROVE  \E a \in TrashRoots \cap Above(d) : \A e \in Above(d) \cap Below(a) : dir[e] = "trashed"
  BY DEF TrashListed
<1>1. PICK a \in Dirs : Topmost(a) /\ ReachedFrom(a, d)
  BY DEF AllReached, Reached
<1>2. a \in TrashRoots
  BY <1>1, AboveRow DEF TrashRoots, Topmost
<1>3. a \in Above(d)
  BY <1>1, AboveRow DEF ReachedFrom
<1>4. \A e \in Above(d) \cap Below(a) : dir[e] = "trashed"
  BY <1>1, AboveRow, BelowRow DEF ReachedFrom
<1>5. QED
  BY <1>2, <1>3, <1>4

\* Rows of the same folder are one above the other.
LEMMA Comparable ==
    ASSUME Forest, NEW a \in Dirs, NEW b \in Dirs, NEW d \in Dirs, NEW j \in Nat, NEW k \in Nat,
           <<a, d, j>> \in closure, <<b, d, k>> \in closure
    PROVE  \E i \in Nat : <<a, b, i>> \in closure \/ <<b, a, i>> \in closure
<1>1. CASE j >= k
  <2>1. <<a, b, j - k>> \in closure /\ j - k \in Nat
    BY <1>1 DEF Forest
  <2>2. QED
    BY <2>1
<1>2. CASE k >= j
  <2>1. <<b, a, k - j>> \in closure /\ k - j \in Nat
    BY <1>2 DEF Forest
  <2>2. QED
    BY <2>1
<1>3. QED
  BY <1>1, <1>2

LEMMA Antisymmetric ==
    ASSUME Forest, NEW a \in Dirs, NEW b \in Dirs, NEW j \in Nat, NEW k \in Nat,
           <<a, b, j>> \in closure, <<b, a, k>> \in closure
    PROVE  a = b
<1>1. <<a, a, j + k>> \in closure /\ j + k \in Nat
  BY DEF Forest
<1>2. j + k = 0
  BY <1>1 DEF Forest
<1>3. j = 0
  BY <1>2
<1>4. QED
  BY <1>3 DEF Forest

\* Being reached depends on the folders above only.
LEMMA ReachedStays ==
    ASSUME TypeOK, Forest, NEW d \in Dirs, Reached(d),
           \A e \in Dirs, k \in Nat : <<e, d, k>> \in closure =>
              /\ dir[e] = "trashed" => dir'[e] = "trashed"
              /\ dir[e] # "trashed" => dir'[e] # "trashed"
              /\ \A y, i : <<y, e, i>> \in closure' <=> <<y, e, i>> \in closure
    PROVE  Reached(d)'
<1>1. PICK a \in Dirs : Topmost(a) /\ ReachedFrom(a, d)
  BY DEF Reached
<1>2. PICK k \in Nat : <<a, d, k>> \in closure
  BY <1>1 DEF ReachedFrom
<1>3. <<d, d, 0>> \in closure /\ dir[a] = "trashed" /\ dir'[a] = "trashed"
  BY <1>1, <1>2 DEF Forest, Topmost
<1>4. \A y, i : <<y, d, i>> \in closure' <=> <<y, d, i>> \in closure
  BY <1>3
<1>5. ASSUME NEW y \in Dirs, NEW i \in Nat, <<y, a, i>> \in closure', y # a PROVE dir'[y] # "trashed"
  <2>1. <<y, a, i>> \in closure
    BY <1>2, <1>5
  <2>2. dir[y] # "trashed" /\ <<y, d, i + k>> \in closure /\ i + k \in Nat
    BY <1>1, <1>2, <1>5, <2>1 DEF Topmost, Forest
  <2>3. QED
    BY <2>2
<1>6. ASSUME NEW e \in Dirs, NEW i \in Nat, NEW j \in Nat,
             <<a, e, i>> \in closure', <<e, d, j>> \in closure'
      PROVE  dir'[e] = "trashed"
  <2>1. <<e, d, j>> \in closure
    BY <1>4, <1>6
  <2>2. <<a, e, i>> \in closure
    BY <1>6, <2>1
  <2>3. dir[e] = "trashed"
    BY <1>1, <2>1, <2>2 DEF ReachedFrom
  <2>4. QED
    BY <2>1, <2>3
<1>7. Topmost(a)' /\ ReachedFrom(a, d)'
  BY <1>2, <1>3, <1>4, <1>5, <1>6 DEF Topmost, ReachedFrom
<1>8. QED
  BY <1>7 DEF Reached

\* A folder that goes to the trash is listed there, and what is below it is reached from it; unless
\* something above it was in the trash already, which only strays have.
LEMMA ReachedSoftDelete ==
    ASSUME TreeInv, Covers, AllReached, NEW c \in Dirs, SoftDeleteSubtree(c) PROVE AllReached'
<1>1. TypeOK /\ Forest /\ MarkBelow(c, TRUE) /\ apart' = apart /\ dir[c] = "live" /\ <<c, c, 0>> \in closure
  BY DEF TreeInv, SoftDeleteSubtree, Forest, Present
<1>2. /\ \A e \in Dirs \ Below(c) : dir'[e] = dir[e]
      /\ \A e \in Below(c) : dir'[e] = "trashed"
      /\ closure' = closure /\ late' = late
  BY <1>1, Marked
<1>3. stray' = stray
  BY <1>1, <1>2 DEF stray
<1>4. ASSUME NEW d \in Dirs, d \notin stray, dir'[d] = "trashed" PROVE Reached(d)'
  <2>1. CASE d \notin Below(c)
    <3>1. Reached(d)
      BY <1>2, <1>4, <2>1 DEF AllReached
    <3>2. ASSUME NEW e \in Dirs, NEW k \in Nat, <<e, d, k>> \in closure PROVE e \notin Below(c)
      <4>1. ASSUME e \in Below(c) PROVE FALSE
        <5>1. PICK j \in Nat : <<c, e, j>> \in closure
          BY <1>1, <4>1, BelowRow
        <5>2. <<c, d, j + k>> \in closure
          BY <1>1, <3>2, <5>1 DEF Forest
        <5>3. QED
          BY <1>1, <2>1, <5>2, BelowRow
      <4>2. QED
        BY <4>1
    <3>3. QED
      BY <1>1, <1>2, <3>1, <3>2, ReachedStays
  <2>2. CASE d \in Below(c)
    <3>1. PICK k \in Nat : <<c, d, k>> \in closure
      BY <1>1, <2>2, BelowRow
    <3>2. ASSUME NEW y \in Dirs, NEW i \in Nat, <<y, c, i>> \in closure, dir[y] = "trashed" PROVE FALSE
      <4>1. <<y, d, i + k>> \in closure /\ i + k \in Nat
        BY <1>1, <3>1, <3>2 DEF Forest
      <4>2. dir[d] = "trashed"
        BY <1>4, <3>2, <4>1 DEF Covers, CoversAt, Beside
      <4>3. PICK a \in Dirs : Topmost(a) /\ ReachedFrom(a, d)
        BY <1>4, <4>2 DEF AllReached, Reached
      <4>4. PICK j \in Nat : <<a, d, j>> \in closure
        BY <4>3 DEF ReachedFrom
      <4>5. \A m \in Nat : <<a, c, m>> \notin closure
        BY <1>1, <3>1, <4>3 DEF ReachedFrom
      <4>6. PICK m \in Nat : <<c, a, m>> \in closure
        BY <1>1, <3>1, <4>4, <4>5, Comparable
      <4>7. <<y, a, i + m>> \in closure /\ i + m \in Nat
        BY <1>1, <3>2, <4>6 DEF Forest
      <4>8. y = a
        BY <3>2, <4>3, <4>7 DEF Topmost
      <4>9. QED
        BY <3>2, <4>5, <4>8
    <3>3. dir'[c] = "trashed"
      BY <1>1, <1>2, BelowRow
    <3>4. ASSUME NEW y \in Dirs, NEW i \in Nat, <<y, c, i>> \in closure, y # c PROVE dir'[y] # "trashed"
      <4>1. y \notin Below(c)
        <5>1. ASSUME y \in Below(c) PROVE FALSE
          <6>1. PICK m \in Nat : <<c, y, m>> \in closure
            BY <1>1, <5>1, BelowRow
          <6>2. QED
            BY <1>1, <3>4, <6>1, Antisymmetric
        <5>2. QED
          BY <5>1
      <4>2. QED
        BY <1>2, <3>2, <3>4, <4>1
    <3>5. \A e \in Dirs, i \in Nat : <<c, e, i>> \in closure => dir'[e] = "trashed"
      BY <1>1, <1>2, BelowRow
    <3>6. Topmost(c)' /\ ReachedFrom(c, d)'
      BY <1>2, <3>1, <3>3, <3>4, <3>5 DEF Topmost, ReachedFrom
    <3>7. QED
      BY <3>6 DEF Reached
  <2>3. QED
    BY <2>1, <2>2
<1>5. QED
  BY <1>3, <1>4 DEF AllReached

LEMMA ReachedRestore ==
    ASSUME TreeInv, AllReached, NEW c \in Dirs, RestoreSubtree(c) PROVE AllReached'
<1>1. TypeOK /\ Forest /\ MarkBelow(c, FALSE)
  BY DEF TreeInv, RestoreSubtree
<1>2. /\ \A e \in Dirs \ Below(c) : dir'[e] = dir[e]
      /\ \A e \in Below(c) : dir'[e] = "live"
      /\ closure' = closure /\ stray \subseteq stray'
  BY <1>1, Marked, MarkedStrays
<1>3. ASSUME NEW d \in Dirs, d \notin stray', dir'[d] = "trashed" PROVE Reached(d)'
  <2>1. d \notin Below(c) /\ Reached(d)
    BY <1>2, <1>3 DEF AllReached
  <2>2. ASSUME NEW e \in Dirs, NEW k \in Nat, <<e, d, k>> \in closure PROVE e \notin Below(c)
    <3>1. ASSUME e \in Below(c) PROVE FALSE
      <4>1. PICK j \in Nat : <<c, e, j>> \in closure
        BY <1>1, <3>1, BelowRow
      <4>2. <<c, d, j + k>> \in closure
        BY <1>1, <2>2, <4>1 DEF Forest
      <4>3. QED
        BY <1>1, <2>1, <4>2, BelowRow
    <3>2. QED
      BY <3>1
  <2>3. QED
    BY <1>1, <1>2, <2>1, <2>2, ReachedStays
<1>4. QED
  BY <1>3 DEF AllReached

LEMMA ReachedStep == TreeInv /\ Covers /\ AllReached /\ Next => AllReached'
<1> SUFFICES ASSUME TreeInv, Covers, AllReached, Next PROVE AllReached'
  OBVIOUS
<1>1. TypeOK /\ Forest
  BY DEF TreeInv
<1>2. CASE closure' = closure /\ dir' = dir /\ stray \cap Dirs \subseteq stray'
  BY <1>2 DEF AllReached, Reached, Topmost, ReachedFrom
<1>3. ASSUME NEW c \in Clients, InsertDirectory(c) PROVE AllReached'
  <2>1. PICK n \in Dirs, p \in Dirs \cup {Root} :
        /\ dir[n] = "none" /\ dir' = [dir EXCEPT ![n] = "live"]
        /\ \A a, e, k : e # n => (<<a, e, k>> \in closure' <=> <<a, e, k>> \in closure)
        /\ \A a, k : <<a, n, k>> \notin closure /\ <<n, a, k>> \notin closure
    BY <1>3, Inserted
  <2>2. stray \subseteq stray'
    BY <1>3, StraysInserted
  <2>3. \A e \in Dirs \ {n} : dir'[e] = dir[e]
    BY <1>1, <2>1 DEF TypeOK
  <2>4. dir'[n] = "live"
    BY <1>1, <2>1 DEF TypeOK
  <2>5. ASSUME NEW d \in Dirs, d \notin stray', dir'[d] = "trashed" PROVE Reached(d)'
    <3>1. d # n /\ Reached(d)
      BY <2>2, <2>3, <2>4, <2>5 DEF AllReached
    <3>2. \A e, k : <<e, d, k>> \in closure => e # n
      BY <2>1
    <3>3. QED
      BY <1>1, <2>1, <2>3, <3>1, <3>2, ReachedStays
  <2>6. QED
    BY <2>5 DEF AllReached
<1>4. ASSUME NEW c \in Clients, DeleteDirectories(c) PROVE AllReached'
  <2>1. PICK S \in SUBSET Dirs, D \in SUBSET Files :
        /\ S = req[c].below
        /\ \A e \in Dirs : dir'[e] = IF e \in S THEN "gone" ELSE dir[e]
        /\ \A a, e, k : <<a, e, k>> \in closure' <=> <<a, e, k>> \in closure /\ a \notin S /\ e \notin S
    BY <1>4, Deleted
  <2>2. \A e \in Dirs \ S : e \notin stray' =>
           e \notin stray /\ \A a, k : <<a, e, k>> \in closure => a \notin S
    BY <1>4, <2>1, StraysDeleted
  <2>3. ASSUME NEW d \in Dirs, d \notin stray', dir'[d] = "trashed" PROVE Reached(d)'
    <3>1. d \notin S /\ Reached(d) /\ \A a, k : <<a, d, k>> \in closure => a \notin S
      BY <2>1, <2>2, <2>3 DEF AllReached
    <3>2. ASSUME NEW e \in Dirs, NEW k \in Nat, <<e, d, k>> \in closure
          PROVE  /\ dir'[e] = dir[e]
                 /\ \A y, i : <<y, e, i>> \in closure' <=> <<y, e, i>> \in closure
      <4>1. e \notin S
        BY <3>1, <3>2
      <4>2. ASSUME NEW y, NEW i, <<y, e, i>> \in closure PROVE y \notin S
        <5>1. y \in Dirs /\ i \in Nat
          BY <1>1, <4>2 DEF TypeOK
        <5>2. <<y, d, i + k>> \in closure
          BY <1>1, <3>2, <4>2, <5>1 DEF Forest
        <5>3. QED
          BY <3>1, <5>2
      <4>3. QED
        BY <2>1, <4>1, <4>2
    <3>3. QED
      BY <1>1, <3>1, <3>2, ReachedStays
  <2>4. QED
    BY <2>3 DEF AllReached
<1>5. QED
  BY <1>2, <1>3, <1>4, OtherSteps, ReachedSoftDelete, ReachedRestore

LEMMA TrashStuttering ==
    UNCHANGED vars => (Covers => Covers') /\ (AllReached => AllReached')
BY DEF vars, Covers, CoversAt, Beside, AllReached, Reached, Topmost, ReachedFrom, Exists, stray

\* Whatever requests overlap, a folder goes to the trash as a whole and can be found there; except for
\* what was placed, left over or restored below a folder on its way out.
THEOREM TrashWhole == Spec => []TrashIsWhole
<1>1. Init => Covers /\ AllReached
  BY DEF Init, Covers, AllReached
<1>2. TreeInv /\ Covers /\ AllReached /\ [Next]_vars => Covers' /\ AllReached'
  BY CoversStep, ReachedStep, TrashStuttering
<1>3. TreeInv /\ Covers /\ AllReached => TrashIsWhole
  BY CoversTrash, ReachedIsListed DEF TreeInv, TrashIsWhole
<1>4. QED
  BY <1>1, <1>2, <1>3, TreeInvariant, PTL DEF Spec

-----------------------------------------------------------------------------
(* What a permanent delete takes *)

\* Of what a permanent delete has read, the folders that are still there are below its folder or
\* stray, and the files that are still there are in one of the folders.
Collected ==
    /\ \A c \in Clients : \A e \in req[c].below :
          Present(e) => e \in stray \/ \E k \in Nat : <<req[c].id, e, k>> \in closure
    /\ \A c \in Clients : \A f \in req[c].doomed : Exists(f) => file[f].in \in req[c].below

\* The request of c becomes q, and the tables stay.
LEMMA CollectedKept ==
    ASSUME TypeOK, Collected, NEW c \in Clients, NEW q \in RequestType, req' = [req EXCEPT ![c] = q],
           dir' = dir, closure' = closure, file' = file, stray' = stray,
           \A e \in q.below : \/ q.id = req[c].id /\ e \in req[c].below
                             \/ \E k \in Nat : <<q.id, e, k>> \in closure,
           \A f \in q.doomed : Exists(f) => file[f].in \in q.below
    PROVE  Collected'
<1>1. req'[c] = q /\ \A b \in Clients \ {c} : req'[b] = req[b]
  BY OneRequest
<1>2. \A e : Present(e)' <=> Present(e)
  BY DEF Present
<1>3. \A f : Exists(f)' <=> Exists(f)
  BY DEF Exists
<1>5. ASSUME NEW b \in Clients, NEW e \in req'[b].below, Present(e)
      PROVE  e \in stray \/ \E k \in Nat : <<req'[b].id, e, k>> \in closure
  BY <1>1, <1>5 DEF Collected
<1>6. ASSUME NEW b \in Clients, NEW f \in req'[b].doomed, Exists(f)
      PROVE  file[f].in \in req'[b].below
  BY <1>1, <1>6 DEF Collected
<1>7. QED
  BY <1>2, <1>3, <1>5, <1>6 DEF Collected

LEMMA CollectedRequests == TreeInv /\ Collected /\ OnlyRequests => Collected'
<1> SUFFICES ASSUME TreeInv, Collected, OnlyRequests PROVE Collected'
  OBVIOUS
<1>1. TypeOK /\ req \in [Clients -> RequestType]
  BY DEF TreeInv, TypeOK, RequestType
<1>2. dir' = dir /\ closure' = closure /\ file' = file /\ stray' = stray
  BY OnlyRequestsKeep DEF stray
<1>3. ASSUME NEW c \in Clients, NEW q \in RequestType, req' = [req EXCEPT ![c] = q],
             q.below = {}, q.doomed = {}
      PROVE  Collected'
  BY <1>1, <1>2, <1>3, CollectedKept
<1>4. ASSUME NEW c \in Clients, NEW d \in Dirs, NEW p \in Dirs \cup {Root}, CheckCreate(c, d, p)
      PROVE  Collected'
  <2> DEFINE q == [NoRequest EXCEPT !.op = "create", !.id = d, !.in = p]
  <2>1. q \in RequestType /\ q.below = {} /\ q.doomed = {}
    BY NoRequestType DEF RequestType, NoRequest
  <2>2. req' = [req EXCEPT ![c] = q]
    BY <1>4 DEF CheckCreate, Begin
  <2> HIDE DEF q
  <2>3. QED
    BY <1>3, <2>1, <2>2
<1>5. ASSUME NEW c \in Clients, NEW d \in Dirs, CheckTrashed(c, d) PROVE Collected'
  <2> DEFINE q == [NoRequest EXCEPT !.op = "checked", !.id = d]
  <2>1. q \in RequestType /\ q.below = {} /\ q.doomed = {}
    BY NoRequestType DEF RequestType, NoRequest
  <2>2. req' = [req EXCEPT ![c] = q]
    BY <1>5 DEF CheckTrashed, Begin
  <2> HIDE DEF q
  <2>3. QED
    BY <1>3, <2>1, <2>2
<1>6. ASSUME NEW c \in Clients, NEW f \in Files, NEW d \in Dirs \cup {Root}, CheckUpload(c, f, d)
      PROVE  Collected'
  <2> DEFINE q == [NoRequest EXCEPT !.op = "upload", !.id = f, !.in = d]
  <2>1. q \in RequestType /\ q.below = {} /\ q.doomed = {}
    BY NoRequestType DEF RequestType, NoRequest
  <2>2. req' = [req EXCEPT ![c] = q]
    BY <1>6 DEF CheckUpload, Begin
  <2> HIDE DEF q
  <2>3. QED
    BY <1>3, <2>1, <2>2
<1>7. ASSUME NEW c \in Clients, CollectSubtree(c) PROVE Collected'
  <2>1. PICK q \in RequestType :
           /\ req' = [req EXCEPT ![c] = q] /\ q.op \in {"none", "collected"} /\ q.doomed = {}
           /\ q.below = {} \/ (q.id = req[c].id /\ q.below = Below(q.id))
    BY <1>1, <1>7, SubtreeCollected
  <2>2. \A e \in q.below : \E k \in Nat : <<q.id, e, k>> \in closure
    BY <1>1, <2>1, BelowRow
  <2>3. QED
    BY <1>1, <1>2, <2>1, <2>2, CollectedKept
<1>8. ASSUME NEW c \in Clients, DeleteFiles(c) PROVE Collected'
  <2> DEFINE q == [req[c] EXCEPT !.op = "emptied", !.doomed = FilesIn(req[c].below)]
  <2>1. FilesIn(req[c].below) \subseteq Files /\ req[c] \in RequestType
    BY <1>1 DEF FilesIn
  <2>2. /\ q \in RequestType /\ q.id = req[c].id /\ q.below = req[c].below
        /\ q.doomed = FilesIn(req[c].below)
    BY <2>1 DEF RequestType
  <2>3. req' = [req EXCEPT ![c] = q]
    BY <1>1, <1>8 DEF DeleteFiles
  <2>4. \A f \in FilesIn(req[c].below) : file[f].in \in req[c].below
    BY DEF FilesIn
  <2> HIDE DEF q
  <2>5. QED
    BY <1>1, <1>2, <2>2, <2>3, <2>4, CollectedKept
<1>9. ASSUME NEW c \in Clients, RollBackDelete(c) PROVE Collected'
  <2>1. NoRequest.below = {} /\ NoRequest.doomed = {}
    BY DEF NoRequest
  <2>2. QED
    BY <1>3, <1>9, <2>1, NoRequestType DEF RollBackDelete, End
<1>10. QED
  BY <1>4, <1>5, <1>6, <1>7, <1>8, <1>9 DEF OnlyRequests

\* The tables change, and no request gets further than it was.
LEMMA CollectedStays ==
    ASSUME TypeOK, Collected,
           \A c \in Clients : req'[c] = req[c] \/ (req'[c].below = {} /\ req'[c].doomed = {}),
           \A c \in Clients : \A e \in req[c].below : Present(e)' =>
              /\ Present(e)
              /\ e \in stray => e \in stray'
              /\ \A k \in Nat : <<req[c].id, e, k>> \in closure =>
                    e \in stray' \/ <<req[c].id, e, k>> \in closure',
           \A c \in Clients : \A f \in req[c].doomed :
              Exists(f)' => Exists(f) /\ file'[f].in = file[f].in
    PROVE  Collected'
<1>1. ASSUME NEW c \in Clients, NEW e \in req'[c].below, Present(e)'
      PROVE  e \in stray' \/ \E k \in Nat : <<req'[c].id, e, k>> \in closure'
  <2>1. req'[c] = req[c] /\ Present(e)
    BY <1>1
  <2>2. e \in stray \/ \E k \in Nat : <<req[c].id, e, k>> \in closure
    BY <1>1, <2>1 DEF Collected
  <2>3. QED
    BY <1>1, <2>1, <2>2
<1>2. ASSUME NEW c \in Clients, NEW f \in req'[c].doomed, Exists(f)'
      PROVE  file'[f].in \in req'[c].below
  <2>1. req'[c] = req[c] /\ Exists(f) /\ file'[f].in = file[f].in
    BY <1>2
  <2>2. QED
    BY <1>2, <2>1 DEF Collected
<1>3. QED
  BY <1>1, <1>2 DEF Collected

LEMMA CollectedStep == TreeInv /\ Collected /\ Next => Collected'
<1> SUFFICES ASSUME TreeInv, Collected, Next PROVE Collected'
  OBVIOUS
<1>1. /\ TypeOK /\ Requests /\ NoRequest.below = {} /\ NoRequest.doomed = {}
      /\ \A c \in Clients : req[c].below \subseteq Dirs /\ req[c].doomed \subseteq Files
      /\ \A d \in Dirs : d \notin Files
  BY IdAssumption DEF TreeInv, TypeOK, NoRequest
<1>2. ASSUME NEW c \in Clients, InsertDirectory(c) PROVE Collected'
  <2>1. PICK d \in Dirs, p \in Dirs \cup {Root} :
        /\ dir[d] = "none" /\ file' = file
        /\ \A e \in Dirs \ {d} : Present(e)' <=> Present(e)
        /\ \A a, e, k : e # d => (<<a, e, k>> \in closure' <=> <<a, e, k>> \in closure)
    BY <1>2, Inserted
  <2>2. stray \subseteq stray' /\ req' = [req EXCEPT ![c] = NoRequest]
    BY <1>2, StraysInserted DEF InsertDirectory, End
  <2>3. \A b \in Clients : req'[b] = req[b] \/ (req'[b].below = {} /\ req'[b].doomed = {})
    BY <1>1, <2>2 DEF TypeOK
  <2>4. \A b \in Clients : \A e \in req[b].below : e \in Dirs \ {d}
    BY <1>1, <2>1 DEF Requests
  <2>5. \A f : Exists(f)' <=> Exists(f)
    BY <2>1 DEF Exists
  <2>6. QED
    BY <1>1, <2>1, <2>2, <2>3, <2>4, <2>5, CollectedStays
<1>3. ASSUME NEW c \in Clients, DeleteDirectories(c) PROVE Collected'
  <2>1. PICK S \in SUBSET Dirs, D \in SUBSET Files :
        /\ S = req[c].below /\ D = req[c].doomed
        /\ \A e \in Dirs : Present(e)' <=> e \notin S /\ Present(e)
        /\ \A a, e, k : <<a, e, k>> \in closure' <=> <<a, e, k>> \in closure /\ a \notin S /\ e \notin S
        /\ \A f \in Files \ D : file'[f] = file[f]
        /\ \A f \in D : ~Exists(f)'
    BY <1>3, Deleted
  <2>2. req' = [req EXCEPT ![c] = NoRequest]
    BY <1>3 DEF DeleteDirectories, End
  <2>3. \A b \in Clients : req'[b] = req[b] \/ (req'[b].below = {} /\ req'[b].doomed = {})
    BY <1>1, <2>2 DEF TypeOK
  <2>4. ASSUME NEW b \in Clients, NEW e \in req[b].below, Present(e)'
        PROVE  /\ Present(e)
               /\ e \in stray => e \in stray'
               /\ \A k \in Nat : <<req[b].id, e, k>> \in closure =>
                     e \in stray' \/ <<req[b].id, e, k>> \in closure'
    <3>1. e \in Dirs \ S /\ Present(e) /\ e \notin D
      BY <1>1, <2>1, <2>4
    <3>2. e \in stray => e \in stray'
      BY <1>3, <2>1, <3>1, StraysDeleted
    <3>3. ASSUME NEW k \in Nat, <<req[b].id, e, k>> \in closure, e \notin stray'
          PROVE  <<req[b].id, e, k>> \in closure'
      <4>1. req[b].id \notin S
        BY <1>3, <2>1, <3>1, <3>3, StraysDeleted
      <4>2. QED
        BY <2>1, <3>1, <3>3, <4>1
    <3>4. QED
      BY <3>1, <3>2, <3>3
  <2>5. ASSUME NEW b \in Clients, NEW f \in req[b].doomed, Exists(f)'
        PROVE  Exists(f) /\ file'[f].in = file[f].in
    <3>1. f \in Files \ D
      BY <1>1, <2>1, <2>5
    <3>2. file'[f] = file[f]
      BY <2>1, <3>1
    <3>3. QED
      BY <2>5, <3>2 DEF Exists
  <2>6. QED
    BY <1>1, <2>3, <2>4, <2>5, CollectedStays
<1>4. ASSUME NEW c \in Clients, CreatePending(c) PROVE Collected'
  <2>1. /\ dir' = dir /\ closure' = closure /\ stray \subseteq stray' /\ file[req[c].id].status = "none"
        /\ req' = [req EXCEPT ![c] = NoRequest]
        /\ \A g \in Files \ {req[c].id} : file'[g] = file[g]
    BY <1>1, <1>4 DEF CreatePending, Requests, End, stray, TypeOK
  <2>2. \A b \in Clients : req'[b] = req[b] \/ (req'[b].below = {} /\ req'[b].doomed = {})
    BY <1>1, <2>1 DEF TypeOK
  <2>3. ASSUME NEW b \in Clients, NEW f \in req[b].doomed, Exists(f)'
        PROVE  Exists(f) /\ file'[f].in = file[f].in
    <3>1. file'[f] = file[f]
      BY <1>1, <2>1 DEF Requests
    <3>2. QED
      BY <2>3, <3>1 DEF Exists
  <2>4. \A e : Present(e)' <=> Present(e)
    BY <2>1 DEF Present
  <2>5. QED
    BY <1>1, <2>1, <2>2, <2>3, <2>4, CollectedStays
<1>5. ASSUME NEW d \in Dirs, SoftDeleteSubtree(d) \/ RestoreSubtree(d) PROVE Collected'
  <2>1. PICK m \in BOOLEAN : MarkBelow(d, m)
    BY <1>5 DEF SoftDeleteSubtree, RestoreSubtree
  <2>2. /\ \A e \in Dirs : Present(e)' <=> Present(e)
        /\ \A f \in Files : file'[f].in = file[f].in /\ file'[f].status = file[f].status
        /\ closure' = closure /\ req' = req
    BY <2>1, Marked
  <2>3. stray \subseteq stray'
    BY <1>5, MarkedStrays
  <2>4. \A f \in Files : Exists(f)' <=> Exists(f)
    BY <2>2 DEF Exists
  <2>5. QED
    BY <1>1, <2>2, <2>3, <2>4, CollectedStays
<1>6. ASSUME NEW f \in Files, OneFile(f) PROVE Collected'
  <2>1. /\ dir' = dir /\ closure' = closure /\ req' = req
        /\ \A g \in Files \ {f} : file'[g] = file[g]
        /\ Exists(f)
        /\ \/ late' = late /\ apart' = apart /\ file'[f].in = file[f].in
           \/ late' = late \ {f} /\ apart' = apart \ {f} /\ ~Exists(f)'
    BY <1>1, <1>6, OneFileKeeps
  <2>2. \A e \in Dirs : e \in stray => e \in stray'
    BY <1>1, <2>1 DEF stray
  <2>3. \A g \in Files : Exists(g)' => Exists(g) /\ file'[g].in = file[g].in
    BY <2>1 DEF Exists
  <2>4. \A e : Present(e)' <=> Present(e)
    BY <2>1 DEF Present
  <2>5. QED
    BY <1>1, <2>1, <2>2, <2>3, <2>4, CollectedStays
<1>7. QED
  BY <1>2, <1>3, <1>4, <1>5, <1>6, CollectedRequests, StepKinds

\* What a permanent delete takes in use is stray, or in a folder that is, unless the folder that
\* is deleted has been restored: a folder below it that is not stray has kept its row, which says
\* that it is in the trash as the folder above it is.
LEMMA TakenInUse ==
    ASSUME TreeInv, Covers, Collected, NEW c \in Clients,
           NEW x \in LiveAmong(req[c].below) \cup ActiveAmong(req[c].doomed)
    PROVE  Kind(c, x) # "plain"
<1>1. /\ TypeOK /\ Forest /\ Placed /\ req[c].below \subseteq Dirs /\ req[c].doomed \subseteq Files
      /\ dir \in [Dirs -> {"none", "live", "trashed", "gone"}]
  BY DEF TreeInv, TypeOK
<1>2. Home(x) \in req[c].below /\ Present(Home(x)) /\ (x = Home(x) \/ (x \in Files /\ Exists(x) /\ file[x].in = Home(x)))
  <2>1. CASE x \in LiveAmong(req[c].below)
    BY <1>1, <2>1, IdAssumption DEF LiveAmong, Home, Present
  <2>2. CASE x \in ActiveAmong(req[c].doomed)
    <3>1. x \in Files /\ Exists(x) /\ file[x].in \in req[c].below
      BY <1>1, <2>2 DEF ActiveAmong, Exists, Collected
    <3>2. QED
      BY <1>1, <3>1, IdAssumption DEF Placed, Home
  <2>3. QED
    BY <2>1, <2>2
<1>3. SUFFICES ASSUME x \notin stray, Home(x) \notin stray, dir[req[c].id] # "live" PROVE FALSE
  BY DEF Kind, stray
<1>4. PICK k \in Nat : <<req[c].id, Home(x), k>> \in closure
  BY <1>2, <1>3 DEF Collected
<1>5. req[c].id \in Dirs /\ Home(x) \in Dirs
  BY <1>1, <1>4 DEF TypeOK
<1>6. dir[req[c].id] = "trashed"
  BY <1>1, <1>3, <1>4, <1>5 DEF Forest, Present
<1>7. CoversAt(req[c].id, Home(x))
  BY <1>4, <1>5 DEF Covers
<1>8. CASE x \in LiveAmong(req[c].below)
  <2>1. x \in Dirs /\ dir[x] = "live" /\ Home(x) = x
    BY <1>1, <1>8, IdAssumption DEF LiveAmong, Home
  <2>2. QED
    BY <1>3, <1>6, <1>7, <2>1 DEF CoversAt, Beside
<1>9. CASE x \in ActiveAmong(req[c].doomed)
  <2>1. x \in Files /\ Exists(x) /\ ~file[x].trashed /\ file[x].in = Home(x)
    BY <1>1, <1>9 DEF ActiveAmong, Exists, Home
  <2>2. QED
    BY <1>3, <1>6, <1>7, <2>1 DEF CoversAt
<1>10. QED
  BY <1>8, <1>9

LEMMA LostStep ==
    TreeInv /\ Covers /\ Collected /\ OnlyStraysLost /\ Next => OnlyStraysLost'
<1> SUFFICES ASSUME TreeInv, Covers, Collected, OnlyStraysLost, Next PROVE "plain" \notin lost'
  BY DEF OnlyStraysLost
<1>1. "plain" \notin lost /\ TypeOK
  BY DEF OnlyStraysLost, TreeInv
<1>2. CASE lost' = lost
  BY <1>1, <1>2
<1>3. ASSUME NEW c \in Clients, DeleteDirectories(c) PROVE "plain" \notin lost'
  <2>1. lost' = lost \cup {Kind(c, x) : x \in LiveAmong(req[c].below) \cup ActiveAmong(req[c].doomed)}
    BY <1>3 DEF DeleteDirectories
  <2>2. QED
    BY <1>1, <2>1, TakenInUse
<1>4. CASE OnlyRequests
  BY <1>2, <1>4, OnlyRequestsKeep
<1>5. ASSUME NEW c \in Clients, InsertDirectory(c) \/ CreatePending(c) PROVE lost' = lost
  BY <1>5 DEF InsertDirectory, CreatePending
<1>6. ASSUME NEW d \in Dirs, SoftDeleteSubtree(d) \/ RestoreSubtree(d) PROVE lost' = lost
  BY <1>6 DEF SoftDeleteSubtree, RestoreSubtree, MarkBelow
<1>7. ASSUME NEW f \in Files, OneFile(f) PROVE lost' = lost
  BY <1>1, <1>7, OneFileKeeps
<1>8. QED
  BY <1>2, <1>3, <1>4, <1>5, <1>6, <1>7, StepKinds

\* Whatever requests overlap, what a permanent delete takes in use was placed, left over or restored
\* below a folder on its way out, or its own folder was restored after it had been found in the trash.
THEOREM NothingInUseLost == Spec => []OnlyStraysLost
<1>1. Init => Covers /\ Collected /\ OnlyStraysLost
  BY DEF Init, Covers, Collected, NoRequest, OnlyStraysLost
<1>2. TreeInv /\ Covers /\ Collected /\ OnlyStraysLost /\ [Next]_vars
         => Covers' /\ Collected' /\ OnlyStraysLost'
  <2>1. UNCHANGED vars => (Collected => Collected') /\ (OnlyStraysLost => OnlyStraysLost')
    BY DEF vars, Collected, OnlyStraysLost, Present, Exists, stray
  <2>2. QED
    BY <2>1, CoversStep, CollectedStep, LostStep, TrashStuttering
<1>3. QED
  BY <1>1, <1>2, TreeInvariant, PTL DEF Spec
=============================================================================
