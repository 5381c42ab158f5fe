---------------------------- MODULE DirectoryTree ----------------------------
(***************************************************************************)
(* One user's folders: the tables directories, directory_closure and files *)
(* under the requests of the API service.  A directory is created below a  *)
(* parent, moved to the trash with everything below it, restored, and      *)
(* deleted for good; files come and go meanwhile.                          *)
(*                                                                         *)
(* A request that reads in one statement and writes in a later one holds   *)
(* its reading in req; transactions are READ COMMITTED and nothing locks a *)
(* directory row before it is written.  Ids are not used twice.            *)
(***************************************************************************)
EXTENDS Naturals

CONSTANTS
    Dirs,      \* directory ids
    Files,     \* file ids
    Root,      \* stands for "no directory"
    NameOf,    \* the name (folded to lower case) each directory and file is created with
    Clients    \* requests that may be under way at once

ASSUME IdAssumption == Root \notin Dirs /\ Dirs \cap Files = {}

VARIABLES
    dir,      \* table directories: "none", "live", "trashed", "gone"
    closure,  \* table directory_closure: ancestor, descendant, depth
    file,     \* table files
    req,      \* the requests under way
    late,     \* history: what was created or left over below something on its way out
    apart,    \* history: what was restored below something in the trash
    lost      \* history: the kinds of what a permanent delete took that was not in the trash

vars == <<dir, closure, file, req, late, apart, lost>>
stray == late \cup apart

-----------------------------------------------------------------------------
NoFile == [in |-> Root, status |-> "none", trashed |-> FALSE]
NoRequest == [op |-> "none", id |-> Root, in |-> Root, below |-> {}, doomed |-> {}]

Present(d) == dir[d] \in {"live", "trashed"}
Exists(f) == file[f].status \in {"pending", "committed", "failed"}

Below(d) == {r[2] : r \in {s \in closure : s[1] = d}}
Above(d) == {r[1] : r \in {s \in closure : s[2] = d}}
Children(p) == {d \in Dirs : <<p, d, 1>> \in closure}
IsTop(d) == \A a \in Dirs : <<a, d, 1>> \notin closure
FilesIn(S) == {f \in Files : Exists(f) /\ file[f].in \in S}

LiveOrRoot(d) == d # Root => dir[d] = "live"

\* uniq_active_filename_in_dir and uniq_active_filename_root.
Active(f) == file[f].status \in {"pending", "committed"} /\ ~file[f].trashed
NameTaken(f, d) == \E g \in Files \ {f} : Active(g) /\ file[g].in = d /\ NameOf[g] = NameOf[f]

\* Rows that an open permanent delete has removed.
RowLocked(f) == \E c \in Clients : f \in req[c].doomed

Begin(c, request) == req[c] = NoRequest /\ req' = [req EXCEPT ![c] = request]
End(c) == req' = [req EXCEPT ![c] = NoRequest]

Init ==
    /\ dir = [d \in Dirs |-> "none"]
    /\ closure = {}
    /\ file = [f \in Files |-> NoFile]
    /\ req = [c \in Clients |-> NoRequest]
    /\ late = {} /\ apart = {} /\ lost = {}

\* What is placed in d is beside the usual order when something above it is on its way out.
StrayPlace(d) == d # Root /\ (~Present(d) \/ d \in stray \/ \E a \in Above(d) : dir[a] = "trashed")

-----------------------------------------------------------------------------
(* DirectoryRepository.Create: the checks, then the inserts *)

\* checkDuplicate: no live sibling of that name.
DuplicateName(d, p) ==
    \E e \in IF p = Root THEN {t \in Dirs : IsTop(t)} ELSE Children(p) :
        dir[e] = "live" /\ NameOf[e] = NameOf[d]

CheckCreate(c, d, p) ==
    /\ dir[d] = "none" /\ \A b \in Clients : req[b].id # d
    /\ LiveOrRoot(p)
    /\ ~DuplicateName(d, p)
    /\ Begin(c, [NoRequest EXCEPT !.op = "create", !.id = d, !.in = p])
    /\ UNCHANGED <<dir, closure, file, late, apart, lost>>

\* Faulty variant: only the parent itself is recorded.
PathOfParentOnly(d, p) == {<<r[1], d, r[3] + 1>> : r \in {s \in closure : s[2] = p /\ s[3] = 0}}

\* The rows of the parent as they are by now, one level deeper.
PathTo(d, p) == {<<r[1], d, r[3] + 1>> : r \in {s \in closure : s[2] = p}}

InsertDirectory(c) ==
    LET d == req[c].id  p == req[c].in IN
    /\ req[c].op = "create"
    /\ dir' = [dir EXCEPT ![d] = "live"]
    /\ closure' = closure \cup PathTo(d, p) \cup {<<d, d, 0>>}
    /\ late' = IF StrayPlace(p) THEN late \cup {d} ELSE late
    /\ End(c)
    /\ UNCHANGED <<file, apart, lost>>

-----------------------------------------------------------------------------
(* The trash *)

\* Faulty variant: only the directory itself and its files.
SoftDeleteOne(d) ==
    /\ dir[d] = "live"
    /\ dir' = [dir EXCEPT ![d] = "trashed"]
    /\ file' = [f \in Files |-> IF f \in FilesIn({d}) THEN [file[f] EXCEPT !.trashed = TRUE]
                                                      ELSE file[f]]
    /\ UNCHANGED <<closure, req, late, apart, lost>>

MarkBelow(d, trashed) ==
    /\ \A f \in FilesIn(Below(d)) : ~RowLocked(f)
    /\ dir' = [e \in Dirs |-> IF e \notin Below(d) THEN dir[e]
                              ELSE IF trashed THEN "trashed" ELSE "live"]
    /\ file' = [f \in Files |-> IF f \in FilesIn(Below(d))
                                  THEN [file[f] EXCEPT !.trashed = trashed]
                                  ELSE file[f]]
    /\ UNCHANGED <<closure, req, late, lost>>

SoftDeleteSubtree(d) ==
    /\ dir[d] = "live"
    /\ MarkBelow(d, TRUE)
    /\ UNCHANGED apart

\* Restoring all of it would break the index on active names.
RestoreClashes(d) ==
    \E f, g \in FilesIn(Below(d)) :
        /\ f # g /\ file[f].in = file[g].in /\ NameOf[f] = NameOf[g]
        /\ {file[f].status, file[g].status} \subseteq {"pending", "committed"}

\* Files that were in the trash by themselves come back too; a clash rolls all of it back.
RestoreSubtree(d) ==
    /\ dir[d] = "trashed" /\ ~RestoreClashes(d)
    /\ MarkBelow(d, FALSE)
    /\ apart' = IF \E a \in Above(d) \ {d} : dir[a] = "trashed"
                  THEN apart \cup ((Below(d) \cup FilesIn(Below(d))) \ late) ELSE apart

-----------------------------------------------------------------------------
(* PermanentDeleteSubtree asks once whether the folder is in the trash, reads the ids of the    *)
(* subtree in another statement, and deletes by these ids, in the trash by then or not.          *)

LiveAmong(S) == {d \in S : dir[d] = "live"}
ActiveAmong(S) == {f \in S : file[f].status = "committed" /\ ~file[f].trashed}

CheckTrashed(c, d) ==
    /\ dir[d] = "trashed"
    /\ Begin(c, [NoRequest EXCEPT !.op = "checked", !.id = d])
    /\ UNCHANGED <<dir, closure, file, late, apart, lost>>

\* ErrNotFound when another delete was faster.
CollectSubtree(c) ==
    LET ids == Below(req[c].id) IN
    /\ req[c].op = "checked"
    /\ IF ids = {} THEN End(c)
                   ELSE req' = [req EXCEPT ![c] = [NoRequest EXCEPT !.op = "collected",
                                                       !.id = req[c].id, !.below = ids]]
    /\ UNCHANGED <<dir, closure, file, late, apart, lost>>

DeleteFiles(c) ==
    LET rows == FilesIn(req[c].below) IN
    /\ req[c].op = "collected"
    /\ \A f \in rows : ~RowLocked(f)
    /\ req' = [req EXCEPT ![c].op = "emptied", ![c].doomed = rows]
    /\ UNCHANGED <<dir, closure, file, late, apart, lost>>

\* The foreign key of files forbids to delete a directory that has got a file meanwhile.
Refilled(c) == ~(FilesIn(req[c].below) \subseteq req[c].doomed)

\* DELETE FROM directory_closure, and ON DELETE CASCADE for what came later.
RowsKept(S) == {r \in closure : r[1] \notin S /\ r[2] \notin S}

\* Why x, taken while it is in use, or the folder it is in, was not in the trash.
Home(x) == IF x \in Files THEN file[x].in ELSE x
Kind(c, x) == IF {x, Home(x)} \cap late # {} THEN "late"
              ELSE IF {x, Home(x)} \cap apart # {} THEN "apart"
              ELSE IF dir[req[c].id] = "live" THEN "back" ELSE "plain"

DeleteDirectories(c) ==
    LET below == req[c].below IN
    /\ req[c].op = "emptied" /\ ~Refilled(c)
    /\ file' = [f \in Files |-> IF f \in req[c].doomed THEN [NoFile EXCEPT !.status = "gone"]
                                                       ELSE file[f]]
    /\ closure' = RowsKept(below)
    /\ dir' = [d \in Dirs |-> IF d \in below THEN "gone" ELSE dir[d]]
    /\ late' = (late \cup ((UNION {Below(d) : d \in below}) \ apart)) \ (below \cup req[c].doomed)
    /\ apart' = apart \ (below \cup req[c].doomed)
    /\ lost' = lost \cup {Kind(c, x) : x \in LiveAmong(below) \cup ActiveAmong(req[c].doomed)}
    /\ End(c)

RollBackDelete(c) ==
    /\ req[c].op = "emptied" /\ Refilled(c)
    /\ End(c)
    /\ UNCHANGED <<dir, closure, file, late, apart, lost>>

-----------------------------------------------------------------------------
(* Files: FileService.Upload around the vault, and the trash of single files *)

CheckUpload(c, f, d) ==
    /\ file[f].status = "none" /\ \A b \in Clients : req[b].id # f
    /\ LiveOrRoot(d)
    /\ ~NameTaken(f, d)
    /\ Begin(c, [NoRequest EXCEPT !.op = "upload", !.id = f, !.in = d])
    /\ UNCHANGED <<dir, closure, file, late, apart, lost>>

\* CreatePending; the foreign key and the index on active names may refuse it.
CreatePending(c) ==
    LET f == req[c].id  d == req[c].in IN
    /\ req[c].op = "upload"
    /\ IF (d = Root \/ Present(d)) /\ ~NameTaken(f, d)
         THEN /\ file' = [file EXCEPT ![f] = [in |-> d, status |-> "pending", trashed |-> FALSE]]
              /\ late' = IF StrayPlace(d) THEN late \cup {f} ELSE late
         ELSE UNCHANGED <<file, late>>
    /\ End(c)
    /\ UNCHANGED <<dir, closure, apart, lost>>

\* Faulty variant: a status the table does not know.
EndUploadStored(f, status) ==
    /\ file[f].status = "pending" /\ ~RowLocked(f)
    /\ file' = [file EXCEPT ![f].status = "stored"]
    /\ UNCHANGED <<dir, closure, req, late, apart, lost>>

\* MarkCommitted, MarkFailed or the reaper, in the trash as well.
EndUpload(f, status) ==
    /\ file[f].status = "pending" /\ ~RowLocked(f)
    /\ file' = [file EXCEPT ![f].status = status]
    /\ UNCHANGED <<dir, closure, req, late, apart, lost>>

FileShown(f) == file[f].status = "committed" /\ LiveOrRoot(file[f].in) /\ ~RowLocked(f)

SoftDelete(f) ==
    /\ FileShown(f) /\ ~file[f].trashed
    /\ file' = [file EXCEPT ![f].trashed = TRUE]
    /\ UNCHANGED <<dir, closure, req, late, apart, lost>>

Restore(f) ==
    /\ FileShown(f) /\ file[f].trashed /\ ~NameTaken(f, file[f].in)
    /\ file' = [file EXCEPT ![f].trashed = FALSE]
    /\ UNCHANGED <<dir, closure, req, late, apart, lost>>

PermanentDelete(f) ==
    /\ FileShown(f) /\ file[f].trashed
    /\ file' = [file EXCEPT ![f] = [NoFile EXCEPT !.status = "gone"]]
    /\ late' = late \ {f} /\ apart' = apart \ {f}
    /\ UNCHANGED <<dir, closure, req, lost>>

-----------------------------------------------------------------------------
Next ==
    \/ \E c \in Clients :
         \/ \E d \in Dirs, p \in Dirs \cup {Root} : CheckCreate(c, d, p)
         \/ \E d \in Dirs : CheckTrashed(c, d)
         \/ \E f \in Files, d \in Dirs \cup {Root} : CheckUpload(c, f, d)
         \/ InsertDirectory(c) \/ CreatePending(c)
         \/ CollectSubtree(c) \/ DeleteFiles(c) \/ DeleteDirectories(c) \/ RollBackDelete(c)
    \/ \E d \in Dirs : SoftDeleteSubtree(d) \/ RestoreSubtree(d)
    \/ \E f \in Files : \/ \E s \in {"committed", "failed"} : EndUpload(f, s)
                        \/ SoftDelete(f) \/ Restore(f) \/ PermanentDelete(f)

Spec == Init /\ [][Next]_vars

-----------------------------------------------------------------------------
(* Properties *)

TypeOK ==
    /\ dir \in [Dirs -> {"none", "live", "trashed", "gone"}]
    /\ closure \subseteq Dirs \X Dirs \X Nat
    /\ file \in [Files -> [in : Dirs \cup {Root}, trashed : BOOLEAN,
                           status : {"none", "pending", "committed", "failed", "gone"}]]
    /\ req \in [Clients -> [op : {"none", "create", "upload", "checked", "collected", "emptied"},
                            id : Dirs \cup Files \cup {Root}, in : Dirs \cup {Root},
                            below : SUBSET Dirs, doomed : SUBSET Files]]
    /\ late \subseteq Dirs \cup Files /\ apart \subseteq Dirs \cup Files
    /\ lost \subseteq {"late", "apart", "back", "plain"}

\* The closure rows describe a forest, whatever creations and deletions overlap: they speak of
\* directories that exist, each directory is its own ancestor at depth 0, ancestors of ancestors
\* are ancestors, and of two ancestors the farther one is an ancestor of the nearer one.
ClosureForest ==
    /\ \A r \in closure : Present(r[1]) /\ Present(r[2]) /\ (r[1] = r[2] <=> r[3] = 0)
    /\ \A d \in Dirs : Present(d) => <<d, d, 0>> \in closure
    /\ \A r, s \in closure : r[2] = s[1] => <<r[1], s[2], r[3] + s[3]>> \in closure
    /\ \A r, s \in closure :
          r[2] = s[2] /\ r[3] >= s[3] => <<r[1], s[1], r[3] - s[3]>> \in closure

\* The path from the top to a directory has no gap, and so the tree and the breadcrumb show it.
PathsComplete ==
    \A d \in Dirs \ stray : Present(d) =>
        \A r \in closure : r[2] = d /\ r[3] > 0 => \E s \in closure : s[2] = d /\ s[3] = r[3] - 1

\* The closure table describes a forest whose paths have no gaps.
ClosureIsTree == ClosureForest /\ PathsComplete

\* Everything below a folder in the trash is in the trash.
TrashCovers ==
    \A d \in Dirs : dir[d] = "trashed" =>
        /\ \A e \in Below(d) \ stray : dir[e] = "trashed"
        /\ \A f \in FilesIn(Below(d)) \ stray : file[f].trashed

\* ListTrashRoots.
TrashRoots == {d \in Dirs : dir[d] = "trashed" /\ \A a \in Above(d) \ {d} : dir[a] # "trashed"}

\* Whatever is in the trash can be found there: going down from a listed folder through
\* folders in the trash, as the detail page does.
TrashListed ==
    \A d \in Dirs \ stray : dir[d] = "trashed" =>
        \E a \in TrashRoots \cap Above(d) : \A e \in Above(d) \cap Below(a) : dir[e] = "trashed"

\* A folder goes to the trash as a whole and can be found there.
TrashIsWhole == TrashCovers /\ TrashListed

\* Whatever a permanent delete finds in use when it deletes was put or left beside the usual
\* order below a folder in the trash, or the folder was restored after the delete had found it
\* there: that one is deleted all the same ("back").
OnlyStraysLost == "plain" \notin lost
=============================================================================
