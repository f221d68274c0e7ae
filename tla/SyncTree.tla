------------------------------ MODULE SyncTree ------------------------------
(***************************************************************************)
(* The synced folder as the daemon sees it: relative paths, and the file   *)
(* system calls the engine makes on them (os.MkdirAll, os.RemoveAll,       *)
(* os.Rename).  A folder tree is a function from every path to what is     *)
(* there: nothing, a folder, or a file, whose content stands for its       *)
(* SHA-256 hash as well.  The root itself always exists and is not a path. *)
(* Symbolic links, the temporary files of a download and the system files  *)
(* the daemon ignores are not part of a tree.                              *)
(***************************************************************************)
EXTENDS Naturals, Sequences

CONSTANTS
    Names,      \* path components
    Depth,      \* longest path
    Contents    \* file contents, told apart by their hash

Absent == "absent"
Folder == "folder"
NoHash == ""    \* the content hash of a folder

ASSUME DepthAssumption    == Depth \in Nat \ {0}
ASSUME ContentsAssumption == {Absent, Folder, NoHash} \cap Contents = {}

Path  == UNION {[1..k -> Names] : k \in 1..Depth}
Root  == <<>>
Entry == Contents \cup {Absent, Folder}
Hash  == Contents \cup {NoHash}

Parent(p) == SubSeq(p, 1, Len(p) - 1)

\* q is p or lies below it
Within(p, q) == Len(p) =< Len(q) /\ SubSeq(q, 1, Len(p)) = p

\* where q, which is within old, ends up when old becomes new
Graft(old, new, q) == new \o SubSeq(q, Len(old) + 1, Len(q))

Exists(d, p)   == p # Root => d[p] # Absent
IsFolder(d, p) == p # Root => d[p] = Folder
IsFile(d, p)   == p # Root /\ d[p] \in Contents

\* safepath.Join(p) walks down to p and fails at a file on the way (ENOTDIR is
\* not "does not exist"); so does os.MkdirAll, also when p itself is a file.
CanJoin(d, p)     == \A q \in Path : Within(q, p) /\ q # p => ~IsFile(d, q)
CanMkdirAll(d, p) == \A q \in Path : Within(q, p) => ~IsFile(d, q)
MkdirAll(d, p) == [q \in Path |-> IF Within(q, p) THEN Folder ELSE d[q]]

RemoveAll(d, p) == [q \in Path |-> IF Within(p, q) THEN Absent ELSE d[q]]

\* os.Rename replaces a file by a file, and fails in every other case where the
\* target exists: Go refuses a target that is a folder, even an empty one.
CanRename(d, old, new) ==
    /\ Exists(d, old)
    /\ IsFolder(d, Parent(new))
    /\ ~IsFolder(d, new)
    /\ IsFolder(d, old) => ~Within(old, new) /\ ~IsFile(d, new)

Rename(d, old, new) ==
    [q \in Path |->
        CASE Within(new, q) -> LET from == Graft(new, old, q)
                               IN  IF from \in Path THEN d[from] ELSE Absent
          [] Within(old, q) /\ ~Within(new, q) -> Absent
          [] OTHER -> d[q]]

=============================================================================
