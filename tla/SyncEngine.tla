----------------------------- MODULE SyncEngine -----------------------------
(***************************************************************************)
(* The sync core of the daemon: one device that mirrors the server's scope *)
(* in a folder, by passes of SyncOnce (internal/syncer) over the engine    *)
(* (internal/engine) and its index (internal/index).                       *)
(*                                                                         *)
(* A pass is: read the scope epoch; if it is not the recorded one, rebuild *)
(* the mirror (ResetForScope), else push the local changes and then pull   *)
(* the feed.  A pass can stop between any two of its steps, and inside     *)
(* them where the code has made one effect durable and not yet the next:   *)
(* an error returned and a killed process leave the same durable state.    *)
(***************************************************************************)
EXTENDS SyncServer

CONSTANTS
    Tree,           \* what the server stores at first: a sequence of records
                    \* [path, hash, scope], folders before what is in them
    UserOps,        \* which of "write", "remove", "mkdir", "move" the user does
    UserPaths,      \* where
    UserContents,   \* what the user writes
    RemoteOps,      \* "create", "mkdir", "edit", "move", "delete": what the
    RemotePaths,    \* other devices do, where, and what they write
    RemoteContents,
    EditsDuringPass,    \* may the user touch the folder while a pass runs?
    PageLimit,          \* entries in a page of the feed
    MaxUser, MaxRemote, MaxFault, MaxEpoch      \* bounds of the runs

\* Every folder above a node is stored, and stored before it.
ASSUME TreeAssumption ==
    /\ Tree \in Seq([path : Path, hash : Hash, scope : Nat])
    /\ 1..Len(Tree) \subseteq Nodes
    /\ \A i, j \in 1..Len(Tree) :
          i < j => \/ Tree[i].scope # Tree[j].scope
                   \/ ~Within(Tree[j].path, Tree[i].path)
    /\ \A i \in 1..Len(Tree), q \in Path :
          Within(q, Tree[i].path) /\ q # Tree[i].path =>
              \E j \in 1..Len(Tree) : /\ j < i /\ Tree[j].path = q
                                      /\ Tree[j].scope = Tree[i].scope
                                      /\ Tree[j].hash = NoHash
ASSUME EnvironmentAssumption ==
    /\ UserPaths \subseteq Path /\ RemotePaths \subseteq Path
    /\ UserContents \subseteq Contents /\ RemoteContents \subseteq Contents
    /\ EditsDuringPass \in BOOLEAN
ASSUME BoundsAssumption ==
    /\ PageLimit \in Nat \ {0}
    /\ {MaxUser, MaxRemote, MaxFault, MaxEpoch} \subseteq Nat

VARIABLES
    srv,            \* the server
    disk,           \* the synced folder
    idx,            \* index: the nodes table
    cursor,         \* index: meta.cursor
    scopeEpoch,     \* index: meta.scope_epoch
    pass,           \* what a running pass holds in memory
    rebuilding,     \* history: the index was cleared and the epoch it was
                    \* cleared for is not recorded yet
    touched,        \* history: the paths whose content is the user's doing, and
                    \* not the engine's
    unrecorded,     \* history: the paths that a step of the engine which failed
                    \* or was cut has changed without writing their row
    spent           \* user, remote and fault steps so far

index == <<idx, cursor, scopeEpoch>>
marks == <<touched, unrecorded>>
vars  == <<srv, disk, idx, cursor, scopeEpoch, pass, rebuilding, touched,
           unrecorded, spent>>

-----------------------------------------------------------------------------
(* Index rows, and the memory of a pass.                                   *)

Row   == [path : Path \cup {Root}, dir : BOOLEAN, ver : Nat, hash : Hash]
NoRow == [path |-> Root, dir |-> FALSE, ver |-> 0, hash |-> NoHash]

Known(n)       == idx[n].ver # 0
RowsAt(i, p)   == {n \in Nodes : i[n].ver # 0 /\ i[n].path = p}
FileRow(p, v, h) == [path |-> p, dir |-> FALSE, ver |-> v, hash |-> h]
\* Mutant: a folder's row carries a hash.
DirRowHashed(p, v) == [path |-> p, dir |-> TRUE, ver |-> v, hash |-> Folder]
DirRow(p, v)     == [path |-> p, dir |-> TRUE, ver |-> v, hash |-> NoHash]

\* A detected change.  from: the old path of a move; node: the row a delete
\* comes from.
Local == [op : {"create", "update", "delete", "move"}, path : Path \cup {Root},
          from : Path \cup {Root}, dir : BOOLEAN, hash : Hash,
          node : Nodes \cup {0}]

\* A row as knownNodes holds it.
KnownRow == [node : Nodes, path : Path \cup {Root}, dir : BOOLEAN, ver : Nat,
             hash : Hash]

Pass == [pc : {"idle", "push", "pull", "apply"}, reset : BOOLEAN, meta : Nat,
         pending : SUBSET Local, known : SUBSET KnownRow,
         since : Nat, page : SUBSET Change, more : BOOLEAN]

Idle == [pc |-> "idle", reset |-> FALSE, meta |-> 0, pending |-> {},
         known |-> {}, since |-> 0, page |-> {}, more |-> FALSE]

TypeOK ==
    /\ srv \in Server
    /\ disk \in [Path -> Entry]
    /\ idx \in [Nodes -> Row]
    /\ cursor \in Nat
    /\ scopeEpoch \in Nat
    /\ pass \in Pass
    /\ rebuilding \in BOOLEAN
    /\ touched \subseteq Path
    /\ unrecorded \subseteq Path
    /\ spent \in [user : Nat, remote : Nat, fault : Nat]

\* The device starts in sync with scope 0.
Init ==
    LET size == Len(Tree)
        node(i) == [st |-> "live", scope |-> Tree[i].scope, path |-> Tree[i].path,
                    dir |-> Tree[i].hash = NoHash, ver |-> 1, hash |-> Tree[i].hash]
        free == [st |-> "free", scope |-> 0, path |-> Root, dir |-> FALSE,
                 ver |-> 0, hash |-> NoHash]
        here(p) == {i \in 1..size : Tree[i].scope = 0 /\ Tree[i].path = p}
    IN  /\ srv = [nodes |-> [n \in Nodes |-> IF n \in 1..size THEN node(n) ELSE free],
                  feed  |-> {[seq |-> i, node |-> i, path |-> Tree[i].path,
                              dir |-> Tree[i].hash = NoHash, ver |-> 1,
                              hash |-> Tree[i].hash, deleted |-> FALSE] : i \in 1..size},
                  head |-> size,
                  epoch |-> 0,
                  history |-> {Tree[i].hash : i \in 1..size} \ {NoHash}]
        /\ disk = [p \in Path |-> IF here(p) = {} THEN Absent
                                  ELSE LET i == CHOOSE j \in here(p) : TRUE
                                       IN  IF Tree[i].hash = NoHash THEN Folder
                                           ELSE Tree[i].hash]
        /\ idx = [n \in Nodes |->
                    IF n \in 1..size /\ Tree[n].scope = 0
                    THEN [path |-> Tree[n].path, dir |-> Tree[n].hash = NoHash,
                          ver |-> 1, hash |-> Tree[n].hash]
                    ELSE NoRow]
        /\ cursor = size
        /\ scopeEpoch = 0
        /\ pass = Idle
        /\ rebuilding = FALSE
        /\ touched = {}
        /\ unrecorded = {}
        /\ spent = [user |-> 0, remote |-> 0, fault |-> 0]

-----------------------------------------------------------------------------
(* Ways a step of the pass ends.                                           *)

Fault == spent.fault < MaxFault /\ spent' = [spent EXCEPT !.fault = @ + 1]

\* The pass returns an error, or the process dies: its memory is gone.
Broken == pass' = Idle

\* A change the engine makes to the folder: those paths are no longer as the
\* user left them, unless a rename has carried the user's content there.  When
\* the step does not get to the index, they differ from their row by the
\* engine's own doing.
Changed(d) == {p \in Path : d[p] # disk[p]}
Carried(d) == {p \in Changed(d) : \E q \in Changed(d) \cap touched : d[p] = disk[q]}

SetDisk(d) ==
    /\ disk' = d
    /\ touched' = (touched \ Changed(d)) \cup Carried(d)

Recorded(d) == SetDisk(d) /\ unrecorded' = unrecorded \ Changed(d)
CutShort(d) == SetDisk(d) /\ unrecorded' = unrecorded \cup Changed(d)

-----------------------------------------------------------------------------
(* Starting a pass: SyncMeta against the recorded epoch, then DetectLocal  *)
(* or Clear.  Nothing between them reads the server again.                 *)

\* One row per path, as the maps built by DetectLocal and PushLocal keep it;
\* the table may hold several rows with one path, in no particular order.
KnownNodes ==
    {K \in SUBSET {n \in Nodes : Known(n)} :
        \A n \in Nodes : Known(n) =>
            \E k \in K : {m \in K : idx[m].path = idx[n].path} = {k}}

RowOf(n) == [node |-> n, path |-> idx[n].path, dir |-> idx[n].dir,
             ver |-> idx[n].ver, hash |-> idx[n].hash]

DetectLocal(K) ==
    LET hashOf(p) == IF IsFile(disk, p) THEN disk[p] ELSE NoHash
        found(op, p) == [op |-> op, path |-> p, from |-> Root, node |-> 0,
                         dir |-> IsFolder(disk, p), hash |-> hashOf(p)]
        fresh(p) == \A k \in K : idx[k].path # p
    IN  {found("create", p) : p \in {q \in Path : Exists(disk, q) /\ fresh(q)}}
        \cup
        {found("update", p) : p \in {q \in Path : IsFile(disk, q)
                /\ \E k \in K : idx[k].path = q /\ idx[k].hash # disk[q]}}
        \cup
        {[op |-> "delete", path |-> idx[n].path, from |-> Root, node |-> n,
          dir |-> idx[n].dir, hash |-> idx[n].hash] :
            n \in {m \in Nodes : Known(m) /\ ~Exists(disk, idx[m].path)}}

\* pairLocalMoves: a deleted and a created file with one hash become a move.
\* Which of several equal ones pair depends on the order of the rows.
Pairings(changes) ==
    LET gone == {c \in changes : c.op = "delete" /\ ~c.dir /\ c.hash # NoHash}
        made == {c \in changes : c.op = "create" /\ ~c.dir /\ c.hash # NoHash}
        pairs == {pr \in gone \X made : pr[1].hash = pr[2].hash}
    IN  {M \in SUBSET pairs :
            /\ \A a, b \in M : a # b => a[1] # b[1] /\ a[2] # b[2]
            /\ \A pr \in pairs : \E a \in M : a[1] = pr[1] \/ a[2] = pr[2]}

pairLocalMoves(changes, M) ==
    (changes \ UNION {{a[1], a[2]} : a \in M})
    \cup {[a[2] EXCEPT !.op = "move", !.from = a[1].path] : a \in M}

\* Mutant: the pass pulls first.
PullFirst ==
    /\ pass.pc = "idle"
    /\ srv.epoch = scopeEpoch
    /\ pass' = [Idle EXCEPT !.pc = "pull", !.meta = srv.epoch]
    /\ UNCHANGED <<srv, disk, index, rebuilding, marks, spent>>

StartPush ==
    /\ pass.pc = "idle"
    /\ srv.epoch = scopeEpoch
    /\ \E K \in KnownNodes : LET changes == DetectLocal(K) IN
       \E M \in Pairings(changes) :
          pass' = [Idle EXCEPT !.pc = "push", !.meta = srv.epoch,
                               !.pending = pairLocalMoves(changes, M),
                               !.known = {RowOf(n) : n \in K}]
    /\ UNCHANGED <<srv, disk, index, rebuilding, marks, spent>>

\* Mutant: the new epoch is recorded before the rebuild.
RecordEpochFirst ==
    /\ pass.pc = "idle"
    /\ srv.epoch # scopeEpoch
    /\ idx' = [n \in Nodes |-> NoRow]
    /\ cursor' = 0
    /\ scopeEpoch' = srv.epoch
    /\ rebuilding' = TRUE
    /\ pass' = [Idle EXCEPT !.pc = "pull", !.reset = TRUE, !.meta = srv.epoch]
    /\ UNCHANGED <<srv, disk, marks, spent>>

\* Mutant: Clear leaves the cursor.
ClearRowsOnly ==
    /\ pass.pc = "idle"
    /\ srv.epoch # scopeEpoch
    /\ idx' = [n \in Nodes |-> NoRow]
    /\ rebuilding' = TRUE
    /\ pass' = [Idle EXCEPT !.pc = "pull", !.reset = TRUE, !.meta = srv.epoch]
    /\ UNCHANGED <<srv, disk, cursor, scopeEpoch, marks, spent>>

\* ResetForScope up to its pull: push is not run.
StartReset ==
    /\ pass.pc = "idle"
    /\ srv.epoch # scopeEpoch
    /\ idx' = [n \in Nodes |-> NoRow]
    /\ cursor' = 0
    /\ rebuilding' = TRUE
    /\ pass' = [Idle EXCEPT !.pc = "pull", !.reset = TRUE, !.meta = srv.epoch]
    /\ UNCHANGED <<srv, disk, scopeEpoch, marks, spent>>

-----------------------------------------------------------------------------
(* PushLocal: one change at a time, creates and updates first, then moves, *)
(* then deletes, parents before children and for deletes after them.       *)

Rank(c) == CASE c.op = "delete" -> 2 [] c.op = "move" -> 1 [] OTHER -> 0

Precedes(c, d) ==
    \/ Rank(c) < Rank(d)
    \/ /\ Rank(c) = Rank(d)
       /\ IF Rank(c) = 2 THEN Len(c.path) > Len(d.path)
                         ELSE Len(c.path) < Len(d.path)

NextInOrder(c) ==
    /\ pass.pc = "push"
    /\ c \in pass.pending
    /\ ~\E d \in pass.pending : Precedes(d, c)

\* abs fails before anything is sent.
RefusePath(c) ==
    /\ NextInOrder(c)
    /\ ~CanJoin(disk, c.path)
    /\ Broken
    /\ UNCHANGED <<srv, disk, index, rebuilding, marks, spent>>

PushNext(c) == NextInOrder(c) /\ CanJoin(disk, c.path)

\* The server has done s and the index is i; the response may be lost, or the
\* process die, before the index is written.
Pushed(c, s, i) ==
    /\ srv' = s
    /\ \/ /\ idx' = i
          /\ pass' = [pass EXCEPT !.pending = @ \ {c}]
          /\ UNCHANGED spent
       \/ idx' = idx /\ Broken /\ Fault
    /\ UNCHANGED <<disk, cursor, scopeEpoch, rebuilding, marks>>

\* Mutant: an error of the push does not end the pass.
RefusedGoesOn(s, i) ==
    /\ srv' = s
    /\ idx' = i
    /\ pass' = [pass EXCEPT !.pending = {}]
    /\ UNCHANGED <<disk, cursor, scopeEpoch, rebuilding, marks>>

Refused(s, i) ==
    /\ srv' = s
    /\ idx' = i
    /\ Broken
    /\ UNCHANGED <<disk, cursor, scopeEpoch, rebuilding, marks>>

PushDir(c) ==
    /\ PushNext(c)
    /\ c.op = "create" /\ c.dir
    /\ LET answers == EnsureDir(srv, c.path) IN
       \/ \E a \in answers :
             Pushed(c, a.srv, [idx EXCEPT ![a.node] =
                                 DirRow(c.path, a.srv.nodes[a.node].ver)])
       \/ answers = {} /\ Refused(srv, idx) /\ UNCHANGED spent

\* knownNodes[path].Version, 0 standing for a nil base.
Base(p) == IF \E k \in pass.known : k.path = p
           THEN (CHOOSE k \in pass.known : k.path = p).ver
           ELSE 0

\* What is sent is the file as it is now; what is recorded is the hash that
\* DetectLocal computed.  After a conflict the index keeps its row.
PushFileChange(c) ==
    /\ PushNext(c)
    /\ c.op \in {"create", "update"} /\ ~c.dir
    /\ LET answers == IF IsFile(disk, c.path)
                      THEN PushFile(srv, c.path, Base(c.path), disk[c.path])
                      ELSE {}
       IN
       \/ \E a \in answers :
             Pushed(c, a.srv,
                    IF a.conflicted THEN idx
                    ELSE [idx EXCEPT ![a.node] =
                            FileRow(c.path, a.srv.nodes[a.node].ver, c.hash)])
       \/ answers = {} /\ Refused(srv, idx) /\ UNCHANGED spent

Last(p) == p[Len(p)]

\* The parent for a move: by the index, else EnsureDir, whose row is written
\* at once.  node = 0 is the root.
MoveParents(p) ==
    IF p = Root THEN {[srv |-> srv, idx |-> idx, node |-> 0]}
    ELSE IF RowsAt(idx, p) # {}
         THEN {[srv |-> srv, idx |-> idx, node |-> n] : n \in RowsAt(idx, p)}
         ELSE {[srv |-> a.srv, node |-> a.node,
                idx |-> [idx EXCEPT ![a.node] = DirRow(p, a.srv.nodes[a.node].ver)]] :
                  a \in EnsureDir(srv, p)}

\* MoveNode and RenameNode name nodes by id, wherever they are by now.
MoveNode(s, n, parent) ==
    IF parent # 0 /\ ~(Visible(s, parent) /\ s.nodes[parent].dir) THEN {}
    ELSE LET at == IF parent = 0 THEN Root ELSE s.nodes[parent].path
             to == Append(at, Last(s.nodes[n].path))
         IN  IF Visible(s, n) /\ to \in Path THEN MoveTo(s, n, to) ELSE {}

RenameNode(s, n, name) ==
    IF Visible(s, n) THEN MoveTo(s, n, Append(Parent(s.nodes[n].path), name)) ELSE {}

\* The three requests of a move, any of which may be the last one that got
\* through; the row moves only after all of them.
PushMove(c) ==
    /\ PushNext(c)
    /\ c.op = "move"
    /\ \E k \in pass.known : k.path = c.from /\
       LET stay    == Parent(c.path) = Parent(c.from)
           parents == IF stay THEN {[srv |-> srv, idx |-> idx, node |-> 0]}
                      ELSE MoveParents(Parent(c.path))
           moved(r) == IF stay THEN {r.srv} ELSE MoveNode(r.srv, k.node, r.node)
           renamed(s) == IF Last(c.path) = Last(c.from) THEN {s}
                         ELSE RenameNode(s, k.node, Last(c.path))
           row == FileRow(c.path, k.ver, k.hash)
       IN
       \/ parents = {} /\ Refused(srv, idx) /\ UNCHANGED spent
       \/ \E r \in parents :
             \/ \E i \in {idx, r.idx} : Refused(r.srv, i) /\ Fault
             \/ moved(r) = {} /\ Refused(r.srv, r.idx) /\ UNCHANGED spent
             \/ \E s \in moved(r) :
                   \/ renamed(s) = {} /\ Refused(s, r.idx) /\ UNCHANGED spent
                   \/ Refused(s, r.idx) /\ Fault
                   \/ \E t \in renamed(s) : Pushed(c, t, [r.idx EXCEPT ![k.node] = row])

\* The delete names the path, with no base version.
PushDelete(c) ==
    /\ PushNext(c)
    /\ c.op = "delete"
    /\ \E s \in DeleteRemote(srv, c.path) :
          Pushed(c, s, [n \in Nodes |-> IF \E k \in pass.known : k.path = c.path /\ k.node = n
                                        THEN NoRow ELSE idx[n]])

-----------------------------------------------------------------------------
(* PullOnce                                                                *)

\* Mutant: the pull does not wait for the push.
FetchAtOnce ==
    /\ pass.pc # "idle" /\ (pass.pc = "apply" => pass.page = {} /\ pass.more)
    /\ LET since == IF pass.pc = "apply" THEN pass.since ELSE cursor
           rest  == Pending(srv, since)
           page  == {e \in rest : Cardinality({f \in rest : f.seq < e.seq}) < PageLimit}
       IN  \E last \in {since} \cup {e.seq : e \in page} :
              /\ \A e \in page : e.seq =< last
              /\ pass' = [pass EXCEPT !.pc = "apply", !.pending = {}, !.known = {},
                                      !.since = last, !.page = page,
                                      !.more = page # rest]
    /\ UNCHANGED <<srv, disk, index, rebuilding, marks, spent>>

\* The cursor is read once, at the first page; from then on the pass goes by the
\* cursor of the last response.
Fetch ==
    /\ \/ pass.pc = "push" /\ pass.pending = {}
       \/ pass.pc = "pull"
       \/ pass.pc = "apply" /\ pass.page = {} /\ pass.more
    /\ LET since == IF pass.pc = "apply" THEN pass.since ELSE cursor
           rest  == Pending(srv, since)
           page  == {e \in rest : Cardinality({f \in rest : f.seq < e.seq}) < PageLimit}
       IN  \E last \in {since} \cup {e.seq : e \in page} :
              /\ \A e \in page : e.seq =< last
              /\ pass' = [pass EXCEPT !.pc = "apply", !.pending = {}, !.known = {},
                                      !.since = last, !.page = page,
                                      !.more = page # rest]
    /\ UNCHANGED <<srv, disk, index, rebuilding, marks, spent>>

FirstOfPage(e) ==
    /\ pass.pc = "apply"
    /\ e \in pass.page
    /\ \A f \in pass.page : e.seq =< f.seq

ApplyNext(e) == FirstOfPage(e) /\ CanJoin(disk, e.path)

\* Mutant: the cursor is the server's last sequence number.
AppliedToHead(e, d, row) ==
    /\ Recorded(d)
    /\ idx' = [idx EXCEPT ![e.node] = row]
    /\ cursor' = srv.head
    /\ pass' = [pass EXCEPT !.page = @ \ {e}]
    /\ UNCHANGED <<srv, scopeEpoch, rebuilding, spent>>

\* The folder is d, then the row is written, then the cursor; a crash leaves
\* any prefix of the three.
Applied(e, d, row) ==
    /\ LET i == [idx EXCEPT ![e.node] = row] IN
       \/ /\ Recorded(d)
          /\ idx' = i
          /\ cursor' = e.seq
          /\ pass' = [pass EXCEPT !.page = @ \ {e}]
          /\ UNCHANGED spent
       \/ /\ \/ Recorded(d) /\ idx' = i
             \/ CutShort(d) /\ idx' = idx
          /\ UNCHANGED cursor /\ Broken /\ Fault
    /\ UNCHANGED <<srv, scopeEpoch, rebuilding>>

\* apply returned an error, or died, with the folder at d.
Failed(d) ==
    /\ CutShort(d)
    /\ Broken
    /\ UNCHANGED <<srv, index, rebuilding>>

\* abs fails before anything is done.
RejectPath(e) ==
    /\ FirstOfPage(e)
    /\ ~CanJoin(disk, e.path)
    /\ Failed(disk)
    /\ UNCHANGED spent

\* Mutants: a delete that leaves the row, and one that leaves the file.
ApplyDeleteKeepsRow(e) ==
    /\ ApplyNext(e)
    /\ e.deleted
    /\ Applied(e, RemoveAll(disk, e.path), idx[e.node])

ApplyDeleteKeepsFile(e) ==
    /\ ApplyNext(e)
    /\ e.deleted
    /\ Applied(e, disk, NoRow)

ApplyDelete(e) ==
    /\ ApplyNext(e)
    /\ e.deleted
    /\ Applied(e, RemoveAll(disk, e.path), NoRow)

\* A known folder under a new path is renamed on disk; a rename that cannot
\* be done is ignored.
ApplyDir(e) ==
    /\ ApplyNext(e)
    /\ ~e.deleted /\ e.dir
    /\ LET old    == idx[e.node].path
           moving == Known(e.node) /\ old # e.path /\ IsFolder(disk, old)
           made   == MkdirAll(disk, Parent(e.path))
           moved  == IF ~moving THEN disk
                     ELSE IF CanRename(made, old, e.path) THEN Rename(made, old, e.path)
                     ELSE made
       IN
       IF moving /\ ~CanMkdirAll(disk, Parent(e.path))
       THEN Failed(disk) /\ UNCHANGED spent
       ELSE IF ~CanMkdirAll(moved, e.path)
       THEN Failed(moved) /\ UNCHANGED spent
       ELSE Applied(e, MkdirAll(moved, e.path), DirRow(e.path, e.ver))

\* The content a download of node n gives, if the server still has the file.
Download(n) ==
    {h \in Contents : srv.nodes[n].st = "live" /\ h = srv.nodes[n].hash}

\* Mutant: the downloaded content is not compared with the entry's hash.
FetchUnchecked(e, d) ==
    LET at == MkdirAll(d, Parent(e.path)) IN
    IF ~CanMkdirAll(d, Parent(e.path))
    THEN Failed(d) /\ UNCHANGED spent
    ELSE \/ Failed(at) /\ Fault
         \/ \E h \in Download(e.node) :
               Applied(e, [at EXCEPT ![e.path] = h], FileRow(e.path, e.ver, e.hash))

\* The download lands in a temporary file that is renamed over the target,
\* whatever is there by then.
FetchContent(e, d) ==
    LET at == MkdirAll(d, Parent(e.path)) IN
    IF ~CanMkdirAll(d, Parent(e.path))
    THEN Failed(d) /\ UNCHANGED spent
    ELSE \/ Failed(at) /\ Fault
         \/ IF e.hash \in Download(e.node) /\ ~IsFolder(at, e.path)
            THEN Applied(e, [at EXCEPT ![e.path] = e.hash],
                         FileRow(e.path, e.ver, e.hash))
            ELSE Failed(at) /\ UNCHANGED spent

\* A file known under another path is renamed first; then the download is
\* skipped when the index has the content's hash and something is in place.
ApplyFile(e) ==
    /\ ApplyNext(e)
    /\ ~e.deleted /\ ~e.dir
    /\ LET old    == idx[e.node].path
           moving == Known(e.node) /\ old # e.path /\ Exists(disk, old)
           made   == MkdirAll(disk, Parent(e.path))
           here   == IF moving THEN Rename(made, old, e.path) ELSE disk
       IN
       IF moving /\ ~CanMkdirAll(disk, Parent(e.path))
       THEN Failed(disk) /\ UNCHANGED spent
       ELSE IF moving /\ ~CanRename(made, old, e.path)
       THEN Failed(made) /\ UNCHANGED spent
       ELSE IF Known(e.node) /\ e.hash # NoHash /\ idx[e.node].hash = e.hash
                /\ Exists(here, e.path)
       THEN Applied(e, here, FileRow(e.path, e.ver, e.hash))
       ELSE FetchContent(e, here)

-----------------------------------------------------------------------------
(* The end of a pass.                                                      *)

Finished == pass.pc = "apply" /\ pass.page = {} /\ ~pass.more

FinishPull ==
    /\ Finished /\ ~pass.reset
    /\ pass' = Idle
    /\ UNCHANGED <<srv, disk, index, rebuilding, marks, spent>>

\* sweepOrphans: what is neither in the index nor above something in it.
Orphans == {p \in Path : /\ Exists(disk, p)
                         /\ ~\E n \in Nodes : Known(n) /\ Within(p, idx[n].path)}

Swept(S) == [q \in Path |-> IF \E p \in S : Within(p, q) THEN Absent ELSE disk[q]]

\* Mutant: the rebuild does not sweep.
FinishWithoutSweep ==
    /\ Finished /\ pass.reset
    /\ Recorded(disk)
    /\ scopeEpoch' = pass.meta
    /\ rebuilding' = FALSE
    /\ pass' = Idle
    /\ UNCHANGED <<srv, idx, cursor, spent>>

FinishReset ==
    /\ Finished /\ pass.reset
    /\ Recorded(Swept(Orphans))
    /\ scopeEpoch' = pass.meta
    /\ rebuilding' = FALSE
    /\ pass' = Idle
    /\ UNCHANGED <<srv, idx, cursor, spent>>

\* The sweep or the recording of the epoch fails half-way.
BreakReset ==
    /\ Finished /\ pass.reset
    /\ \E S \in SUBSET Orphans : Failed(Swept(S))
    /\ Fault

\* The pass stops between two steps.
Abort ==
    /\ pass.pc # "idle"
    /\ Broken
    /\ Fault
    /\ UNCHANGED <<srv, disk, index, rebuilding, marks>>

-----------------------------------------------------------------------------
(* The environment: the user in the folder, the other devices, the scope.  *)

Touch(d) ==
    /\ EditsDuringPass \/ pass.pc = "idle"
    /\ spent.user < MaxUser
    /\ spent' = [spent EXCEPT !.user = @ + 1]
    /\ disk' = d
    /\ touched' = touched \cup Changed(d)
    /\ UNCHANGED <<srv, index, pass, rebuilding, unrecorded>>

UserWrite(p, h) ==
    /\ "write" \in UserOps
    /\ IsFolder(disk, Parent(p)) /\ ~IsFolder(disk, p) /\ disk[p] # h
    /\ Touch([disk EXCEPT ![p] = h])

UserMkdir(p) ==
    /\ "mkdir" \in UserOps
    /\ IsFolder(disk, Parent(p)) /\ ~Exists(disk, p)
    /\ Touch([disk EXCEPT ![p] = Folder])

UserRemove(p) ==
    /\ "remove" \in UserOps
    /\ Exists(disk, p)
    /\ Touch(RemoveAll(disk, p))

UserMove(p, q) ==
    /\ "move" \in UserOps
    /\ ~Exists(disk, q)
    /\ IsFolder(disk, p) => Len(p) = Len(q)     \* keeps the tree in Path
    /\ CanRename(disk, p, q)
    /\ Touch(Rename(disk, p, q))

User == \E p \in UserPaths :
            \/ \E h \in UserContents : UserWrite(p, h)
            \/ UserMkdir(p)
            \/ UserRemove(p)
            \/ \E q \in UserPaths : UserMove(p, q)

Remotely(s) ==
    /\ spent.remote < MaxRemote
    /\ spent' = [spent EXCEPT !.remote = @ + 1]
    /\ srv' = s
    /\ UNCHANGED <<disk, index, pass, rebuilding, marks>>

RemoteCreate(p, h) ==
    /\ IF h = NoHash THEN "mkdir" \in RemoteOps ELSE "create" \in RemoteOps
    /\ DirAt(srv, Parent(p)) /\ CanMake(srv, p)
    /\ Remotely(Make(srv, p, h))

RemoteEdit(n, h) ==
    /\ "edit" \in RemoteOps
    /\ Visible(srv, n) /\ ~srv.nodes[n].dir /\ srv.nodes[n].hash # h
    /\ srv.nodes[n].path \in RemotePaths
    /\ Remotely(Write(srv, n, h))

RemoteMove(n, p) ==
    /\ "move" \in RemoteOps
    /\ CanRelocate(srv, n, p)
    /\ Remotely(Relocate(srv, n, p))

RemoteDelete(n) ==
    /\ "delete" \in RemoteOps
    /\ Visible(srv, n)
    /\ srv.nodes[n].path \in RemotePaths
    /\ Remotely(Remove(srv, n))

Remote ==
    \/ \E p \in RemotePaths, h \in RemoteContents \cup {NoHash} : RemoteCreate(p, h)
    \/ \E n \in Nodes, h \in RemoteContents : RemoteEdit(n, h)
    \/ \E n \in Nodes, p \in RemotePaths : RemoteMove(n, p)
    \/ \E n \in Nodes : RemoteDelete(n)

\* The user picks another sync scope on the web; the epoch only grows.
ChangeScope ==
    /\ srv.epoch < MaxEpoch
    /\ srv' = [srv EXCEPT !.epoch = @ + 1]
    /\ UNCHANGED <<disk, index, pass, rebuilding, marks, spent>>

-----------------------------------------------------------------------------
PushStep == \E c \in pass.pending :
                \/ PushDir(c) \/ PushFileChange(c) \/ PushMove(c) \/ PushDelete(c)
                \/ RefusePath(c)

ApplyStep == \E e \in pass.page :
                \/ ApplyDelete(e) \/ ApplyDir(e) \/ ApplyFile(e)
                \/ RejectPath(e)

PassStep ==
    \/ StartPush
    \/ StartReset
    \/ PushStep
    \/ Fetch
    \/ ApplyStep
    \/ FinishPull
    \/ FinishReset

Next ==
    \/ PassStep
    \/ BreakReset
    \/ Abort
    \/ User
    \/ Remote
    \/ ChangeScope

Spec == Init /\ [][Next]_vars

\* Passes go on as long as the daemon runs: the ticker starts one at least
\* every minute, and each step of a pass returns.  Nothing is assumed of the
\* user and the other devices; faults are bounded, so a pass eventually runs
\* without one.
FairSpec == Spec /\ WF_vars(PassStep)

-----------------------------------------------------------------------------
\* The scope on the server, as a folder.
ServerTree == [p \in Path |->
    CASE FileAt(srv, p) -> srv.nodes[CHOOSE n \in LiveAt(srv, p) : TRUE].hash
      [] p # Root /\ DirAt(srv, p) -> Folder
      [] OTHER -> Absent]

(***************************************************************************)
(* Safety.                                                                 *)
(***************************************************************************)

\* The last entry of the feed about n.
LastSeq(n) == LET about == {e \in srv.feed : e.node = n}
              IN  CHOOSE k \in {e.seq : e \in about} : \A e \in about : e.seq =< k

\* PullOnce, "the cursor advances after EACH applied change, so interruption
\* mid-way is safe": whatever step a pass is cut at, the device never takes as
\* seen a change that its index does not reflect.  For every node of the
\* recorded scope whose last change is not after the cursor, the row is the
\* node, and a deleted node has no row.
CursorCoversIndex ==
    srv.epoch = scopeEpoch /\ ~rebuilding =>
        \A n \in Nodes :
            LET x == srv.nodes[n] IN
            x.st # "free" /\ x.scope = srv.epoch /\ LastSeq(n) =< cursor =>
                idx[n] = IF x.st = "dead" THEN NoRow
                         ELSE [path |-> x.path, dir |-> x.dir, ver |-> x.ver,
                               hash |-> x.hash]

\* ResetForScope: from the moment the index is cleared until the epoch is
\* recorded, through any number of broken passes, no pass pushes: with a partial
\* index every file of the old scope would look new.
NoPushWhileRebuilding == rebuilding => pass.pc # "push"

\* What keeps the two apart: the recorded epoch, the epoch a pass read and the
\* server's are in this order, and a rebuild is for an epoch not recorded yet.
EpochsInOrder ==
    /\ scopeEpoch =< srv.epoch
    /\ pass.pc # "idle" => pass.meta =< srv.epoch
    /\ rebuilding => scopeEpoch < srv.epoch

\* "Local files were mapped to the old scope and must not leak into the new
\* one" (SyncOnce): a push never writes to a scope other than the one the pass
\* found on the server.
PushStaysInScope ==
    [][pass.pc = "push" /\ srv'.nodes # srv.nodes /\ spent'.remote = spent.remote
        => srv.epoch = pass.meta]_vars

\* "The cursor advances after EACH applied change, so interruption mid-way is
\* safe" (PullOnce) would have it that an interruption leaves nothing for the
\* next push: only what the user did is pushed.
OnlyUserChangesArePushed ==
    \A c \in pass.pending :
        \/ c.op = "create" /\ c.dir
        \/ {c.path} \cup ({c.from} \ {Root}) \subseteq touched

\* When a pass that no change of scope overtook completes, the index describes
\* the folder wherever the user has not been since: one row per existing path and no other, with the hash of what
\* is there.  (A folder may lack a row: it was made on the way to a file.)
Described(p) ==
    IF Exists(disk, p)
    THEN IsFolder(disk, p) \/ {idx[n].hash : n \in RowsAt(idx, p)} = {disk[p]}
    ELSE RowsAt(idx, p) = {}

CompletedPassAgrees ==
    [][pass.pc = "apply" /\ pass'.pc = "idle" /\ Finished /\ spent' = spent
       /\ srv.epoch = pass.meta
        => (\A p \in Path \ (touched \cup unrecorded) : Described(p))']_vars

\* "After a full push->pull cycle, DetectLocal must return nothing" (the conflict
\* test): when the user leaves the folder alone during a pass, the pass that
\* completes has also settled everything the user did before it.
PassSettles ==
    [][pass.pc = "apply" /\ pass'.pc = "idle" /\ Finished /\ spent' = spent
       /\ srv.epoch = pass.meta
        => (\A p \in Path : Described(p))']_vars

\* A rebuild for a new scope ("wipe + fresh pull + sweep orphans") that the
\* server did not overtake ends with the folder of that scope: nothing of the old
\* one is left and nothing of the new one is missing, whatever earlier attempts
\* were cut short.
ResetMirrorsScope ==
    [][scopeEpoch' # scopeEpoch /\ srv.epoch = scopeEpoch' /\ Pending(srv, cursor) = {}
        => \A p \in Path \ touched' : disk'[p] = ServerTree[p]]_vars

\* "Never lose data": when the engine overwrites, moves or deletes a file, its
\* content is one the server has stored.  Rebuilding for a new scope is the
\* documented exception.
NoSilentLoss ==
    [][spent'.user = spent.user /\ ~pass.reset =>
        \A p \in Path :
            IsFile(disk, p) => \/ disk'[p] = disk[p]
                               \/ disk[p] \in srv.history
                               \/ \E q \in Path : disk'[q] = disk[p]]_vars

(***************************************************************************)
(* Liveness.                                                               *)
(***************************************************************************)

\* Once nobody changes anything any more, the folder becomes and stays the
\* server's tree, with every conflict copy in it.
Convergence == <>[](disk = ServerTree)

=============================================================================
