-------------------------- MODULE SyncEngineProofs --------------------------
(***************************************************************************)
(* The sync core, for every tree, every number of nodes, users' and        *)
(* devices' operations, and every bound: its type correctness; that        *)
(* nothing is pushed from a folder that is being rebuilt for another       *)
(* scope; that the cursor never passes a change that the index does not    *)
(* have, wherever a pass is cut; and that no file is lost whose content    *)
(* the server has not stored, if the user waits for passes to end.         *)
(***************************************************************************)
EXTENDS SyncEngine, SyncServerProofs

\* What is pushed under a path has one: only a delete is taken from a row, and
\* a row may be the empty one.  Types alone do not say it, and the type of the
\* server after a push rests on it.
PushesHavePaths == \A c \in pass.pending : c.op # "delete" => c.path \in Path

Typed == TypeOK /\ PushesHavePaths

\* What every step but ChangeScope does.
Keeps == Typed' /\ SameScope(srv, srv')

Spent == [user : Nat, remote : Nat, fault : Nat]

LEMMA IdleType == Idle \in Pass /\ Idle.pending = {} /\ Idle.pc = "idle"
  BY DEF Idle, Pass

LEMMA RowTypes ==
    /\ NoRow \in Row
    /\ \A p \in Path \cup {Root}, v \in Nat, h \in Hash :
          DirRow(p, v) \in Row /\ FileRow(p, v, h) \in Row
  BY DEF NoRow, DirRow, FileRow, Row, Hash

\* The counters of the runs.
LEMMA SpentType ==
    ASSUME TypeOK, Fault \/ UNCHANGED spent
    PROVE  spent' \in Spent
  BY DEF TypeOK, Fault, Spent

\* Setting the folder leaves a folder and marks.
LEMMA DiskType ==
    ASSUME TypeOK, NEW d \in FolderTree, Recorded(d) \/ CutShort(d)
    PROVE  disk' \in [Path -> Entry] /\ touched' \subseteq Path /\ unrecorded' \subseteq Path
<1>1. Changed(d) \subseteq Path /\ Carried(d) \subseteq Path
  BY DEF Changed, Carried
<1> QED
  BY <1>1 DEF TypeOK, Recorded, CutShort, SetDisk, FolderTree

-----------------------------------------------------------------------------
(* The ways a step of a pass ends.                                         *)

LEMMA PushedType ==
    ASSUME Typed, NEW c, NEW s, SameScope(srv, s), NEW i \in [Nodes -> Row],
           Pushed(c, s, i)
    PROVE  Keeps
<1>1. pass' \in Pass /\ PushesHavePaths'
  <2>1. CASE pass' = [pass EXCEPT !.pending = @ \ {c}]
    <3>1. pass' \in Pass
      BY <2>1 DEF Typed, TypeOK, Pass
    <3>2. pass'.pending = pass.pending \ {c}
      BY <2>1 DEF Typed, TypeOK, Pass
    <3> QED
      BY <3>1, <3>2 DEF Typed, PushesHavePaths
  <2>2. CASE Broken
    BY <2>2, IdleType DEF Broken, PushesHavePaths
  <2> QED
    BY <2>1, <2>2 DEF Pushed
<1>2. spent' \in Spent
  BY SpentType DEF Pushed, Typed
<1> QED
  BY <1>1, <1>2 DEF Pushed, Typed, TypeOK, Keeps, SameScope, Spent, marks

LEMMA RefusedType ==
    ASSUME Typed, NEW s, SameScope(srv, s), NEW i \in [Nodes -> Row],
           Refused(s, i), Fault \/ UNCHANGED spent
    PROVE  Keeps
<1>1. pass' \in Pass /\ PushesHavePaths'
  BY IdleType DEF Refused, Broken, PushesHavePaths
<1>2. spent' \in Spent
  BY SpentType DEF Typed
<1> QED
  BY <1>1, <1>2 DEF Refused, Typed, TypeOK, Keeps, SameScope, Spent, marks

LEMMA AppliedType ==
    ASSUME Typed, NEW e \in Change, NEW d \in FolderTree, NEW row \in Row,
           Applied(e, d, row)
    PROVE  Keeps
<1>1. pass' \in Pass /\ PushesHavePaths'
  <2>1. CASE pass' = [pass EXCEPT !.page = @ \ {e}]
    <3>1. pass' \in Pass
      BY <2>1 DEF Typed, TypeOK, Pass
    <3>2. pass'.pending = pass.pending
      BY <2>1 DEF Typed, TypeOK, Pass
    <3> QED
      BY <3>1, <3>2 DEF Typed, PushesHavePaths
  <2>2. CASE Broken
    BY <2>2, IdleType DEF Broken, PushesHavePaths
  <2> QED
    BY <2>1, <2>2 DEF Applied
<1>2. spent' \in Spent
  BY SpentType DEF Applied, Typed
<1>3. disk' \in [Path -> Entry] /\ touched' \subseteq Path /\ unrecorded' \subseteq Path
  BY DiskType DEF Applied, Typed
<1>4. idx' \in [Nodes -> Row] /\ cursor' \in Nat
  BY DEF Applied, Typed, TypeOK, Change
<1>5. srv' = srv /\ scopeEpoch' = scopeEpoch /\ rebuilding' = rebuilding
  BY DEF Applied
<1> QED
  BY <1>1, <1>2, <1>3, <1>4, <1>5 DEF Typed, TypeOK, Keeps, SameScope, Spent

LEMMA FailedType ==
    ASSUME Typed, NEW d \in FolderTree, Failed(d), Fault \/ UNCHANGED spent
    PROVE  Keeps
<1>1. pass' \in Pass /\ PushesHavePaths'
  BY IdleType DEF Failed, Broken, PushesHavePaths
<1>2. spent' \in Spent
  BY SpentType DEF Typed
<1>3. disk' \in [Path -> Entry] /\ touched' \subseteq Path /\ unrecorded' \subseteq Path
  BY DiskType DEF Failed, Typed
<1> QED
  BY <1>1, <1>2, <1>3 DEF Failed, Typed, TypeOK, Keeps, SameScope, Spent, index

-----------------------------------------------------------------------------
(* Starting a pass.                                                        *)

\* DetectLocal finds local changes.
LEMMA DetectLocalType ==
    ASSUME TypeOK, NEW K \in SUBSET Nodes
    PROVE  /\ DetectLocal(K) \subseteq Local
           /\ \A c \in DetectLocal(K) : c.op # "delete" => c.path \in Path
<1> DEFINE hashOf(p) == IF IsFile(disk, p) THEN disk[p] ELSE NoHash
           found(op, p) == [op |-> op, path |-> p, from |-> Root, node |-> 0,
                            dir |-> IsFolder(disk, p), hash |-> hashOf(p)]
           gone(n) == [op |-> "delete", path |-> idx[n].path, from |-> Root, node |-> n,
                       dir |-> idx[n].dir, hash |-> idx[n].hash]
<1>1. ASSUME NEW p \in Path, NEW op \in {"create", "update"}
      PROVE  found(op, p) \in Local /\ found(op, p).path \in Path
  <2>1. hashOf(p) \in Hash
    BY DEF IsFile, Hash
  <2>2. IsFolder(disk, p) \in BOOLEAN
    BY DEF IsFolder
  <2> HIDE DEF hashOf
  <2> QED
    BY <2>1, <2>2 DEF Local
<1>2. ASSUME NEW n \in Nodes
      PROVE  gone(n) \in Local /\ gone(n).op = "delete"
  <2>1. idx[n] \in Row
    BY DEF TypeOK
  <2> QED
    BY <2>1 DEF Local, Row
<1>3. ASSUME NEW c \in DetectLocal(K)
      PROVE  \/ \E p \in Path, op \in {"create", "update"} : c = found(op, p)
             \/ \E n \in Nodes : c = gone(n)
  BY <1>3 DEF DetectLocal
<1> HIDE DEF found, gone
<1> QED
  BY <1>1, <1>2, <1>3

\* pairLocalMoves makes moves of creates.
LEMMA PairedType ==
    ASSUME NEW C \in SUBSET Local, NEW M \in Pairings(C),
           \A c \in C : c.op # "delete" => c.path \in Path
    PROVE  /\ pairLocalMoves(C, M) \subseteq Local
           /\ \A c \in pairLocalMoves(C, M) : c.op # "delete" => c.path \in Path
<1> DEFINE move(a) == [a[2] EXCEPT !.op = "move", !.from = a[1].path]
<1>1. ASSUME NEW a \in M
      PROVE  a[1] \in C /\ a[2] \in C /\ a[2].op = "create"
  BY DEF Pairings
<1>2. ASSUME NEW a \in M
      PROVE  move(a) \in Local /\ move(a).path \in Path
  <2>1. a[1] \in Local /\ a[2] \in Local /\ a[2].path \in Path
    BY <1>1
  <2>2. a[1].path \in Path \cup {Root}
    BY <2>1 DEF Local
  <2>3. move(a) = [[a[2] EXCEPT !.from = a[1].path] EXCEPT !.op = "move"]
    BY <2>1 DEF Local
  <2>4. [a[2] EXCEPT !.from = a[1].path] \in Local
    BY <2>1, <2>2 DEF Local
  <2>5. move(a) \in Local
    BY <2>3, <2>4 DEF Local
  <2>6. move(a).path = a[2].path
    BY <2>1 DEF Local
  <2> QED
    BY <2>1, <2>5, <2>6
<1>3. pairLocalMoves(C, M) \subseteq C \cup {move(a) : a \in M}
  BY DEF pairLocalMoves
<1> HIDE DEF move
<1> QED
  BY <1>2, <1>3

LEMMA StartPushType ==
    ASSUME Typed, StartPush
    PROVE  Keeps
<1>0. PICK K \in KnownNodes : \E M \in Pairings(DetectLocal(K)) :
         pass' = [Idle EXCEPT !.pc = "push", !.meta = srv.epoch,
                              !.pending = pairLocalMoves(DetectLocal(K), M),
                              !.known = {RowOf(n) : n \in K}]
  BY DEF StartPush
<1>1. PICK M \in Pairings(DetectLocal(K)) :
         pass' = [Idle EXCEPT !.pc = "push", !.meta = srv.epoch,
                              !.pending = pairLocalMoves(DetectLocal(K), M),
                              !.known = {RowOf(n) : n \in K}]
  BY <1>0
<1>2. K \in SUBSET Nodes
  BY DEF KnownNodes
<1>3. {RowOf(n) : n \in K} \subseteq KnownRow
  <2>1. ASSUME NEW n \in K
        PROVE  RowOf(n) \in KnownRow
    <3>1. idx[n] \in Row
      BY <1>2 DEF Typed, TypeOK
    <3> QED
      BY <1>2, <3>1 DEF RowOf, KnownRow, Row
  <2> QED
    BY <2>1
<1> DEFINE pending == pairLocalMoves(DetectLocal(K), M)
           known == {RowOf(n) : n \in K}
<1>4. pending \subseteq Local /\ \A c \in pending : c.op # "delete" => c.path \in Path
  BY <1>2, DetectLocalType, PairedType DEF Typed
<1>5. srv.epoch \in Nat
  BY DEF Typed, TypeOK, Server
<1> HIDE DEF pending, known
<1>6. pass' = [pc |-> "push", reset |-> FALSE, meta |-> srv.epoch, pending |-> pending,
               known |-> known, since |-> 0, page |-> {}, more |-> FALSE]
  BY <1>1 DEF Idle, pending, known
<1>7. pass' \in Pass /\ pass'.pending = pending
  BY <1>3, <1>4, <1>5, <1>6 DEF Pass, known
<1>8. PushesHavePaths'
  BY <1>4, <1>7 DEF PushesHavePaths
<1> QED
  BY <1>7, <1>8 DEF StartPush, Typed, TypeOK, Keeps, SameScope, index, marks

LEMMA StartResetType ==
    ASSUME Typed, StartReset
    PROVE  Keeps
<1>1. srv.epoch \in Nat
  BY DEF Typed, TypeOK, Server
<1>2. pass' = [pc |-> "pull", reset |-> TRUE, meta |-> srv.epoch, pending |-> {},
               known |-> {}, since |-> 0, page |-> {}, more |-> FALSE]
  BY DEF StartReset, Idle
<1>3. pass' \in Pass /\ PushesHavePaths'
  BY <1>1, <1>2 DEF Pass, PushesHavePaths
<1>4. idx' \in [Nodes -> Row]
  BY RowTypes DEF StartReset
<1> QED
  BY <1>3, <1>4 DEF StartReset, Typed, TypeOK, Keeps, SameScope, marks

-----------------------------------------------------------------------------
(* Pushing.                                                                *)

LEMMA RefusePathType ==
    ASSUME Typed, NEW c, RefusePath(c)
    PROVE  Keeps
<1>1. pass' \in Pass /\ PushesHavePaths'
  BY IdleType DEF RefusePath, Broken, PushesHavePaths
<1> QED
  BY <1>1 DEF RefusePath, Typed, TypeOK, Keeps, SameScope, index, marks

\* The row of an answer.
LEMMA AnswerRow ==
    ASSUME NEW s \in Server, NEW n \in Nodes
    PROVE  s.nodes[n].ver \in Nat /\ s.nodes[n].path \in Path \cup {Root}
<1>1. s.nodes[n] \in Node
  BY DEF Server
<1> QED
  BY <1>1 DEF Node

LEMMA PushDirType ==
    ASSUME Typed, NEW c \in pass.pending, PushDir(c)
    PROVE  Keeps
<1>1. c.path \in Path
  BY DEF PushDir, Typed, PushesHavePaths
<1>2. srv \in Server /\ idx \in [Nodes -> Row]
  BY DEF Typed, TypeOK
<1>3. CASE EnsureDir(srv, c.path) = {}
  BY <1>2, <1>3, RefusedType DEF PushDir, SameScope
<1>4. ASSUME NEW a \in EnsureDir(srv, c.path),
             Pushed(c, a.srv, [idx EXCEPT ![a.node] =
                                 DirRow(c.path, a.srv.nodes[a.node].ver)])
      PROVE  Keeps
  <2>1. SameScope(srv, a.srv) /\ a.node \in Nodes
    BY <1>1, <1>2, EnsureDirAnswer DEF Answer
  <2>2. DirRow(c.path, a.srv.nodes[a.node].ver) \in Row
    BY <1>1, <2>1, AnswerRow, RowTypes DEF SameScope, Hash
  <2>3. [idx EXCEPT ![a.node] = DirRow(c.path, a.srv.nodes[a.node].ver)] \in [Nodes -> Row]
    BY <1>2, <2>2
  <2> QED
    BY <1>4, <2>1, <2>3, PushedType
<1> QED
  BY <1>3, <1>4 DEF PushDir

LEMMA PushFileChangeType ==
    ASSUME Typed, NEW c \in pass.pending, PushFileChange(c)
    PROVE  Keeps
<1>1. c.path \in Path /\ c.hash \in Hash
  BY DEF PushFileChange, Typed, TypeOK, PushesHavePaths, Pass, Local
<1>2. srv \in Server /\ idx \in [Nodes -> Row]
  BY DEF Typed, TypeOK
<1> DEFINE answers == IF IsFile(disk, c.path)
                      THEN PushFile(srv, c.path, Base(c.path), disk[c.path])
                      ELSE {}
           after(a) == IF a.conflicted THEN idx
                       ELSE [idx EXCEPT ![a.node] =
                               FileRow(c.path, a.srv.nodes[a.node].ver, c.hash)]
<1>3. CASE Refused(srv, idx) /\ UNCHANGED spent
  BY <1>2, <1>3, RefusedType DEF SameScope
<1>4. ASSUME NEW a \in answers, Pushed(c, a.srv, after(a))
      PROVE  Keeps
  <2>1. IsFile(disk, c.path) /\ a \in PushFile(srv, c.path, Base(c.path), disk[c.path])
    BY <1>4
  <2>2. disk[c.path] \in Contents
    BY <2>1 DEF IsFile
  <2>3. SameScope(srv, a.srv) /\ a.node \in Nodes
    BY <1>1, <1>2, <2>1, <2>2, PushFileAnswer DEF Answer
  <2>4. FileRow(c.path, a.srv.nodes[a.node].ver, c.hash) \in Row
    BY <1>1, <2>3, AnswerRow, RowTypes DEF SameScope
  <2>5. after(a) \in [Nodes -> Row]
    BY <1>2, <2>4
  <2> QED
    BY <1>4, <2>3, <2>5, PushedType
<1>5. \/ \E a \in answers : Pushed(c, a.srv, after(a))
      \/ Refused(srv, idx) /\ UNCHANGED spent
  BY DEF PushFileChange
<1> QED
  BY <1>3, <1>4, <1>5

LEMMA PushDeleteType ==
    ASSUME Typed, NEW c \in pass.pending, PushDelete(c)
    PROVE  Keeps
<1> DEFINE after == [n \in Nodes |-> IF \E k \in pass.known : k.path = c.path /\ k.node = n
                                     THEN NoRow ELSE idx[n]]
<1>1. PICK s \in DeleteRemote(srv, c.path) : Pushed(c, s, after)
  BY DEF PushDelete
<1>2. SameScope(srv, s)
  BY DeleteRemoteScope DEF Typed, TypeOK
<1>3. after \in [Nodes -> Row]
  BY RowTypes DEF Typed, TypeOK
<1> HIDE DEF after
<1> QED
  BY <1>1, <1>2, <1>3, PushedType

\* The last name of a path, and what a rename to it gives.
LEMMA LastType ==
    ASSUME NEW p \in Path
    PROVE  Last(p) \in Names
<1>1. p \in Seq(Names) /\ Len(p) \in Nat /\ 1 =< Len(p)
  BY PathIsSeq
<1> QED
  BY <1>1, ElementOfSeq DEF Last

LEMMA RenameNodeType ==
    ASSUME NEW s \in Server, NEW n \in Nodes, NEW x \in Names, NEW t \in RenameNode(s, n, x)
    PROVE  SameScope(s, t)
<1>1. Append(Parent(s.nodes[n].path), x) \in Path
  BY AnswerRow, SiblingType
<1>2. t \in MoveTo(s, n, Append(Parent(s.nodes[n].path), x))
  BY DEF RenameNode
<1> QED
  BY <1>1, <1>2, MoveToScope

LEMMA MoveNodeType ==
    ASSUME NEW s \in Server, NEW n \in Nodes, NEW m, NEW t \in MoveNode(s, n, m)
    PROVE  SameScope(s, t)
<1> DEFINE at == IF m = 0 THEN Root ELSE s.nodes[m].path
           to == Append(at, Last(s.nodes[n].path))
<1>1. to \in Path /\ t \in MoveTo(s, n, to)
  BY DEF MoveNode
<1> HIDE DEF to
<1> QED
  BY <1>1, MoveToScope

\* Where a move's parent comes from, and the index then.
LEMMA MoveParentsType ==
    ASSUME Typed, NEW p \in Path \cup {Root}, NEW r \in MoveParents(p)
    PROVE  SameScope(srv, r.srv) /\ r.idx \in [Nodes -> Row]
<1>1. srv \in Server /\ idx \in [Nodes -> Row]
  BY DEF Typed, TypeOK
<1>2. CASE p = Root \/ RowsAt(idx, p) # {}
  BY <1>1, <1>2 DEF MoveParents, SameScope
<1>3. CASE p # Root /\ RowsAt(idx, p) = {}
  <2>1. PICK a \in EnsureDir(srv, p) :
           r = [srv |-> a.srv, node |-> a.node,
                idx |-> [idx EXCEPT ![a.node] = DirRow(p, a.srv.nodes[a.node].ver)]]
    BY <1>3 DEF MoveParents
  <2>2. SameScope(srv, a.srv) /\ a.node \in Nodes
    BY <1>1, <1>3, EnsureDirAnswer DEF Answer
  <2>3. DirRow(p, a.srv.nodes[a.node].ver) \in Row
    BY <2>2, AnswerRow, RowTypes DEF SameScope, Hash
  <2> HIDE DEF DirRow
  <2>4. r.srv = a.srv
        /\ r.idx = [idx EXCEPT ![a.node] = DirRow(p, a.srv.nodes[a.node].ver)]
    BY <2>1
  <2> QED
    BY <1>1, <2>2, <2>3, <2>4
<1> QED
  BY <1>2, <1>3

LEMMA SameScopeTransitive ==
    ASSUME NEW s, NEW t, NEW u, SameScope(s, t), SameScope(t, u)
    PROVE  SameScope(s, u)
  BY DEF SameScope

LEMMA PushMoveType ==
    ASSUME Typed, NEW c \in pass.pending, PushMove(c)
    PROVE  Keeps
<1>1. c.path \in Path
  BY DEF PushMove, Typed, PushesHavePaths
<1>2. srv \in Server /\ idx \in [Nodes -> Row] /\ SameScope(srv, srv)
  BY DEF Typed, TypeOK, SameScope
<1>3. Parent(c.path) \in Path \cup {Root} /\ Last(c.path) \in Names
  BY <1>1, ParentType, LastType
<1> DEFINE stay       == Parent(c.path) = Parent(c.from)
           parents    == IF stay THEN {[srv |-> srv, idx |-> idx, node |-> 0]}
                         ELSE MoveParents(Parent(c.path))
           moved(r, k)   == IF stay THEN {r.srv} ELSE MoveNode(r.srv, k.node, r.node)
           renamed(s, k) == IF Last(c.path) = Last(c.from) THEN {s}
                            ELSE RenameNode(s, k.node, Last(c.path))
           row(k)     == FileRow(c.path, k.ver, k.hash)
<1>4. PICK k \in pass.known :
        \/ parents = {} /\ Refused(srv, idx) /\ UNCHANGED spent
        \/ \E r \in parents :
             \/ \E i \in {idx, r.idx} : Refused(r.srv, i) /\ Fault
             \/ moved(r, k) = {} /\ Refused(r.srv, r.idx) /\ UNCHANGED spent
             \/ \E s \in moved(r, k) :
                   \/ renamed(s, k) = {} /\ Refused(s, r.idx) /\ UNCHANGED spent
                   \/ Refused(s, r.idx) /\ Fault
                   \/ \E t \in renamed(s, k) :
                         Pushed(c, t, [r.idx EXCEPT ![k.node] = row(k)])
  BY DEF PushMove
<1>5. k.node \in Nodes /\ row(k) \in Row
  <2>1. k \in KnownRow
    BY DEF Typed, TypeOK, Pass
  <2> QED
    BY <1>1, <2>1, RowTypes DEF KnownRow
<1>6. ASSUME NEW r \in parents
      PROVE  SameScope(srv, r.srv) /\ r.idx \in [Nodes -> Row]
  <2>1. CASE stay
    BY <1>2, <2>1
  <2>2. CASE ~stay
    BY <1>3, <2>2, MoveParentsType
  <2> QED
    BY <2>1, <2>2
<1>7. ASSUME NEW r \in parents, NEW s \in moved(r, k)
      PROVE  SameScope(srv, s)
  <2>1. SameScope(srv, r.srv) /\ r.srv \in Server
    BY <1>6 DEF SameScope
  <2>2. CASE stay
    BY <2>1, <2>2
  <2>3. CASE ~stay
    BY <1>5, <2>1, <2>3, MoveNodeType, SameScopeTransitive
  <2> QED
    BY <2>2, <2>3
<1>8. ASSUME NEW r \in parents, NEW s \in moved(r, k), NEW t \in renamed(s, k)
      PROVE  SameScope(srv, t)
  <2>1. SameScope(srv, s) /\ s \in Server
    BY <1>7 DEF SameScope
  <2>2. CASE Last(c.path) = Last(c.from)
    BY <2>1, <2>2
  <2>3. CASE Last(c.path) # Last(c.from)
    BY <1>3, <1>5, <2>1, <2>3, RenameNodeType, SameScopeTransitive
  <2> QED
    BY <2>2, <2>3
<1>9. ASSUME NEW r \in parents
      PROVE  [r.idx EXCEPT ![k.node] = row(k)] \in [Nodes -> Row]
  BY <1>5, <1>6
<1> HIDE DEF parents, moved, renamed, row
<1>10. CASE Refused(srv, idx) /\ UNCHANGED spent
  BY <1>2, <1>10, RefusedType
<1>11. ASSUME NEW r \in parents, NEW i \in {idx, r.idx}, Refused(r.srv, i),
              Fault \/ UNCHANGED spent
       PROVE  Keeps
  BY <1>2, <1>6, <1>11, RefusedType
<1>12. ASSUME NEW r \in parents, NEW s \in moved(r, k), Refused(s, r.idx),
              Fault \/ UNCHANGED spent
       PROVE  Keeps
  BY <1>6, <1>7, <1>12, RefusedType
<1>13. ASSUME NEW r \in parents, NEW s \in moved(r, k), NEW t \in renamed(s, k),
              Pushed(c, t, [r.idx EXCEPT ![k.node] = row(k)])
       PROVE  Keeps
  BY <1>8, <1>9, <1>13, PushedType
<1> QED
  BY <1>4, <1>10, <1>11, <1>12, <1>13

LEMMA PushStepType ==
    ASSUME Typed, PushStep
    PROVE  Keeps
  BY PushDirType, PushFileChangeType, PushMoveType, PushDeleteType, RefusePathType
     DEF PushStep

-----------------------------------------------------------------------------
(* Pulling.                                                                *)

LEMMA FetchType ==
    ASSUME Typed, Fetch
    PROVE  Keeps
<1> DEFINE from == IF pass.pc = "apply" THEN pass.since ELSE cursor
           rest == Pending(srv, from)
           page == {e \in rest : Cardinality({f \in rest : f.seq < e.seq}) < PageLimit}
           more == page # rest
<1>1. PICK last \in {from} \cup {e.seq : e \in page} :
        pass' = [pass EXCEPT !.pc = "apply", !.pending = {}, !.known = {},
                             !.since = last, !.page = page, !.more = more]
  BY DEF Fetch
<1>2. srv \in Server /\ pass \in Pass /\ cursor \in Nat
  BY DEF Typed, TypeOK
<1>3. page \subseteq Change
  BY <1>2 DEF Pending, Server
<1>4. from \in Nat
  BY <1>2 DEF Pass
<1>5. last \in Nat
  <2> HIDE DEF page, from
  <2> QED
    BY <1>3, <1>4 DEF Change
<1>6. more \in BOOLEAN
  OBVIOUS
<1> HIDE DEF page, from, more
<1>7. pass' = [pc |-> "apply", reset |-> pass.reset, meta |-> pass.meta, pending |-> {},
               known |-> {}, since |-> last, page |-> page, more |-> more]
  BY <1>1, <1>2 DEF Pass
<1>8. pass' \in Pass /\ PushesHavePaths'
  BY <1>2, <1>3, <1>5, <1>6, <1>7 DEF Pass, PushesHavePaths
<1> QED
  BY <1>8 DEF Fetch, Typed, TypeOK, Keeps, SameScope, index, marks

\* The entries of a page, and the row of one.
LEMMA EntryType ==
    ASSUME Typed, NEW e \in pass.page
    PROVE  /\ e \in Change
           /\ DirRow(e.path, e.ver) \in Row
           /\ FileRow(e.path, e.ver, e.hash) \in Row
<1>1. e \in Change
  BY DEF Typed, TypeOK, Pass
<1> QED
  BY <1>1, RowTypes DEF Change

LEMMA FolderIsTree ==
    ASSUME Typed
    PROVE  disk \in FolderTree
  BY DEF Typed, TypeOK, FolderTree

LEMMA RejectPathType ==
    ASSUME Typed, NEW e \in pass.page, RejectPath(e)
    PROVE  Keeps
  BY FolderIsTree, FailedType DEF RejectPath

LEMMA ApplyDeleteType ==
    ASSUME Typed, NEW e \in pass.page, ApplyDelete(e)
    PROVE  Keeps
<1>1. RemoveAll(disk, e.path) \in FolderTree
  BY FolderIsTree, TreeCalls
<1> QED
  BY <1>1, EntryType, RowTypes, AppliedType DEF ApplyDelete

LEMMA ApplyDirType ==
    ASSUME Typed, NEW e \in pass.page, ApplyDir(e)
    PROVE  Keeps
<1> DEFINE old    == idx[e.node].path
           moving == Known(e.node) /\ old # e.path /\ IsFolder(disk, old)
           made   == MkdirAll(disk, Parent(e.path))
           moved  == IF ~moving THEN disk
                     ELSE IF CanRename(made, old, e.path) THEN Rename(made, old, e.path)
                     ELSE made
<1>1. disk \in FolderTree /\ moved \in FolderTree /\ MkdirAll(moved, e.path) \in FolderTree
  <2>1. disk \in FolderTree /\ made \in FolderTree
    BY FolderIsTree, TreeCalls
  <2> HIDE DEF made
  <2>2. moved \in FolderTree
    BY <2>1, TreeCalls
  <2> HIDE DEF moved
  <2> QED
    BY <2>1, <2>2, TreeCalls
<1>2. \/ Failed(disk) /\ UNCHANGED spent
      \/ Failed(moved) /\ UNCHANGED spent
      \/ Applied(e, MkdirAll(moved, e.path), DirRow(e.path, e.ver))
  BY DEF ApplyDir
<1> HIDE DEF moved
<1> QED
  BY <1>1, <1>2, EntryType, FailedType, AppliedType

LEMMA FetchContentType ==
    ASSUME Typed, NEW e \in pass.page, NEW d \in FolderTree, FetchContent(e, d)
    PROVE  Keeps
<1> DEFINE at == MkdirAll(d, Parent(e.path))
<1>1. at \in FolderTree
  BY TreeCalls
<1>2. \/ Failed(d) /\ UNCHANGED spent
      \/ Failed(at) /\ (Fault \/ UNCHANGED spent)
      \/ /\ e.hash \in Download(e.node)
         /\ Applied(e, [at EXCEPT ![e.path] = e.hash], FileRow(e.path, e.ver, e.hash))
  BY DEF FetchContent
<1> HIDE DEF at
<1>3. CASE e.hash \in Download(e.node)
            /\ Applied(e, [at EXCEPT ![e.path] = e.hash], FileRow(e.path, e.ver, e.hash))
  <2>1. e.hash \in Entry
    BY <1>3 DEF Download, Entry
  <2>2. [at EXCEPT ![e.path] = e.hash] \in FolderTree
    BY <1>1, <2>1, TreeWrite
  <2> QED
    BY <1>3, <2>2, EntryType, AppliedType
<1> QED
  BY <1>1, <1>2, <1>3, FailedType

LEMMA ApplyFileType ==
    ASSUME Typed, NEW e \in pass.page, ApplyFile(e)
    PROVE  Keeps
<1> DEFINE old    == idx[e.node].path
           moving == Known(e.node) /\ old # e.path /\ Exists(disk, old)
           made   == MkdirAll(disk, Parent(e.path))
           here   == IF moving THEN Rename(made, old, e.path) ELSE disk
<1>1. disk \in FolderTree /\ made \in FolderTree /\ here \in FolderTree
  <2>1. disk \in FolderTree /\ made \in FolderTree
    BY FolderIsTree, TreeCalls
  <2> HIDE DEF made
  <2> QED
    BY <2>1, TreeCalls
<1>2. \/ Failed(disk) /\ UNCHANGED spent
      \/ Failed(made) /\ UNCHANGED spent
      \/ Applied(e, here, FileRow(e.path, e.ver, e.hash))
      \/ FetchContent(e, here)
  BY DEF ApplyFile
<1> HIDE DEF made, here
<1> QED
  BY <1>1, <1>2, EntryType, FailedType, AppliedType, FetchContentType

LEMMA ApplyStepType ==
    ASSUME Typed, ApplyStep
    PROVE  Keeps
  BY ApplyDeleteType, ApplyDirType, ApplyFileType, RejectPathType DEF ApplyStep

-----------------------------------------------------------------------------
(* The end of a pass, and the environment.                                 *)

LEMMA EndType ==
    ASSUME Typed, FinishPull \/ FinishReset \/ BreakReset \/ Abort
    PROVE  Keeps
<1>1. ASSUME NEW S
      PROVE  Swept(S) \in FolderTree
  BY DEF Swept, FolderTree, Typed, TypeOK, Entry
<1>2. ASSUME pass' = Idle
      PROVE  pass' \in Pass /\ PushesHavePaths'
  BY <1>2, IdleType DEF PushesHavePaths
<1>3. CASE FinishPull
  BY <1>2, <1>3 DEF FinishPull, Typed, TypeOK, Keeps, SameScope, index, marks
<1>4. CASE FinishReset
  <2>1. disk' \in [Path -> Entry] /\ touched' \subseteq Path /\ unrecorded' \subseteq Path
    BY <1>1, <1>4, DiskType DEF FinishReset, Typed
  <2>2. scopeEpoch' \in Nat
    BY <1>4 DEF FinishReset, Typed, TypeOK, Pass
  <2> QED
    BY <1>2, <1>4, <2>1, <2>2 DEF FinishReset, Typed, TypeOK, Keeps, SameScope
<1>5. CASE BreakReset
  BY <1>1, <1>5, FailedType DEF BreakReset
<1>6. CASE Abort
  <2>1. spent' \in Spent
    BY <1>6, SpentType DEF Abort, Typed
  <2> QED
    BY <1>2, <1>6, <2>1 DEF Abort, Broken, Typed, TypeOK, Keeps, SameScope, Spent, index, marks
<1> QED
  BY <1>3, <1>4, <1>5, <1>6

LEMMA TouchType ==
    ASSUME Typed, NEW d \in FolderTree, Touch(d)
    PROVE  Keeps
<1>1. Changed(d) \subseteq Path
  BY DEF Changed
<1>2. spent' \in Spent
  BY DEF Touch, Typed, TypeOK, Spent
<1> QED
  BY <1>1, <1>2
  DEF Touch, Typed, TypeOK, PushesHavePaths, Keeps, SameScope, Spent, FolderTree, index

LEMMA UserType ==
    ASSUME Typed, User
    PROVE  Keeps
<1>1. ASSUME NEW p \in UserPaths, NEW h \in UserContents, UserWrite(p, h)
      PROVE  Keeps
  <2>1. h \in Entry
    BY EnvironmentAssumption DEF Entry
  <2>2. [disk EXCEPT ![p] = h] \in FolderTree
    BY <2>1, FolderIsTree, TreeWrite
  <2> QED
    BY <1>1, <2>2, TouchType DEF UserWrite
<1>2. ASSUME NEW p \in UserPaths, UserMkdir(p)
      PROVE  Keeps
  <2>1. [disk EXCEPT ![p] = Folder] \in FolderTree
    BY FolderIsTree, TreeWrite DEF Entry
  <2> QED
    BY <1>2, <2>1, TouchType DEF UserMkdir
<1>3. ASSUME NEW p \in UserPaths, UserRemove(p)
      PROVE  Keeps
  BY <1>3, FolderIsTree, TreeCalls, TouchType DEF UserRemove
<1>4. ASSUME NEW p \in UserPaths, NEW q \in UserPaths, UserMove(p, q)
      PROVE  Keeps
  BY <1>4, FolderIsTree, TreeCalls, TouchType DEF UserMove
<1> QED
  BY <1>1, <1>2, <1>3, <1>4 DEF User

LEMMA RemotelyType ==
    ASSUME Typed, NEW s, SameScope(srv, s), Remotely(s)
    PROVE  Keeps
<1>1. spent' \in Spent
  BY DEF Remotely, Typed, TypeOK, Spent
<1> QED
  BY <1>1
  DEF Remotely, Typed, TypeOK, PushesHavePaths, Keeps, SameScope, Spent, index, marks

LEMMA RemoteType ==
    ASSUME Typed, Remote
    PROVE  Keeps
<1>1. srv \in Server /\ RemotePaths \subseteq Path
  BY EnvironmentAssumption DEF Typed, TypeOK
<1>2. RemoteContents \cup {NoHash} \subseteq Hash
  BY EnvironmentAssumption DEF Hash
<1>3. ASSUME NEW p \in RemotePaths, NEW h \in RemoteContents \cup {NoHash},
             RemoteCreate(p, h)
      PROVE  Keeps
  BY <1>1, <1>2, <1>3, MakeScope, RemotelyType DEF RemoteCreate
<1>4. ASSUME NEW n \in Nodes, NEW h \in RemoteContents, RemoteEdit(n, h)
      PROVE  Keeps
  BY <1>1, <1>2, <1>4, WriteScope, RemotelyType DEF RemoteEdit
<1>5. ASSUME NEW n \in Nodes, NEW p \in RemotePaths, RemoteMove(n, p)
      PROVE  Keeps
  BY <1>1, <1>5, RelocateScope, RemotelyType DEF RemoteMove
<1>6. ASSUME NEW n \in Nodes, RemoteDelete(n)
      PROVE  Keeps
  BY <1>1, <1>6, RemoveScope, RemotelyType DEF RemoteDelete
<1> QED
  BY <1>3, <1>4, <1>5, <1>6 DEF Remote

LEMMA ChangeScopeType ==
    ASSUME Typed, ChangeScope
    PROVE  Typed' /\ srv.epoch \in Nat /\ srv'.epoch = srv.epoch + 1
<1>1. srv \in Server
  BY DEF Typed, TypeOK
<1>2. srv' \in Server /\ srv.epoch \in Nat /\ srv'.epoch = srv.epoch + 1
  BY <1>1 DEF ChangeScope, Server
<1> QED
  BY <1>2 DEF ChangeScope, Typed, TypeOK, PushesHavePaths, index, marks

LEMMA StepType ==
    ASSUME Typed, PassStep \/ BreakReset \/ Abort \/ User \/ Remote
    PROVE  Keeps
  BY StartPushType, StartResetType, PushStepType, FetchType, ApplyStepType, EndType,
     UserType, RemoteType DEF PassStep

LEMMA StutterType ==
    ASSUME Typed, UNCHANGED vars
    PROVE  Keeps
  BY DEF vars, Typed, TypeOK, PushesHavePaths, Keeps, SameScope

LEMMA TypedNext == Typed /\ [Next]_vars => Typed'
  BY StepType, ChangeScopeType, StutterType DEF Next, Keeps

-----------------------------------------------------------------------------
(* The initial state.                                                      *)

LEMMA TypedInit == Init => Typed
<1> SUFFICES ASSUME Init
             PROVE  Typed
  OBVIOUS
<1> DEFINE size == Len(Tree)
           kept(i) == [st |-> "live", scope |-> Tree[i].scope, path |-> Tree[i].path,
                       dir |-> Tree[i].hash = NoHash, ver |-> 1, hash |-> Tree[i].hash]
           free == [st |-> "free", scope |-> 0, path |-> Root, dir |-> FALSE,
                    ver |-> 0, hash |-> NoHash]
           here(p) == {i \in 1..size : Tree[i].scope = 0 /\ Tree[i].path = p}
           entry(i) == [seq |-> i, node |-> i, path |-> Tree[i].path,
                        dir |-> Tree[i].hash = NoHash, ver |-> 1,
                        hash |-> Tree[i].hash, deleted |-> FALSE]
           row(i) == [path |-> Tree[i].path, dir |-> Tree[i].hash = NoHash,
                      ver |-> 1, hash |-> Tree[i].hash]
           content(i) == IF Tree[i].hash = NoHash THEN Folder ELSE Tree[i].hash
<1>1. size \in Nat /\ 1..size \subseteq Nodes
  BY TreeAssumption, LenProperties
<1>2. ASSUME NEW i \in 1..size
      PROVE  Tree[i] \in [path : Path, hash : Hash, scope : Nat]
  BY TreeAssumption, ElementOfSeq
<1>3. ASSUME NEW i \in 1..size
      PROVE  /\ kept(i) \in Node /\ entry(i) \in Change /\ row(i) \in Row
             /\ content(i) \in Entry /\ Tree[i].hash \in Hash
  <2>1. Tree[i].path \in Path /\ Tree[i].hash \in Hash /\ Tree[i].scope \in Nat
    BY <1>2
  <2>2. i \in Nodes /\ i \in Nat
    BY <1>1
  <2>3. kept(i) \in Node /\ row(i) \in Row
    BY <2>1 DEF Node, Row
  <2>4. entry(i) \in Change
    BY <2>1, <2>2 DEF Change
  <2>5. content(i) \in Entry
    BY <2>1 DEF Entry, Hash
  <2> QED
    BY <2>1, <2>3, <2>4, <2>5
<1>4. free \in Node
  BY DEF Node, Hash
<1> HIDE DEF kept, free, entry, row, content, size
<1>5. srv = [nodes |-> [n \in Nodes |-> IF n \in 1..size THEN kept(n) ELSE free],
             feed |-> {entry(i) : i \in 1..size}, head |-> size, epoch |-> 0,
             history |-> {Tree[i].hash : i \in 1..size} \ {NoHash}]
  BY DEF Init, kept, free, entry, size
<1>6. srv \in Server
  <2>1. [n \in Nodes |-> IF n \in 1..size THEN kept(n) ELSE free] \in [Nodes -> Node]
    BY <1>3, <1>4
  <2>2. {entry(i) : i \in 1..size} \in SUBSET Change
    BY <1>3
  <2>3. {Tree[i].hash : i \in 1..size} \ {NoHash} \in SUBSET Contents
    BY <1>3 DEF Hash
  <2> QED
    BY <1>1, <1>5, <2>1, <2>2, <2>3 DEF Server
<1>7. disk \in [Path -> Entry]
  <2>1. disk = [p \in Path |-> IF here(p) = {} THEN Absent
                               ELSE content(CHOOSE j \in here(p) : TRUE)]
    BY DEF Init, content, size
  <2>2. ASSUME NEW p \in Path, here(p) # {}
        PROVE  content(CHOOSE j \in here(p) : TRUE) \in Entry
    <3> DEFINE j == CHOOSE j \in here(p) : TRUE
    <3>1. j \in 1..size
      BY <2>2
    <3> HIDE DEF j
    <3>2. content(j) \in Entry
      BY <3>1, <1>3
    <3> QED
      BY <3>2 DEF j
  <2>3. Absent \in Entry
    BY DEF Entry
  <2> QED
    BY <2>1, <2>2, <2>3
<1>8. idx \in [Nodes -> Row]
  <2>1. idx = [n \in Nodes |-> IF n \in 1..size /\ Tree[n].scope = 0 THEN row(n) ELSE NoRow]
    BY DEF Init, row, size
  <2> QED
    BY <1>3, <2>1, RowTypes
<1>9. cursor \in Nat /\ scopeEpoch \in Nat /\ rebuilding \in BOOLEAN
      /\ touched \subseteq Path /\ unrecorded \subseteq Path
      /\ spent \in [user : Nat, remote : Nat, fault : Nat]
  BY <1>1 DEF Init, size
<1>10. pass \in Pass /\ PushesHavePaths
  BY IdleType DEF Init, PushesHavePaths
<1> QED
  BY <1>6, <1>7, <1>8, <1>9, <1>10 DEF Typed, TypeOK

LEMMA SpecTyped == Spec => []Typed
  BY TypedInit, TypedNext, PTL DEF Spec

\* Every variable of the device, of the server and of a running pass keeps to
\* its type, whatever the user, the other devices and the faults do: no step of
\* the engine makes a row, an entry or a local change that is none.
THEOREM EngineTypeCorrect == Spec => []TypeOK
<1>1. Typed => TypeOK
  BY DEF Typed
<1> QED
  BY <1>1, SpecTyped, PTL

-----------------------------------------------------------------------------
(* A rebuild for another scope.                                            *)

IInv == EpochsInOrder /\ NoPushWhileRebuilding

LEMMA ScopeInit == Init => IInv
  BY IdleType DEF Init, IInv, EpochsInOrder, NoPushWhileRebuilding

\* The epochs are numbers.
LEMMA EpochTypes ==
    ASSUME Typed
    PROVE  srv.epoch \in Nat /\ scopeEpoch \in Nat /\ pass.meta \in Nat /\ pass \in Pass
  BY DEF Typed, TypeOK, Server, Pass

\* Steps that leave the epochs, the flag and a pass's own epoch alone, and do not
\* start a push.
SameRebuild ==
    /\ srv'.epoch = srv.epoch /\ UNCHANGED <<scopeEpoch, rebuilding>>
    /\ \/ pass'.pc = "idle"
       \/ pass'.pc = pass.pc /\ pass'.meta = pass.meta
       \/ pass.pc # "idle" /\ pass'.pc = "apply" /\ pass'.meta = pass.meta

LEMMA SameRebuildKeeps ==
    ASSUME IInv, SameRebuild
    PROVE  IInv'
  BY DEF IInv, EpochsInOrder, NoPushWhileRebuilding, SameRebuild

\* Every way a step of push or apply ends leaves them alone.
LEMMA EndsSameRebuild ==
    ASSUME Typed, srv'.epoch = srv.epoch
    PROVE  /\ \A c, s, i : Pushed(c, s, i) => SameRebuild
           /\ \A s, i : Refused(s, i) => SameRebuild
           /\ \A e, d, row : Applied(e, d, row) => SameRebuild
           /\ \A d : Failed(d) => SameRebuild
<1>1. pass \in Pass
  BY EpochTypes
<1>2. Broken => pass'.pc = "idle"
  BY IdleType DEF Broken
<1>3. ASSUME NEW c, NEW s, NEW i, Pushed(c, s, i)
      PROVE  SameRebuild
  BY <1>1, <1>2, <1>3 DEF Pushed, SameRebuild, Pass
<1>4. ASSUME NEW e, NEW d, NEW row, Applied(e, d, row)
      PROVE  SameRebuild
  BY <1>1, <1>2, <1>4 DEF Applied, SameRebuild, Pass
<1>5. ASSUME NEW s, NEW i, Refused(s, i)
      PROVE  SameRebuild
  BY <1>2, <1>5 DEF Refused, SameRebuild
<1>6. ASSUME NEW d, Failed(d)
      PROVE  SameRebuild
  BY <1>2, <1>6 DEF Failed, SameRebuild, index
<1> QED
  BY <1>3, <1>4, <1>5, <1>6

LEMMA PushSameRebuild ==
    ASSUME Typed, PushStep
    PROVE  SameRebuild
<1>1. srv'.epoch = srv.epoch
  BY PushStepType DEF Keeps, SameScope
<1>2. ASSUME NEW c \in pass.pending, RefusePath(c)
      PROVE  SameRebuild
  BY <1>1, <1>2, IdleType DEF RefusePath, Broken, SameRebuild, index
<1>3. ASSUME NEW c \in pass.pending,
             PushDir(c) \/ PushFileChange(c) \/ PushMove(c) \/ PushDelete(c)
      PROVE  \/ \E s, i : Pushed(c, s, i)
             \/ \E s, i : Refused(s, i)
  <2>1. CASE PushDir(c)
    BY <2>1 DEF PushDir
  <2>2. CASE PushFileChange(c)
    BY <2>2 DEF PushFileChange
  <2>3. CASE PushMove(c)
    BY <2>3 DEF PushMove
  <2>4. CASE PushDelete(c)
    BY <2>4 DEF PushDelete
  <2> QED
    BY <1>3, <2>1, <2>2, <2>3, <2>4
<1> QED
  BY <1>1, <1>2, <1>3, EndsSameRebuild DEF PushStep

LEMMA ApplySameRebuild ==
    ASSUME Typed, ApplyStep
    PROVE  SameRebuild
<1>1. srv'.epoch = srv.epoch
  BY ApplyStepType DEF Keeps, SameScope
<1>2. ASSUME NEW e \in pass.page,
             ApplyDelete(e) \/ ApplyDir(e) \/ ApplyFile(e) \/ RejectPath(e)
      PROVE  \/ \E d, row : Applied(e, d, row)
             \/ \E d : Failed(d)
  BY <1>2 DEF ApplyDelete, ApplyDir, ApplyFile, FetchContent, RejectPath
<1> QED
  BY <1>1, <1>2, EndsSameRebuild DEF ApplyStep

LEMMA FetchSameRebuild ==
    ASSUME Typed, Fetch
    PROVE  SameRebuild
  BY EpochTypes, FetchType DEF Fetch, SameRebuild, Pass, Keeps, SameScope, index

LEMMA ScopeNext == Typed /\ IInv /\ [Next]_vars => IInv'
<1> SUFFICES ASSUME Typed, IInv, [Next]_vars
             PROVE  IInv'
  OBVIOUS
<1> USE DEF IInv, EpochsInOrder, NoPushWhileRebuilding
<1>1. CASE StartPush
  BY <1>1, EpochTypes DEF StartPush, Idle, index, Pass
<1>2. CASE StartReset
  BY <1>2, EpochTypes DEF StartReset, Idle, Pass
<1>3. CASE PushStep
  BY <1>3, PushSameRebuild, SameRebuildKeeps
<1>4. CASE Fetch
  BY <1>4, FetchSameRebuild, SameRebuildKeeps
<1>5. CASE ApplyStep
  BY <1>5, ApplySameRebuild, SameRebuildKeeps
<1>6. CASE FinishPull
  BY <1>6, IdleType DEF FinishPull, index
<1>7. CASE FinishReset
  BY <1>7, EpochTypes, IdleType DEF FinishReset, Finished
<1>8. CASE BreakReset
  BY <1>8, IdleType DEF BreakReset, Failed, Broken, index
<1>9. CASE Abort
  BY <1>9, IdleType DEF Abort, Broken, index
<1>10. CASE User
  <2>1. UNCHANGED <<srv, scopeEpoch, rebuilding, pass>>
    <3>1. \E d : Touch(d)
      BY <1>10 DEF User, UserWrite, UserMkdir, UserRemove, UserMove
    <3> QED
      BY <3>1 DEF Touch, index
  <2> QED
    BY <2>1
<1>11. CASE Remote
  <2>1. srv'.epoch = srv.epoch
    BY <1>11, RemoteType DEF Keeps, SameScope
  <2>2. UNCHANGED <<scopeEpoch, rebuilding, pass>>
    BY <1>11
    DEF Remote, RemoteCreate, RemoteEdit, RemoteMove, RemoteDelete, Remotely, index
  <2> QED
    BY <2>1, <2>2
<1>12. CASE ChangeScope
  BY <1>12, EpochTypes, ChangeScopeType DEF ChangeScope, index
<1>13. CASE UNCHANGED vars
  BY <1>13 DEF vars
<1> QED
  BY <1>1, <1>2, <1>3, <1>4, <1>5, <1>6, <1>7, <1>8, <1>9, <1>10, <1>11, <1>12,
     <1>13 DEF Next, PassStep

LEMMA SpecScope == Spec => []IInv
<1>1. Typed /\ IInv /\ [Next]_vars => IInv'
  BY ScopeNext
<1> QED
  BY <1>1, ScopeInit, SpecTyped, PTL DEF Spec

\* From the moment ResetForScope clears the index until the new epoch is
\* recorded, however many passes are cut in between, no pass pushes: SyncOnce
\* compares epochs before it pushes, and the recorded one stays behind.
THEOREM RebuildNeverPushes == Spec => []NoPushWhileRebuilding
<1>1. IInv => NoPushWhileRebuilding
  BY DEF IInv
<1> QED
  BY <1>1, SpecScope, PTL

\* The epoch on record is never ahead of the server's, and a rebuild is always
\* for a later epoch than the one on record.
THEOREM EpochsStayInOrder == Spec => []EpochsInOrder
<1>1. IInv => EpochsInOrder
  BY DEF IInv
<1> QED
  BY <1>1, SpecScope, PTL

-----------------------------------------------------------------------------
(* The cursor and the index.  What is seen is in the index.                *)

\* The row of a node that the device has seen all of.
ServerRow(x) == IF x.st = "dead" THEN NoRow
                ELSE [path |-> x.path, dir |-> x.dir, ver |-> x.ver, hash |-> x.hash]

\* The index is, or is being rebuilt as, the server's scope.
Current == \/ srv.epoch = scopeEpoch /\ ~rebuilding
           \/ pass.pc # "idle" /\ pass.reset /\ pass.meta = srv.epoch

\* The nodes of the scope whose every change is behind the cursor.
Settled(s, n) == s.nodes[n].st # "free" /\ s.nodes[n].scope = s.epoch /\ Seen(s, n, cursor)

Covers == Current => \A n \in Nodes : Settled(srv, n) => idx[n] = ServerRow(srv.nodes[n])

KnownCovers == Current /\ pass.pc = "push" =>
    \A k \in pass.known : Settled(srv, k.node) =>
        [path |-> k.path, dir |-> k.dir, ver |-> k.ver, hash |-> k.hash]
            = ServerRow(srv.nodes[k.node])

\* A move has two places.
MovesMove == \A c \in pass.pending :
                c.op = "move" => c.from # c.path /\ c.from \in Path /\ c.path \in Path

\* The page a pass holds: entries of the feed after the cursor, unless the feed has
\* a later one of the same node by now.
Listed(s, e) == e \in s.feed \/ \E f \in s.feed : f.node = e.node /\ e.seq < f.seq
PageInOrder ==
    /\ cursor =< srv.head /\ pass.since =< srv.head
    /\ pass.pc = "apply" => cursor =< pass.since
    /\ \A e \in pass.page : cursor < e.seq /\ e.seq =< pass.since /\ Listed(srv, e)
    /\ \A e, f \in pass.page : e.seq = f.seq => e = f

\* And nothing of the scope is passed over.
PageIsNext == Current /\ pass.pc = "apply" =>
    \A e \in srv.feed :
        srv.nodes[e.node].scope = srv.epoch /\ cursor < e.seq /\ e.seq =< pass.since
            => e \in pass.page

CInv == /\ InOrder(srv) /\ Covers /\ KnownCovers /\ MovesMove /\ PageInOrder /\ PageIsNext

-----------------------------------------------------------------------------
\* Steps that go on with the same pass, or end it, at the same cursor.
SamePass == /\ pass'.pc = pass.pc /\ pass'.reset = pass.reset /\ pass'.meta = pass.meta
            /\ pass'.known = pass.known /\ pass'.since = pass.since /\ pass'.page = pass.page
            /\ pass'.pending \subseteq pass.pending

SameCursor == /\ UNCHANGED <<cursor, scopeEpoch, rebuilding>>
              /\ pass' = Idle \/ SamePass

\* Rows that are as they were, or as the server has the node if there is nothing
\* more to see of it.
RowsFollow(s, i) == \A n \in Nodes : \/ i[n] = idx[n]
                                     \/ Settled(s, n) => i[n] = ServerRow(s.nodes[n])

LEMMA CoverTypes ==
    ASSUME Typed
    PROVE  /\ srv \in Server /\ cursor \in Nat /\ pass \in Pass /\ pass.since \in Nat
           /\ srv.head \in Nat
           /\ \A e \in srv.feed : e.seq \in Nat /\ e.node \in Nodes
           /\ \A e \in pass.page : e.seq \in Nat /\ e.node \in Nodes
           /\ \A k \in pass.known : k.node \in Nodes
<1>1. srv \in Server /\ cursor \in Nat /\ pass \in Pass
  BY DEF Typed, TypeOK
<1>2. pass.since \in Nat /\ pass.page \in SUBSET Change /\ pass.known \in SUBSET KnownRow
  BY <1>1 DEF Pass
<1> QED
  BY <1>1, <1>2, ServerTypes DEF Change, KnownRow

\* What is settled later was settled before, and has not changed.
LEMMA SettledBefore ==
    ASSUME NEW s \in Server, NEW t \in Server, Advance(s, t), cursor \in Nat, cursor =< s.head,
           NEW n \in Nodes, Settled(t, n)
    PROVE  Settled(s, n) /\ s.nodes[n] = t.nodes[n] /\ ~Fresh(s, t, n)
<1>1. Unchanged(s, t, n) /\ Seen(s, n, cursor)
  BY SeenBefore DEF Settled
<1>2. ~Fresh(s, t, n)
  BY ServerTypes DEF Fresh, Settled, Seen
<1> QED
  BY <1>1, <1>2 DEF Settled, Unchanged, Advance

LEMMA ListedLater ==
    ASSUME NEW s \in Server, NEW t \in Server, InOrder(s), Advance(s, t),
           NEW e, e.seq \in Nat, e.node \in Nodes, Listed(s, e)
    PROVE  Listed(t, e)
<1>1. /\ s.head \in Nat /\ \A f \in s.feed \cup t.feed : f.seq \in Nat
      /\ \A f \in s.feed : f.seq =< s.head
  BY ServerTypes DEF InOrder, FeedInOrder
<1>2. CASE Unchanged(s, t, e.node)
  BY <1>2 DEF Unchanged, Listed
<1>3. CASE Fresh(s, t, e.node)
  <2>1. PICK f \in t.feed : f.node = e.node /\ s.head < f.seq
    BY <1>3 DEF Fresh
  <2>2. e.seq < f.seq
    BY <1>1, <2>1 DEF Listed
  <2> QED
    BY <2>1, <2>2 DEF Listed
<1> QED
  BY <1>2, <1>3 DEF Advance

LEMMA SameCursorKeeps ==
    ASSUME Typed, CInv, SameCursor, Continues(srv, srv'), Current => RowsFollow(srv', idx')
    PROVE  CInv'
<1>1. /\ srv \in Server /\ srv' \in Server /\ cursor \in Nat /\ cursor' = cursor
      /\ srv'.epoch = srv.epoch /\ Advance(srv, srv') /\ InOrder(srv) /\ InOrder(srv')
      /\ cursor =< srv.head /\ srv.head =< srv'.head /\ srv'.head \in Nat /\ srv.head \in Nat
  BY CoverTypes, ServerTypes DEF SameCursor, Continues, Advance, CInv, PageInOrder
<1>2. Current' => Current
  BY <1>1 DEF Current, SameCursor, SamePass, Idle
<1>3. ASSUME NEW n \in Nodes, Settled(srv, n)'
      PROVE  Settled(srv, n) /\ srv'.nodes[n] = srv.nodes[n] /\ Settled(srv', n)
  <2>1. Settled(srv', n)
    BY <1>1, <1>3 DEF Settled
  <2> QED
    BY <1>1, <2>1, SettledBefore
<1>4. Covers'
  <2> SUFFICES ASSUME Current', NEW n \in Nodes, Settled(srv, n)'
               PROVE  idx'[n] = ServerRow(srv'.nodes[n])
    BY DEF Covers
  <2>1. idx[n] = ServerRow(srv.nodes[n])
    BY <1>2, <1>3 DEF CInv, Covers
  <2> QED
    BY <1>2, <1>3, <2>1 DEF RowsFollow
<1>5. CASE pass' = Idle
  <2>1. pass'.pc = "idle" /\ pass'.pending = {} /\ pass'.page = {} /\ pass'.since = 0
    BY <1>5 DEF Idle
  <2>2. KnownCovers' /\ MovesMove' /\ PageIsNext'
    BY <2>1 DEF KnownCovers, MovesMove, PageIsNext
  <2>3. PageInOrder'
    BY <1>1, <2>1 DEF PageInOrder
  <2> QED
    BY <1>1, <1>4, <2>2, <2>3 DEF CInv
<1>6. CASE SamePass
  <2>1. KnownCovers'
    <3> SUFFICES ASSUME Current', pass'.pc = "push", NEW k \in pass'.known,
                        Settled(srv, k.node)'
                 PROVE  [path |-> k.path, dir |-> k.dir, ver |-> k.ver, hash |-> k.hash]
                          = ServerRow(srv'.nodes[k.node])
      BY DEF KnownCovers
    <3>1. k \in pass.known /\ pass.pc = "push" /\ Current /\ k.node \in Nodes
      BY <1>2, <1>6, CoverTypes DEF SamePass
    <3> QED
      BY <1>3, <3>1 DEF CInv, KnownCovers
  <2>2. MovesMove'
    BY <1>6 DEF SamePass, CInv, MovesMove
  <2>3. PageInOrder'
    <3>1. \A e \in pass.page : Listed(srv', e)
      BY <1>1, CoverTypes, ListedLater DEF CInv, PageInOrder
    <3>2. pass.since =< srv'.head /\ cursor =< srv'.head
      BY <1>1, CoverTypes DEF CInv, PageInOrder
    <3> QED
      BY <1>1, <1>6, <3>1, <3>2 DEF SamePass, CInv, PageInOrder, Listed
  <2>4. PageIsNext'
    <3> SUFFICES ASSUME Current', pass'.pc = "apply", NEW e \in srv'.feed,
                        srv'.nodes[e.node].scope = srv'.epoch, cursor' < e.seq,
                        e.seq =< pass'.since
                 PROVE  e \in pass'.page
      BY DEF PageIsNext
    <3>1. pass.pc = "apply" /\ e.seq =< pass.since /\ pass.since =< srv.head
          /\ pass.since \in Nat /\ e.seq \in Nat
      BY <1>1, <1>6, CoverTypes, ServerTypes DEF SamePass, CInv, PageInOrder
    <3>2. e \in srv.feed
      BY <1>1, <3>1 DEF Advance
    <3>3. srv.nodes[e.node].scope = srv'.nodes[e.node].scope
      <4>1. e.node \in Nodes /\ srv.nodes[e.node].st # "free"
        BY <1>1, <3>2, CoverTypes DEF InOrder, FeedInOrder
      <4> QED
        BY <1>1, <4>1 DEF Advance
    <3> QED
      BY <1>1, <1>2, <1>6, <3>1, <3>2, <3>3 DEF CInv, PageIsNext, SamePass
  <2> QED
    BY <1>1, <1>4, <2>1, <2>2, <2>3, <2>4 DEF CInv
<1> QED
  BY <1>5, <1>6 DEF SameCursor

-----------------------------------------------------------------------------
(* The ends of a pass, and the environment.                                *)

LEMMA RowsStay ==
    ASSUME UNCHANGED idx
    PROVE  \A s : RowsFollow(s, idx')
  BY DEF RowsFollow

LEMMA ServerStays ==
    ASSUME Typed, CInv, UNCHANGED srv
    PROVE  Continues(srv, srv')
  BY CoverTypes, ContinuesSame DEF CInv

\* Steps that leave the server and the index alone.
LEMMA QuietKeeps ==
    ASSUME Typed, CInv, UNCHANGED <<srv, index, rebuilding>>, pass' = Idle \/ SamePass
    PROVE  CInv'
  BY RowsStay, ServerStays, SameCursorKeeps DEF SameCursor, index

LEMMA EndsKeep ==
    ASSUME Typed, CInv, FinishPull \/ BreakReset \/ Abort \/ User \/ UNCHANGED vars
    PROVE  CInv'
<1>1. UNCHANGED <<srv, index, rebuilding>>
  <2>1. CASE User
    <3>1. \E d : Touch(d)
      BY <2>1 DEF User, UserWrite, UserMkdir, UserRemove, UserMove
    <3> QED
      BY <3>1 DEF Touch
  <2> QED
    BY <2>1 DEF FinishPull, BreakReset, Abort, Failed, vars, index
<1>2. pass' = Idle \/ SamePass
  <2>1. CASE User
    <3>1. \E d : Touch(d)
      BY <2>1 DEF User, UserWrite, UserMkdir, UserRemove, UserMove
    <3> QED
      BY <3>1 DEF Touch, SamePass
  <2> QED
    BY <2>1 DEF FinishPull, BreakReset, Abort, Failed, Broken, vars, SamePass
<1> QED
  BY <1>1, <1>2, QuietKeeps

\* The other devices.
LEMMA RemoteKeeps ==
    ASSUME Typed, CInv, Remote
    PROVE  CInv'
<1>1. srv \in Server /\ InOrder(srv)
  BY CoverTypes DEF CInv
<1>2. SUFFICES ASSUME NEW t, Remotely(t), Continues(srv, t)
               PROVE  CInv'
  <2>1. RemoteContents \cup {NoHash} \subseteq Hash /\ RemotePaths \subseteq Path
    BY EnvironmentAssumption DEF Hash
  <2>2. ASSUME NEW p \in RemotePaths, NEW h \in RemoteContents \cup {NoHash}, RemoteCreate(p, h)
        PROVE  \E t : Remotely(t) /\ Continues(srv, t)
    <3> DEFINE t == Make(srv, p, h)
    <3>1. t \in Server
      BY <1>1, <2>1, MakeScope DEF SameScope
    <3>2. InOrder(t) /\ Advance(srv, t)
      BY <1>1, <2>1, <2>2, MakeKeepsOrder DEF RemoteCreate
    <3> QED
      BY <2>2, <3>1, <3>2 DEF RemoteCreate, Continues
  <2>3. ASSUME NEW n \in Nodes, NEW h \in RemoteContents, RemoteEdit(n, h)
        PROVE  \E t : Remotely(t) /\ Continues(srv, t)
    <3> DEFINE t == Write(srv, n, h)
    <3>1. t \in Server
      BY <1>1, <2>1, WriteScope DEF SameScope
    <3>2. InOrder(t) /\ Advance(srv, t)
      BY <1>1, <2>1, <2>3, WriteKeepsOrder DEF RemoteEdit
    <3> QED
      BY <2>3, <3>1, <3>2 DEF RemoteEdit, Continues
  <2>4. ASSUME NEW n \in Nodes, NEW p \in RemotePaths, RemoteMove(n, p)
        PROVE  \E t : Remotely(t) /\ Continues(srv, t)
    <3> DEFINE t == Relocate(srv, n, p)
    <3>1. t \in Server
      BY <1>1, <2>1, <2>4, RelocateScope DEF SameScope, RemoteMove
    <3>2. InOrder(t) /\ Advance(srv, t)
      BY <1>1, <2>1, <2>4, RelocateKeepsOrder DEF RemoteMove
    <3> QED
      BY <2>4, <3>1, <3>2 DEF RemoteMove, Continues
  <2>5. ASSUME NEW n \in Nodes, RemoteDelete(n)
        PROVE  \E t : Remotely(t) /\ Continues(srv, t)
    <3> DEFINE t == Remove(srv, n)
    <3>1. t \in Server
      BY <1>1, RemoveScope DEF SameScope
    <3>2. InOrder(t) /\ Advance(srv, t)
      BY <1>1, <2>5, RemoveKeepsOrder DEF RemoteDelete
    <3> QED
      BY <2>5, <3>1, <3>2 DEF RemoteDelete, Continues
  <2> QED
    BY <1>2, <2>2, <2>3, <2>4, <2>5 DEF Remote
<1>3. srv' = t /\ UNCHANGED <<idx, cursor, scopeEpoch, rebuilding, pass>>
  BY <1>2 DEF Remotely, index
<1>4. SameCursor /\ RowsFollow(srv', idx')
  BY <1>3, RowsStay DEF SameCursor, SamePass
<1> QED
  BY <1>2, <1>3, <1>4, SameCursorKeeps

\* Another scope: what the index is of is no longer the server's.
LEMMA ChangeScopeKeeps ==
    ASSUME Typed, IInv, CInv, ChangeScope
    PROVE  CInv'
<1>1. /\ srv'.nodes = srv.nodes /\ srv'.feed = srv.feed /\ srv'.head = srv.head
      /\ srv'.epoch = srv.epoch + 1 /\ srv.epoch \in Nat
  BY CoverTypes, ServerTypes DEF ChangeScope, Server
<1>2. UNCHANGED <<idx, cursor, scopeEpoch, rebuilding, pass>>
  BY DEF ChangeScope, index
<1>3. ~Current'
  BY <1>1, <1>2, EpochTypes DEF Current, IInv, EpochsInOrder
<1>4. InOrder(srv')
  BY <1>1 DEF CInv, InOrder, FeedInOrder, FeedIsCurrent, Seen, InFolders, Older
<1>5. PageInOrder' /\ MovesMove'
  BY <1>1, <1>2 DEF CInv, PageInOrder, MovesMove, Listed
<1> QED
  BY <1>3, <1>4, <1>5 DEF CInv, Covers, KnownCovers, PageIsNext

-----------------------------------------------------------------------------
(* Starting and ending.                                                    *)

LEMMA StartResetKeeps ==
    ASSUME Typed, CInv, StartReset
    PROVE  CInv'
<1>1. /\ srv' = srv /\ cursor' = 0 /\ \A n \in Nodes : idx'[n] = NoRow
      /\ pass' = [pc |-> "pull", reset |-> TRUE, meta |-> srv.epoch, pending |-> {},
                  known |-> {}, since |-> 0, page |-> {}, more |-> FALSE]
  BY DEF StartReset, Idle
<1>2. ASSUME NEW n \in Nodes, Settled(srv, n)'
      PROVE  FALSE
  <2>1. srv.nodes[n].st # "free" /\ \A e \in srv.feed : e.node = n => e.seq =< 0
    BY <1>1, <1>2 DEF Settled, Seen
  <2>2. PICK e \in srv.feed : e.node = n
    BY <2>1 DEF CInv, InOrder, FeedIsCurrent
  <2>3. 0 < e.seq /\ e.seq \in Nat
    BY CoverTypes DEF CInv, InOrder, FeedInOrder
  <2> QED
    BY <2>1, <2>2, <2>3
<1>3. Covers'
  BY <1>2 DEF Covers
<1>4. PageInOrder'
  BY <1>1, CoverTypes DEF PageInOrder
<1> QED
  BY <1>1, <1>3, <1>4 DEF CInv, KnownCovers, MovesMove, PageIsNext

LEMMA FinishResetKeeps ==
    ASSUME Typed, CInv, FinishReset
    PROVE  CInv'
<1>1. /\ UNCHANGED <<srv, idx, cursor>> /\ pass.pc = "apply" /\ pass.reset
      /\ scopeEpoch' = pass.meta /\ pass' = Idle
  BY DEF FinishReset, Finished
<1>2. pass'.pc = "idle" /\ pass'.pending = {} /\ pass'.page = {} /\ pass'.since = 0
  BY <1>1 DEF Idle
<1>3. Current' => Current
  BY <1>1, <1>2 DEF Current
<1>4. Covers'
  BY <1>1, <1>3 DEF CInv, Covers, Settled
<1>5. PageInOrder'
  BY <1>1, <1>2, CoverTypes DEF CInv, PageInOrder
<1> QED
  BY <1>1, <1>2, <1>4, <1>5 DEF CInv, KnownCovers, MovesMove, PageIsNext

-----------------------------------------------------------------------------
(* Starting a pass, and a page of the feed.                                *)

\* A pair moves from a place where nothing is to one where something is.
LEMMA PairsMove ==
    ASSUME NEW C \in SUBSET Local, NEW M \in Pairings(C),
           \A x \in C : /\ x.op # "move" /\ x.path \in Path
                        /\ x.op = "create" => Exists(disk, x.path)
                        /\ x.op = "delete" => ~Exists(disk, x.path),
           NEW c \in pairLocalMoves(C, M), c.op = "move"
    PROVE  c.from # c.path /\ c.from \in Path /\ c.path \in Path
<1> DEFINE move(x) == [x[2] EXCEPT !.op = "move", !.from = x[1].path]
<1>1. ASSUME NEW x \in M
      PROVE  /\ x[1] \in C /\ x[2] \in C /\ x[1].op = "delete" /\ x[2].op = "create"
             /\ move(x).path = x[2].path /\ move(x).from = x[1].path
  <2>1. x[1] \in C /\ x[2] \in C /\ x[1].op = "delete" /\ x[2].op = "create"
    BY DEF Pairings
  <2>2. x[2] \in Local
    BY <2>1
  <2> QED
    BY <2>1, <2>2 DEF Local
<1>2. pairLocalMoves(C, M) \subseteq C \cup {move(x) : x \in M}
  BY Zenon DEF pairLocalMoves
<1> HIDE DEF move
<1>3. PICK x \in M : c = move(x)
  BY <1>2
<1> QED
  BY <1>1, <1>3

\* What DetectLocal finds on disk is there, and what it misses is not.
LEMMA DetectLocalFinds ==
    ASSUME Typed, NEW K \in SUBSET Nodes, NEW x \in DetectLocal(K)
    PROVE  /\ x.op # "move" /\ x.path \in Path
           /\ x.op = "create" => Exists(disk, x.path)
           /\ x.op = "delete" => ~Exists(disk, x.path)
<1> DEFINE hashOf(p) == IF IsFile(disk, p) THEN disk[p] ELSE NoHash
           found(op, p) == [op |-> op, path |-> p, from |-> Root, node |-> 0,
                            dir |-> IsFolder(disk, p), hash |-> hashOf(p)]
           gone(n) == [op |-> "delete", path |-> idx[n].path, from |-> Root, node |-> n,
                       dir |-> idx[n].dir, hash |-> idx[n].hash]
<1>1. DetectLocal(K) \subseteq {found("create", p) : p \in {q \in Path : Exists(disk, q)}}
                               \cup {found("update", p) : p \in Path}
                               \cup {gone(n) : n \in {m \in Nodes : ~Exists(disk, idx[m].path)}}
  BY DEF DetectLocal
<1>2. /\ \A op, p : found(op, p).op = op /\ found(op, p).path = p
      /\ \A n : gone(n).op = "delete" /\ gone(n).path = idx[n].path
  OBVIOUS
<1>3. ASSUME NEW n \in Nodes, ~Exists(disk, idx[n].path)
      PROVE  idx[n].path \in Path
  <2>1. idx[n].path \in Path \cup {Root}
    BY DEF Typed, TypeOK, Row
  <2> QED
    BY <1>3, <2>1 DEF Exists
<1> HIDE DEF found, gone
<1> QED
  BY <1>1, <1>2, <1>3

LEMMA StartPushKeeps ==
    ASSUME Typed, CInv, StartPush
    PROVE  CInv'
<1>0. PICK K \in KnownNodes : \E M \in Pairings(DetectLocal(K)) :
         pass' = [Idle EXCEPT !.pc = "push", !.meta = srv.epoch,
                              !.pending = pairLocalMoves(DetectLocal(K), M),
                              !.known = {RowOf(n) : n \in K}]
  BY Zenon DEF StartPush
<1>1. PICK M \in Pairings(DetectLocal(K)) :
         pass' = [Idle EXCEPT !.pc = "push", !.meta = srv.epoch,
                              !.pending = pairLocalMoves(DetectLocal(K), M),
                              !.known = {RowOf(n) : n \in K}]
  BY <1>0, Zenon
<1> DEFINE pending == pairLocalMoves(DetectLocal(K), M)
           known == {RowOf(n) : n \in K}
<1>2. pass' = [pc |-> "push", reset |-> FALSE, meta |-> srv.epoch, pending |-> pending,
               known |-> known, since |-> 0, page |-> {}, more |-> FALSE]
  <2> HIDE DEF pending, known
  <2> QED
    BY <1>1 DEF Idle, pending, known
<1>3. MovesMove'
  <2>1. pass'.pending = pending
    <3> HIDE DEF pending, known
    <3> QED
      BY <1>2
  <2>2. K \in SUBSET Nodes
    BY DEF KnownNodes
  <2>3. DetectLocal(K) \in SUBSET Local
    BY <2>2, DetectLocalType DEF Typed
  <2>4. \A c \in pending : c.op = "move" => c.from # c.path /\ c.from \in Path /\ c.path \in Path
    BY <2>2, <2>3, DetectLocalFinds, PairsMove
  <2> HIDE DEF pending
  <2> QED
    BY <2>1, <2>4 DEF MovesMove
<1> HIDE DEF pending
<1>4. UNCHANGED <<srv, idx, cursor, scopeEpoch, rebuilding>>
  BY DEF StartPush, index
<1>5. pass'.pc = "push" /\ pass'.reset = FALSE /\ pass'.known = known /\ pass'.since = 0
      /\ pass'.page = {}
  <2> HIDE DEF known
  <2> QED
    BY <1>2
<1>6. Current' => Current
  BY <1>4, <1>5 DEF Current
<1>7. Covers'
  BY <1>4, <1>6 DEF CInv, Covers, Settled
<1>8. KnownCovers'
  <2> SUFFICES ASSUME Current', NEW k \in known, Settled(srv, k.node)'
               PROVE  [path |-> k.path, dir |-> k.dir, ver |-> k.ver, hash |-> k.hash]
                        = ServerRow(srv'.nodes[k.node])
    BY <1>5 DEF KnownCovers
  <2>1. PICK n \in K : k = RowOf(n)
    OBVIOUS
  <2>2. k.node = n /\ n \in Nodes
    BY <2>1 DEF RowOf, KnownNodes
  <2>3. [path |-> k.path, dir |-> k.dir, ver |-> k.ver, hash |-> k.hash] = idx[n]
    <3>1. idx[n] \in Row
      BY <2>2 DEF Typed, TypeOK
    <3> QED
      BY <2>1, <3>1 DEF RowOf, Row
  <2>4. idx'[n] = ServerRow(srv'.nodes[n])
    BY <1>7, <2>2 DEF Covers
  <2> QED
    BY <1>4, <2>2, <2>3, <2>4
<1>9. PageInOrder' /\ PageIsNext'
  BY <1>4, <1>5, CoverTypes DEF CInv, PageInOrder, PageIsNext
<1> QED
  BY <1>3, <1>4, <1>7, <1>8, <1>9 DEF CInv

-----------------------------------------------------------------------------
(* Pulling.                                                                *)

\* The feed is finite: its numbers are.
LEMMA FeedFinite ==
    ASSUME NEW s \in Server, InOrder(s)
    PROVE  IsFiniteSet(s.feed)
<1> DEFINE seq == [e \in s.feed |-> e.seq]
<1>1. /\ s.head \in Nat
      /\ \A e \in s.feed : e.seq \in 1..s.head
  BY ServerTypes DEF InOrder, FeedInOrder
<1>2. seq \in [s.feed -> 1..s.head]
  BY <1>1
<1>3. IsInjective(seq)
  BY DEF IsInjective, InOrder, FeedInOrder
<1>4. seq \in Injection(s.feed, 1..s.head)
  BY <1>2, <1>3 DEF Injection
<1>5. IsFiniteSet(1..s.head)
  BY <1>1, FS_Interval
<1> HIDE DEF seq
<1> QED
  BY <1>4, <1>5, FS_Injection

\* A page is a prefix of what it is taken from.
LEMMA PagePrefix ==
    ASSUME NEW R, IsFiniteSet(R), \A e \in R : e.seq \in Nat,
           NEW n \in Nat, NEW g \in R, NEW h \in R, g.seq =< h.seq,
           Cardinality({f \in R : f.seq < h.seq}) < n
    PROVE  Cardinality({f \in R : f.seq < g.seq}) < n
<1> DEFINE G == {f \in R : f.seq < g.seq}
           H == {f \in R : f.seq < h.seq}
<1>1. H \in SUBSET R /\ G \in SUBSET H
  <2>1. \A f \in R : f.seq < g.seq => f.seq < h.seq
    OBVIOUS
  <2> QED
    BY <2>1
<1>2. Cardinality(H) < n
  OBVIOUS
<1> HIDE DEF G, H
<1>3. IsFiniteSet(H) /\ IsFiniteSet(G) /\ Cardinality(G) =< Cardinality(H)
  BY <1>1, FS_Subset
<1>4. Cardinality(G) \in Nat /\ Cardinality(H) \in Nat
  BY <1>3, FS_CardinalityType
<1>5. Cardinality(G) < n
  BY <1>2, <1>3, <1>4
<1> QED
  BY <1>5 DEF G

LEMMA FetchKeeps ==
    ASSUME Typed, CInv, Fetch
    PROVE  CInv'
<1> DEFINE from == IF pass.pc = "apply" THEN pass.since ELSE cursor
           rest == Pending(srv, from)
           page == {e \in rest : Cardinality({f \in rest : f.seq < e.seq}) < PageLimit}
           more == page # rest
<1>0. PICK last \in {from} \cup {e.seq : e \in page} :
        /\ \A e \in page : e.seq =< last
        /\ pass' = [pass EXCEPT !.pc = "apply", !.pending = {}, !.known = {},
                                !.since = last, !.page = page, !.more = more]
  BY Zenon DEF Fetch
<1>2. UNCHANGED <<srv, idx, cursor, scopeEpoch, rebuilding>> /\ pass.pc # "idle"
      /\ (pass.pc = "apply" => pass.page = {})
  BY DEF Fetch, index
<1>3. /\ from \in Nat /\ cursor \in Nat /\ srv.head \in Nat
      /\ cursor =< from /\ from =< srv.head
      /\ pass.pc # "apply" => from = cursor
      /\ pass.pc = "apply" => from = pass.since
  BY CoverTypes DEF CInv, PageInOrder
<1>4. \A e : e \in rest <=> /\ e \in srv.feed /\ from < e.seq
                            /\ srv.nodes[e.node].scope = srv.epoch
  BY DEF Pending
<1>5. \A e : e \in page <=> /\ e \in rest
                            /\ Cardinality({f \in rest : f.seq < e.seq}) < PageLimit
  OBVIOUS
<1> HIDE DEF from, rest, page, more
<1>1. last \in {from} \cup {e.seq : e \in page} /\ \A e \in page : e.seq =< last
  BY <1>0
<1>6. /\ pass'.pc = "apply" /\ pass'.reset = pass.reset /\ pass'.meta = pass.meta
      /\ pass'.pending = {} /\ pass'.known = {} /\ pass'.since = last /\ pass'.page = page
  BY <1>0, CoverTypes DEF Pass
<1>7. Current' => Current
  BY <1>2, <1>6 DEF Current
<1>8. Covers'
  BY <1>2, <1>7 DEF CInv, Covers, Settled
<1>9. \A e \in srv.feed : e.seq \in Nat /\ e.seq =< srv.head
  BY CoverTypes DEF CInv, InOrder, FeedInOrder
<1>10. last \in Nat /\ from =< last /\ last =< srv.head
  <2>1. CASE last = from
    BY <1>3, <2>1
  <2>2. ASSUME NEW e \in page, last = e.seq
        PROVE  last \in Nat /\ from =< last /\ last =< srv.head
    <3>1. e \in srv.feed /\ from < e.seq
      BY <1>4, <1>5
    <3> QED
      BY <1>3, <1>9, <2>2, <3>1
  <2> QED
    BY <1>1, <2>1, <2>2
<1>11. PageInOrder'
  <2>1. ASSUME NEW e \in page
        PROVE  cursor < e.seq /\ e.seq =< last /\ Listed(srv, e)
    <3>1. e \in srv.feed /\ from < e.seq
      BY <1>4, <1>5
    <3> QED
      BY <1>1, <1>3, <1>9, <3>1 DEF Listed
  <2>2. \A e, f \in page : e.seq = f.seq => e = f
    BY <1>4, <1>5 DEF CInv, InOrder, FeedInOrder
  <2> QED
    BY <1>2, <1>3, <1>6, <1>10, <2>1, <2>2 DEF PageInOrder, Listed
<1>12. PageIsNext'
  <2> SUFFICES ASSUME Current, NEW g \in srv.feed, srv.nodes[g.node].scope = srv.epoch,
                      cursor < g.seq, g.seq =< last
               PROVE  g \in page
    BY <1>2, <1>6, <1>7 DEF PageIsNext
  <2>1. from < g.seq
    <3>1. CASE pass.pc = "apply"
      <4>1. ~(g.seq =< pass.since)
        BY <1>2, <3>1 DEF CInv, PageIsNext
      <4> QED
        BY <1>3, <1>9, <3>1, <4>1
    <3>2. CASE pass.pc # "apply"
      BY <1>3, <3>2
    <3> QED
      BY <3>1, <3>2
  <2>2. g \in rest
    BY <1>4, <2>1
  <2>3. PICK h \in page : last = h.seq
    BY <1>1, <1>3, <1>9, <2>1
  <2>4. IsFiniteSet(rest)
    <3>1. rest \in SUBSET srv.feed
      BY <1>4
    <3> QED
      BY <3>1, CoverTypes, FeedFinite, FS_Subset DEF CInv
  <2>5. Cardinality({f \in rest : f.seq < g.seq}) < PageLimit
    <3>1. h \in rest /\ Cardinality({f \in rest : f.seq < h.seq}) < PageLimit
      BY <1>5
    <3>2. (\A e \in rest : e.seq \in Nat) /\ PageLimit \in Nat
      BY <1>4, <1>9, BoundsAssumption
    <3> QED
      BY <2>2, <2>3, <2>4, <3>1, <3>2, PagePrefix
  <2> QED
    BY <1>5, <2>2, <2>5
<1> QED
  BY <1>2, <1>6, <1>8, <1>11, <1>12 DEF CInv, KnownCovers, MovesMove

-----------------------------------------------------------------------------
(* Applying an entry.                                                      *)

\* What the row of an entry is, if the entry is the last about its node.
RowOfEntry(e) == IF e.deleted THEN NoRow
                 ELSE [path |-> e.path, dir |-> e.dir, ver |-> e.ver,
                       hash |-> IF e.dir THEN NoHash ELSE e.hash]

LEMMA EntryRow ==
    ASSUME Typed, CInv, NEW e \in pass.page, Seen(srv, e.node, e.seq)
    PROVE  e \in srv.feed /\ RowOfEntry(e) = ServerRow(srv.nodes[e.node])
<1>1. /\ e.seq \in Nat /\ e.node \in Nodes /\ Listed(srv, e)
      /\ \A f \in srv.feed : f.seq \in Nat
  BY CoverTypes DEF CInv, PageInOrder
<1>2. e \in srv.feed
  BY <1>1 DEF Listed, Seen
<1>3. srv.nodes[e.node].st # "free"
  BY <1>2 DEF CInv, InOrder, FeedInOrder
<1>4. PICK g \in srv.feed : /\ g.node = e.node /\ EntryIs(g, srv.nodes[e.node])
                            /\ Seen(srv, e.node, g.seq)
  BY <1>1, <1>3 DEF CInv, InOrder, FeedIsCurrent
<1>5. e = g
  <2>1. e.seq =< g.seq /\ g.seq =< e.seq
    BY <1>2, <1>4 DEF Seen
  <2>2. e.seq = g.seq
    BY <1>1, <2>1
  <2> QED
    BY <1>2, <2>2 DEF CInv, InOrder, FeedInOrder
<1>6. srv.nodes[e.node].dir => srv.nodes[e.node].hash = NoHash
  BY <1>1 DEF CInv, InOrder, NoHashes
<1>7. EntryIs(e, srv.nodes[e.node])
  BY <1>4, <1>5
<1>8. CASE e.deleted
  BY <1>2, <1>7, <1>8 DEF EntryIs, RowOfEntry, ServerRow
<1>9. CASE ~e.deleted
  <2>1. srv.nodes[e.node].st # "dead"
    BY <1>7, <1>9 DEF EntryIs
  <2>2. CASE e.dir
    BY <1>2, <1>6, <1>7, <1>9, <2>1, <2>2 DEF EntryIs, RowOfEntry, ServerRow
  <2>3. CASE ~e.dir
    BY <1>2, <1>7, <1>9, <2>1, <2>3 DEF EntryIs, RowOfEntry, ServerRow
  <2> QED
    BY <2>2, <2>3
<1> QED
  BY <1>8, <1>9

\* The next entry of the page is the next change of the scope.
LEMMA NextSettled ==
    ASSUME Typed, CInv, Current, NEW e \in pass.page, FirstOfPage(e), NEW n \in Nodes,
           n # e.node, srv.nodes[n].scope = srv.epoch, Seen(srv, n, e.seq)
    PROVE  Seen(srv, n, cursor)
<1> SUFFICES ASSUME NEW g \in srv.feed, g.node = n, ~(g.seq =< cursor)
             PROVE  FALSE
  BY DEF Seen
<1>1. /\ e.seq \in Nat /\ g.seq \in Nat /\ cursor \in Nat /\ pass.since \in Nat
      /\ e.seq =< pass.since /\ g.seq =< e.seq
  BY CoverTypes DEF CInv, PageInOrder, Seen
<1>2. g \in pass.page
  <2>1. cursor < g.seq /\ g.seq =< pass.since
    BY <1>1
  <2> QED
    BY <2>1 DEF CInv, PageIsNext, FirstOfPage
<1>3. g.seq = e.seq
  BY <1>1, <1>2 DEF FirstOfPage
<1> QED
  BY <1>2, <1>3 DEF CInv, PageInOrder

LEMMA AppliedKeeps ==
    ASSUME Typed, CInv, NEW e \in pass.page, FirstOfPage(e), NEW d, NEW row,
           row = RowOfEntry(e), Applied(e, d, row)
    PROVE  CInv'
<1>1. /\ UNCHANGED <<srv, scopeEpoch, rebuilding>> /\ e.node \in Nodes /\ e.seq \in Nat
      /\ cursor \in Nat /\ pass.pc = "apply"
      /\ cursor < e.seq /\ e.seq =< pass.since /\ pass.since =< srv.head
      /\ pass.since \in Nat /\ srv.head \in Nat
  BY CoverTypes DEF Applied, FirstOfPage, CInv, PageInOrder
<1>2. idx \in [Nodes -> Row]
  BY DEF Typed, TypeOK
<1> DEFINE i == [idx EXCEPT ![e.node] = row]
<1>3. \/ /\ idx' = i /\ cursor' = e.seq /\ pass' = [pass EXCEPT !.page = @ \ {e}]
      \/ (idx' = i \/ idx' = idx) /\ UNCHANGED cursor /\ pass' = Idle
  BY DEF Applied, Broken
<1>4. i[e.node] = row /\ \A n \in Nodes : n # e.node => i[n] = idx[n]
  BY <1>1, <1>2
<1> HIDE DEF i
<1>5. CASE (idx' = i \/ idx' = idx) /\ UNCHANGED cursor /\ pass' = Idle
  <2>1. ~Settled(srv, e.node)
    <3>1. PICK f \in srv.feed : f.node = e.node /\ e.seq =< f.seq
      <4>1. Listed(srv, e) /\ \A f \in srv.feed : f.seq \in Nat
        BY CoverTypes DEF CInv, PageInOrder
      <4> QED
        BY <1>1, <4>1 DEF Listed
    <3> QED
      BY <1>1, <3>1, CoverTypes DEF Settled, Seen
  <2>2. RowsFollow(srv', idx')
    BY <1>1, <1>4, <1>5, <2>1 DEF RowsFollow
  <2>3. SameCursor
    BY <1>1, <1>5 DEF SameCursor
  <2> QED
    BY <1>1, <2>2, <2>3, ServerStays, SameCursorKeeps
<1>6. CASE idx' = i /\ cursor' = e.seq /\ pass' = [pass EXCEPT !.page = @ \ {e}]
  <2>1. /\ pass'.pc = pass.pc /\ pass'.reset = pass.reset /\ pass'.meta = pass.meta
        /\ pass'.pending = pass.pending /\ pass'.known = pass.known
        /\ pass'.since = pass.since /\ pass'.page = pass.page \ {e}
    BY <1>6, CoverTypes DEF Pass
  <2>2. Current' => Current
    BY <1>1, <2>1 DEF Current
  <2>3. Covers'
    <3> SUFFICES ASSUME Current, NEW n \in Nodes, Settled(srv, n)'
                 PROVE  idx'[n] = ServerRow(srv.nodes[n])
      BY <1>1, <2>2 DEF Covers
    <3>1. Seen(srv, n, e.seq) /\ srv.nodes[n].scope = srv.epoch /\ srv.nodes[n].st # "free"
      BY <1>1, <1>6 DEF Settled
    <3>2. CASE n = e.node
      BY <1>4, <1>6, <3>1, <3>2, EntryRow
    <3>3. CASE n # e.node
      <4>1. Settled(srv, n)
        BY <3>1, <3>3, NextSettled DEF Settled
      <4> QED
        BY <1>4, <1>6, <3>3, <4>1 DEF CInv, Covers
    <3> QED
      BY <3>2, <3>3
  <2>4. PageInOrder'
    <3>1. ASSUME NEW f \in pass.page, f # e
          PROVE  e.seq < f.seq
      <4>1. e.seq =< f.seq /\ e.seq # f.seq /\ f.seq \in Nat
        BY <3>1, CoverTypes DEF FirstOfPage, CInv, PageInOrder
      <4> QED
        BY <1>1, <4>1
    <3>2. e.seq =< srv.head
      BY <1>1
    <3> QED
      BY <1>1, <1>6, <2>1, <3>1, <3>2 DEF CInv, PageInOrder, Listed
  <2>5. PageIsNext'
    <3> SUFFICES ASSUME Current, NEW g \in srv.feed, srv.nodes[g.node].scope = srv.epoch,
                        e.seq < g.seq, g.seq =< pass.since
                 PROVE  g \in pass.page \ {e}
      BY <1>1, <1>6, <2>1, <2>2 DEF PageIsNext
    <3>1. cursor < g.seq /\ g # e
      BY <1>1, CoverTypes
    <3> QED
      BY <1>1, <3>1 DEF CInv, PageIsNext
  <2>6. KnownCovers' /\ MovesMove'
    BY <1>1, <2>1 DEF KnownCovers, CInv, MovesMove
  <2> QED
    BY <1>1, <2>3, <2>4, <2>5, <2>6 DEF CInv
<1> QED
  BY <1>3, <1>5, <1>6

LEMMA FailedKeeps ==
    ASSUME Typed, CInv, NEW d, Failed(d)
    PROVE  CInv'
  BY QuietKeeps DEF Failed, Broken

LEMMA ApplyStepKeeps ==
    ASSUME Typed, CInv, ApplyStep
    PROVE  CInv'
<1>1. PICK e \in pass.page :
          ApplyDelete(e) \/ ApplyDir(e) \/ ApplyFile(e) \/ RejectPath(e)
  BY DEF ApplyStep
<1>2. CASE ApplyDelete(e)
  BY <1>2, AppliedKeeps DEF ApplyDelete, ApplyNext, RowOfEntry
<1>3. CASE ApplyDir(e)
  <2>1. FirstOfPage(e) /\ ~e.deleted /\ e.dir
    BY <1>3 DEF ApplyDir, ApplyNext
  <2>2. RowOfEntry(e) = DirRow(e.path, e.ver)
    BY <2>1 DEF RowOfEntry, DirRow
  <2>3. (\E d : Failed(d)) \/ \E d : Applied(e, d, DirRow(e.path, e.ver))
    BY <1>3 DEF ApplyDir
  <2> QED
    BY <2>1, <2>2, <2>3, AppliedKeeps, FailedKeeps
<1>4. CASE ApplyFile(e)
  <2>1. FirstOfPage(e) /\ ~e.deleted /\ ~e.dir
    BY <1>4 DEF ApplyFile, ApplyNext
  <2>2. RowOfEntry(e) = FileRow(e.path, e.ver, e.hash)
    <3>1. e.dir = FALSE
      BY <2>1, EntryType DEF Change
    <3> QED
      BY <2>1, <3>1 DEF RowOfEntry, FileRow
  <2>3. (\E d : Failed(d)) \/ \E d : Applied(e, d, FileRow(e.path, e.ver, e.hash))
    BY <1>4 DEF ApplyFile, FetchContent
  <2> QED
    BY <2>1, <2>2, <2>3, AppliedKeeps, FailedKeeps
<1>5. CASE RejectPath(e)
  BY <1>5, FailedKeeps DEF RejectPath
<1> QED
  BY <1>1, <1>2, <1>3, <1>4, <1>5

-----------------------------------------------------------------------------
(* Pushing.                                                                *)

\* A step of push, whether its answer comes through or not.
LEMMA PushedKeeps ==
    ASSUME Typed, CInv, NEW s, NEW i, (\E c : Pushed(c, s, i)) \/ Refused(s, i),
           Continues(srv, s), Current => RowsFollow(s, i)
    PROVE  CInv'
<1>1. srv' = s /\ (idx' = i \/ idx' = idx) /\ UNCHANGED <<cursor, scopeEpoch, rebuilding>>
  BY DEF Pushed, Refused
<1>2. pass' = Idle \/ SamePass
  <2>1. ASSUME NEW c, pass' = [pass EXCEPT !.pending = @ \ {c}]
        PROVE  SamePass
    BY <2>1, CoverTypes DEF Pass, SamePass
  <2> QED
    BY <2>1 DEF Pushed, Refused, Broken
<1>3. Current => RowsFollow(srv', idx')
  BY <1>1 DEF RowsFollow
<1> QED
  BY <1>1, <1>2, <1>3, SameCursorKeeps DEF SameCursor

\* A path names one settled node.
LEMMA ServerRowIs ==
    ASSUME NEW x \in Node
    PROVE  /\ x.st = "live" => /\ ServerRow(x).path = x.path /\ ServerRow(x).dir = x.dir
                               /\ ServerRow(x).ver = x.ver /\ ServerRow(x).hash = x.hash
           /\ x.st = "dead" => ServerRow(x) = NoRow
  BY DEF ServerRow

LEMMA PushDirKeeps ==
    ASSUME Typed, CInv, NEW c \in pass.pending, PushDir(c)
    PROVE  CInv'
<1>1. srv \in Server /\ InOrder(srv) /\ c.path \in Path
  BY CoverTypes DEF CInv, PushDir, Typed, PushesHavePaths
<1>2. CASE Refused(srv, idx)
  BY <1>1, <1>2, ContinuesSame, PushedKeeps DEF RowsFollow
<1>3. ASSUME NEW a \in EnsureDir(srv, c.path),
             Pushed(c, a.srv, [idx EXCEPT ![a.node] =
                                 DirRow(c.path, a.srv.nodes[a.node].ver)])
      PROVE  CInv'
  <2> DEFINE row == DirRow(c.path, a.srv.nodes[a.node].ver)
             i == [idx EXCEPT ![a.node] = row]
  <2>1. Continues(srv, a.srv) /\ a.node \in LiveAt(a.srv, c.path)
        /\ a.srv.nodes[a.node].dir /\ a.srv.nodes[a.node].hash = NoHash
    BY <1>1, EnsureDirKeepsOrder
  <2>2. a.srv.nodes[a.node] \in Node
    BY <2>1 DEF Continues, LiveAt, Server
  <2>3. row = ServerRow(a.srv.nodes[a.node])
    BY <2>1, <2>2 DEF LiveAt, Visible, DirRow, ServerRow, Node
  <2> HIDE DEF row
  <2>4. idx \in [Nodes -> Row]
    BY DEF Typed, TypeOK
  <2>5. RowsFollow(a.srv, i)
    BY <2>3, <2>4 DEF RowsFollow
  <2> QED
    BY <1>3, <2>1, <2>5, PushedKeeps DEF row
<1> QED
  BY <1>2, <1>3 DEF PushDir

LEMMA PushFileChangeKeeps ==
    ASSUME Typed, CInv, NEW c \in pass.pending, PushFileChange(c)
    PROVE  CInv'
<1>1. srv \in Server /\ InOrder(srv) /\ c.path \in Path /\ cursor \in Nat /\ cursor =< srv.head
  BY CoverTypes DEF CInv, PageInOrder, PushFileChange, Typed, PushesHavePaths
<1>2. CASE Refused(srv, idx)
  BY <1>1, <1>2, ContinuesSame, PushedKeeps DEF RowsFollow
<1> DEFINE after(a) == IF a.conflicted THEN idx
                       ELSE [idx EXCEPT ![a.node] =
                               FileRow(c.path, a.srv.nodes[a.node].ver, c.hash)]
<1>3. ASSUME NEW a, a \in PushFile(srv, c.path, Base(c.path), disk[c.path]),
             disk[c.path] \in Contents, Pushed(c, a.srv, after(a))
      PROVE  CInv'
  <2>1. Continues(srv, a.srv) /\ (~a.conflicted => Fresh(srv, a.srv, a.node))
    BY <1>1, <1>3, PushFileKeepsOrder
  <2>2. idx \in [Nodes -> Row]
    BY DEF Typed, TypeOK
  <2>3. \A n \in Nodes : \/ after(a)[n] = idx[n]
                         \/ ~a.conflicted /\ n = a.node
    BY <2>2
  <2>4. \A n \in Nodes : Settled(a.srv, n) => ~Fresh(srv, a.srv, n)
    BY <1>1, <2>1, SettledBefore DEF Continues
  <2> HIDE DEF after
  <2>5. RowsFollow(a.srv, after(a))
    BY <2>1, <2>3, <2>4 DEF RowsFollow
  <2> QED
    BY <1>3, <2>1, <2>5, PushedKeeps
<1>4. \/ Refused(srv, idx)
      \/ /\ IsFile(disk, c.path)
         /\ \E a \in PushFile(srv, c.path, Base(c.path), disk[c.path]) : Pushed(c, a.srv, after(a))
  BY DEF PushFileChange
<1> QED
  BY <1>2, <1>3, <1>4 DEF IsFile

LEMMA PushDeleteKeeps ==
    ASSUME Typed, CInv, NEW c \in pass.pending, PushDelete(c)
    PROVE  CInv'
<1>1. srv \in Server /\ InOrder(srv) /\ cursor \in Nat /\ cursor =< srv.head /\ pass.pc = "push"
  BY CoverTypes DEF CInv, PageInOrder, PushDelete, PushNext, NextInOrder
<1> DEFINE gone(n) == \E k \in pass.known : k.path = c.path /\ k.node = n
           i == [n \in Nodes |-> IF gone(n) THEN NoRow ELSE idx[n]]
<1>2. PICK s \in DeleteRemote(srv, c.path) : Pushed(c, s, i)
  BY DEF PushDelete
<1>3. Continues(srv, s) /\ \A n \in LiveAt(srv, c.path) : Fresh(srv, s, n)
  BY <1>1, DeleteRemoteKeepsOrder
<1>4. ASSUME Current, NEW n \in Nodes, gone(n), Settled(s, n)
      PROVE  ServerRow(s.nodes[n]) = NoRow
  <2>1. Settled(srv, n) /\ srv.nodes[n] = s.nodes[n] /\ ~Fresh(srv, s, n)
    BY <1>1, <1>3, <1>4, SettledBefore DEF Continues
  <2>2. PICK k \in pass.known : k.path = c.path /\ k.node = n
    BY <1>4
  <2>3. [path |-> k.path, dir |-> k.dir, ver |-> k.ver, hash |-> k.hash] = ServerRow(srv.nodes[n])
    BY <1>1, <1>4, <2>1, <2>2 DEF CInv, KnownCovers
  <2>4. srv.nodes[n] \in Node
    BY <1>1, ServerTypes
  <2>5. ASSUME srv.nodes[n].st = "live"
        PROVE  FALSE
    <3>1. srv.nodes[n].path = c.path
      BY <2>2, <2>3, <2>4, <2>5, ServerRowIs
    <3>2. n \in LiveAt(srv, c.path)
      BY <2>1, <2>5, <3>1 DEF LiveAt, Visible, Settled
    <3> QED
      BY <1>3, <2>1, <3>2
  <2>6. srv.nodes[n].st = "dead"
    BY <2>1, <2>4, <2>5 DEF Settled, Node
  <2> QED
    BY <2>1, <2>4, <2>6, ServerRowIs
<1>5. \A n \in Nodes : i[n] = IF gone(n) THEN NoRow ELSE idx[n]
  OBVIOUS
<1> HIDE DEF i, gone
<1>6. Current => RowsFollow(s, i)
  BY <1>4, <1>5 DEF RowsFollow
<1> QED
  BY <1>2, <1>3, <1>6, PushedKeeps

-----------------------------------------------------------------------------
(* The requests of a move.                                                 *)

LEMMA ContinuesTransitive ==
    ASSUME NEW s \in Server, NEW t, NEW u, Continues(s, t), Continues(t, u)
    PROVE  Continues(s, u)
  BY AdvanceTransitive DEF Continues

LEMMA FollowOn ==
    ASSUME NEW s \in Server, cursor \in Nat, cursor =< s.head, NEW t, Continues(s, t),
           NEW i, RowsFollow(s, i)
    PROVE  RowsFollow(t, i)
  BY SettledBefore DEF RowsFollow, Continues

\* MoveNode and RenameNode: the node is moved, unless it is there.
LEMMA RenameNodeKeepsOrder ==
    ASSUME NEW s \in Server, InOrder(s), NEW n \in Nodes, NEW x \in Names,
           NEW t \in RenameNode(s, n, x)
    PROVE  /\ Continues(s, t)
           /\ s.nodes[n].path # Append(Parent(s.nodes[n].path), x) => Fresh(s, t, n)
<1> DEFINE to == Append(Parent(s.nodes[n].path), x)
<1>1. to \in Path
  BY AnswerRow, SiblingType
<1>2. t \in MoveTo(s, n, to)
  BY DEF RenameNode
<1> HIDE DEF to
<1>3. Continues(s, t) /\ (s.nodes[n].path # to => Fresh(s, t, n))
  BY <1>1, <1>2, MoveToKeepsOrder
<1> QED
  BY <1>3 DEF to

LEMMA MoveNodeKeepsOrder ==
    ASSUME NEW s \in Server, InOrder(s), NEW n \in Nodes, NEW m, NEW t \in MoveNode(s, n, m)
    PROVE  /\ Continues(s, t)
           /\ m # 0 => Visible(s, m) /\ s.nodes[m].dir
           /\ s.nodes[n].path # Append(IF m = 0 THEN Root ELSE s.nodes[m].path,
                                       Last(s.nodes[n].path))
                => Fresh(s, t, n)
<1> DEFINE at == IF m = 0 THEN Root ELSE s.nodes[m].path
           to == Append(at, Last(s.nodes[n].path))
<1>1. to \in Path /\ t \in MoveTo(s, n, to) /\ (m # 0 => Visible(s, m) /\ s.nodes[m].dir)
  BY DEF MoveNode
<1> HIDE DEF to
<1>2. Continues(s, t) /\ (s.nodes[n].path # to => Fresh(s, t, n))
  BY <1>1, MoveToKeepsOrder
<1> QED
  BY <1>1, <1>2 DEF to

\* The folder a move goes to, by its row or by its answer: if what is moved is settled
\* and lies in it already, then it is where the move goes.
LiesIn(r, p) == \A n \in Nodes :
       /\ Current /\ Settled(r.srv, n) /\ r.srv.nodes[n].st = "live"
       /\ r.node \in Nodes /\ Visible(r.srv, r.node)
       /\ r.srv.nodes[r.node].path = Parent(r.srv.nodes[n].path)
    => p = Parent(r.srv.nodes[n].path)

LEMMA MoveParentsKeep ==
    ASSUME Typed, CInv, NEW p \in Path \cup {Root}, NEW r \in MoveParents(p)
    PROVE  /\ Continues(srv, r.srv) /\ RowsFollow(r.srv, r.idx)
           /\ r.node = 0 => p = Root
           /\ r.node # 0 => r.node \in Nodes
           /\ LiesIn(r, p)
<1>1. srv \in Server /\ InOrder(srv) /\ Continues(srv, srv) /\ RowsFollow(srv, idx)
  BY CoverTypes, ContinuesSame DEF CInv, RowsFollow
<1>2. 0 \notin Nodes
  BY NodesAssumption
<1>3. CASE p = Root
  <2>1. r = [srv |-> srv, idx |-> idx, node |-> 0]
    BY <1>3 DEF MoveParents
  <2>2. r.srv = srv /\ r.idx = idx /\ r.node = 0
    BY <2>1
  <2>3. LiesIn(r, p)
    BY <1>2, <2>2 DEF LiesIn
  <2> QED
    BY <1>1, <1>3, <2>2, <2>3
<1>4. CASE p # Root /\ RowsAt(idx, p) # {}
  <2>1. PICK m \in RowsAt(idx, p) : r = [srv |-> srv, idx |-> idx, node |-> m]
    BY <1>4 DEF MoveParents
  <2>2. r.srv = srv /\ r.idx = idx /\ r.node = m /\ m \in Nodes /\ idx[m].path = p
    BY <2>1 DEF RowsAt
  <2>3. ASSUME Current, NEW n \in Nodes, Settled(srv, n), srv.nodes[n].st = "live",
               Visible(srv, m), srv.nodes[m].path = Parent(srv.nodes[n].path)
        PROVE  p = Parent(srv.nodes[n].path)
    <3> DEFINE at == srv.nodes[n].path
    <3>1. at \in Path /\ Parent(at) \in Path
      BY <1>1, <2>2, <2>3, LivePaths DEF Visible
    <3>2. Within(Parent(at), at) /\ Parent(at) # at
      <4>1. Len(Parent(at)) = Len(at) - 1 /\ Within(Parent(at), at) /\ Len(at) \in Nat
        BY <3>1, ParentPoints, PathIsSeq
      <4> QED
        BY <4>1
    <3>3. PICK j \in Nodes : Above(srv.nodes, j, Parent(at), n) /\ Older(srv, j, n)
      BY <1>1, <2>3, <3>1, <3>2, InFoldersUp
    <3>4. j = m
      <4>1. srv.nodes[n].scope = srv.epoch
        BY <2>3 DEF Settled
      <4> QED
        BY <1>1, <2>2, <2>3, <3>3, <4>1 DEF Above, Visible, InOrder, OnePerPath, SamePlace
    <3>5. Seen(srv, m, cursor)
      <4> SUFFICES ASSUME NEW e \in srv.feed, e.node = m
                   PROVE  e.seq =< cursor
        BY DEF Seen
      <4>1. PICK f \in srv.feed : f.node = n /\ e.seq =< f.seq
        BY <3>3, <3>4 DEF Older
      <4>2. f.seq =< cursor
        BY <2>3, <4>1 DEF Settled, Seen
      <4> QED
        BY <4>1, <4>2, CoverTypes
    <3>6. Settled(srv, m)
      BY <2>3, <3>5 DEF Settled, Visible
    <3>7. idx[m] = ServerRow(srv.nodes[m])
      BY <2>2, <2>3, <3>6 DEF CInv, Covers
    <3>8. srv.nodes[m] \in Node
      BY <1>1, <2>2, ServerTypes
    <3> QED
      BY <2>2, <2>3, <3>7, <3>8, ServerRowIs DEF Visible
  <2>4. Continues(srv, r.srv) /\ RowsFollow(r.srv, r.idx) /\ r.node # 0 /\ r.node \in Nodes
    BY <1>1, <1>2, <2>2
  <2>5. ASSUME Current, NEW n \in Nodes, Settled(r.srv, n), r.srv.nodes[n].st = "live",
               Visible(r.srv, r.node), r.srv.nodes[r.node].path = Parent(r.srv.nodes[n].path)
        PROVE  p = Parent(r.srv.nodes[n].path)
    BY ONLY <2>2, <2>3, <2>5
  <2>6. LiesIn(r, p)
    BY ONLY <2>5 DEF LiesIn
  <2> QED
    BY <2>4, <2>6
<1>5. CASE p # Root /\ RowsAt(idx, p) = {}
  <2>1. PICK a \in EnsureDir(srv, p) :
           r = [srv |-> a.srv, node |-> a.node,
                idx |-> [idx EXCEPT ![a.node] = DirRow(p, a.srv.nodes[a.node].ver)]]
    BY <1>5, Zenon DEF MoveParents
  <2> DEFINE row == DirRow(p, a.srv.nodes[a.node].ver)
  <2>2. r.srv = a.srv /\ r.node = a.node /\ r.idx = [idx EXCEPT ![a.node] = row]
    BY <2>1
  <2>3. Continues(srv, a.srv) /\ a.node \in LiveAt(a.srv, p)
        /\ a.srv.nodes[a.node].dir /\ a.srv.nodes[a.node].hash = NoHash
    BY <1>1, <1>5, EnsureDirKeepsOrder
  <2>4. a.srv.nodes[a.node] \in Node /\ a.node \in Nodes /\ a.srv.nodes[a.node].path = p
    BY <2>3 DEF Continues, LiveAt, Server
  <2>5. row = ServerRow(a.srv.nodes[a.node])
    BY <2>3, <2>4 DEF LiveAt, Visible, DirRow, ServerRow, Node
  <2> HIDE DEF row
  <2>6. idx \in [Nodes -> Row]
    BY DEF Typed, TypeOK
  <2>7. RowsFollow(r.srv, r.idx)
    BY <2>2, <2>5, <2>6 DEF RowsFollow
  <2>8. Continues(srv, r.srv) /\ r.node # 0 /\ r.node \in Nodes
        /\ r.srv.nodes[r.node].path = p
    BY <1>2, <2>2, <2>3, <2>4
  <2>9. LiesIn(r, p)
    BY ONLY <2>8 DEF LiesIn
  <2> QED
    BY <2>7, <2>8, <2>9
<1> QED
  BY <1>3, <1>4, <1>5

-----------------------------------------------------------------------------
(* Pushing a move.                                                         *)

LEMMA SettledLive ==
    ASSUME Typed, CInv, Current, pass.pc = "push", NEW k \in pass.known, k.path \in Path,
           Settled(srv, k.node)
    PROVE  srv.nodes[k.node].st = "live" /\ srv.nodes[k.node].path = k.path
<1> DEFINE x == srv.nodes[k.node]
<1>1. [path |-> k.path, dir |-> k.dir, ver |-> k.ver, hash |-> k.hash] = ServerRow(x)
  BY DEF CInv, KnownCovers
<1>2. x \in Node /\ x.st # "free"
  BY CoverTypes, ServerTypes DEF Settled
<1>3. ServerRow(x).path = k.path
  BY ONLY <1>1
<1>4. NoRow.path = Root /\ Root \notin Path
  BY PathIsSeq, RootIsSeq DEF NoRow
<1>5. x.st # "dead"
  BY <1>2, <1>3, <1>4, ServerRowIs
<1> QED
  BY <1>2, <1>3, <1>5, ServerRowIs DEF Node

\* A move that got through has left its node something to see: the row it writes is
\* not taken for settled.
LEMMA MoveStays ==
    ASSUME Typed, CInv, Current, pass.pc = "push",
           NEW k \in pass.known, NEW to \in Path, k.path \in Path, k.path # to,
           NEW r, Continues(srv, r.srv),
           Parent(to) # Parent(k.path) =>
              /\ LiesIn(r, Parent(to)) /\ (r.node = 0 => Parent(to) = Root)
              /\ (r.node # 0 => r.node \in Nodes),
           NEW s, NEW t,
           IF Parent(to) = Parent(k.path) THEN s = r.srv ELSE s \in MoveNode(r.srv, k.node, r.node),
           IF Last(to) = Last(k.path) THEN t = s ELSE t \in RenameNode(s, k.node, Last(to)),
           Continues(r.srv, s), Continues(s, t), Settled(t, k.node)
    PROVE  FALSE
<1> DEFINE n == k.node
           from == k.path
<1>1. /\ n \in Nodes /\ srv \in Server /\ r.srv \in Server /\ s \in Server /\ t \in Server
      /\ InOrder(srv) /\ InOrder(r.srv) /\ InOrder(s)
      /\ Advance(srv, r.srv) /\ Advance(r.srv, s) /\ Advance(s, t)
      /\ cursor \in Nat /\ cursor =< srv.head
  BY CoverTypes DEF Continues, CInv, PageInOrder
<1>2. cursor =< r.srv.head /\ cursor =< s.head
  <2>1. srv.head =< r.srv.head /\ r.srv.head =< s.head
    BY <1>1 DEF Advance
  <2>2. srv.head \in Nat /\ r.srv.head \in Nat /\ s.head \in Nat
    BY <1>1, ServerTypes
  <2> QED
    BY <1>1, <2>1, <2>2
<1>3. Settled(s, n) /\ s.nodes[n] = t.nodes[n] /\ ~Fresh(s, t, n)
  BY <1>1, <1>2, SettledBefore
<1>4. Settled(r.srv, n) /\ r.srv.nodes[n] = s.nodes[n] /\ ~Fresh(r.srv, s, n)
  BY <1>1, <1>2, <1>3, SettledBefore
<1>5. Settled(srv, n) /\ srv.nodes[n] = r.srv.nodes[n]
  BY <1>1, <1>4, SettledBefore
<1>6. srv.nodes[n].st = "live" /\ srv.nodes[n].path = from
  BY <1>5, SettledLive
<1>7. /\ from = Append(Parent(from), Last(from)) /\ to = Append(Parent(to), Last(to))
      /\ Last(from) \in Names /\ Last(to) \in Names
      /\ Parent(from) \in Seq(Names) /\ Parent(to) \in Seq(Names)
  BY ParentPoints DEF Last
<1>8. CASE Parent(to) = Parent(from)
  <2>1. Last(to) # Last(from)
    BY <1>7, <1>8
  <2>2. s.nodes[n].path = from /\ t \in RenameNode(s, n, Last(to))
    BY <1>4, <1>5, <1>6, <2>1
  <2>3. from = Append(Parent(from), Last(to))
    BY <1>1, <1>3, <1>7, <2>2, RenameNodeKeepsOrder
  <2> QED
    BY <1>7, <1>8, <2>3
<1>9. CASE Parent(to) # Parent(from)
  <2> DEFINE at == IF r.node = 0 THEN Root ELSE r.srv.nodes[r.node].path
  <2>1. r.srv.nodes[n].path = from /\ s \in MoveNode(r.srv, n, r.node)
        /\ r.srv.nodes[n].st = "live"
    BY <1>5, <1>6, <1>9
  <2>2. /\ from = Append(at, Last(from))
        /\ r.node # 0 => Visible(r.srv, r.node)
    BY <1>1, <1>4, <2>1, MoveNodeKeepsOrder
  <2>3. at \in Seq(Names)
    BY <1>1, <1>9, <2>2, LivePaths, RootIsSeq DEF Visible
  <2> HIDE DEF at
  <2>4. at = Parent(from)
    BY <1>7, <2>2, <2>3, AppendApart
  <2>5. CASE r.node = 0
    BY <1>9, <2>4, <2>5 DEF at
  <2>6. CASE r.node # 0
    <3>1. r.srv.nodes[r.node].path = Parent(from)
      BY <2>4, <2>6 DEF at
    <3> QED
      BY <1>1, <1>4, <1>9, <2>1, <2>2, <2>6, <3>1 DEF LiesIn
  <2> QED
    BY <2>5, <2>6
<1> QED
  BY <1>8, <1>9

LEMMA PushMoveKeeps ==
    ASSUME Typed, CInv, NEW c \in pass.pending, PushMove(c)
    PROVE  CInv'
<1>1. c.path \in Path /\ c.from \in Path /\ c.from # c.path /\ pass.pc = "push"
  BY DEF PushMove, PushNext, NextInOrder, CInv, MovesMove
<1>2. /\ srv \in Server /\ InOrder(srv) /\ Continues(srv, srv) /\ RowsFollow(srv, idx)
      /\ idx \in [Nodes -> Row] /\ cursor \in Nat /\ cursor =< srv.head
  BY CoverTypes, ContinuesSame DEF CInv, PageInOrder, RowsFollow, Typed, TypeOK
<1>3. Parent(c.path) \in Path \cup {Root} /\ Last(c.path) \in Names
  BY <1>1, ParentType, LastType
<1> DEFINE stay       == Parent(c.path) = Parent(c.from)
           parents    == IF stay THEN {[srv |-> srv, idx |-> idx, node |-> 0]}
                         ELSE MoveParents(Parent(c.path))
           moved(r, k)   == IF stay THEN {r.srv} ELSE MoveNode(r.srv, k.node, r.node)
           renamed(s, k) == IF Last(c.path) = Last(c.from) THEN {s}
                            ELSE RenameNode(s, k.node, Last(c.path))
           row(k)     == FileRow(c.path, k.ver, k.hash)
<1>4. PICK k \in pass.known :
        /\ k.path = c.from
        /\ \/ parents = {} /\ Refused(srv, idx) /\ UNCHANGED spent
           \/ \E r \in parents :
                \/ \E i \in {idx, r.idx} : Refused(r.srv, i) /\ Fault
                \/ moved(r, k) = {} /\ Refused(r.srv, r.idx) /\ UNCHANGED spent
                \/ \E s \in moved(r, k) :
                      \/ renamed(s, k) = {} /\ Refused(s, r.idx) /\ UNCHANGED spent
                      \/ Refused(s, r.idx) /\ Fault
                      \/ \E t \in renamed(s, k) :
                            Pushed(c, t, [r.idx EXCEPT ![k.node] = row(k)])
  BY DEF PushMove
<1>5. k.node \in Nodes
  BY CoverTypes
<1>6. ASSUME NEW r \in parents
      PROVE  Continues(srv, r.srv) /\ RowsFollow(r.srv, r.idx) /\ r.idx \in [Nodes -> Row]
  <2>1. CASE stay
    <3>1. r.srv = srv /\ r.idx = idx
      BY <2>1
    <3> QED
      BY <1>2, <3>1
  <2>2. CASE ~stay
    BY <1>3, <2>2, MoveParentsType, MoveParentsKeep
  <2> QED
    BY <2>1, <2>2
<1>7. ASSUME NEW r \in parents, ~stay
      PROVE  /\ LiesIn(r, Parent(c.path)) /\ (r.node = 0 => Parent(c.path) = Root)
             /\ (r.node # 0 => r.node \in Nodes)
  BY <1>3, <1>7, MoveParentsKeep
<1>8. ASSUME NEW r \in parents, NEW s \in moved(r, k)
      PROVE  Continues(r.srv, s) /\ RowsFollow(s, r.idx)
  <2>1. r.srv \in Server /\ InOrder(r.srv) /\ Advance(srv, r.srv)
    BY <1>6 DEF Continues
  <2>2. Continues(r.srv, s)
    BY <1>5, <2>1, ContinuesSame, MoveNodeKeepsOrder
  <2>3. cursor =< r.srv.head
    BY <1>2, <2>1, ServerTypes DEF Advance
  <2> HIDE DEF parents, moved
  <2> QED
    BY <1>2, <1>6, <2>1, <2>2, <2>3, FollowOn
<1>9. ASSUME NEW r \in parents, NEW s \in moved(r, k), NEW t \in renamed(s, k)
      PROVE  /\ Continues(s, t) /\ Continues(srv, t) /\ RowsFollow(t, r.idx)
  <2>1. Continues(srv, r.srv) /\ Continues(r.srv, s)
    BY <1>6, <1>8
  <2>2. s \in Server /\ InOrder(s) /\ r.srv \in Server
    BY <2>1 DEF Continues
  <2>3. Continues(s, t)
    BY <1>3, <1>5, <2>2, ContinuesSame, RenameNodeKeepsOrder
  <2> HIDE DEF parents, moved, renamed
  <2>4. Continues(srv, s)
    BY <1>2, <2>1, ContinuesTransitive
  <2>5. cursor =< s.head
    BY <1>2, <2>2, <2>4, ServerTypes DEF Advance, Continues
  <2> QED
    BY <1>2, <1>8, <2>2, <2>3, <2>4, <2>5, ContinuesTransitive, FollowOn
<1>10. ASSUME NEW r \in parents, NEW s \in moved(r, k), NEW t \in renamed(s, k),
              Current, Settled(t, k.node)
       PROVE  FALSE
  <2>1. Continues(srv, r.srv) /\ Continues(r.srv, s) /\ Continues(s, t)
    BY <1>6, <1>8, <1>9
  <2>2. /\ IF Last(c.path) = Last(k.path) THEN t = s ELSE t \in RenameNode(s, k.node, Last(c.path))
        /\ IF Parent(c.path) = Parent(k.path) THEN s = r.srv
           ELSE s \in MoveNode(r.srv, k.node, r.node)
    BY <1>4
  <2>3. k.path \in Path /\ k.path # c.path
    BY <1>1, <1>4
  <2> HIDE DEF parents, moved, renamed, row
  <2>4. ~stay => /\ LiesIn(r, Parent(c.path)) /\ (r.node = 0 => Parent(c.path) = Root)
                 /\ (r.node # 0 => r.node \in Nodes)
    BY <1>7
  <2> QED
    BY <1>1, <1>4, <1>10, <2>1, <2>2, <2>3, <2>4, MoveStays
<1> HIDE DEF parents, moved, renamed
<1>11. CASE Refused(srv, idx) /\ UNCHANGED spent
  BY <1>2, <1>11, PushedKeeps
<1>12. ASSUME NEW r \in parents, NEW i \in {idx, r.idx}, Refused(r.srv, i)
       PROVE  CInv'
  <2>1. RowsFollow(r.srv, i)
    BY <1>6, <1>12 DEF RowsFollow
  <2> QED
    BY <1>6, <1>12, <2>1, PushedKeeps
<1>13. ASSUME NEW r \in parents, NEW s \in moved(r, k), Refused(s, r.idx)
       PROVE  CInv'
  <2>1. Continues(srv, s)
    BY <1>2, <1>6, <1>8, ContinuesTransitive DEF Continues
  <2> QED
    BY <1>8, <1>13, <2>1, PushedKeeps
<1>14. ASSUME NEW r \in parents, NEW s \in moved(r, k), NEW t \in renamed(s, k),
              Pushed(c, t, [r.idx EXCEPT ![k.node] = row(k)])
       PROVE  CInv'
  <2> DEFINE i == [r.idx EXCEPT ![k.node] = row(k)]
  <2>1. \A m \in Nodes : m # k.node => i[m] = r.idx[m]
    BY <1>6
  <2> HIDE DEF i
  <2>2. Continues(srv, t) /\ RowsFollow(t, r.idx)
    BY <1>9
  <2>3. Current => RowsFollow(t, i)
    BY <1>10, <2>1, <2>2 DEF RowsFollow
  <2>4. Pushed(c, t, i)
    BY <1>14 DEF i
  <2> QED
    BY <2>2, <2>3, <2>4, PushedKeeps
<1> QED
  BY <1>4, <1>11, <1>12, <1>13, <1>14

-----------------------------------------------------------------------------
(* The theorem.                                                            *)

LEMMA PushStepKeeps ==
    ASSUME Typed, CInv, PushStep
    PROVE  CInv'
<1>1. ASSUME NEW c \in pass.pending, RefusePath(c)
      PROVE  CInv'
  BY <1>1, QuietKeeps DEF RefusePath, Broken
<1> QED
  BY <1>1, PushDirKeeps, PushFileChangeKeeps, PushMoveKeeps, PushDeleteKeeps DEF PushStep

LEMMA CoversInit == Init => CInv
<1> SUFFICES ASSUME Init
             PROVE  CInv
  OBVIOUS
<1> DEFINE size == Len(Tree)
           kept(i) == [st |-> "live", scope |-> Tree[i].scope, path |-> Tree[i].path,
                       dir |-> Tree[i].hash = NoHash, ver |-> 1, hash |-> Tree[i].hash]
           free == [st |-> "free", scope |-> 0, path |-> Root, dir |-> FALSE,
                    ver |-> 0, hash |-> NoHash]
           entry(i) == [seq |-> i, node |-> i, path |-> Tree[i].path,
                        dir |-> Tree[i].hash = NoHash, ver |-> 1,
                        hash |-> Tree[i].hash, deleted |-> FALSE]
           row(i) == [path |-> Tree[i].path, dir |-> Tree[i].hash = NoHash,
                      ver |-> 1, hash |-> Tree[i].hash]
<1>1. size \in Nat /\ 1..size \subseteq Nodes
  BY TreeAssumption, LenProperties
<1>2. ASSUME NEW i \in 1..size
      PROVE  Tree[i].path \in Path /\ Tree[i].path \in Seq(Names)
  <2>1. Tree[i] \in [path : Path, hash : Hash, scope : Nat]
    BY TreeAssumption, ElementOfSeq
  <2> QED
    BY <2>1, PathIsSeq
<1>3. /\ \A i : /\ kept(i).st = "live" /\ kept(i).scope = Tree[i].scope
                /\ kept(i).path = Tree[i].path /\ (kept(i).dir <=> Tree[i].hash = NoHash)
                /\ kept(i).hash = Tree[i].hash /\ ServerRow(kept(i)) = row(i)
      /\ \A i : /\ entry(i).seq = i /\ entry(i).node = i /\ EntryIs(entry(i), kept(i))
      /\ free.st = "free" /\ ~free.dir
  BY DEF ServerRow, EntryIs
<1> HIDE DEF kept, free, entry, row, size
<1>4. /\ \A n \in Nodes : srv.nodes[n] = IF n \in 1..size THEN kept(n) ELSE free
      /\ srv.feed = {entry(i) : i \in 1..size}
      /\ srv.head = size /\ srv.epoch = 0 /\ cursor = size
      /\ pass.pc = "idle" /\ pass.pending = {} /\ pass.since = 0 /\ pass.page = {}
  BY DEF Init, kept, free, entry, size, Idle
<1>5. \A n \in Nodes : n \in 1..size /\ Tree[n].scope = 0 => idx[n] = row(n)
  BY DEF Init, row, size
<1>6. \A n \in Nodes : srv.nodes[n].st # "free" => n \in 1..size /\ srv.nodes[n] = kept(n)
  BY <1>3, <1>4
<1>7. FeedInOrder(srv)
  BY <1>1, <1>3, <1>4 DEF FeedInOrder
<1>8. FeedIsCurrent(srv)
  <2> SUFFICES ASSUME NEW n \in Nodes, srv.nodes[n].st # "free"
               PROVE  \E e \in srv.feed : e.node = n /\ EntryIs(e, srv.nodes[n])
                                          /\ Seen(srv, n, e.seq)
    BY DEF FeedIsCurrent
  <2>1. n \in 1..size /\ srv.nodes[n] = kept(n)
    BY <1>6
  <2>2. Seen(srv, n, n)
    BY <1>1, <1>3, <1>4 DEF Seen
  <2>3. entry(n) \in srv.feed
    BY <1>4, <2>1
  <2> QED
    BY <1>3, <2>1, <2>2, <2>3
<1>9. OnePerPath(srv.nodes)
  <2> SUFFICES ASSUME NEW m \in Nodes, NEW n \in Nodes,
                      SamePlace(srv.nodes[m], srv.nodes[n]), m # n
               PROVE  FALSE
    BY DEF OnePerPath
  <2>1. /\ m \in 1..size /\ n \in 1..size
        /\ Tree[m].scope = Tree[n].scope /\ Tree[m].path = Tree[n].path
    BY <1>3, <1>6 DEF SamePlace
  <2>2. Within(Tree[m].path, Tree[n].path) /\ Within(Tree[n].path, Tree[m].path)
    BY <1>2, <2>1, WithinOrder
  <2>3. m < n \/ n < m
    BY <1>1, <2>1
  <2> QED
    BY <2>1, <2>2, <2>3, TreeAssumption DEF size
<1>10. NoHashes(srv.nodes)
  BY <1>3, <1>4 DEF NoHashes
<1>11. InFolders(srv)
  <2> SUFFICES ASSUME NEW n \in Nodes, srv.nodes[n].st = "live"
               PROVE  /\ srv.nodes[n].path \in Path
                      /\ \A q \in Path :
                            Within(q, srv.nodes[n].path) /\ q # srv.nodes[n].path =>
                                \E m \in Nodes : Above(srv.nodes, m, q, n) /\ Older(srv, m, n)
    BY DEF InFolders
  <2>1. n \in 1..size /\ srv.nodes[n] = kept(n) /\ srv.nodes[n].path = Tree[n].path
    BY <1>3, <1>6
  <2>2. ASSUME NEW q \in Path, Within(q, Tree[n].path), q # Tree[n].path
        PROVE  \E m \in Nodes : Above(srv.nodes, m, q, n) /\ Older(srv, m, n)
    <3>1. PICK j \in 1..size : /\ j < n /\ Tree[j].path = q
                               /\ Tree[j].scope = Tree[n].scope /\ Tree[j].hash = NoHash
      BY <2>1, <2>2, TreeAssumption DEF size
    <3>2. j \in Nodes /\ srv.nodes[j] = kept(j)
      BY <1>1, <1>4, <3>1
    <3>3. Above(srv.nodes, j, q, n)
      BY <1>3, <2>1, <3>1, <3>2 DEF Above
    <3>4. Older(srv, j, n)
      <4>1. entry(n) \in srv.feed /\ entry(n).node = n /\ entry(n).seq = n
        BY <1>3, <1>4, <2>1
      <4>2. \A e \in srv.feed : e.node = j => e.seq = j
        BY <1>3, <1>4
      <4>3. j =< n
        BY <1>1, <2>1, <3>1
      <4> QED
        BY <4>1, <4>2, <4>3 DEF Older
    <3> QED
      BY <3>2, <3>3, <3>4
  <2> QED
    BY <1>2, <2>1, <2>2
<1>12. Covers
  BY <1>3, <1>4, <1>5, <1>6 DEF Covers, Settled
<1>13. KnownCovers /\ MovesMove /\ PageIsNext
  BY <1>4 DEF KnownCovers, MovesMove, PageIsNext
<1>14. PageInOrder
  BY <1>1, <1>4 DEF PageInOrder
<1> QED
  BY <1>7, <1>8, <1>9, <1>10, <1>11, <1>12, <1>13, <1>14 DEF CInv, InOrder

LEMMA CoversNext == Typed /\ IInv /\ CInv /\ [Next]_vars => CInv'
<1> SUFFICES ASSUME Typed, IInv, CInv, [Next]_vars
             PROVE  CInv'
  OBVIOUS
<1>1. CASE FinishPull \/ BreakReset \/ Abort \/ User \/ UNCHANGED vars
  BY <1>1, EndsKeep
<1>2. CASE StartPush
  BY <1>2, StartPushKeeps
<1>3. CASE StartReset
  BY <1>3, StartResetKeeps
<1>4. CASE PushStep
  BY <1>4, PushStepKeeps
<1>5. CASE Fetch
  BY <1>5, FetchKeeps
<1>6. CASE ApplyStep
  BY <1>6, ApplyStepKeeps
<1>7. CASE FinishReset
  BY <1>7, FinishResetKeeps
<1>8. CASE Remote
  BY <1>8, RemoteKeeps
<1>9. CASE ChangeScope
  BY <1>9, ChangeScopeKeeps
<1> QED
  BY <1>1, <1>2, <1>3, <1>4, <1>5, <1>6, <1>7, <1>8, <1>9 DEF Next, PassStep

LEMMA SpecCovers == Spec => [](Typed /\ CInv)
<1>1. Init => CInv
  BY CoversInit
<1>2. Typed /\ IInv /\ CInv /\ [Next]_vars => CInv'
  BY CoversNext
<1> QED
  BY <1>1, <1>2, SpecTyped, SpecScope, PTL DEF Spec

\* The feed always has a last entry of a node.
LEMMA LastSeqIsLast ==
    ASSUME Typed, CInv, NEW n \in Nodes, srv.nodes[n].st # "free", LastSeq(n) =< cursor
    PROVE  Seen(srv, n, cursor)
<1> DEFINE about == {e \in srv.feed : e.node = n}
           last == CHOOSE k \in {e.seq : e \in about} : \A e \in about : e.seq =< k
<1>1. last = LastSeq(n)
  BY DEF LastSeq
<1>2. \A e \in about : e.seq \in Nat
  BY CoverTypes
<1>3. PICK f \in about : \A e \in about : e.seq =< f.seq
  BY DEF CInv, InOrder, FeedIsCurrent, Seen
<1>4. last \in {e.seq : e \in about} /\ \A e \in about : e.seq =< last
  BY <1>3
<1> HIDE DEF last
<1>5. last \in Nat /\ last =< cursor /\ cursor \in Nat
  BY <1>1, <1>2, <1>4, CoverTypes
<1>6. \A e \in about : e.seq =< cursor
  BY <1>2, <1>4, <1>5
<1> QED
  BY <1>6 DEF Seen

\* Whatever step a pass is cut at, and whatever the other devices do meanwhile, the
\* device never takes as seen a change that its index does not reflect: PullOnce
\* writes the row before the cursor, one entry at a time and in the order of the feed,
\* and PushLocal writes only rows that its own request has made or changed.
THEOREM CursorCovers == Spec => []CursorCoversIndex
<1>1. Typed /\ CInv => CursorCoversIndex
  <2> SUFFICES ASSUME Typed, CInv, srv.epoch = scopeEpoch, ~rebuilding, NEW n \in Nodes,
                      srv.nodes[n].st # "free", srv.nodes[n].scope = srv.epoch,
                      LastSeq(n) =< cursor
               PROVE  idx[n] = ServerRow(srv.nodes[n])
    BY DEF CursorCoversIndex, ServerRow
  <2>1. Current /\ Settled(srv, n)
    BY LastSeqIsLast DEF Current, Settled
  <2> QED
    BY <2>1 DEF CInv, Covers
<1> QED
  BY <1>1, SpecCovers, PTL

-----------------------------------------------------------------------------
(***************************************************************************)
(* Nothing is lost without the server having it.                           *)
(***************************************************************************)
RowsStored(i, H) == \A n \in Nodes : i[n].hash \in H \cup {NoHash}

\* Every file of a folder has its content in H.
HeldBy(d, H) == \A p \in Path : IsFile(d, p) => d[p] \in H

\* The changes that send a file.
Sends(c) == c.op \in {"create", "update"} /\ ~c.dir

\* The server has the contents of its nodes and of its feed, and those of the rows and
\* of what a pass holds in memory.
HashesStored ==
    /\ Stored(srv)
    /\ RowsStored(idx, srv.history)
    /\ \A k \in pass.known : k.hash \in srv.history \cup {NoHash}
    /\ \A e \in pass.page : e.hash \in srv.history \cup {NoHash}

\* A push has still to send what the server has not, and so a pass that pulls after it
\* finds a folder the server has all of; a rebuild pulls without a push.
FilesSent ==
    /\ pass.pc = "push" =>
          /\ \A p \in Path : IsFile(disk, p) =>
                disk[p] \in srv.history \/ \E c \in pass.pending : Sends(c) /\ c.path = p
          /\ \A c \in pass.pending : Sends(c) => IsFile(disk, c.path) /\ c.hash = disk[c.path]
    /\ pass.pc = "pull" => pass.reset
    /\ pass.pc = "apply" /\ ~pass.reset => HeldBy(disk, srv.history)

LInv == HashesStored /\ FilesSent

LEMMA FileIs ==
    ASSUME NEW p \in Path, NEW d
    PROVE  IsFile(d, p) <=> d[p] \in Contents
<1>1. p # Root
  BY PathIsSeq, RootIsSeq
<1> QED
  BY <1>1 DEF IsFile

\* What the file system calls make of a folder.
LEMMA CallsHold ==
    ASSUME NEW d \in FolderTree, NEW H, HeldBy(d, H)
    PROVE  /\ \A p : HeldBy(MkdirAll(d, p), H)
           /\ \A p : HeldBy(RemoveAll(d, p), H)
           /\ \A p, q : HeldBy(Rename(d, p, q), H)
<1>1. Folder \notin Contents /\ Absent \notin Contents
  BY ContentsAssumption
<1>2. \A q \in Path : d[q] \in Contents => d[q] \in H
  BY FileIs DEF HeldBy
<1>3. ASSUME NEW p, NEW q \in Path
      PROVE  /\ MkdirAll(d, p)[q] \in {Folder, d[q]}
             /\ RemoveAll(d, p)[q] \in {Absent, d[q]}
  BY DEF MkdirAll, RemoveAll
<1>4. ASSUME NEW p, NEW r, NEW q \in Path
      PROVE  Rename(d, p, r)[q] = Absent \/ \E f \in Path : Rename(d, p, r)[q] = d[f]
  BY DEF Rename
<1>5. ASSUME NEW p
      PROVE  HeldBy(MkdirAll(d, p), H) /\ HeldBy(RemoveAll(d, p), H)
  BY <1>1, <1>2, <1>3, FileIs DEF HeldBy
<1>6. ASSUME NEW p, NEW r
      PROVE  HeldBy(Rename(d, p, r), H)
  BY <1>1, <1>2, <1>4, FileIs DEF HeldBy
<1> QED
  BY <1>5, <1>6

LEMMA WriteHolds ==
    ASSUME NEW d \in FolderTree, NEW H, HeldBy(d, H), NEW p, NEW h \in H
    PROVE  HeldBy([d EXCEPT ![p] = h], H)
<1>1. \A q \in Path : [d EXCEPT ![p] = h][q] \in {h, d[q]}
  BY DEF FolderTree
<1> QED
  BY <1>1, FileIs DEF HeldBy

-----------------------------------------------------------------------------
(* The ways a step ends.                                                   *)

LEMMA IdleHolds ==
    ASSUME pass' = Idle, StoresOn(srv, srv'), RowsStored(idx', srv'.history)
    PROVE  LInv'
<1>1. pass'.pc = "idle" /\ pass'.known = {} /\ pass'.page = {}
  BY DEF Idle
<1> QED
  BY <1>1 DEF LInv, HashesStored, FilesSent, StoresOn

\* The pass is as it was and the folder too; the server may have more.
LEMMA SameHolds ==
    ASSUME LInv, StoresOn(srv, srv'), UNCHANGED <<disk, idx, pass>>
    PROVE  LInv'
<1>1. srv.history \subseteq srv'.history /\ Stored(srv')
  BY DEF StoresOn
<1>2. HashesStored'
  BY <1>1 DEF LInv, HashesStored, RowsStored
<1>3. FilesSent'
  BY <1>1 DEF LInv, FilesSent, HeldBy
<1> QED
  BY <1>2, <1>3 DEF LInv

LEMMA PushedHolds ==
    ASSUME Typed, LInv, pass.pc = "push", NEW s, StoresOn(srv, s), NEW i,
           RowsStored(i, s.history),
           \/ Refused(s, i)
           \/ \E c : Pushed(c, s, i) /\ (Sends(c) => disk[c.path] \in s.history)
    PROVE  LInv'
<1>1. srv' = s /\ disk' = disk /\ (idx' = i \/ idx' = idx)
  BY DEF Pushed, Refused
<1>2. srv.history \subseteq s.history /\ Stored(s)
  BY DEF StoresOn
<1>3. RowsStored(idx', s.history)
  BY <1>1, <1>2 DEF LInv, HashesStored, RowsStored
<1>4. CASE pass' = Idle
  BY <1>1, <1>3, <1>4, IdleHolds
<1>5. ASSUME NEW c, pass' = [pass EXCEPT !.pending = @ \ {c}],
             Sends(c) => disk[c.path] \in s.history
      PROVE  LInv'
  <2>1. /\ pass'.pc = "push" /\ pass'.reset = pass.reset /\ pass'.known = pass.known
        /\ pass'.page = pass.page /\ pass'.pending = pass.pending \ {c}
    BY <1>5 DEF Typed, TypeOK, Pass
  <2>2. HashesStored'
    BY <1>1, <1>2, <1>3, <2>1 DEF LInv, HashesStored
  <2>3. ASSUME NEW p \in Path, IsFile(disk, p)
        PROVE  disk[p] \in s.history \/ \E x \in pass'.pending : Sends(x) /\ x.path = p
    <3>1. disk[p] \in srv.history \/ \E x \in pass.pending : Sends(x) /\ x.path = p
      BY <2>3 DEF LInv, FilesSent
    <3> QED
      BY <1>2, <1>5, <2>1, <3>1
  <2>4. \A x \in pass'.pending : Sends(x) => IsFile(disk, x.path) /\ x.hash = disk[x.path]
    BY <2>1 DEF LInv, FilesSent
  <2>5. FilesSent'
    BY <1>1, <2>1, <2>3, <2>4 DEF FilesSent
  <2> QED
    BY <2>2, <2>5 DEF LInv
<1> QED
  BY <1>4, <1>5 DEF Pushed, Refused, Broken

\* What an application may put into the folder: a rebuild anything.
Holdable == IF pass.reset THEN Contents ELSE srv.history

LEMMA FolderHeld ==
    ASSUME Typed, LInv, pass.pc = "apply"
    PROVE  HeldBy(disk, Holdable)
  BY FileIs DEF HeldBy, Holdable, LInv, FilesSent

LEMMA AppliedHolds ==
    ASSUME Typed, LInv, pass.pc = "apply", NEW e \in pass.page, NEW d, HeldBy(d, Holdable),
           NEW row, row.hash \in srv.history \cup {NoHash}, Applied(e, d, row)
    PROVE  LInv'
<1>1. srv' = srv /\ disk' = d /\ StoresOn(srv, srv')
  BY DEF Applied, Recorded, CutShort, SetDisk, LInv, HashesStored, StoresOn
<1>2. idx \in [Nodes -> Row] /\ (idx' = idx \/ idx' = [idx EXCEPT ![e.node] = row])
  BY DEF Applied, Typed, TypeOK
<1>3. RowsStored(idx', srv.history)
  <2>1. \A n \in Nodes : idx'[n] = idx[n] \/ idx'[n] = row
    BY <1>2
  <2> QED
    BY <2>1 DEF LInv, HashesStored, RowsStored
<1>4. CASE pass' = Idle
  BY <1>1, <1>3, <1>4, IdleHolds
<1>5. CASE pass' = [pass EXCEPT !.page = @ \ {e}]
  <2>1. /\ pass'.pc = "apply" /\ pass'.reset = pass.reset /\ pass'.known = pass.known
        /\ pass'.page = pass.page \ {e}
    BY <1>5 DEF Typed, TypeOK, Pass
  <2>2. HashesStored'
    BY <1>1, <1>3, <2>1 DEF LInv, HashesStored
  <2>3. FilesSent'
    BY <1>1, <2>1 DEF FilesSent, Holdable
  <2> QED
    BY <2>2, <2>3 DEF LInv
<1> QED
  BY <1>4, <1>5 DEF Applied, Broken

LEMMA FailedHolds ==
    ASSUME LInv, NEW d, Failed(d)
    PROVE  LInv'
<1>1. pass' = Idle /\ srv' = srv /\ idx' = idx
  BY DEF Failed, Broken, index
<1> QED
  BY <1>1, IdleHolds DEF LInv, HashesStored, StoresOn

-----------------------------------------------------------------------------
(* Starting a pass, and a page of the feed.                                *)

\* DetectLocal finds every file whose content the index does not have, unless it is
\* paired with a row that has it.
LEMMA DetectLocalSends ==
    ASSUME Typed, LInv, NEW K \in KnownNodes, NEW M \in Pairings(DetectLocal(K))
    PROVE  /\ \A p \in Path : IsFile(disk, p) =>
                 \/ disk[p] \in srv.history
                 \/ \E c \in pairLocalMoves(DetectLocal(K), M) : Sends(c) /\ c.path = p
           /\ \A c \in pairLocalMoves(DetectLocal(K), M) :
                 Sends(c) => IsFile(disk, c.path) /\ c.hash = disk[c.path]
<1> DEFINE C == DetectLocal(K)
           hashOf(p) == IF IsFile(disk, p) THEN disk[p] ELSE NoHash
           found(op, p) == [op |-> op, path |-> p, from |-> Root, node |-> 0,
                            dir |-> IsFolder(disk, p), hash |-> hashOf(p)]
           gone(n) == [op |-> "delete", path |-> idx[n].path, from |-> Root, node |-> n,
                       dir |-> idx[n].dir, hash |-> idx[n].hash]
           fresh(p) == \A k \in K : idx[k].path # p
           move(x) == [x[2] EXCEPT !.op = "move", !.from = x[1].path]
<1>1. K \in SUBSET Nodes
  BY DEF KnownNodes
<1>2. C \in SUBSET Local
  BY <1>1, DetectLocalType DEF Typed
<1>3. /\ \A p \in Path : Exists(disk, p) /\ fresh(p) => found("create", p) \in C
      /\ \A p \in Path, k \in K : IsFile(disk, p) /\ idx[k].path = p /\ idx[k].hash # disk[p]
            => found("update", p) \in C
      /\ \A x \in C : \/ \E p \in Path : x = found("create", p) /\ Exists(disk, p)
                      \/ \E p \in Path : x = found("update", p) /\ IsFile(disk, p)
                      \/ \E n \in Nodes : x = gone(n)
  BY DEF DetectLocal
<1>4. ASSUME NEW op \in {"create", "update"}, NEW p \in Path
      PROVE  /\ found(op, p).op = op /\ found(op, p).path = p
             /\ IsFile(disk, p) => Sends(found(op, p)) /\ found(op, p).hash = disk[p]
             /\ Exists(disk, p) /\ Sends(found(op, p)) => IsFile(disk, p)
  <2>1. p # Root
    BY PathIsSeq, RootIsSeq
  <2>2. disk[p] \in Entry
    BY DEF Typed, TypeOK
  <2> QED
    BY <2>1, <2>2, ContentsAssumption DEF Sends, IsFile, IsFolder, Exists, Entry
<1>5. \A n : gone(n).op = "delete" /\ gone(n).hash = idx[n].hash
  OBVIOUS
<1> HIDE DEF found, gone, C
<1>6. ASSUME NEW x \in M
      PROVE  /\ x[1] \in C /\ x[1].op = "delete" /\ x[2] \in C /\ x[2].op = "create"
             /\ x[1].hash = x[2].hash /\ x[1].hash # NoHash
             /\ move(x).op = "move"
  <2>1. /\ x[1] \in C /\ x[1].op = "delete" /\ x[2] \in C /\ x[2].op = "create"
        /\ x[1].hash = x[2].hash /\ x[1].hash # NoHash
    BY DEF Pairings, C
  <2> QED
    BY <1>2, <2>1 DEF Local
<1>7. pairLocalMoves(C, M) = (C \ UNION {{x[1], x[2]} : x \in M}) \cup {move(x) : x \in M}
  BY Zenon DEF pairLocalMoves
<1> HIDE DEF move
<1>8. ASSUME NEW p \in Path, IsFile(disk, p)
      PROVE  \/ disk[p] \in srv.history
             \/ \E c \in pairLocalMoves(C, M) : Sends(c) /\ c.path = p
  <2>1. disk[p] # NoHash /\ Exists(disk, p)
    BY <1>8, FileIs, ContentsAssumption DEF Exists
  <2>2. CASE fresh(p)
    <3> DEFINE x == found("create", p)
    <3>1. x \in C /\ Sends(x) /\ x.path = p /\ x.hash = disk[p]
      BY <1>3, <1>4, <1>8, <2>1, <2>2
    <3> HIDE DEF x
    <3>2. CASE x \in pairLocalMoves(C, M)
      BY <3>1, <3>2
    <3>3. CASE x \notin pairLocalMoves(C, M)
      <4>1. PICK y \in M : x \in {y[1], y[2]}
        BY <1>7, <3>1, <3>3
      <4>2. y[1] \in C /\ y[1].op = "delete" /\ y[1].hash = disk[p]
        BY <1>6, <3>1, <4>1
      <4>3. PICK n \in Nodes : y[1] = gone(n)
        BY <1>3, <1>4, <4>2
      <4> QED
        BY <1>5, <2>1, <4>2, <4>3 DEF LInv, HashesStored, RowsStored
    <3> QED
      BY <3>2, <3>3
  <2>3. CASE ~fresh(p)
    <3>1. PICK k \in K : idx[k].path = p
      BY <2>3
    <3>2. CASE idx[k].hash = disk[p]
      BY <1>1, <2>1, <3>2 DEF LInv, HashesStored, RowsStored
    <3>3. CASE idx[k].hash # disk[p]
      <4> DEFINE x == found("update", p)
      <4>1. x \in C /\ Sends(x) /\ x.path = p /\ x.op = "update"
        BY <1>3, <1>4, <1>8, <3>1, <3>3
      <4> HIDE DEF x
      <4>2. \A y \in M : x # y[1] /\ x # y[2]
        BY <1>6, <4>1
      <4> QED
        BY <1>7, <4>1, <4>2
    <3> QED
      BY <3>2, <3>3
  <2> QED
    BY <2>2, <2>3
<1>9. ASSUME NEW c \in pairLocalMoves(C, M), Sends(c)
      PROVE  IsFile(disk, c.path) /\ c.hash = disk[c.path]
  <2>1. c \in C
    BY <1>6, <1>7, <1>9 DEF Sends
  <2>2. c.op # "delete"
    BY <1>9 DEF Sends
  <2>3. PICK op \in {"create", "update"}, p \in Path : c = found(op, p) /\ Exists(disk, p)
    BY <1>3, <1>5, <2>1, <2>2, ContentsAssumption DEF Exists, IsFile
  <2> QED
    BY <1>4, <1>9, <2>3
<1> QED
  BY <1>8, <1>9 DEF C

LEMMA StartPushHolds ==
    ASSUME Typed, LInv, StartPush
    PROVE  LInv'
<1>0. PICK K \in KnownNodes : \E M \in Pairings(DetectLocal(K)) :
         pass' = [Idle EXCEPT !.pc = "push", !.meta = srv.epoch,
                              !.pending = pairLocalMoves(DetectLocal(K), M),
                              !.known = {RowOf(n) : n \in K}]
  BY Zenon DEF StartPush
<1>1. PICK M \in Pairings(DetectLocal(K)) :
         pass' = [Idle EXCEPT !.pc = "push", !.meta = srv.epoch,
                              !.pending = pairLocalMoves(DetectLocal(K), M),
                              !.known = {RowOf(n) : n \in K}]
  BY <1>0, Zenon
<1> DEFINE pending == pairLocalMoves(DetectLocal(K), M)
           known == {RowOf(n) : n \in K}
<1>2. \A k \in known : k.hash \in srv.history \cup {NoHash}
  BY DEF RowOf, KnownNodes, LInv, HashesStored, RowsStored
<1> HIDE DEF pending, known
<1>3. pass'.pc = "push" /\ pass'.pending = pending /\ pass'.known = known /\ pass'.page = {}
  BY <1>1 DEF Idle, pending, known
<1>4. UNCHANGED <<srv, disk, idx>>
  BY DEF StartPush, index
<1>5. HashesStored'
  BY <1>2, <1>3, <1>4 DEF LInv, HashesStored, RowsStored
<1>6. FilesSent'
  BY <1>3, <1>4, DetectLocalSends DEF FilesSent, pending
<1> QED
  BY <1>5, <1>6 DEF LInv

LEMMA StartResetHolds ==
    ASSUME LInv, StartReset
    PROVE  LInv'
<1>1. /\ pass'.pc = "pull" /\ pass'.reset /\ pass'.known = {} /\ pass'.page = {}
      /\ srv' = srv /\ \A n \in Nodes : idx'[n].hash = NoHash
  BY DEF StartReset, Idle, NoRow
<1> QED
  BY <1>1 DEF LInv, HashesStored, RowsStored, FilesSent

LEMMA FetchHolds ==
    ASSUME Typed, LInv, Fetch
    PROVE  LInv'
<1> DEFINE from == IF pass.pc = "apply" THEN pass.since ELSE cursor
           rest == Pending(srv, from)
           page == {e \in rest : Cardinality({f \in rest : f.seq < e.seq}) < PageLimit}
           more == page # rest
<1>1. PICK last \in {from} \cup {e.seq : e \in page} :
        pass' = [pass EXCEPT !.pc = "apply", !.pending = {}, !.known = {},
                             !.since = last, !.page = page, !.more = more]
  BY Zenon DEF Fetch
<1>2. page \subseteq srv.feed
  BY DEF Pending
<1> HIDE DEF page, more
<1>3. /\ pass'.pc = "apply" /\ pass'.reset = pass.reset /\ pass'.known = {}
      /\ pass'.page = page
  BY <1>1 DEF Typed, TypeOK, Pass
<1>4. UNCHANGED <<srv, disk, idx>>
  BY DEF Fetch, index
<1>5. HashesStored'
  BY <1>2, <1>3, <1>4 DEF LInv, HashesStored, RowsStored, Stored
<1>6. ~pass.reset => HeldBy(disk, srv.history)
  BY DEF Fetch, LInv, FilesSent, HeldBy
<1>7. FilesSent'
  BY <1>3, <1>4, <1>6 DEF FilesSent
<1> QED
  BY <1>5, <1>7 DEF LInv

-----------------------------------------------------------------------------
(* Applying an entry.                                                      *)

LEMMA FetchContentHolds ==
    ASSUME Typed, LInv, pass.pc = "apply", NEW e \in pass.page, NEW d \in FolderTree,
           HeldBy(d, Holdable), FetchContent(e, d)
    PROVE  LInv'
<1> DEFINE at == MkdirAll(d, Parent(e.path))
<1>1. at \in FolderTree /\ HeldBy(at, Holdable)
  BY TreeCalls, CallsHold
<1>2. \/ \E x : Failed(x)
      \/ /\ e.hash \in Contents
         /\ Applied(e, [at EXCEPT ![e.path] = e.hash], FileRow(e.path, e.ver, e.hash))
  BY DEF FetchContent, Download
<1> HIDE DEF at
<1>3. CASE /\ e.hash \in Contents
           /\ Applied(e, [at EXCEPT ![e.path] = e.hash], FileRow(e.path, e.ver, e.hash))
  <2>1. e.hash \in srv.history /\ e.hash \in Holdable
    BY <1>3, ContentsAssumption DEF LInv, HashesStored, Holdable
  <2>2. HeldBy([at EXCEPT ![e.path] = e.hash], Holdable)
    BY <1>1, <2>1, WriteHolds
  <2>3. FileRow(e.path, e.ver, e.hash).hash \in srv.history \cup {NoHash}
    BY <2>1 DEF FileRow
  <2> QED
    BY <1>3, <2>2, <2>3, AppliedHolds
<1> QED
  BY <1>2, <1>3, FailedHolds

LEMMA ApplyStepHolds ==
    ASSUME Typed, LInv, ApplyStep
    PROVE  LInv'
<1>1. PICK e \in pass.page : ApplyDelete(e) \/ ApplyDir(e) \/ ApplyFile(e) \/ RejectPath(e)
  BY DEF ApplyStep
<1>2. pass.pc = "apply"
  BY <1>1 DEF ApplyDelete, ApplyDir, ApplyFile, RejectPath, ApplyNext, FirstOfPage
<1>3. disk \in FolderTree /\ HeldBy(disk, Holdable)
  BY <1>2, FolderIsTree, FolderHeld
<1>4. /\ NoRow.hash \in srv.history \cup {NoHash}
      /\ DirRow(e.path, e.ver).hash \in srv.history \cup {NoHash}
      /\ FileRow(e.path, e.ver, e.hash).hash \in srv.history \cup {NoHash}
  BY DEF NoRow, DirRow, FileRow, LInv, HashesStored
<1> DEFINE old  == idx[e.node].path
           made == MkdirAll(disk, Parent(e.path))
<1>5. made \in FolderTree /\ HeldBy(made, Holdable)
  BY <1>3, TreeCalls, CallsHold
<1> HIDE DEF made
<1>6. ASSUME NEW d \in {disk, made} \cup {Rename(made, old, e.path)}
      PROVE  d \in FolderTree /\ HeldBy(d, Holdable)
  BY <1>3, <1>5, TreeCalls, CallsHold
<1>7. CASE ApplyDelete(e)
  BY <1>2, <1>3, <1>4, <1>7, CallsHold, AppliedHolds DEF ApplyDelete
<1>8. CASE ApplyDir(e)
  <2>1. \/ \E d : Failed(d)
        \/ \E d \in {disk, made} \cup {Rename(made, old, e.path)} :
              Applied(e, MkdirAll(d, e.path), DirRow(e.path, e.ver))
    BY <1>8, Zenon DEF ApplyDir, made
  <2>2. ASSUME NEW d \in {disk, made} \cup {Rename(made, old, e.path)},
               Applied(e, MkdirAll(d, e.path), DirRow(e.path, e.ver))
        PROVE  LInv'
    <3>1. HeldBy(MkdirAll(d, e.path), Holdable)
      BY <1>6, CallsHold
    <3> QED
      BY <1>2, <1>4, <2>2, <3>1, AppliedHolds
  <2> QED
    BY <2>1, <2>2, FailedHolds
<1>9. CASE ApplyFile(e)
  <2>1. \/ \E d : Failed(d)
        \/ \E d \in {disk, made} \cup {Rename(made, old, e.path)} :
              Applied(e, d, FileRow(e.path, e.ver, e.hash)) \/ FetchContent(e, d)
    BY <1>9, Zenon DEF ApplyFile, made
  <2> QED
    BY <1>2, <1>4, <1>6, <2>1, FailedHolds, AppliedHolds, FetchContentHolds
<1>10. CASE RejectPath(e)
  BY <1>10, FailedHolds DEF RejectPath
<1> QED
  BY <1>1, <1>7, <1>8, <1>9, <1>10

-----------------------------------------------------------------------------
(* Pushing.                                                                *)

LEMMA StoresOnSame ==
    ASSUME NEW s, Stored(s)
    PROVE  StoresOn(s, s)
  BY DEF StoresOn

LEMMA StoresOnTransitive ==
    ASSUME NEW s, NEW t, NEW u, StoresOn(s, t), StoresOn(t, u)
    PROVE  StoresOn(s, u)
  BY DEF StoresOn

LEMMA RowsStoredOn ==
    ASSUME NEW s, NEW t, StoresOn(s, t), NEW i \in [Nodes -> Row], RowsStored(i, s.history)
    PROVE  /\ RowsStored(i, t.history)
           /\ \A n \in Nodes : \A row : row.hash \in t.history \cup {NoHash} =>
                 RowsStored([i EXCEPT ![n] = row], t.history)
<1>1. RowsStored(i, t.history)
  BY DEF StoresOn, RowsStored
<1>2. ASSUME NEW n \in Nodes, NEW row, row.hash \in t.history \cup {NoHash}
      PROVE  RowsStored([i EXCEPT ![n] = row], t.history)
  <2>1. \A m \in Nodes : [i EXCEPT ![n] = row][m] \in {row, i[m]}
    OBVIOUS
  <2> QED
    BY <1>1, <1>2, <2>1 DEF RowsStored
<1> QED
  BY <1>1, <1>2

LEMMA PushDirHolds ==
    ASSUME Typed, LInv, NEW c \in pass.pending, PushDir(c)
    PROVE  LInv'
<1>1. /\ srv \in Server /\ idx \in [Nodes -> Row] /\ c.path \in Path
      /\ Stored(srv) /\ RowsStored(idx, srv.history)
  BY DEF PushDir, Typed, TypeOK, PushesHavePaths, LInv, HashesStored
<1>2. pass.pc = "push" /\ ~Sends(c)
  BY DEF PushDir, PushNext, NextInOrder, Sends
<1>3. CASE Refused(srv, idx)
  BY <1>1, <1>2, <1>3, StoresOnSame, PushedHolds
<1>4. ASSUME NEW a \in EnsureDir(srv, c.path),
             Pushed(c, a.srv, [idx EXCEPT ![a.node] =
                                 DirRow(c.path, a.srv.nodes[a.node].ver)])
      PROVE  LInv'
  <2> DEFINE row == DirRow(c.path, a.srv.nodes[a.node].ver)
             i == [idx EXCEPT ![a.node] = row]
  <2>1. StoresOn(srv, a.srv) /\ a.node \in Nodes
    BY <1>1, EnsureDirStores, EnsureDirAnswer DEF Answer
  <2>2. row.hash = NoHash
    BY DEF DirRow
  <2> HIDE DEF row
  <2>3. RowsStored(i, a.srv.history)
    BY <1>1, <2>1, <2>2, RowsStoredOn
  <2>4. Pushed(c, a.srv, i)
    BY <1>4 DEF row
  <2> QED
    BY <1>2, <2>1, <2>3, <2>4, PushedHolds
<1> QED
  BY <1>3, <1>4 DEF PushDir

LEMMA PushFileChangeHolds ==
    ASSUME Typed, CInv, LInv, NEW c \in pass.pending, PushFileChange(c)
    PROVE  LInv'
<1>1. /\ srv \in Server /\ idx \in [Nodes -> Row] /\ c.path \in Path /\ InOrder(srv)
      /\ Stored(srv) /\ RowsStored(idx, srv.history)
  BY DEF PushFileChange, Typed, TypeOK, PushesHavePaths, CInv, LInv, HashesStored
<1>2. pass.pc = "push" /\ Sends(c)
  BY DEF PushFileChange, PushNext, NextInOrder, Sends
<1>3. IsFile(disk, c.path) /\ c.hash = disk[c.path] /\ disk[c.path] \in Contents
  BY <1>2 DEF LInv, FilesSent, IsFile
<1>4. CASE Refused(srv, idx)
  BY <1>1, <1>2, <1>4, StoresOnSame, PushedHolds
<1> DEFINE row(a) == FileRow(c.path, a.srv.nodes[a.node].ver, c.hash)
           after(a) == IF a.conflicted THEN idx ELSE [idx EXCEPT ![a.node] = row(a)]
<1>5. ASSUME NEW a, a \in PushFile(srv, c.path, Base(c.path), disk[c.path]),
             Pushed(c, a.srv, after(a))
      PROVE  LInv'
  <2>1. StoresOn(srv, a.srv) /\ disk[c.path] \in a.srv.history /\ a.node \in Nodes
    BY <1>1, <1>3, <1>5, PushFileStores, PushFileAnswer DEF Answer
  <2>2. row(a).hash \in a.srv.history \cup {NoHash}
    BY <1>3, <2>1 DEF FileRow
  <2> HIDE DEF row
  <2>3. RowsStored(after(a), a.srv.history)
    BY <1>1, <2>1, <2>2, RowsStoredOn
  <2> HIDE DEF after
  <2> QED
    BY <1>2, <1>5, <2>1, <2>3, PushedHolds
<1>6. \/ Refused(srv, idx)
      \/ \E a \in PushFile(srv, c.path, Base(c.path), disk[c.path]) : Pushed(c, a.srv, after(a))
  BY DEF PushFileChange
<1> QED
  BY <1>4, <1>5, <1>6

LEMMA PushDeleteHolds ==
    ASSUME Typed, LInv, NEW c \in pass.pending, PushDelete(c)
    PROVE  LInv'
<1>1. srv \in Server /\ Stored(srv) /\ RowsStored(idx, srv.history)
  BY DEF Typed, TypeOK, LInv, HashesStored
<1>2. pass.pc = "push" /\ ~Sends(c)
  BY DEF PushDelete, PushNext, NextInOrder, Sends
<1> DEFINE i == [n \in Nodes |-> IF \E k \in pass.known : k.path = c.path /\ k.node = n
                                 THEN NoRow ELSE idx[n]]
<1>3. PICK s \in DeleteRemote(srv, c.path) : Pushed(c, s, i)
  BY DEF PushDelete
<1>4. StoresOn(srv, s)
  BY <1>1, DeleteRemoteStores
<1>5. RowsStored(i, s.history)
  BY <1>1, <1>4 DEF RowsStored, StoresOn, NoRow
<1> HIDE DEF i
<1> QED
  BY <1>2, <1>3, <1>4, <1>5, PushedHolds

LEMMA MoveParentsHold ==
    ASSUME Typed, LInv, NEW p \in Path \cup {Root}, NEW r \in MoveParents(p)
    PROVE  StoresOn(srv, r.srv) /\ RowsStored(r.idx, r.srv.history)
<1>1. /\ srv \in Server /\ idx \in [Nodes -> Row] /\ Stored(srv)
      /\ RowsStored(idx, srv.history)
  BY DEF Typed, TypeOK, LInv, HashesStored
<1>2. CASE p = Root \/ RowsAt(idx, p) # {}
  <2>1. r.srv = srv /\ r.idx = idx
    BY <1>2 DEF MoveParents
  <2> QED
    BY <1>1, <2>1, StoresOnSame
<1>3. CASE p # Root /\ RowsAt(idx, p) = {}
  <2>1. PICK a \in EnsureDir(srv, p) :
           r = [srv |-> a.srv, node |-> a.node,
                idx |-> [idx EXCEPT ![a.node] = DirRow(p, a.srv.nodes[a.node].ver)]]
    BY <1>3, Zenon DEF MoveParents
  <2> DEFINE row == DirRow(p, a.srv.nodes[a.node].ver)
  <2>2. r.srv = a.srv /\ r.idx = [idx EXCEPT ![a.node] = row]
    BY <2>1
  <2>3. StoresOn(srv, a.srv) /\ a.node \in Nodes
    BY <1>1, <1>3, EnsureDirStores, EnsureDirAnswer DEF Answer
  <2>4. row.hash = NoHash
    BY DEF DirRow
  <2> HIDE DEF row
  <2>5. RowsStored([idx EXCEPT ![a.node] = row], a.srv.history)
    BY <1>1, <2>3, <2>4, RowsStoredOn
  <2> QED
    BY <2>2, <2>3, <2>5
<1> QED
  BY <1>2, <1>3

LEMMA MoveNodeStores ==
    ASSUME NEW s \in Server, Stored(s), NEW n \in Nodes
    PROVE  /\ \A m : \A t \in MoveNode(s, n, m) : StoresOn(s, t)
           /\ \A x \in Names : \A t \in RenameNode(s, n, x) : StoresOn(s, t)
<1>1. ASSUME NEW m, NEW t \in MoveNode(s, n, m)
      PROVE  StoresOn(s, t)
  <2>1. \E to \in Path : t \in MoveTo(s, n, to)
    BY DEF MoveNode
  <2> QED
    BY <2>1, MoveToStores
<1>2. ASSUME NEW x \in Names, NEW t \in RenameNode(s, n, x)
      PROVE  StoresOn(s, t)
  <2>1. Append(Parent(s.nodes[n].path), x) \in Path
    BY AnswerRow, SiblingType
  <2>2. t \in MoveTo(s, n, Append(Parent(s.nodes[n].path), x))
    BY DEF RenameNode
  <2> QED
    BY <2>1, <2>2, MoveToStores
<1> QED
  BY <1>1, <1>2

LEMMA PushMoveHolds ==
    ASSUME Typed, LInv, NEW c \in pass.pending, PushMove(c)
    PROVE  LInv'
<1>1. c.path \in Path /\ pass.pc = "push" /\ ~Sends(c)
  BY DEF PushMove, PushNext, NextInOrder, Typed, PushesHavePaths, Sends
<1>2. /\ srv \in Server /\ idx \in [Nodes -> Row] /\ SameScope(srv, srv)
      /\ Stored(srv) /\ StoresOn(srv, srv) /\ RowsStored(idx, srv.history)
  BY StoresOnSame DEF Typed, TypeOK, SameScope, LInv, HashesStored
<1>3. Parent(c.path) \in Path \cup {Root} /\ Last(c.path) \in Names
  BY <1>1, ParentType, LastType
<1> DEFINE stay       == Parent(c.path) = Parent(c.from)
           parents    == IF stay THEN {[srv |-> srv, idx |-> idx, node |-> 0]}
                         ELSE MoveParents(Parent(c.path))
           moved(r, k)   == IF stay THEN {r.srv} ELSE MoveNode(r.srv, k.node, r.node)
           renamed(s, k) == IF Last(c.path) = Last(c.from) THEN {s}
                            ELSE RenameNode(s, k.node, Last(c.path))
           row(k)     == FileRow(c.path, k.ver, k.hash)
<1>4. PICK k \in pass.known :
        \/ parents = {} /\ Refused(srv, idx) /\ UNCHANGED spent
        \/ \E r \in parents :
             \/ \E i \in {idx, r.idx} : Refused(r.srv, i) /\ Fault
             \/ moved(r, k) = {} /\ Refused(r.srv, r.idx) /\ UNCHANGED spent
             \/ \E s \in moved(r, k) :
                   \/ renamed(s, k) = {} /\ Refused(s, r.idx) /\ UNCHANGED spent
                   \/ Refused(s, r.idx) /\ Fault
                   \/ \E t \in renamed(s, k) :
                         Pushed(c, t, [r.idx EXCEPT ![k.node] = row(k)])
  BY Zenon DEF PushMove
<1>5. k.node \in Nodes /\ row(k).hash \in srv.history \cup {NoHash}
  BY CoverTypes DEF LInv, HashesStored, FileRow
<1>6. ASSUME NEW r \in parents
      PROVE  /\ r.srv \in Server /\ r.idx \in [Nodes -> Row]
             /\ StoresOn(srv, r.srv) /\ RowsStored(r.idx, r.srv.history)
  <2>1. CASE stay
    <3>1. r.srv = srv /\ r.idx = idx
      BY <2>1
    <3> QED
      BY <1>2, <3>1
  <2>2. CASE ~stay
    BY <1>3, <2>2, MoveParentsType, MoveParentsHold DEF SameScope
  <2> QED
    BY <2>1, <2>2
<1>7. ASSUME NEW r \in parents, NEW s \in moved(r, k)
      PROVE  s \in Server /\ StoresOn(srv, s) /\ RowsStored(r.idx, s.history)
  <2>1. r.srv \in Server /\ Stored(r.srv)
    BY <1>6 DEF StoresOn
  <2>2. s \in Server /\ StoresOn(r.srv, s)
    BY <1>5, <2>1, StoresOnSame, MoveNodeType, MoveNodeStores DEF SameScope
  <2> HIDE DEF parents, moved
  <2> QED
    BY <1>6, <2>2, StoresOnTransitive, RowsStoredOn
<1>8. ASSUME NEW r \in parents, NEW s \in moved(r, k), NEW t \in renamed(s, k)
      PROVE  StoresOn(srv, t) /\ RowsStored([r.idx EXCEPT ![k.node] = row(k)], t.history)
  <2>1. s \in Server /\ Stored(s) /\ StoresOn(srv, s) /\ RowsStored(r.idx, s.history)
    BY <1>7 DEF StoresOn
  <2>2. StoresOn(s, t)
    BY <1>3, <1>5, <2>1, StoresOnSame, MoveNodeStores
  <2>3. r.idx \in [Nodes -> Row]
    BY <1>6
  <2> HIDE DEF parents, moved, renamed, row
  <2>4. StoresOn(srv, t)
    BY <2>1, <2>2, StoresOnTransitive
  <2>5. row(k).hash \in t.history \cup {NoHash}
    BY <1>5, <2>4 DEF StoresOn
  <2> QED
    BY <1>5, <2>1, <2>2, <2>3, <2>4, <2>5, RowsStoredOn
<1> HIDE DEF parents, moved, renamed, row
<1>9. CASE Refused(srv, idx)
  BY <1>1, <1>2, <1>9, PushedHolds
<1>10. ASSUME NEW r \in parents, NEW i \in {idx, r.idx}, Refused(r.srv, i)
       PROVE  LInv'
  <2>1. RowsStored(i, r.srv.history)
    BY <1>2, <1>6, RowsStoredOn
  <2> QED
    BY <1>1, <1>6, <1>10, <2>1, PushedHolds
<1>11. ASSUME NEW r \in parents, NEW s \in moved(r, k), Refused(s, r.idx)
       PROVE  LInv'
  BY <1>1, <1>7, <1>11, PushedHolds
<1>12. ASSUME NEW r \in parents, NEW s \in moved(r, k), NEW t \in renamed(s, k),
              Pushed(c, t, [r.idx EXCEPT ![k.node] = row(k)])
       PROVE  LInv'
  BY <1>1, <1>8, <1>12, PushedHolds
<1> QED
  BY <1>4, <1>9, <1>10, <1>11, <1>12

LEMMA PushStepHolds ==
    ASSUME Typed, CInv, LInv, PushStep
    PROVE  LInv'
<1>1. ASSUME NEW c, RefusePath(c)
      PROVE  LInv'
  <2>1. pass' = Idle /\ srv' = srv /\ idx' = idx
    BY <1>1 DEF RefusePath, Broken, index
  <2> QED
    BY <2>1, IdleHolds, StoresOnSame DEF LInv, HashesStored
<1> QED
  BY <1>1, PushDirHolds, PushFileChangeHolds, PushMoveHolds, PushDeleteHolds DEF PushStep

-----------------------------------------------------------------------------
(* The environment, and the theorem.                                       *)

LEMMA RemoteHolds ==
    ASSUME Typed, LInv, Remote
    PROVE  LInv'
<1>1. srv \in Server /\ RemotePaths \subseteq Path /\ Stored(srv)
  BY EnvironmentAssumption DEF Typed, TypeOK, LInv, HashesStored
<1>2. RemoteContents \cup {NoHash} \subseteq Hash /\ RemoteContents \subseteq Contents
  BY EnvironmentAssumption DEF Hash
<1>3. ASSUME NEW s, StoresOn(srv, s), Remotely(s)
      PROVE  LInv'
  BY <1>3, SameHolds DEF Remotely, index
<1>4. ASSUME NEW p \in RemotePaths, NEW h \in RemoteContents \cup {NoHash},
             RemoteCreate(p, h)
      PROVE  LInv'
  BY <1>1, <1>2, <1>3, <1>4, MakeStores DEF RemoteCreate
<1>5. ASSUME NEW n \in Nodes, NEW h \in RemoteContents, RemoteEdit(n, h)
      PROVE  LInv'
  BY <1>1, <1>2, <1>3, <1>5, WriteStores DEF RemoteEdit
<1>6. ASSUME NEW n \in Nodes, NEW p \in RemotePaths, RemoteMove(n, p)
      PROVE  LInv'
  BY <1>1, <1>3, <1>6, RelocateStores DEF RemoteMove
<1>7. ASSUME NEW n \in Nodes, RemoteDelete(n)
      PROVE  LInv'
  BY <1>1, <1>3, <1>7, RemoveStores DEF RemoteDelete
<1> QED
  BY <1>4, <1>5, <1>6, <1>7 DEF Remote

LEMMA ChangeScopeHolds ==
    ASSUME Typed, LInv, ChangeScope
    PROVE  LInv'
<1>1. srv'.nodes = srv.nodes /\ srv'.feed = srv.feed /\ srv'.history = srv.history
  BY DEF ChangeScope, Typed, TypeOK, Server
<1>2. StoresOn(srv, srv')
  BY <1>1 DEF LInv, HashesStored, Stored, StoresOn
<1> QED
  BY <1>2, SameHolds DEF ChangeScope, index

\* A user who waits for the pass to end changes nothing a pass relies on.
LEMMA UserHolds ==
    ASSUME ~EditsDuringPass, LInv, User
    PROVE  LInv'
<1>1. pass.pc = "idle" /\ UNCHANGED <<srv, idx, pass>>
  BY DEF User, UserWrite, UserMkdir, UserRemove, UserMove, Touch, index
<1> QED
  BY <1>1 DEF LInv, HashesStored, RowsStored, FilesSent

LEMMA EndHolds ==
    ASSUME LInv, FinishPull \/ FinishReset \/ BreakReset \/ Abort
    PROVE  LInv'
<1>1. pass' = Idle /\ srv' = srv /\ idx' = idx
  BY DEF FinishPull, FinishReset, BreakReset, Abort, Failed, Broken, index
<1> QED
  BY <1>1, IdleHolds, StoresOnSame DEF LInv, HashesStored

LEMMA LossInit == Init => LInv
<1> SUFFICES ASSUME Init
             PROVE  LInv
  OBVIOUS
<1> DEFINE size == Len(Tree)
           kept(i) == [st |-> "live", scope |-> Tree[i].scope, path |-> Tree[i].path,
                       dir |-> Tree[i].hash = NoHash, ver |-> 1, hash |-> Tree[i].hash]
           free == [st |-> "free", scope |-> 0, path |-> Root, dir |-> FALSE,
                    ver |-> 0, hash |-> NoHash]
           entry(i) == [seq |-> i, node |-> i, path |-> Tree[i].path,
                        dir |-> Tree[i].hash = NoHash, ver |-> 1,
                        hash |-> Tree[i].hash, deleted |-> FALSE]
           row(i) == [path |-> Tree[i].path, dir |-> Tree[i].hash = NoHash,
                      ver |-> 1, hash |-> Tree[i].hash]
<1>1. /\ \A i : kept(i).hash = Tree[i].hash /\ entry(i).hash = Tree[i].hash
                /\ row(i).hash = Tree[i].hash
      /\ free.hash = NoHash /\ NoRow.hash = NoHash
  BY DEF NoRow
<1> HIDE DEF kept, free, entry, row, size
<1>2. /\ \A n \in Nodes : srv.nodes[n] = IF n \in 1..size THEN kept(n) ELSE free
      /\ srv.feed = {entry(i) : i \in 1..size}
      /\ srv.history = {Tree[i].hash : i \in 1..size} \ {NoHash}
      /\ \A n \in Nodes : idx[n] = IF n \in 1..size /\ Tree[n].scope = 0 THEN row(n)
                                   ELSE NoRow
      /\ pass.pc = "idle" /\ pass.known = {} /\ pass.page = {}
  BY DEF Init, kept, free, entry, row, size, Idle
<1>3. \A i \in 1..size : Tree[i].hash \in srv.history \cup {NoHash}
  BY <1>2
<1>4. HashesStored
  BY <1>1, <1>2, <1>3 DEF HashesStored, Stored, RowsStored
<1>5. FilesSent
  BY <1>2 DEF FilesSent
<1> QED
  BY <1>4, <1>5 DEF LInv

LEMMA LossNext ==
    ASSUME ~EditsDuringPass
    PROVE  Typed /\ CInv /\ LInv /\ [Next]_vars => LInv'
<1> SUFFICES ASSUME Typed, CInv, LInv, [Next]_vars
             PROVE  LInv'
  OBVIOUS
<1>1. CASE PassStep
  BY <1>1, StartPushHolds, StartResetHolds, PushStepHolds, FetchHolds, ApplyStepHolds,
     EndHolds DEF PassStep
<1>2. CASE BreakReset \/ Abort \/ User \/ Remote \/ ChangeScope
  BY <1>2, EndHolds, UserHolds, RemoteHolds, ChangeScopeHolds
<1>3. CASE UNCHANGED vars
  BY <1>3, SameHolds, StoresOnSame DEF vars, LInv, HashesStored
<1> QED
  BY <1>1, <1>2, <1>3 DEF Next

\* The engine changes the folder only when it applies.
LEMMA FolderChanges ==
    ASSUME [Next]_vars
    PROVE  disk' = disk \/ pass.pc = "apply" \/ User
<1>1. ASSUME NEW e, ApplyDelete(e) \/ ApplyDir(e) \/ ApplyFile(e) \/ RejectPath(e)
      PROVE  pass.pc = "apply"
  BY <1>1 DEF ApplyDelete, ApplyDir, ApplyFile, RejectPath, ApplyNext, FirstOfPage
<1>2. ASSUME NEW c, PushDir(c) \/ PushFileChange(c) \/ PushMove(c) \/ PushDelete(c)
                    \/ RefusePath(c)
      PROVE  disk' = disk
  <2>1. \A s, i : Pushed(c, s, i) \/ Refused(s, i) => disk' = disk
    BY DEF Pushed, Refused
  <2> QED
    BY <1>2, <2>1, Zenon DEF PushDir, PushFileChange, PushMove, PushDelete, RefusePath
<1>3. CASE StartPush \/ StartReset \/ Fetch \/ FinishPull \/ Abort \/ Remote \/ ChangeScope
  <2>1. StartPush \/ StartReset => disk' = disk
    BY Zenon DEF StartPush, StartReset
  <2>2. Fetch \/ FinishPull \/ Abort \/ ChangeScope => disk' = disk
    BY Zenon DEF Fetch, FinishPull, Abort, ChangeScope
  <2>3. Remote => disk' = disk
    BY DEF Remote, RemoteCreate, RemoteEdit, RemoteMove, RemoteDelete, Remotely
  <2> QED
    BY <1>3, <2>1, <2>2, <2>3
<1>4. CASE FinishReset \/ BreakReset
  BY <1>4 DEF FinishReset, BreakReset, Finished
<1>5. CASE UNCHANGED vars
  BY <1>5 DEF vars
<1> QED
  BY <1>1, <1>2, <1>3, <1>4, <1>5 DEF Next, PassStep, PushStep, ApplyStep

\* The user's steps are counted, and no other step is.
LEMMA UserCounted ==
    ASSUME Typed, User
    PROVE  spent'.user # spent.user
<1>1. spent' = [spent EXCEPT !.user = @ + 1]
  BY DEF User, UserWrite, UserMkdir, UserRemove, UserMove, Touch
<1>2. spent \in Spent
  BY DEF Typed, TypeOK, Spent
<1> QED
  BY <1>1, <1>2 DEF Spent

\* "Never lose data": for a user who leaves the folder alone while a pass runs, and
\* whatever that user does between passes, the other devices do at any time and wherever
\* passes are cut, no pass but a rebuild overwrites, moves or deletes a file whose
\* content the server has not stored.  It is the order of SyncOnce that makes it so: the
\* push sends every file the index does not have before the first entry is applied.
THEOREM NothingLostSilently ==
    ASSUME ~EditsDuringPass
    PROVE  Spec => NoSilentLoss
<1>1. Init => LInv
  BY LossInit
<1>2. Typed /\ CInv /\ LInv /\ [Next]_vars => LInv'
  BY LossNext
<1>3. Typed /\ LInv /\ [Next]_vars =>
        (spent'.user = spent.user /\ ~pass.reset =>
            \A p \in Path :
                IsFile(disk, p) => \/ disk'[p] = disk[p]
                                   \/ disk[p] \in srv.history
                                   \/ \E q \in Path : disk'[q] = disk[p])
  <2> SUFFICES ASSUME Typed, LInv, [Next]_vars, spent'.user = spent.user, ~pass.reset,
                      NEW p \in Path, IsFile(disk, p)
               PROVE  disk'[p] = disk[p] \/ disk[p] \in srv.history
    OBVIOUS
  <2>1. disk' = disk \/ pass.pc = "apply"
    BY FolderChanges, UserCounted
  <2> QED
    BY <2>1 DEF LInv, FilesSent, HeldBy
<1> QED
  BY <1>1, <1>2, <1>3, SpecCovers, PTL DEF Spec, NoSilentLoss

=============================================================================
