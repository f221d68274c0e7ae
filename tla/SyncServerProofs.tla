-------------------------- MODULE SyncServerProofs --------------------------
(***************************************************************************)
(* Lemmas about paths and folder trees: what the path operators return,    *)
(* and that every file system call leaves a folder tree.  Lemmas about the *)
(* server's operators: a request leaves a server state, none of them       *)
(* changes the scope epoch, and each keeps a server in order: its feed has *)
(* the last state of every node, one node is on a path, every folder above *)
(* a node is there, and what is not as it was has an entry past the head.  *)
(* And the server never loses a content it has stored.                     *)
(***************************************************************************)
EXTENDS SyncServer, SequenceTheorems, FiniteSetTheorems, TLAPS

-----------------------------------------------------------------------------
(* Folder trees                                                            *)

FolderTree == [Path -> Entry]

\* A path is a sequence of 1 to Depth names.
LEMMA PathIsSeq ==
    ASSUME NEW p \in Path
    PROVE  p \in Seq(Names) /\ Len(p) \in Nat /\ 1 =< Len(p) /\ Len(p) =< Depth
<1>1. PICK k \in 1..Depth : p \in [1..k -> Names]
  BY DEF Path
<1>2. k \in Nat
  BY <1>1, DepthAssumption
<1>3. p \in Seq(Names)
  BY <1>1, <1>2, SeqDef
<1>4. DOMAIN p = 1..k /\ DOMAIN p = 1..Len(p) /\ Len(p) \in Nat
  BY <1>1, <1>3, LenProperties
<1> QED
  BY <1>2, <1>3, <1>4, DepthAssumption

LEMMA SeqIsPath ==
    ASSUME NEW p \in Seq(Names), 1 =< Len(p), Len(p) =< Depth
    PROVE  p \in Path
<1>1. p \in [1..Len(p) -> Names] /\ Len(p) \in Nat
  BY LenProperties
<1>2. Len(p) \in 1..Depth
  BY <1>1, DepthAssumption
<1> QED
  BY <1>1, <1>2 DEF Path

LEMMA RootIsSeq == Root \in Seq(Names) /\ Len(Root) = 0
  BY EmptySeq DEF Root

LEMMA PlaceIsSeq ==
    ASSUME NEW p \in Path \cup {Root}
    PROVE  p \in Seq(Names) /\ Len(p) \in Nat /\ Len(p) =< Depth
<1>1. CASE p \in Path
  BY <1>1, PathIsSeq
<1>2. CASE p = Root
  BY <1>2, RootIsSeq, DepthAssumption
<1> QED
  BY <1>1, <1>2

\* The folder a path is in, and a path in a folder.
LEMMA ParentType ==
    ASSUME NEW p \in Path \cup {Root}
    PROVE  Parent(p) \in Path \cup {Root}
<1>1. p \in Seq(Names) /\ Len(p) \in Nat /\ Len(p) =< Depth
  BY PlaceIsSeq
<1>2. CASE Len(p) =< 1
  BY <1>1, <1>2, SubSeqEmpty DEF Parent, Root
<1>3. CASE Len(p) > 1
  <2>1. \A i \in 1..(Len(p) - 1) : p[i] \in Names
    BY <1>1, ElementOfSeq
  <2>2. Parent(p) \in Seq(Names) /\ Len(Parent(p)) = Len(p) - 1
    BY <1>1, <1>3, <2>1, SubSeqProperties DEF Parent
  <2> QED
    BY <1>1, <1>3, <2>2, SeqIsPath, DepthAssumption
<1> QED
  BY <1>1, <1>2, <1>3

LEMMA SiblingType ==
    ASSUME NEW p \in Path \cup {Root}, NEW x \in Names
    PROVE  Append(Parent(p), x) \in Path
<1>1. p \in Seq(Names) /\ Len(p) \in Nat /\ Len(p) =< Depth
  BY PlaceIsSeq
<1>2. Parent(p) \in Seq(Names)
  BY ParentType, PlaceIsSeq
<1>3. Len(Parent(p)) \in Nat /\ Len(Parent(p)) < Depth
  <2>1. CASE Len(p) =< 1
    <3>1. Parent(p) = Root
      BY <1>1, <2>1, SubSeqEmpty DEF Parent, Root
    <3> QED
      BY <3>1, RootIsSeq, DepthAssumption
  <2>2. CASE Len(p) > 1
    <3>1. \A i \in 1..(Len(p) - 1) : p[i] \in Names
      BY <1>1, ElementOfSeq
    <3>2. Len(Parent(p)) = Len(p) - 1
      BY <1>1, <2>2, <3>1, SubSeqProperties DEF Parent
    <3> QED
      BY <1>1, <2>2, <3>2, DepthAssumption
  <2> QED
    BY <1>1, <2>1, <2>2
<1>4. Append(Parent(p), x) \in Seq(Names) /\ Len(Append(Parent(p), x)) = Len(Parent(p)) + 1
  BY <1>2, AppendProperties
<1>5. 1 =< Len(Append(Parent(p), x)) /\ Len(Append(Parent(p), x)) =< Depth
  BY <1>3, <1>4, DepthAssumption
<1> QED
  BY <1>4, <1>5, SeqIsPath

-----------------------------------------------------------------------------
\* The file system calls.
LEMMA TreeCalls ==
    ASSUME NEW d \in FolderTree
    PROVE  /\ \A p : MkdirAll(d, p) \in FolderTree
           /\ \A p : RemoveAll(d, p) \in FolderTree
           /\ \A p, q : Rename(d, p, q) \in FolderTree
<1>1. Folder \in Entry /\ Absent \in Entry
  BY DEF Entry
<1>2. ASSUME NEW p
      PROVE  MkdirAll(d, p) \in FolderTree /\ RemoveAll(d, p) \in FolderTree
  BY <1>1 DEF MkdirAll, RemoveAll, FolderTree
<1>3. ASSUME NEW p, NEW q
      PROVE  Rename(d, p, q) \in FolderTree
  BY <1>1 DEF Rename, FolderTree
<1> QED
  BY <1>2, <1>3

\* A file written over what is at p, if p is a path.
LEMMA TreeWrite ==
    ASSUME NEW d \in FolderTree, NEW p, NEW h \in Entry
    PROVE  [d EXCEPT ![p] = h] \in FolderTree
  BY DEF FolderTree

-----------------------------------------------------------------------------
(* The server                                                              *)

\* What a request may do to a server: the result is a server in the same epoch.
SameScope(s, t) == t \in Server /\ t.epoch = s.epoch

\* The next sequence numbers are numbers: a set of nodes is finite.
LEMMA NodeCount ==
    ASSUME NEW S \in SUBSET Nodes
    PROVE  Cardinality(S) \in Nat
<1>1. IsFiniteSet(S)
  BY FS_Subset, NodesAssumption
<1> QED
  BY <1>1, FS_CardinalityType

\* Publish, which every change of the server ends in.
LEMMA PublishScope ==
    ASSUME NEW s \in Server, NEW ns \in [Nodes -> Node], NEW changed \in SUBSET Nodes
    PROVE  SameScope(s, Publish(s, ns, changed))
<1> DEFINE seqOf(n) == s.head + 1 + Cardinality({m \in changed : Before(ns, m, n)})
           entry(n) == [seq |-> seqOf(n), node |-> n, path |-> ns[n].path,
                        dir |-> ns[n].dir, ver |-> ns[n].ver, hash |-> ns[n].hash,
                        deleted |-> ns[n].st = "dead"]
           kept     == {e \in s.feed : Compacted => e.node \notin changed}
           feed     == kept \cup {entry(n) : n \in changed}
           history  == s.history \cup ({ns[n].hash : n \in changed} \ {NoHash})
<1>1. ASSUME NEW n \in changed
      PROVE  entry(n) \in Change
  <2>1. Cardinality({m \in changed : Before(ns, m, n)}) \in Nat
    BY NodeCount
  <2>2. seqOf(n) \in Nat
    BY <2>1 DEF Server
  <2>3. ns[n] \in Node
    OBVIOUS
  <2> HIDE DEF seqOf
  <2> QED
    BY <2>2, <2>3 DEF Change, Node
<1>2. feed \in SUBSET Change
  BY <1>1 DEF Server
<1>3. history \in SUBSET Contents
  BY DEF Server, Node, Hash
<1>4. s.head + Cardinality(changed) \in Nat
  BY NodeCount DEF Server
<1>5. Publish(s, ns, changed) =
        [s EXCEPT !.nodes = ns, !.feed = feed, !.head = @ + Cardinality(changed),
                  !.history = history]
  BY DEF Publish
<1> HIDE DEF feed, history
<1> QED
  BY <1>2, <1>3, <1>4, <1>5 DEF SameScope, Server

-----------------------------------------------------------------------------
(* What the changes are made of.                                           *)

\* Creating a path.
LEMMA MakeScope ==
    ASSUME NEW s \in Server, NEW p \in Path, NEW h \in Hash
    PROVE  SameScope(s, Make(s, p, h))
<1> DEFINE made == {n \in Nodes : NewPath(s, p, n) # {}}
           node(q) == [st |-> "live", scope |-> s.epoch, path |-> q,
                       dir |-> q # p \/ h = NoHash, ver |-> 1,
                       hash |-> IF q = p THEN h ELSE NoHash]
           chosen(n) == CHOOSE q \in NewPath(s, p, n) : TRUE
           ns == [n \in Nodes |-> IF n \in made THEN node(chosen(n)) ELSE s.nodes[n]]
<1>1. ASSUME NEW n \in made
      PROVE  chosen(n) \in Path
  <2>1. chosen(n) \in NewPath(s, p, n)
    OBVIOUS
  <2> HIDE DEF chosen
  <2> QED
    BY <2>1 DEF NewPath, Missing
<1>2. ASSUME NEW q \in Path
      PROVE  node(q) \in Node
  BY DEF Node, Server, Hash
<1>3. ns \in [Nodes -> Node]
  <2> HIDE DEF node, chosen
  <2> QED
    BY <1>1, <1>2 DEF Server
<1>4. Make(s, p, h) = Publish(s, ns, made)
  BY DEF Make
<1> HIDE DEF ns, made
<1>5. made \in SUBSET Nodes
  BY DEF made
<1> QED
  BY <1>3, <1>4, <1>5, PublishScope

\* Storing a new content.
LEMMA WriteScope ==
    ASSUME NEW s \in Server, NEW n \in Nodes, NEW h \in Hash
    PROVE  SameScope(s, Write(s, n, h))
<1> DEFINE ns == [s.nodes EXCEPT ![n].ver = @ + 1, ![n].hash = h]
<1>1. ns \in [Nodes -> Node]
  BY DEF Server, Node
<1> HIDE DEF ns
<1> QED
  BY <1>1, PublishScope DEF Write, ns

\* What deleting or moving a subtree makes of a node.
LEMMA NodeDies ==
    ASSUME NEW x \in Node
    PROVE  [x EXCEPT !.st = "dead", !.ver = @ + 1] \in Node
<1>1. [x EXCEPT !.st = "dead", !.ver = @ + 1]
        = [[x EXCEPT !.ver = @ + 1] EXCEPT !.st = "dead"]
  BY DEF Node
<1>2. [x EXCEPT !.ver = @ + 1] \in Node
  BY DEF Node
<1> QED
  BY <1>1, <1>2 DEF Node

LEMMA NodeMoves ==
    ASSUME NEW x \in Node, NEW p \in Path
    PROVE  [x EXCEPT !.path = p, !.ver = @ + 1] \in Node
<1>1. [x EXCEPT !.path = p, !.ver = @ + 1] = [[x EXCEPT !.ver = @ + 1] EXCEPT !.path = p]
  BY DEF Node
<1>2. [x EXCEPT !.ver = @ + 1] \in Node
  BY DEF Node
<1> QED
  BY <1>1, <1>2 DEF Node

\* Deleting a subtree.
LEMMA RemoveScope ==
    ASSUME NEW s \in Server, NEW n \in Nodes
    PROVE  SameScope(s, Remove(s, n))
<1> DEFINE dead(m) == [s.nodes[m] EXCEPT !.st = "dead", !.ver = @ + 1]
           ns == [m \in Nodes |-> IF m \in Subtree(s, n) THEN dead(m) ELSE s.nodes[m]]
<1>1. ASSUME NEW m \in Nodes
      PROVE  dead(m) \in Node
  <2>1. s.nodes[m] \in Node
    BY DEF Server
  <2> QED
    BY <2>1, NodeDies
<1>2. ns \in [Nodes -> Node]
  <2> HIDE DEF dead
  <2> QED
    BY <1>1 DEF Server
<1>3. Remove(s, n) = Publish(s, ns, Subtree(s, n))
  BY DEF Remove
<1>4. Subtree(s, n) \in SUBSET Nodes
  BY DEF Subtree
<1> HIDE DEF ns
<1> QED
  BY <1>2, <1>3, <1>4, PublishScope

\* Moving a subtree, which the server does only when every node of it gets a path.
LEMMA RelocateScope ==
    ASSUME NEW s \in Server, NEW n \in Nodes, NEW new \in Path, CanRelocate(s, n, new)
    PROVE  SameScope(s, Relocate(s, n, new))
<1> DEFINE moved(m) == [s.nodes[m] EXCEPT !.path = Graft(s.nodes[n].path, new, @),
                                          !.ver = @ + 1]
           ns == [m \in Nodes |-> IF m \in Subtree(s, n) THEN moved(m) ELSE s.nodes[m]]
<1>1. Subtree(s, n) \in SUBSET Nodes
  BY DEF Subtree
<1>2. ASSUME NEW m \in Subtree(s, n)
      PROVE  moved(m) \in Node
  <2>1. s.nodes[m] \in Node
    BY <1>1 DEF Server
  <2>2. Graft(s.nodes[n].path, new, s.nodes[m].path) \in Path
    BY DEF CanRelocate
  <2> QED
    BY <2>1, <2>2, NodeMoves
<1>3. ns \in [Nodes -> Node]
  <2> HIDE DEF moved
  <2> QED
    BY <1>1, <1>2 DEF Server
<1>4. Relocate(s, n, new) = Publish(s, ns, Subtree(s, n))
  BY DEF Relocate
<1> HIDE DEF ns
<1> QED
  BY <1>1, <1>3, <1>4, PublishScope

-----------------------------------------------------------------------------
(* The requests.                                                           *)

Answer(s, a) == SameScope(s, a.srv) /\ a.node \in Nodes

\* POST /sync/dir.
LEMMA EnsureDirAnswer ==
    ASSUME NEW s \in Server, NEW p \in Path, NEW a \in EnsureDir(s, p)
    PROVE  Answer(s, a)
<1> DEFINE t == Make(s, p, NoHash)
<1>1. SameScope(s, t)
  BY MakeScope DEF Hash
<1>2. CASE DirAt(s, p)
  BY <1>2 DEF EnsureDir, Answer, Result, LiveAt, SameScope
<1>3. CASE ~DirAt(s, p)
  <2> HIDE DEF t
  <2>1. \E n \in LiveAt(t, p) : a = Result(t, n, FALSE)
    BY <1>3 DEF EnsureDir, t
  <2> QED
    BY <2>1, <1>1 DEF Answer, Result, LiveAt
<1> QED
  BY <1>2, <1>3

\* A conflict copy has a path, beside the original.
LEMMA CopyPathType ==
    ASSUME NEW s \in Server, NEW p \in Path, CanCopy(s, p)
    PROVE  CopyPath(s, p) \in Path
<1>1. PICK x \in CopyNames : ~Taken(s, Append(Parent(p), x))
  BY DEF CanCopy
<1> DEFINE copy == CHOOSE y \in CopyNames : ~Taken(s, Append(Parent(p), y))
<1>2. copy \in Names
  BY <1>1, CopyNamesAssumption
<1> HIDE DEF copy
<1> QED
  BY <1>2, SiblingType DEF CopyPath, copy

\* PUT /sync/file.
LEMMA PushFileAnswer ==
    ASSUME NEW s \in Server, NEW p \in Path, NEW base, NEW h \in Contents,
           NEW a \in PushFile(s, p, base, h)
    PROVE  Answer(s, a)
<1>1. h \in Hash
  BY DEF Hash
<1> DEFINE accepted == {Result(Write(s, n, h), n, FALSE) : n \in LiveAt(s, p)}
           copied   == IF ~CanCopy(s, p) THEN {}
                       ELSE {Result(Make(s, CopyPath(s, p), h), n, TRUE) :
                               n \in LiveAt(Make(s, CopyPath(s, p), h), CopyPath(s, p))}
           created  == {Result(Make(s, p, h), n, FALSE) : n \in LiveAt(Make(s, p, h), p)}
<1>2. a \in accepted \cup copied \cup created
  BY DEF PushFile
<1>3. CASE a \in accepted
  BY <1>1, <1>3, WriteScope DEF Answer, Result, LiveAt
<1>4. CASE a \in copied
  <2>1. CanCopy(s, p)
    BY <1>4
  <2>2. CopyPath(s, p) \in Path
    BY <2>1, CopyPathType
  <2> QED
    BY <1>1, <1>4, <2>1, <2>2, MakeScope DEF Answer, Result, LiveAt
<1>5. CASE a \in created
  BY <1>1, <1>5, MakeScope DEF Answer, Result, LiveAt
<1> QED
  BY <1>2, <1>3, <1>4, <1>5

\* DELETE /sync/file.
LEMMA DeleteRemoteScope ==
    ASSUME NEW s \in Server, NEW p, NEW t \in DeleteRemote(s, p)
    PROVE  SameScope(s, t)
  BY RemoveScope DEF DeleteRemote, LiveAt, SameScope

\* PATCH /files/{id}/move and /rename.
LEMMA MoveToScope ==
    ASSUME NEW s \in Server, NEW n \in Nodes, NEW new \in Path, NEW t \in MoveTo(s, n, new)
    PROVE  SameScope(s, t)
  BY RelocateScope DEF MoveTo, SameScope

-----------------------------------------------------------------------------
(* One path within another.                                                *)

\* What one path has to do with another, name by name.
LEMMA WithinPoints ==
    ASSUME NEW p \in Seq(Names), NEW q \in Seq(Names)
    PROVE  Within(p, q) <=> Len(p) =< Len(q) /\ \A i \in 1..Len(p) : p[i] = q[i]
<1>1. Len(p) \in Nat /\ Len(q) \in Nat
  BY LenProperties
<1>2. CASE Len(p) =< Len(q)
  <2> DEFINE head == SubSeq(q, 1, Len(p))
  <2>1. \A i \in 1..Len(p) : q[i] \in Names
    BY <1>1, <1>2, ElementOfSeq
  <2>2. head \in Seq(Names) /\ Len(head) = Len(p) /\ \A i \in 1..Len(p) : head[i] = q[i]
    BY <1>1, <2>1, SubSeqProperties
  <2> HIDE DEF head
  <2>3. head = p <=> \A i \in 1..Len(p) : p[i] = q[i]
    BY <2>2, SeqEqual
  <2> QED
    BY <1>2, <2>3 DEF Within, head
<1>3. CASE ~(Len(p) =< Len(q))
  BY <1>3 DEF Within
<1> QED
  BY <1>2, <1>3

LEMMA WithinOrder ==
    /\ \A p \in Seq(Names) : Within(p, p)
    /\ \A p, q, r \in Seq(Names) : Within(p, q) /\ Within(q, r) => Within(p, r)
    /\ \A p, q \in Seq(Names) : Within(p, q) /\ Len(q) =< Len(p) => p = q
    /\ \A p, q, r \in Seq(Names) :
          Within(p, r) /\ Within(q, r) /\ Len(p) =< Len(q) => Within(p, q)
<1>1. \A p \in Seq(Names) : Len(p) \in Nat
  BY LenProperties
<1>2. ASSUME NEW p \in Seq(Names)
      PROVE  Within(p, p)
  BY <1>1, WithinPoints
<1>3. ASSUME NEW p \in Seq(Names), NEW q \in Seq(Names), NEW r \in Seq(Names)
      PROVE  Within(p, q) /\ Within(q, r) => Within(p, r)
  <2> SUFFICES ASSUME Within(p, q), Within(q, r) PROVE Within(p, r)
    OBVIOUS
  <2>1. /\ Len(p) =< Len(q) /\ \A i \in 1..Len(p) : p[i] = q[i]
        /\ Len(q) =< Len(r) /\ \A i \in 1..Len(q) : q[i] = r[i]
    BY WithinPoints
  <2>2. Len(p) =< Len(r) /\ \A i \in 1..Len(p) : p[i] = r[i]
    BY <1>1, <2>1
  <2> QED
    BY <2>2, WithinPoints
<1>4. ASSUME NEW p \in Seq(Names), NEW q \in Seq(Names), Within(p, q), Len(q) =< Len(p)
      PROVE  p = q
  BY <1>1, <1>4, WithinPoints, SeqEqual
<1>5. ASSUME NEW p \in Seq(Names), NEW q \in Seq(Names), NEW r \in Seq(Names)
      PROVE  Within(p, r) /\ Within(q, r) /\ Len(p) =< Len(q) => Within(p, q)
  BY <1>1, WithinPoints
<1> QED
  BY <1>2, <1>3, <1>4, <1>5

\* The first k names of a path are a path.
LEMMA PrefixIsPath ==
    ASSUME NEW p \in Path, NEW k \in 1..Len(p)
    PROVE  SubSeq(p, 1, k) \in Path /\ Len(SubSeq(p, 1, k)) = k /\ Within(SubSeq(p, 1, k), p)
<1> DEFINE q == SubSeq(p, 1, k)
<1>1. p \in Seq(Names) /\ Len(p) \in Nat /\ Len(p) =< Depth
  BY PathIsSeq
<1>2. \A i \in 1..k : p[i] \in Names
  BY <1>1, ElementOfSeq
<1>3. q \in Seq(Names) /\ Len(q) = k /\ \A i \in 1..k : q[i] = p[i]
  BY <1>1, <1>2, SubSeqProperties
<1> HIDE DEF q
<1>4. q \in Path
  BY <1>1, <1>3, SeqIsPath, DepthAssumption
<1>5. Within(q, p)
  BY <1>1, <1>3, WithinPoints
<1> QED
  BY <1>3, <1>4, <1>5 DEF q

LEMMA ParentPoints ==
    ASSUME NEW p \in Path
    PROVE  /\ Parent(p) \in Seq(Names) /\ Len(Parent(p)) = Len(p) - 1
           /\ Within(Parent(p), p)
           /\ Parent(p) \in Path \/ Len(p) = 1
           /\ p = Append(Parent(p), p[Len(p)]) /\ p[Len(p)] \in Names
<1>1. p \in Seq(Names) /\ Len(p) \in Nat /\ 1 =< Len(p) /\ Len(p) =< Depth
  BY PathIsSeq
<1>2. \A i \in 1..Len(p) : p[i] \in Names
  BY <1>1, ElementOfSeq
<1>3. /\ Parent(p) \in Seq(Names) /\ Len(Parent(p)) = Len(p) - 1
      /\ \A i \in 1..(Len(p) - 1) : Parent(p)[i] = p[i]
  <2> DEFINE k == Len(p) - 1
             q == SubSeq(p, 1, k)
  <2>1. k \in Int /\ \A i \in 1..k : p[i] \in Names
    BY <1>1, <1>2
  <2> HIDE DEF k
  <2>2. /\ q \in Seq(Names) /\ Len(q) = IF 1 =< k THEN k - 1 + 1 ELSE 0
        /\ \A i \in 1..(k - 1 + 1) : q[i] = p[1 + i - 1]
    BY <2>1, SubSeqProperties
  <2>3. k \in Nat
    BY <1>1 DEF k
  <2> HIDE DEF q
  <2>5. Len(q) = k
    BY <2>2, <2>3
  <2>4. \A i \in 1..k : q[i] = p[i]
    <3>1. \A i \in 1..k : i \in 1..(k - 1 + 1) /\ 1 + i - 1 = i
      BY <2>1
    <3> QED
      BY <2>2, <3>1
  <2> QED
    BY <2>2, <2>4, <2>5 DEF Parent, k, q
<1>4. Within(Parent(p), p)
  BY <1>1, <1>3, WithinPoints
<1>5. Parent(p) \in Path \/ Len(p) = 1
  BY <1>1, <1>3, SeqIsPath, DepthAssumption
<1>6. p = Append(Parent(p), p[Len(p)])
  <2> DEFINE a == Append(Parent(p), p[Len(p)])
  <2>1. /\ a \in Seq(Names) /\ Len(a) = Len(p) /\ a[Len(p)] = p[Len(p)]
        /\ \A i \in 1..(Len(p) - 1) : a[i] = p[i]
    BY <1>1, <1>2, <1>3, AppendProperties
  <2> HIDE DEF a
  <2> QED
    BY <1>1, <2>1, SeqEqual DEF a
<1> QED
  BY <1>1, <1>2, <1>3, <1>4, <1>5, <1>6

\* A path whose beginning is replaced.
LEMMA GraftPoints ==
    ASSUME NEW old \in Seq(Names), NEW new \in Seq(Names), NEW q \in Seq(Names),
           Len(old) =< Len(q)
    PROVE  /\ Graft(old, new, q) \in Seq(Names)
           /\ Len(Graft(old, new, q)) = Len(new) + Len(q) - Len(old)
           /\ \A i \in 1..Len(new) : Graft(old, new, q)[i] = new[i]
           /\ \A i \in 1..(Len(q) - Len(old)) :
                 Graft(old, new, q)[i + Len(new)] = q[i + Len(old)]
<1> DEFINE tail == SubSeq(q, Len(old) + 1, Len(q))
<1>1. Len(old) \in Nat /\ Len(new) \in Nat /\ Len(q) \in Nat
  BY LenProperties
<1>2. \A i \in (Len(old) + 1)..Len(q) : q[i] \in Names
  BY <1>1, ElementOfSeq
<1>3. /\ tail \in Seq(Names) /\ Len(tail) = Len(q) - Len(old)
      /\ \A i \in 1..(Len(q) - Len(old)) : tail[i] = q[i + Len(old)]
  <2>1. /\ tail \in Seq(Names)
        /\ Len(tail) = IF Len(old) + 1 =< Len(q) THEN Len(q) - (Len(old) + 1) + 1 ELSE 0
        /\ \A i \in 1..(Len(q) - (Len(old) + 1) + 1) : tail[i] = q[Len(old) + 1 + i - 1]
    BY <1>1, <1>2, SubSeqProperties
  <2> HIDE DEF tail
  <2>2. Len(tail) = Len(q) - Len(old)
    BY <1>1, <2>1
  <2>3. ASSUME NEW i \in 1..(Len(q) - Len(old))
        PROVE  tail[i] = q[i + Len(old)]
    <3>1. i \in 1..(Len(q) - (Len(old) + 1) + 1) /\ Len(old) + 1 + i - 1 = i + Len(old)
      BY <1>1
    <3> QED
      BY <2>1, <3>1
  <2> QED
    BY <2>1, <2>2, <2>3
<1> HIDE DEF tail
<1>4. /\ new \o tail \in Seq(Names) /\ Len(new \o tail) = Len(new) + Len(tail)
      /\ \A i \in 1..(Len(new) + Len(tail)) :
            (new \o tail)[i] = IF i =< Len(new) THEN new[i] ELSE tail[i - Len(new)]
  <2>1. new \in Seq(Names) /\ tail \in Seq(Names)
    BY <1>3
  <2> QED
    BY ONLY <2>1, ConcatProperties
<1>5. Graft(old, new, q) = new \o tail
  BY DEF Graft, tail
<1>6. \A i \in 1..Len(new) : (new \o tail)[i] = new[i]
  BY <1>1, <1>3, <1>4
<1>7. ASSUME NEW i \in 1..(Len(q) - Len(old))
      PROVE  (new \o tail)[i + Len(new)] = q[i + Len(old)]
  <2>1. i + Len(new) \in 1..(Len(new) + Len(tail)) /\ ~(i + Len(new) =< Len(new))
        /\ i + Len(new) - Len(new) = i
    BY <1>1, <1>3
  <2> QED
    BY <1>3, <1>4, <2>1
<1> QED
  BY <1>1, <1>3, <1>4, <1>5, <1>6, <1>7

LEMMA AppendApart ==
    ASSUME NEW p \in Seq(Names), NEW q \in Seq(Names), NEW x \in Names, NEW y \in Names,
           Append(p, x) = Append(q, y)
    PROVE  p = q
<1>1. Len(p) \in Nat /\ Len(q) \in Nat /\ Len(p) = Len(q)
  BY AppendProperties, LenProperties
<1>2. \A i \in 1..Len(p) : p[i] = Append(p, x)[i]
  BY AppendProperties
<1>3. \A i \in 1..Len(q) : q[i] = Append(q, y)[i]
  BY AppendProperties
<1>4. \A i \in 1..Len(p) : p[i] = q[i]
  BY <1>1, <1>2, <1>3
<1> QED
  BY <1>1, <1>4, SeqEqual

-----------------------------------------------------------------------------
(* A server in order, and how it goes on.                                  *)

\* A server in order.  The feed: distinct numbers up to the last one given out, and
\* the last entry about a node is the node.
Seen(s, n, c) == \A e \in s.feed : e.node = n => e.seq =< c

EntryIs(e, x) == /\ e.path = x.path /\ e.dir = x.dir /\ e.ver = x.ver /\ e.hash = x.hash
                 /\ e.deleted <=> x.st = "dead"

FeedInOrder(s) ==
    /\ \A e \in s.feed : 0 < e.seq /\ e.seq =< s.head /\ s.nodes[e.node].st # "free"
    /\ \A e, f \in s.feed : e.seq = f.seq => e = f

FeedIsCurrent(s) ==
    \A n \in Nodes : s.nodes[n].st # "free" =>
        \E e \in s.feed : e.node = n /\ EntryIs(e, s.nodes[n]) /\ Seen(s, n, e.seq)

\* The nodes: one on a path of a scope, no hash for a folder.
SamePlace(x, y) == x.st = "live" /\ y.st = "live" /\ x.scope = y.scope /\ x.path = y.path
OnePerPath(ns)  == \A m, n \in Nodes : SamePlace(ns[m], ns[n]) => m = n
NoHashes(ns)    == \A n \in Nodes : ns[n].dir => ns[n].hash = NoHash

\* Every folder above a node is there, and whoever has seen all of the node has seen
\* all of the folder.
Above(ns, m, q, n) == /\ ns[m].st = "live" /\ ns[m].dir
                      /\ ns[m].scope = ns[n].scope /\ ns[m].path = q
Older(s, m, n) == \A e \in s.feed : e.node = m => \E f \in s.feed : f.node = n /\ e.seq =< f.seq
InFolders(s) ==
    \A n \in Nodes : s.nodes[n].st = "live" =>
        /\ s.nodes[n].path \in Path
        /\ \A q \in Path : Within(q, s.nodes[n].path) /\ q # s.nodes[n].path =>
              \E m \in Nodes : Above(s.nodes, m, q, n) /\ Older(s, m, n)

InOrder(s) == /\ FeedInOrder(s) /\ FeedIsCurrent(s)
              /\ OnePerPath(s.nodes) /\ NoHashes(s.nodes) /\ InFolders(s)

\* How a server goes on: a node is as it was, with its entries, or has an entry no
\* one has seen.
Unchanged(s, t, n) == t.nodes[n] = s.nodes[n] /\ \A e \in s.feed : e.node = n => e \in t.feed
Fresh(s, t, n)     == \E e \in t.feed : e.node = n /\ s.head < e.seq
Advance(s, t) ==
    /\ s.head =< t.head /\ t.epoch = s.epoch
    /\ \A e \in t.feed : e \in s.feed \/ s.head < e.seq
    /\ \A n \in Nodes : Unchanged(s, t, n) \/ Fresh(s, t, n)
    /\ \A n \in Nodes : s.nodes[n].st # "free" => /\ t.nodes[n].st # "free"
                                                  /\ t.nodes[n].scope = s.nodes[n].scope

LEMMA ServerTypes ==
    ASSUME NEW s \in Server
    PROVE  /\ s.head \in Nat /\ s.epoch \in Nat /\ s.feed \subseteq Change
           /\ \A e \in s.feed : e.seq \in Nat /\ e.node \in Nodes
           /\ \A n \in Nodes : s.nodes[n] \in Node
BY DEF Server, Change

LEMMA AdvanceReflexive ==
    ASSUME NEW s \in Server
    PROVE  Advance(s, s)
BY ServerTypes DEF Advance, Unchanged

LEMMA AdvanceTransitive ==
    ASSUME NEW s \in Server, NEW t \in Server, NEW u \in Server, Advance(s, t), Advance(t, u)
    PROVE  Advance(s, u)
<1>1. /\ s.head \in Nat /\ t.head \in Nat /\ u.head \in Nat
      /\ \A e \in t.feed \cup u.feed : e.seq \in Nat
  BY ServerTypes
<1>2. s.head =< u.head /\ u.epoch = s.epoch
  BY <1>1 DEF Advance
<1>3. \A e \in u.feed : e \in s.feed \/ s.head < e.seq
  BY <1>1 DEF Advance
<1>4. ASSUME NEW n \in Nodes
      PROVE  Unchanged(s, u, n) \/ Fresh(s, u, n)
  <2>1. CASE Fresh(t, u, n)
    BY <1>1, <2>1 DEF Fresh, Advance
  <2>2. CASE Unchanged(t, u, n) /\ Fresh(s, t, n)
    BY <2>2 DEF Fresh, Unchanged
  <2>3. CASE Unchanged(t, u, n) /\ Unchanged(s, t, n)
    BY <2>3 DEF Unchanged
  <2> QED
    BY <2>1, <2>2, <2>3 DEF Advance
<1>5. \A n \in Nodes : s.nodes[n].st # "free" => /\ u.nodes[n].st # "free"
                                                 /\ u.nodes[n].scope = s.nodes[n].scope
  BY DEF Advance
<1> QED
  BY <1>2, <1>3, <1>4, <1>5 DEF Advance

\* What one has seen all of has not changed.
LEMMA SeenBefore ==
    ASSUME NEW s \in Server, NEW t \in Server, Advance(s, t), NEW c \in Nat, c =< s.head,
           NEW n \in Nodes, Seen(t, n, c)
    PROVE  Unchanged(s, t, n) /\ Seen(s, n, c)
<1>1. s.head \in Nat /\ \A e \in t.feed : e.seq \in Nat
  BY ServerTypes
<1>2. ~Fresh(s, t, n)
  BY <1>1 DEF Fresh, Seen
<1>3. Unchanged(s, t, n)
  BY <1>2 DEF Advance
<1> QED
  BY <1>3 DEF Unchanged, Seen

-----------------------------------------------------------------------------
(* The numbers Publish gives.                                              *)

LEMMA StrictlyFewer ==
    ASSUME NEW S, IsFiniteSet(S), NEW A \in SUBSET S, NEW B \in SUBSET S,
           A \subseteq B, NEW x \in B, x \notin A
    PROVE  Cardinality(A) \in Nat /\ Cardinality(B) \in Nat /\ Cardinality(A) < Cardinality(B)
<1>1. IsFiniteSet(A) /\ IsFiniteSet(B)
  BY FS_Subset
<1>2. Cardinality(A) \in Nat /\ Cardinality(B) \in Nat
  BY <1>1, FS_CardinalityType
<1>3. Cardinality(A) =< Cardinality(B) /\ (Cardinality(B) = Cardinality(A) => B = A)
  BY <1>1, FS_Subset
<1> QED
  BY <1>2, <1>3

SeqOf(s, ns, changed, n) == s.head + 1 + Cardinality({m \in changed : Before(ns, m, n)})

LEMMA SeqOfOrder ==
    ASSUME NEW s \in Server, NEW ns \in [Nodes -> Node], NEW changed \in SUBSET Nodes,
           NEW m \in changed, NEW n \in changed
    PROVE  /\ SeqOf(s, ns, changed, n) \in Nat
           /\ s.head < SeqOf(s, ns, changed, n)
           /\ SeqOf(s, ns, changed, n) =< s.head + Cardinality(changed)
           /\ Before(ns, m, n) => SeqOf(s, ns, changed, m) < SeqOf(s, ns, changed, n)
           /\ SeqOf(s, ns, changed, m) = SeqOf(s, ns, changed, n) => m = n
<1> DEFINE earlier(k) == {j \in changed : Before(ns, j, k)}
<1>1. IsFiniteSet(changed) /\ Cardinality(changed) \in Nat /\ s.head \in Nat
  BY FS_Subset, NodesAssumption, NodeCount, ServerTypes
<1>2. \A k \in changed : Len(ns[k].path) \in Nat /\ k \in Nat
  <2>1. \A k \in changed : ns[k].path \in Path \cup {Root}
    BY DEF Node
  <2> QED
    BY <2>1, PlaceIsSeq, NodesAssumption
<1>3. \A j, k, l \in changed : /\ Before(ns, j, k) /\ Before(ns, k, l) => Before(ns, j, l)
                               /\ ~Before(ns, j, j)
                               /\ j # k => Before(ns, j, k) \/ Before(ns, k, j)
  <2> SUFFICES ASSUME NEW j \in changed, NEW k \in changed, NEW l \in changed
               PROVE  /\ Before(ns, j, k) /\ Before(ns, k, l) => Before(ns, j, l)
                      /\ ~Before(ns, j, j)
                      /\ j # k => Before(ns, j, k) \/ Before(ns, k, j)
    OBVIOUS
  <2> DEFINE len(x) == Len(ns[x].path)
  <2>1. /\ len(j) \in Nat /\ len(k) \in Nat /\ len(l) \in Nat
        /\ j \in Nat /\ k \in Nat /\ l \in Nat
    BY <1>2
  <2> DEFINE lower(x, y) == len(x) < len(y) \/ (len(x) = len(y) /\ x < y)
  <2>2. /\ Before(ns, j, k) = lower(j, k) /\ Before(ns, k, j) = lower(k, j)
        /\ Before(ns, k, l) = lower(k, l) /\ Before(ns, j, l) = lower(j, l)
        /\ Before(ns, j, j) = lower(j, j)
    BY Zenon DEF Before
  <2> HIDE DEF len
  <2>3. /\ lower(j, k) /\ lower(k, l) => lower(j, l)
        /\ ~lower(j, j)
        /\ j # k => lower(j, k) \/ lower(k, j)
    BY ONLY <2>1
  <2> QED
    BY ONLY <2>2, <2>3
<1>4. ASSUME NEW k \in changed
      PROVE  Cardinality(earlier(k)) \in Nat /\ Cardinality(earlier(k)) < Cardinality(changed)
  <2>1. k \notin earlier(k) /\ earlier(k) \in SUBSET changed
    BY <1>3
  <2> HIDE DEF earlier
  <2> QED
    BY <1>1, <2>1, StrictlyFewer
<1>5. ASSUME NEW j \in changed, NEW k \in changed, Before(ns, j, k)
      PROVE  Cardinality(earlier(j)) < Cardinality(earlier(k))
  <2>1. /\ earlier(j) \subseteq earlier(k) /\ j \in earlier(k) /\ j \notin earlier(j)
        /\ earlier(k) \in SUBSET changed /\ earlier(j) \in SUBSET changed
    BY <1>3, <1>5
  <2> HIDE DEF earlier
  <2> QED
    BY <1>1, <2>1, StrictlyFewer
<1>6. \A k \in changed : SeqOf(s, ns, changed, k) = s.head + 1 + Cardinality(earlier(k))
  BY DEF SeqOf
<1> HIDE DEF earlier
<1>7. Before(ns, m, n) => SeqOf(s, ns, changed, m) < SeqOf(s, ns, changed, n)
  BY <1>1, <1>4, <1>5, <1>6
<1>8. m # n => SeqOf(s, ns, changed, m) # SeqOf(s, ns, changed, n)
  <2>1. CASE Before(ns, m, n)
    BY <1>1, <1>4, <1>6, <1>7, <2>1
  <2>2. CASE Before(ns, n, m)
    BY <1>1, <1>4, <1>5, <1>6, <2>2
  <2> QED
    BY <1>3, <2>1, <2>2
<1> QED
  BY <1>1, <1>4, <1>6, <1>7, <1>8

-----------------------------------------------------------------------------
(* Publish.                                                                *)

\* What Publish makes of a server: the entries of the changed nodes come after all
\* there were.
EntryOf(s, ns, changed, n) ==
    [seq |-> SeqOf(s, ns, changed, n), node |-> n, path |-> ns[n].path, dir |-> ns[n].dir,
     ver |-> ns[n].ver, hash |-> ns[n].hash, deleted |-> ns[n].st = "dead"]

LEMMA PublishParts ==
    ASSUME NEW s \in Server, NEW ns \in [Nodes -> Node], NEW changed \in SUBSET Nodes,
           NEW t, t = Publish(s, ns, changed)
    PROVE  /\ t \in Server /\ t.nodes = ns /\ t.epoch = s.epoch
           /\ t.head = s.head + Cardinality(changed) /\ s.head =< t.head
           /\ \A e \in t.feed : \/ e \in s.feed
                                \/ \E n \in changed : e = EntryOf(s, ns, changed, n)
           /\ \A n \in changed : EntryOf(s, ns, changed, n) \in t.feed
           /\ \A e \in s.feed : e.node \notin changed => e \in t.feed
<1> DEFINE entries == {EntryOf(s, ns, changed, n) : n \in changed}
           kept == {e \in s.feed : Compacted => e.node \notin changed}
           history == s.history \cup ({ns[n].hash : n \in changed} \ {NoHash})
<1>1. t = [s EXCEPT !.nodes = ns, !.feed = kept \cup entries,
                    !.head = @ + Cardinality(changed), !.history = history]
  BY DEF Publish, EntryOf, SeqOf
<1>2. t \in Server /\ t.epoch = s.epoch
  BY PublishScope DEF SameScope
<1> HIDE DEF history
<1>3. t.nodes = ns /\ t.feed = kept \cup entries /\ t.head = s.head + Cardinality(changed)
  <2> HIDE DEF entries, kept
  <2> QED
    BY <1>1 DEF Server
<1>4. s.head =< t.head
  BY <1>3, NodeCount, ServerTypes
<1> QED
  BY <1>2, <1>3, <1>4

\* A publication keeps the server in order, if the nodes it gives do.
PlacesKept(s, ns, changed) ==
    /\ \A n \in Nodes : n \notin changed => ns[n] = s.nodes[n]
    /\ \A n \in changed : /\ ns[n].st # "free"
                          /\ s.nodes[n].st # "free" => ns[n].scope = s.nodes[n].scope
    /\ OnePerPath(ns)
    /\ NoHashes(ns)
    /\ \A n \in Nodes : ns[n].st = "live" =>
          /\ ns[n].path \in Path
          /\ \A q \in Path : Within(q, ns[n].path) /\ q # ns[n].path =>
                \E m \in Nodes : /\ Above(ns, m, q, n)
                                 /\ m \in changed => n \in changed
                                 /\ n \in changed \/ Older(s, m, n)

LEMMA PublishKeepsOrder ==
    ASSUME NEW s \in Server, InOrder(s), NEW ns \in [Nodes -> Node],
           NEW changed \in SUBSET Nodes, PlacesKept(s, ns, changed),
           NEW t, t = Publish(s, ns, changed)
    PROVE  InOrder(t) /\ Advance(s, t) /\ \A n \in changed : Fresh(s, t, n)
<1> DEFINE entry(n) == EntryOf(s, ns, changed, n)
           seq(n)   == SeqOf(s, ns, changed, n)
<1>1. /\ t \in Server /\ t.nodes = ns /\ t.epoch = s.epoch
      /\ t.head = s.head + Cardinality(changed) /\ s.head =< t.head
      /\ \A e \in t.feed : e \in s.feed \/ \E n \in changed : e = entry(n)
      /\ \A n \in changed : entry(n) \in t.feed
      /\ \A e \in s.feed : e.node \notin changed => e \in t.feed
  BY PublishParts
<1>2. /\ s.head \in Nat /\ t.head \in Nat
      /\ \A e \in s.feed : e.seq \in Nat /\ e.node \in Nodes /\ 0 < e.seq /\ e.seq =< s.head
  BY <1>1, ServerTypes DEF InOrder, FeedInOrder
<1>3. \A n \in changed : seq(n) \in Nat /\ s.head < seq(n) /\ seq(n) =< t.head
  BY <1>1, SeqOfOrder
<1>4. \A m, n \in changed : /\ Before(ns, m, n) => seq(m) < seq(n)
                            /\ seq(m) = seq(n) => m = n
  BY SeqOfOrder
<1>5. \A n \in changed : entry(n).node = n /\ entry(n).seq = seq(n) /\ EntryIs(entry(n), ns[n])
  BY DEF EntryOf, EntryIs
<1>6. /\ \A n \in Nodes : n \notin changed => ns[n] = s.nodes[n]
      /\ \A n \in changed : ns[n].st # "free"
  BY DEF PlacesKept
<1> HIDE DEF entry, seq
<1>7. FeedInOrder(t)
  <2>1. ASSUME NEW e \in t.feed
        PROVE  0 < e.seq /\ e.seq =< t.head /\ ns[e.node].st # "free"
    <3>1. CASE e \in s.feed
      <4>1. s.nodes[e.node].st # "free"
        BY <3>1 DEF InOrder, FeedInOrder
      <4> QED
        BY <1>1, <1>2, <1>6, <3>1, <4>1
    <3>2. ASSUME NEW n \in changed, e = entry(n)
          PROVE  0 < e.seq /\ e.seq =< t.head /\ ns[e.node].st # "free"
      BY <1>2, <1>3, <1>5, <1>6, <3>2
    <3> QED
      BY <1>1, <3>1, <3>2
  <2>2. ASSUME NEW e \in t.feed, NEW f \in t.feed, e.seq = f.seq
        PROVE  e = f
    <3>1. CASE e \in s.feed /\ f \in s.feed
      BY <2>2, <3>1 DEF InOrder, FeedInOrder
    <3>2. ASSUME NEW n \in changed, e = entry(n), f \in s.feed
          PROVE  e = f
      BY <1>2, <1>3, <1>5, <2>2, <3>2
    <3>3. ASSUME NEW n \in changed, f = entry(n), e \in s.feed
          PROVE  e = f
      BY <1>2, <1>3, <1>5, <2>2, <3>3
    <3>4. ASSUME NEW m \in changed, NEW n \in changed, e = entry(m), f = entry(n)
          PROVE  e = f
      BY <1>4, <1>5, <2>2, <3>4
    <3> QED
      BY <1>1, <3>1, <3>2, <3>3, <3>4
  <2> QED
    BY <1>1, <2>1, <2>2 DEF FeedInOrder
<1>8. FeedIsCurrent(t)
  <2> SUFFICES ASSUME NEW n \in Nodes, ns[n].st # "free"
               PROVE  \E e \in t.feed : e.node = n /\ EntryIs(e, ns[n]) /\ Seen(t, n, e.seq)
    BY <1>1 DEF FeedIsCurrent
  <2>1. CASE n \in changed
    <3>1. Seen(t, n, seq(n))
      <4> SUFFICES ASSUME NEW e \in t.feed, e.node = n
                   PROVE  e.seq =< seq(n)
        BY DEF Seen
      <4>1. CASE e \in s.feed
        BY <1>2, <1>3, <2>1, <4>1
      <4>2. ASSUME NEW m \in changed, e = entry(m)
            PROVE  e.seq =< seq(n)
        BY <1>3, <1>5, <4>2
      <4> QED
        BY <1>1, <4>1, <4>2
    <3> QED
      BY <1>1, <1>5, <2>1, <3>1
  <2>2. CASE n \notin changed
    <3>1. s.nodes[n].st # "free" /\ s.nodes[n] = ns[n]
      BY <1>6, <2>2
    <3>2. PICK e \in s.feed : e.node = n /\ EntryIs(e, s.nodes[n]) /\ Seen(s, n, e.seq)
      BY <3>1 DEF InOrder, FeedIsCurrent
    <3>3. e \in t.feed
      BY <1>1, <2>2, <3>2
    <3>4. Seen(t, n, e.seq)
      <4> SUFFICES ASSUME NEW f \in t.feed, f.node = n
                   PROVE  f.seq =< e.seq
        BY DEF Seen
      <4>1. f \in s.feed
        BY <1>1, <1>5, <2>2
      <4> QED
        BY <3>2, <4>1 DEF Seen
    <3> QED
      BY <3>1, <3>2, <3>3, <3>4
  <2> QED
    BY <2>1, <2>2
<1>9. OnePerPath(t.nodes) /\ NoHashes(t.nodes)
  BY <1>1 DEF PlacesKept
<1>10. InFolders(t)
  <2> SUFFICES ASSUME NEW n \in Nodes, ns[n].st = "live"
               PROVE  /\ ns[n].path \in Path
                      /\ \A q \in Path : Within(q, ns[n].path) /\ q # ns[n].path =>
                            \E m \in Nodes : Above(ns, m, q, n) /\ Older(t, m, n)
    BY <1>1 DEF InFolders
  <2>1. ns[n].path \in Path
    BY DEF PlacesKept
  <2> SUFFICES ASSUME NEW q \in Path, Within(q, ns[n].path), q # ns[n].path
               PROVE  \E m \in Nodes : Above(ns, m, q, n) /\ Older(t, m, n)
    BY <2>1
  <2>2. PICK m \in Nodes : /\ Above(ns, m, q, n)
                           /\ m \in changed => n \in changed
                           /\ n \in changed \/ Older(s, m, n)
    BY DEF PlacesKept
  <2>3. Before(ns, m, n)
    <3>1. ns[m].path = q
      BY <2>2 DEF Above
    <3>2. Len(q) \in Nat /\ Len(ns[n].path) \in Nat /\ q \in Seq(Names) /\ ns[n].path \in Seq(Names)
      BY <2>1, PathIsSeq
    <3>3. Len(q) =< Len(ns[n].path)
      BY DEF Within
    <3>4. ~(Len(ns[n].path) =< Len(q))
      BY <3>2, WithinOrder
    <3> QED
      BY <3>1, <3>2, <3>3, <3>4 DEF Before
  <2>4. Older(t, m, n)
    <3> SUFFICES ASSUME NEW e \in t.feed, e.node = m
                 PROVE  \E f \in t.feed : f.node = n /\ e.seq =< f.seq
      BY DEF Older
    <3>1. CASE n \in changed /\ e \in s.feed
      BY <1>1, <1>2, <1>3, <1>5, <3>1
    <3>2. CASE n \in changed /\ m \in changed /\ e = entry(m)
      <4>1. seq(m) \in Nat /\ seq(n) \in Nat /\ seq(m) < seq(n)
        BY <1>3, <1>4, <2>3, <3>2
      <4> QED
        BY <1>1, <1>5, <3>2, <4>1
    <3>3. CASE n \notin changed
      <4>1. m \notin changed /\ Older(s, m, n)
        BY <2>2, <3>3
      <4>2. e \in s.feed
        BY <1>1, <1>5, <4>1
      <4>3. PICK f \in s.feed : f.node = n /\ e.seq =< f.seq
        BY <4>1, <4>2 DEF Older
      <4> QED
        BY <1>1, <3>3, <4>3
    <3> QED
      BY <1>1, <1>5, <3>1, <3>2, <3>3
  <2> QED
    BY <2>2, <2>4
<1>11. \A n \in changed : Fresh(s, t, n)
  BY <1>1, <1>3, <1>5 DEF Fresh
<1>12. Advance(s, t)
  <2>1. \A e \in t.feed : e \in s.feed \/ s.head < e.seq
    BY <1>1, <1>3, <1>5
  <2>2. \A n \in Nodes : Unchanged(s, t, n) \/ Fresh(s, t, n)
    BY <1>1, <1>6, <1>11 DEF Unchanged
  <2>3. \A n \in Nodes : s.nodes[n].st # "free" => /\ t.nodes[n].st # "free"
                                                   /\ t.nodes[n].scope = s.nodes[n].scope
    BY <1>1, <1>6 DEF PlacesKept
  <2> QED
    BY <1>1, <2>1, <2>2, <2>3 DEF Advance
<1> QED
  BY <1>7, <1>8, <1>9, <1>10, <1>11, <1>12 DEF InOrder

-----------------------------------------------------------------------------
(* Writing and removing.                                                   *)

\* What is below a path of a server in order: the nodes of a subtree, whole.
LEMMA InFoldersUp ==
    ASSUME NEW s \in Server, InOrder(s), NEW n \in Nodes, s.nodes[n].st = "live",
           NEW q \in Path, Within(q, s.nodes[n].path), q # s.nodes[n].path
    PROVE  \E m \in Nodes : Above(s.nodes, m, q, n) /\ Older(s, m, n)
  BY DEF InOrder, InFolders

LEMMA LivePaths ==
    ASSUME NEW s \in Server, InOrder(s)
    PROVE  /\ \A n \in Nodes : s.nodes[n].st = "live" =>
                 s.nodes[n].path \in Path /\ s.nodes[n].path \in Seq(Names)
           /\ \A p \in Path : p \in Seq(Names) /\ Len(p) \in Nat /\ 1 =< Len(p)
           /\ \A p, m, n : m \in LiveAt(s, p) /\ n \in LiveAt(s, p) => m = n
<1>1. \A n \in Nodes : s.nodes[n].st = "live" => s.nodes[n].path \in Path
  BY DEF InOrder, InFolders
<1>2. \A p \in Path : p \in Seq(Names) /\ Len(p) \in Nat /\ 1 =< Len(p)
  BY PathIsSeq
<1>3. ASSUME NEW p, NEW m, NEW n, m \in LiveAt(s, p), n \in LiveAt(s, p)
      PROVE  m = n
  BY <1>3 DEF LiveAt, Visible, InOrder, OnePerPath, SamePlace
<1> QED
  BY <1>1, <1>2, <1>3

-----------------------------------------------------------------------------
\* Storing a new content in a file.
LEMMA WriteKeepsOrder ==
    ASSUME NEW s \in Server, InOrder(s), NEW n \in Nodes, Visible(s, n), ~s.nodes[n].dir,
           NEW h \in Hash, NEW t, t = Write(s, n, h)
    PROVE  InOrder(t) /\ Advance(s, t) /\ Fresh(s, t, n)
<1> DEFINE ns == [s.nodes EXCEPT ![n].ver = @ + 1, ![n].hash = h]
<1>1. s.nodes \in [Nodes -> Node]
  BY DEF Server
<1>2. ns \in [Nodes -> Node]
  BY <1>1 DEF Node
<1>3. /\ \A m \in Nodes : m # n => ns[m] = s.nodes[m]
      /\ \A m \in Nodes : /\ ns[m].st = s.nodes[m].st /\ ns[m].scope = s.nodes[m].scope
                          /\ ns[m].path = s.nodes[m].path /\ ns[m].dir = s.nodes[m].dir
  BY <1>1 DEF Node
<1>4. t = Publish(s, ns, {n})
  BY DEF Write
<1> HIDE DEF ns
<1>5. OnePerPath(ns)
  BY <1>3 DEF InOrder, OnePerPath, SamePlace
<1>6. NoHashes(ns)
  BY <1>3 DEF InOrder, NoHashes
<1>7. ASSUME NEW k \in Nodes, ns[k].st = "live"
      PROVE  /\ ns[k].path \in Path
             /\ \A q \in Path : Within(q, ns[k].path) /\ q # ns[k].path =>
                   \E m \in Nodes : /\ Above(ns, m, q, k)
                                    /\ m \in {n} => k \in {n}
                                    /\ k \in {n} \/ Older(s, m, k)
  <2>1. ns[k].path \in Path
    BY <1>3, <1>7, LivePaths
  <2>2. ASSUME NEW q \in Path, Within(q, ns[k].path), q # ns[k].path
        PROVE  \E m \in Nodes : /\ Above(ns, m, q, k)
                                /\ m \in {n} => k \in {n}
                                /\ k \in {n} \/ Older(s, m, k)
    <3>1. PICK m \in Nodes : Above(s.nodes, m, q, k) /\ Older(s, m, k)
      BY <1>3, <1>7, <2>2, InFoldersUp
    <3>2. Above(ns, m, q, k) /\ m # n
      BY <1>3, <3>1 DEF Above
    <3> QED
      BY <3>1, <3>2
  <2> QED
    BY <2>1, <2>2
<1>8. s.nodes[n].st = "live"
  BY DEF Visible
<1>9. PlacesKept(s, ns, {n})
  BY <1>3, <1>5, <1>6, <1>7, <1>8 DEF PlacesKept
<1> QED
  BY <1>2, <1>4, <1>9, PublishKeepsOrder

-----------------------------------------------------------------------------
\* A folder above a node that a change of a subtree leaves alone is left alone.
LEMMA AboveStays ==
    ASSUME NEW s \in Server, InOrder(s), NEW n \in Nodes, Visible(s, n),
           NEW k \in Nodes, k \notin Subtree(s, n),
           NEW m \in Nodes, NEW q \in Path, Within(q, s.nodes[k].path), s.nodes[k].st = "live",
           Above(s.nodes, m, q, k)
    PROVE  m \notin Subtree(s, n)
<1> SUFFICES ASSUME m \in Subtree(s, n)
             PROVE  FALSE
  OBVIOUS
<1>1. Visible(s, m) /\ Within(s.nodes[n].path, q)
  BY DEF Subtree, Above
<1>2. Visible(s, k)
  BY <1>1 DEF Above, Visible
<1>3. Within(s.nodes[n].path, s.nodes[k].path)
  <2>1. s.nodes[n].path \in Seq(Names) /\ q \in Seq(Names) /\ s.nodes[k].path \in Seq(Names)
    BY LivePaths DEF Visible
  <2> QED
    BY <1>1, <2>1, WithinOrder
<1> QED
  BY <1>2, <1>3 DEF Subtree

\* What deleting a node leaves of it.
Dead(x) == [x EXCEPT !.st = "dead", !.ver = @ + 1]

LEMMA DeadNode ==
    ASSUME NEW x \in Node
    PROVE  /\ Dead(x) \in Node
           /\ Dead(x).st = "dead" /\ Dead(x).scope = x.scope
           /\ Dead(x).dir = x.dir /\ Dead(x).hash = x.hash
<1>1. Dead(x) \in Node
  BY NodeDies, Zenon DEF Dead
<1>2. /\ Dead(x).st = "dead" /\ Dead(x).scope = x.scope
      /\ Dead(x).dir = x.dir /\ Dead(x).hash = x.hash
  BY DEF Dead, Node
<1> QED
  BY <1>1, <1>2

\* Deleting a subtree.
LEMMA RemoveKeepsOrder ==
    ASSUME NEW s \in Server, InOrder(s), NEW n \in Nodes, Visible(s, n),
           NEW t, t = Remove(s, n)
    PROVE  InOrder(t) /\ Advance(s, t) /\ Fresh(s, t, n)
<1> DEFINE dead(m) == Dead(s.nodes[m])
           ns == [m \in Nodes |-> IF m \in Subtree(s, n) THEN dead(m) ELSE s.nodes[m]]
<1>1. ASSUME NEW m \in Nodes
      PROVE  /\ s.nodes[m] \in Node /\ dead(m) \in Node
             /\ dead(m).st = "dead" /\ dead(m).scope = s.nodes[m].scope
             /\ dead(m).dir = s.nodes[m].dir /\ dead(m).hash = s.nodes[m].hash
  <2>1. s.nodes[m] \in Node
    BY DEF Server
  <2> QED
    BY <2>1, DeadNode
<1>3. t = Publish(s, ns, Subtree(s, n))
  BY Zenon DEF Remove, Dead
<1> HIDE DEF dead
<1>2. /\ ns \in [Nodes -> Node]
      /\ \A m \in Nodes : ns[m] = IF m \in Subtree(s, n) THEN dead(m) ELSE s.nodes[m]
  BY <1>1
<1>4. Subtree(s, n) \in SUBSET Nodes /\ n \in Subtree(s, n)
  <2>1. s.nodes[n].path \in Seq(Names)
    BY LivePaths DEF Visible
  <2> QED
    BY <2>1, WithinOrder DEF Subtree
<1> HIDE DEF ns
<1>5. /\ \A m \in Subtree(s, n) : ns[m] = dead(m)
      /\ \A m \in Nodes : m \notin Subtree(s, n) => ns[m] = s.nodes[m]
      /\ \A m \in Nodes : ns[m].st = "live" => m \notin Subtree(s, n)
  BY <1>1, <1>2, <1>4
<1>6. OnePerPath(ns)
  BY <1>5 DEF InOrder, OnePerPath, SamePlace
<1>7. NoHashes(ns)
  BY <1>1, <1>4, <1>5 DEF InOrder, NoHashes
<1>8. ASSUME NEW k \in Nodes, ns[k].st = "live"
      PROVE  /\ ns[k].path \in Path
             /\ \A q \in Path : Within(q, ns[k].path) /\ q # ns[k].path =>
                   \E m \in Nodes : /\ Above(ns, m, q, k)
                                    /\ m \in Subtree(s, n) => k \in Subtree(s, n)
                                    /\ k \in Subtree(s, n) \/ Older(s, m, k)
  <2>1. k \notin Subtree(s, n) /\ ns[k] = s.nodes[k] /\ s.nodes[k].st = "live"
    BY <1>5, <1>8
  <2>2. ns[k].path \in Path
    BY <2>1, LivePaths
  <2>3. ASSUME NEW q \in Path, Within(q, ns[k].path), q # ns[k].path
        PROVE  \E m \in Nodes : /\ Above(ns, m, q, k)
                                /\ m \in Subtree(s, n) => k \in Subtree(s, n)
                                /\ k \in Subtree(s, n) \/ Older(s, m, k)
    <3>1. PICK m \in Nodes : Above(s.nodes, m, q, k) /\ Older(s, m, k)
      BY <2>1, <2>3, InFoldersUp
    <3>2. m \notin Subtree(s, n)
      BY <2>1, <2>3, <3>1, AboveStays
    <3>3. Above(ns, m, q, k)
      BY <1>5, <2>1, <3>1, <3>2 DEF Above
    <3> QED
      BY <3>1, <3>2, <3>3
  <2> QED
    BY <2>2, <2>3
<1>9. \A m \in Subtree(s, n) : /\ ns[m].st # "free"
                               /\ s.nodes[m].st # "free" => ns[m].scope = s.nodes[m].scope
  BY <1>1, <1>4, <1>5
<1>10. PlacesKept(s, ns, Subtree(s, n))
  BY <1>5, <1>6, <1>7, <1>8, <1>9 DEF PlacesKept
<1> QED
  BY <1>2, <1>3, <1>4, <1>10, PublishKeepsOrder

-----------------------------------------------------------------------------
(* Grafting.                                                               *)

\* A path below old becomes one below new, different ones different ones.
LEMMA GraftWithin ==
    ASSUME NEW old \in Seq(Names), NEW new \in Seq(Names), NEW p \in Seq(Names),
           Within(old, p)
    PROVE  Graft(old, new, p) \in Seq(Names) /\ Within(new, Graft(old, new, p))
<1> DEFINE g == Graft(old, new, p)
<1>1. Len(old) \in Nat /\ Len(new) \in Nat /\ Len(p) \in Nat /\ Len(old) =< Len(p)
  BY LenProperties DEF Within
<1>2. /\ g \in Seq(Names) /\ Len(g) = Len(new) + Len(p) - Len(old)
      /\ \A i \in 1..Len(new) : g[i] = new[i]
  BY <1>1, GraftPoints
<1> HIDE DEF g
<1>3. Len(new) =< Len(g) /\ \A i \in 1..Len(new) : new[i] = g[i]
  BY <1>1, <1>2
<1>4. Within(new, g)
  BY <1>2, <1>3, WithinPoints
<1> QED
  BY <1>2, <1>4 DEF g

LEMMA GraftInjective ==
    ASSUME NEW old \in Seq(Names), NEW new \in Seq(Names),
           NEW p \in Seq(Names), NEW q \in Seq(Names),
           Within(old, p), Within(old, q), Graft(old, new, p) = Graft(old, new, q)
    PROVE  p = q
<1> DEFINE g == Graft(old, new, p)
           h == Graft(old, new, q)
<1>1. /\ Len(old) \in Nat /\ Len(new) \in Nat /\ Len(p) \in Nat /\ Len(q) \in Nat
      /\ Len(old) =< Len(p) /\ Len(old) =< Len(q)
  BY LenProperties DEF Within
<1>2. /\ Len(g) = Len(new) + Len(p) - Len(old)
      /\ \A i \in 1..(Len(p) - Len(old)) : g[i + Len(new)] = p[i + Len(old)]
  BY <1>1, GraftPoints
<1>3. /\ Len(h) = Len(new) + Len(q) - Len(old)
      /\ \A i \in 1..(Len(q) - Len(old)) : h[i + Len(new)] = q[i + Len(old)]
  BY <1>1, GraftPoints
<1>4. g = h
  OBVIOUS
<1> HIDE DEF g, h
<1>5. Len(p) = Len(q)
  BY <1>1, <1>2, <1>3, <1>4
<1>6. ASSUME NEW i \in 1..Len(p)
      PROVE  p[i] = q[i]
  <2>1. CASE i =< Len(old)
    <3>1. i \in 1..Len(old)
      BY <1>1, <2>1
    <3> QED
      BY <3>1, WithinPoints
  <2>2. CASE ~(i =< Len(old))
    <3>1. i - Len(old) \in 1..(Len(p) - Len(old)) /\ i - Len(old) + Len(old) = i
      BY <1>1, <2>2
    <3> QED
      BY <1>2, <1>3, <1>4, <1>5, <3>1
  <2> QED
    BY <2>1, <2>2
<1> QED
  BY <1>5, <1>6, SeqEqual

\* Between new and a grafted path there are only grafted paths.
LEMMA GraftBetween ==
    ASSUME NEW old \in Path, NEW new \in Path, NEW p \in Path,
           Within(old, p),
           NEW q \in Path, Within(q, Graft(old, new, p)), q # Graft(old, new, p),
           Len(new) =< Len(q)
    PROVE  \E r \in Path : /\ Within(old, r) /\ Within(r, p) /\ r # p
                           /\ Graft(old, new, r) = q
<1> DEFINE g == Graft(old, new, p)
           j == Len(q) - Len(new) + Len(old)
           r == SubSeq(p, 1, j)
           h == Graft(old, new, r)
<1>1. /\ old \in Seq(Names) /\ new \in Seq(Names) /\ p \in Seq(Names) /\ q \in Seq(Names)
      /\ Len(old) \in Nat /\ Len(new) \in Nat /\ Len(p) \in Nat /\ Len(q) \in Nat
      /\ 1 =< Len(old)
  BY PathIsSeq
<1>2. Len(old) =< Len(p)
  BY DEF Within
<1>3. /\ g \in Seq(Names) /\ Len(g) = Len(new) + Len(p) - Len(old)
      /\ \A i \in 1..Len(new) : g[i] = new[i]
      /\ \A i \in 1..(Len(p) - Len(old)) : g[i + Len(new)] = p[i + Len(old)]
  BY <1>1, <1>2, GraftPoints, Zenon
<1> HIDE DEF g
<1>4. Within(q, g) /\ q # g
  BY DEF g
<1>5. Len(q) < Len(g)
  <2>1. Len(q) =< Len(g)
    BY <1>4 DEF Within
  <2>2. ~(Len(g) =< Len(q))
    BY <1>1, <1>3, <1>4, WithinOrder
  <2> QED
    BY <1>1, <1>2, <1>3, <2>1, <2>2
<1>6. j \in 1..Len(p) /\ j < Len(p) /\ Len(old) =< j
  BY <1>1, <1>2, <1>3, <1>5
<1> HIDE DEF j
<1>7. r \in Path /\ Len(r) = j /\ Within(r, p)
  BY <1>6, PrefixIsPath
<1> HIDE DEF r
<1>8. r \in Seq(Names) /\ r # p
  BY <1>1, <1>6, <1>7, PathIsSeq
<1>9. Within(old, r)
  BY <1>1, <1>6, <1>7, <1>8, WithinOrder
<1>10. /\ h \in Seq(Names) /\ Len(h) = Len(new) + j - Len(old)
       /\ \A i \in 1..Len(new) : h[i] = new[i]
       /\ \A i \in 1..(j - Len(old)) : h[i + Len(new)] = r[i + Len(old)]
  <2>1. Len(old) =< Len(r)
    BY <1>6, <1>7
  <2>2. /\ h \in Seq(Names) /\ Len(h) = Len(new) + Len(r) - Len(old)
        /\ \A i \in 1..Len(new) : h[i] = new[i]
        /\ \A i \in 1..(Len(r) - Len(old)) : h[i + Len(new)] = r[i + Len(old)]
    <3>1. old \in Seq(Names) /\ new \in Seq(Names) /\ r \in Seq(Names)
      BY <1>1, <1>8
    <3> QED
      BY ONLY <2>1, <3>1, GraftPoints
  <2> HIDE DEF h
  <2> QED
    BY <1>7, <2>2
<1> HIDE DEF h
<1>11. Len(h) = Len(q)
  BY <1>1, <1>6, <1>10 DEF j
<1>12. \A i \in 1..Len(q) : q[i] = g[i]
  BY <1>1, <1>3, <1>4, WithinPoints
<1>13. \A i \in 1..j : r[i] = p[i]
  BY <1>1, <1>7, <1>8, WithinPoints
<1>14. ASSUME NEW i \in 1..Len(q)
       PROVE  h[i] = q[i]
  <2>1. CASE i =< Len(new)
    <3>1. i \in 1..Len(new)
      BY <1>1, <2>1
    <3> QED
      BY <1>3, <1>10, <1>12, <3>1
  <2>2. CASE ~(i =< Len(new))
    <3> DEFINE k == i - Len(new)
    <3>1. k \in 1..(j - Len(old)) /\ k \in 1..(Len(p) - Len(old)) /\ k + Len(new) = i
          /\ k + Len(old) \in 1..j
      BY <1>1, <1>6, <2>2 DEF j
    <3> HIDE DEF k
    <3>2. h[i] = r[k + Len(old)] /\ g[i] = p[k + Len(old)]
      BY <1>3, <1>10, <3>1
    <3> QED
      BY <1>12, <1>13, <3>1, <3>2
  <2> QED
    BY <2>1, <2>2
<1>15. h = q
  BY <1>1, <1>10, <1>11, <1>14, SeqEqual
<1> QED
  BY <1>7, <1>8, <1>9, <1>15 DEF h

-----------------------------------------------------------------------------
(* Moving a subtree.                                                       *)

\* What a move leaves of a node.
Moved(x, p) == [x EXCEPT !.path = p, !.ver = @ + 1]

LEMMA MovedNode ==
    ASSUME NEW x \in Node, NEW p \in Path
    PROVE  /\ Moved(x, p) \in Node
           /\ Moved(x, p).st = x.st /\ Moved(x, p).scope = x.scope
           /\ Moved(x, p).dir = x.dir /\ Moved(x, p).hash = x.hash
           /\ Moved(x, p).path = p
<1>1. Moved(x, p) \in Node
  BY NodeMoves, Zenon DEF Moved
<1>2. /\ Moved(x, p).st = x.st /\ Moved(x, p).scope = x.scope
      /\ Moved(x, p).dir = x.dir /\ Moved(x, p).hash = x.hash
      /\ Moved(x, p).path = p
  BY DEF Moved, Node
<1> QED
  BY <1>1, <1>2

\* Moving a subtree to a place that is free, in a folder that is there.
LEMMA RelocateKeepsOrder ==
    ASSUME NEW s \in Server, InOrder(s), NEW n \in Nodes, NEW new \in Path,
           CanRelocate(s, n, new), NEW t, t = Relocate(s, n, new)
    PROVE  InOrder(t) /\ Advance(s, t) /\ Fresh(s, t, n)
<1> DEFINE old == s.nodes[n].path
           to(m) == Graft(old, new, s.nodes[m].path)
           moved(m) == Moved(s.nodes[m], to(m))
           below == Subtree(s, n)
           ns == [m \in Nodes |-> IF m \in below THEN moved(m) ELSE s.nodes[m]]
<1>1. /\ Visible(s, n) /\ ~Taken(s, new) /\ DirAt(s, Parent(new)) /\ ~Within(old, new)
      /\ \A m \in below : to(m) \in Path
  BY DEF CanRelocate
<1>2. t = Publish(s, ns, below)
  BY Zenon DEF Relocate, Moved
<1>3. /\ old \in Path /\ old \in Seq(Names) /\ new \in Seq(Names)
      /\ Len(old) \in Nat /\ Len(new) \in Nat
  BY <1>1, LivePaths, PathIsSeq DEF Visible
<1>4. /\ below \in SUBSET Nodes /\ n \in below
      /\ \A m \in below : /\ s.nodes[m].st = "live" /\ s.nodes[m].scope = s.epoch
                          /\ s.nodes[m].path \in Path /\ s.nodes[m].path \in Seq(Names)
                          /\ Within(old, s.nodes[m].path)
  BY <1>1, <1>3, LivePaths, WithinOrder DEF Subtree, Visible
<1> HIDE DEF old, to
<1>5. ASSUME NEW m \in below
      PROVE  /\ moved(m) \in Node /\ moved(m).st = "live" /\ moved(m).scope = s.epoch
             /\ moved(m).dir = s.nodes[m].dir /\ moved(m).hash = s.nodes[m].hash
             /\ moved(m).path = to(m)
  <2>1. s.nodes[m] \in Node
    BY <1>4, ServerTypes
  <2>2. to(m) \in Path /\ s.nodes[m].st = "live" /\ s.nodes[m].scope = s.epoch
    BY <1>1, <1>4
  <2>3. /\ moved(m) \in Node
        /\ moved(m).st = s.nodes[m].st /\ moved(m).scope = s.nodes[m].scope
        /\ moved(m).dir = s.nodes[m].dir /\ moved(m).hash = s.nodes[m].hash
        /\ moved(m).path = to(m)
    BY ONLY <2>1, <2>2, MovedNode
  <2> QED
    BY <2>2, <2>3
<1>6. ns \in [Nodes -> Node]
  <2> HIDE DEF moved, below
  <2> QED
    BY <1>5, ServerTypes
<1>7. \A m \in below : ns[m] = moved(m)
  BY <1>4
<1>8. \A m \in Nodes : m \notin below => ns[m] = s.nodes[m]
  OBVIOUS
<1> HIDE DEF ns, moved, below
<1>9. \A m \in below : /\ ns[m].st = "live" /\ ns[m].scope = s.epoch
                       /\ ns[m].dir = s.nodes[m].dir /\ ns[m].hash = s.nodes[m].hash
                       /\ ns[m].path = to(m)
  BY <1>5, <1>7
<1>10. \A m \in below : to(m) \in Path /\ to(m) \in Seq(Names) /\ Within(new, to(m))
  <2>1. \A m \in below : Within(new, to(m))
    BY <1>3, <1>4, GraftWithin DEF to
  <2> QED
    BY <1>1, <2>1, PathIsSeq
<1>11. ASSUME NEW k \in Nodes, s.nodes[k].st = "live", s.nodes[k].scope = s.epoch,
              Within(new, s.nodes[k].path)
       PROVE  FALSE
  <2>1. Visible(s, k) /\ s.nodes[k].path # new
    BY <1>1, <1>11 DEF Visible, Taken, LiveAt
  <2>2. PICK m \in Nodes : Above(s.nodes, m, new, k)
    BY <1>11, <2>1, InFoldersUp
  <2> QED
    BY <1>1, <1>11, <2>2 DEF Above, Visible, Taken, LiveAt
<1>12. OnePerPath(ns)
  <2> SUFFICES ASSUME NEW k \in Nodes, NEW m \in Nodes, SamePlace(ns[k], ns[m])
               PROVE  k = m
    BY DEF OnePerPath
  <2>1. CASE k \notin below /\ m \notin below
    BY <1>8, <2>1 DEF InOrder, OnePerPath
  <2>2. CASE k \in below /\ m \in below
    <3>1. to(k) = to(m)
      BY <1>9, <2>2 DEF SamePlace
    <3>2. s.nodes[k].path = s.nodes[m].path
      BY <1>3, <1>4, <2>2, <3>1, GraftInjective DEF to
    <3> QED
      BY <1>4, <2>2, <3>2 DEF InOrder, OnePerPath, SamePlace
  <2>3. CASE k \in below /\ m \notin below
    BY <1>8, <1>9, <1>10, <1>11, <2>3 DEF SamePlace
  <2>4. CASE k \notin below /\ m \in below
    BY <1>8, <1>9, <1>10, <1>11, <2>4 DEF SamePlace
  <2> QED
    BY <2>1, <2>2, <2>3, <2>4
<1>13. NoHashes(ns)
  BY <1>4, <1>8, <1>9 DEF InOrder, NoHashes
<1>14. ASSUME NEW k \in Nodes, k \notin below, s.nodes[k].st = "live",
              NEW q \in Path, Within(q, s.nodes[k].path), q # s.nodes[k].path
       PROVE  \E m \in Nodes : m \notin below /\ Above(ns, m, q, k) /\ Older(s, m, k)
  <2>1. PICK m \in Nodes : Above(s.nodes, m, q, k) /\ Older(s, m, k)
    BY <1>14, InFoldersUp
  <2>2. m \notin below
    BY <1>1, <1>14, <2>1, AboveStays DEF below
  <2> QED
    BY <1>8, <1>14, <2>1, <2>2 DEF Above
<1>15. ASSUME NEW k \in below,
              NEW q \in Path, Within(q, to(k)), q # to(k), Len(new) =< Len(q)
       PROVE  \E m \in below : Above(ns, m, q, k)
  <2>1. PICK r \in Path : /\ Within(old, r) /\ Within(r, s.nodes[k].path)
                          /\ r # s.nodes[k].path /\ Graft(old, new, r) = q
    BY <1>3, <1>4, <1>15, GraftBetween DEF to
  <2>2. PICK m \in Nodes : Above(s.nodes, m, r, k)
    BY <1>4, <2>1, InFoldersUp
  <2>3. m \in below
    BY <1>4, <2>1, <2>2 DEF below, Subtree, Above, Visible, old
  <2>4. to(m) = q
    BY <2>1, <2>2 DEF to, Above
  <2> QED
    BY <1>4, <1>9, <2>2, <2>3, <2>4 DEF Above
<1>16. ASSUME NEW k \in below,
              NEW q \in Path, Within(q, to(k)), ~(Len(new) =< Len(q))
       PROVE  \E m \in Nodes : m \notin below /\ Above(ns, m, q, k)
  <2>1. q \in Seq(Names) /\ Len(q) \in Nat /\ 1 =< Len(q)
    BY PathIsSeq
  <2>2. Within(q, new)
    BY <1>3, <1>10, <1>16, <2>1, WithinOrder
  <2>3. /\ Parent(new) \in Seq(Names) /\ Len(Parent(new)) = Len(new) - 1
        /\ Within(Parent(new), new) /\ Parent(new) \in Path
    BY <1>3, <1>16, <2>1, ParentPoints
  <2>4. Within(q, Parent(new))
    BY <1>3, <1>16, <2>1, <2>2, <2>3, WithinOrder
  <2>5. ~Within(old, Parent(new))
    BY <1>1, <1>3, <2>3, WithinOrder DEF old
  <2>6. Parent(new) # Root
    BY <2>3, PathIsSeq, RootIsSeq
  <2>7. PICK j \in Nodes : /\ Visible(s, j) /\ s.nodes[j].dir
                           /\ s.nodes[j].path = Parent(new)
    BY <1>1, <2>6 DEF DirAt, LiveAt
  <2>8. j \notin below
    BY <2>5, <2>7 DEF below, Subtree, old
  <2>9. CASE q = Parent(new)
    BY <1>8, <1>9, <2>7, <2>8, <2>9 DEF Above, Visible
  <2>10. CASE q # Parent(new)
    <3>1. PICK m \in Nodes : m \notin below /\ Above(ns, m, q, j)
      BY <1>14, <2>4, <2>7, <2>8, <2>10 DEF Visible
    <3> QED
      BY <1>8, <1>9, <2>7, <2>8, <3>1 DEF Above, Visible
  <2> QED
    BY <2>9, <2>10
<1>17. ASSUME NEW k \in Nodes, ns[k].st = "live"
       PROVE  /\ ns[k].path \in Path
              /\ \A q \in Path : Within(q, ns[k].path) /\ q # ns[k].path =>
                    \E m \in Nodes : /\ Above(ns, m, q, k)
                                     /\ m \in below => k \in below
                                     /\ k \in below \/ Older(s, m, k)
  <2>1. CASE k \in below
    <3>1. ns[k].path = to(k) /\ to(k) \in Path
      BY <1>9, <1>10, <2>1
    <3>2. ASSUME NEW q \in Path, Within(q, to(k)), q # to(k)
          PROVE  \E m \in Nodes : Above(ns, m, q, k)
      BY <1>4, <1>15, <1>16, <2>1, <3>2
    <3> QED
      BY <2>1, <3>1, <3>2
  <2>2. CASE k \notin below
    <3>1. ns[k].path = s.nodes[k].path /\ s.nodes[k].st = "live" /\ s.nodes[k].path \in Path
      BY <1>8, <1>17, <2>2, LivePaths
    <3> QED
      BY <1>14, <2>2, <3>1
  <2> QED
    BY <2>1, <2>2
<1>18. \A m \in below : /\ ns[m].st # "free"
                        /\ s.nodes[m].st # "free" => ns[m].scope = s.nodes[m].scope
  BY <1>4, <1>9
<1>19. PlacesKept(s, ns, below)
  BY <1>8, <1>12, <1>13, <1>17, <1>18 DEF PlacesKept
<1> QED
  BY <1>2, <1>4, <1>6, <1>19, PublishKeepsOrder

-----------------------------------------------------------------------------
(* The nodes that Make gives to new paths.                                 *)

\* The free ids, by their order.
FreeBefore(s, n) == {m \in Free(s) : m < n}
Higher(s, p, q)  == {r \in Missing(s, p) : Len(r) < Len(q)}

LEMMA FreeRank ==
    ASSUME NEW s \in Server
    PROVE  /\ IsFiniteSet(Free(s)) /\ Cardinality(Free(s)) \in Nat
           /\ \A n \in Free(s) : Cardinality(FreeBefore(s, n)) \in 0..(Cardinality(Free(s)) - 1)
           /\ \A m, n \in Free(s) :
                 Cardinality(FreeBefore(s, m)) = Cardinality(FreeBefore(s, n)) => m = n
           /\ \A i \in 0..(Cardinality(Free(s)) - 1) :
                 \E n \in Free(s) : Cardinality(FreeBefore(s, n)) = i
<1> DEFINE F == Free(s)
           c == Cardinality(F)
           T == 0..(c - 1)
           rank == [n \in F |-> Cardinality(FreeBefore(s, n))]
<1>1. F \in SUBSET Nodes /\ F \subseteq Nat
  BY NodesAssumption DEF Free
<1>2. IsFiniteSet(F) /\ c \in Nat
  BY <1>1, NodeCount, FS_Subset, NodesAssumption
<1>3. \A n \in F : FreeBefore(s, n) \in SUBSET F /\ n \notin FreeBefore(s, n)
  BY <1>1 DEF FreeBefore
<1>4. ASSUME NEW n \in F
      PROVE  Cardinality(FreeBefore(s, n)) \in T
  <2>1. Cardinality(FreeBefore(s, n)) \in Nat /\ Cardinality(FreeBefore(s, n)) < c
    <3> HIDE DEF F
    <3> QED
      BY <1>2, <1>3, StrictlyFewer
  <2> QED
    BY <1>2, <2>1
<1>5. ASSUME NEW m \in F, NEW n \in F, m < n
      PROVE  Cardinality(FreeBefore(s, m)) < Cardinality(FreeBefore(s, n))
  <2>1. FreeBefore(s, m) \subseteq FreeBefore(s, n) /\ m \in FreeBefore(s, n)
    BY <1>1, <1>5 DEF FreeBefore
  <2> HIDE DEF F
  <2> QED
    BY <1>2, <1>3, <2>1, StrictlyFewer
<1> HIDE DEF F
<1>6. ASSUME NEW m \in F, NEW n \in F, Cardinality(FreeBefore(s, m)) = Cardinality(FreeBefore(s, n))
      PROVE  m = n
  <2>1. m \in Nat /\ n \in Nat
    BY <1>1
  <2>2. Cardinality(FreeBefore(s, m)) \in Nat /\ Cardinality(FreeBefore(s, n)) \in Nat
    BY <1>2, <1>4
  <2> QED
    BY <1>5, <1>6, <2>1, <2>2
<1>7. rank \in Injection(F, T)
  <2>1. rank \in [F -> T]
    BY <1>4
  <2>2. IsInjective(rank)
    BY <1>6 DEF IsInjective
  <2> QED
    BY <2>1, <2>2 DEF Injection
<1>8. IsFiniteSet(T) /\ Cardinality(T) = c
  <2>1. 0 \in Int /\ c - 1 \in Int
    BY <1>2
  <2>2. IsFiniteSet(T) /\ Cardinality(T) = IF 0 > c - 1 THEN 0 ELSE c - 1 - 0 + 1
    BY <2>1, FS_Interval
  <2> QED
    BY <1>2, <2>2
<1> HIDE DEF T
<1>9. rank \in Surjection(F, T)
  <2> HIDE DEF rank
  <2> QED
    BY <1>7, <1>8, FS_Injection
<1>10. \A i \in T : \E n \in F : Cardinality(FreeBefore(s, n)) = i
  BY <1>9 DEF Surjection
<1> QED
  BY <1>2, <1>4, <1>6, <1>10 DEF F, T

\* The paths missing above p, by their length.
LEMMA MissingRank ==
    ASSUME NEW s \in Server, NEW p \in Path, CanMake(s, p)
    PROVE  /\ p \in Missing(s, p)
           /\ \A q \in Missing(s, p) :
                 Cardinality(Higher(s, p, q)) \in 0..(Cardinality(Free(s)) - 1)
           /\ \A q, r \in Missing(s, p) :
                 Cardinality(Higher(s, p, q)) = Cardinality(Higher(s, p, r)) => q = r
<1> DEFINE M == Missing(s, p)
           len == [q \in M |-> Len(q)]
<1>1. p \in Seq(Names) /\ \A q \in Path : q \in Seq(Names) /\ Len(q) \in Nat /\ Len(q) \in 1..Depth
  BY PathIsSeq, DepthAssumption
<1>2. M \subseteq Path /\ \A q \in M : Within(q, p)
  BY DEF Missing
<1>3. p \in M
  BY <1>1, WithinOrder DEF Missing, CanMake
<1>4. Cardinality(M) =< Cardinality(Free(s)) /\ Cardinality(Free(s)) \in Nat
  BY FreeRank DEF CanMake
<1> HIDE DEF M
<1>5. ASSUME NEW q \in M, NEW r \in M, Len(q) = Len(r)
      PROVE  q = r
  <2>1. q \in Seq(Names) /\ r \in Seq(Names) /\ Len(q) \in Nat /\ Len(r) \in Nat
        /\ Within(q, p) /\ Within(r, p)
    BY <1>1, <1>2
  <2>2. Within(q, r)
    BY <1>1, <1>5, <2>1, WithinOrder
  <2> QED
    BY <1>5, <2>1, <2>2, WithinOrder
<1>6. IsFiniteSet(M)
  <2>1. len \in [M -> 1..Depth]
    BY <1>1, <1>2
  <2>2. IsInjective(len)
    BY <1>5 DEF IsInjective
  <2>3. len \in Injection(M, 1..Depth)
    BY <2>1, <2>2 DEF Injection
  <2>4. IsFiniteSet(1..Depth)
    BY FS_Interval, DepthAssumption
  <2> HIDE DEF len
  <2> QED
    BY <2>3, <2>4, FS_Injection
<1>7. \A q \in M : /\ Higher(s, p, q) \in SUBSET M /\ q \notin Higher(s, p, q)
  BY <1>1, <1>2 DEF Higher, M
<1>8. ASSUME NEW q \in M
      PROVE  Cardinality(Higher(s, p, q)) \in 0..(Cardinality(Free(s)) - 1)
  <2>1. /\ Cardinality(Higher(s, p, q)) \in Nat /\ Cardinality(M) \in Nat
        /\ Cardinality(Higher(s, p, q)) < Cardinality(M)
    BY <1>6, <1>7, StrictlyFewer
  <2> QED
    BY <1>4, <2>1
<1>9. ASSUME NEW q \in M, NEW r \in M, Len(q) < Len(r)
      PROVE  Cardinality(Higher(s, p, q)) < Cardinality(Higher(s, p, r))
  <2>1. Len(q) \in Nat /\ Len(r) \in Nat /\ \A x \in M : Len(x) \in Nat
    BY <1>1, <1>2
  <2>2. Higher(s, p, q) \subseteq Higher(s, p, r) /\ q \in Higher(s, p, r)
    BY <1>9, <2>1 DEF Higher, M
  <2> QED
    BY <1>6, <1>7, <2>2, StrictlyFewer
<1>10. ASSUME NEW q \in M, NEW r \in M,
              Cardinality(Higher(s, p, q)) = Cardinality(Higher(s, p, r))
       PROVE  q = r
  <2>1. Len(q) \in Nat /\ Len(r) \in Nat
    BY <1>1, <1>2
  <2>2. Cardinality(Higher(s, p, q)) \in Nat /\ Cardinality(Higher(s, p, r)) \in Nat
    BY <1>4, <1>8
  <2>3. ~(Len(q) < Len(r)) /\ ~(Len(r) < Len(q))
    BY <1>9, <1>10, <2>2
  <2> QED
    BY <1>5, <2>1, <2>3
<1> QED
  BY <1>3, <1>8, <1>10 DEF M

\* So each missing path gets one free node, and a node one path.
LEMMA NewPathOneToOne ==
    ASSUME NEW s \in Server, NEW p \in Path, CanMake(s, p)
    PROVE  /\ \A q \in Missing(s, p) : \E n \in Free(s) : NewPath(s, p, n) = {q}
           /\ \A n \in Nodes : NewPath(s, p, n) # {} =>
                 /\ n \in Free(s)
                 /\ \E q \in Missing(s, p) : NewPath(s, p, n) = {q}
           /\ \A m, n \in Nodes : NewPath(s, p, m) # {} /\ NewPath(s, p, m) = NewPath(s, p, n)
                 => m = n
<1>1. \A n : NewPath(s, p, n) = {q \in Missing(s, p) :
                /\ n \in Free(s)
                /\ Cardinality(FreeBefore(s, n)) = Cardinality(Higher(s, p, q))}
  BY DEF NewPath, FreeBefore, Higher
<1>2. ASSUME NEW n, NEW q \in NewPath(s, p, n)
      PROVE  /\ n \in Free(s) /\ q \in Missing(s, p) /\ NewPath(s, p, n) = {q}
             /\ Cardinality(FreeBefore(s, n)) = Cardinality(Higher(s, p, q))
  <2>1. /\ n \in Free(s) /\ q \in Missing(s, p)
        /\ Cardinality(FreeBefore(s, n)) = Cardinality(Higher(s, p, q))
    BY <1>1
  <2>2. \A r \in NewPath(s, p, n) : r = q
    BY <1>1, <2>1, MissingRank
  <2> QED
    BY <2>1, <2>2
<1>3. ASSUME NEW q \in Missing(s, p)
      PROVE  \E n \in Free(s) : NewPath(s, p, n) = {q}
  <2>1. Cardinality(Higher(s, p, q)) \in 0..(Cardinality(Free(s)) - 1)
    BY MissingRank
  <2>2. PICK n \in Free(s) : Cardinality(FreeBefore(s, n)) = Cardinality(Higher(s, p, q))
    BY <2>1, FreeRank
  <2>3. q \in NewPath(s, p, n)
    BY <1>1, <2>2
  <2> QED
    BY <1>2, <2>3
<1>4. ASSUME NEW m \in Nodes, NEW n \in Nodes,
             NewPath(s, p, m) # {}, NewPath(s, p, m) = NewPath(s, p, n)
      PROVE  m = n
  <2>1. PICK q : q \in NewPath(s, p, m) /\ q \in NewPath(s, p, n)
    BY <1>4
  <2>2. /\ m \in Free(s) /\ n \in Free(s)
        /\ Cardinality(FreeBefore(s, m)) = Cardinality(FreeBefore(s, n))
    BY <1>2, <2>1
  <2> QED
    BY <2>2, FreeRank
<1>5. ASSUME NEW n \in Nodes, NewPath(s, p, n) # {}
      PROVE  n \in Free(s) /\ \E q \in Missing(s, p) : NewPath(s, p, n) = {q}
  BY <1>2, <1>5
<1> QED
  BY <1>3, <1>4, <1>5

-----------------------------------------------------------------------------
(* Make.                                                                   *)

\* A node as Make stores it at q, on the way to p.
MadeNode(s, p, h, q) ==
    [st |-> "live", scope |-> s.epoch, path |-> q, dir |-> q # p \/ h = NoHash, ver |-> 1,
     hash |-> IF q = p THEN h ELSE NoHash]

LEMMA MakeKeepsOrder ==
    ASSUME NEW s \in Server, InOrder(s), NEW p \in Path, NEW h \in Hash, CanMake(s, p),
           NEW t, t = Make(s, p, h)
    PROVE  /\ InOrder(t) /\ Advance(s, t)
           /\ \A n \in LiveAt(t, p) : Fresh(s, t, n) /\ t.nodes[n] = MadeNode(s, p, h, p)
<1> DEFINE made == {n \in Nodes : NewPath(s, p, n) # {}}
           chosen(n) == CHOOSE q \in NewPath(s, p, n) : TRUE
           node(q) == MadeNode(s, p, h, q)
           ns == [n \in Nodes |-> IF n \in made THEN node(chosen(n)) ELSE s.nodes[n]]
<1>1. t = Publish(s, ns, made)
  BY Zenon DEF Make, MadeNode
<1>2. /\ p \in Missing(s, p) /\ ~Taken(s, p)
      /\ \A q \in Missing(s, p) : q \in Path /\ q \in Seq(Names) /\ Within(q, p) /\ ~Taken(s, q)
      /\ p \in Seq(Names)
  BY MissingRank, PathIsSeq DEF Missing, CanMake
<1>3. ASSUME NEW n \in made
      PROVE  /\ n \in Free(s) /\ chosen(n) \in Missing(s, p)
             /\ NewPath(s, p, n) = {chosen(n)}
  <2>1. n \in Nodes /\ NewPath(s, p, n) # {}
    OBVIOUS
  <2>2. PICK q \in Missing(s, p) : NewPath(s, p, n) = {q}
    BY <2>1, NewPathOneToOne
  <2>3. chosen(n) = q
    BY <2>2
  <2>4. n \in Free(s)
    BY <2>1, NewPathOneToOne
  <2> HIDE DEF chosen
  <2> QED
    BY <2>2, <2>3, <2>4
<1>4. ASSUME NEW q \in Missing(s, p)
      PROVE  \E n \in made : chosen(n) = q
  <2>1. PICK n \in Free(s) : NewPath(s, p, n) = {q}
    BY NewPathOneToOne
  <2>2. n \in made
    BY <2>1 DEF Free
  <2>3. NewPath(s, p, n) = {chosen(n)}
    BY <1>3, <2>2
  <2> HIDE DEF made, chosen
  <2> QED
    BY <2>1, <2>2, <2>3
<1>5. ASSUME NEW m \in made, NEW n \in made, chosen(m) = chosen(n)
      PROVE  m = n
  <2>1. NewPath(s, p, m) = {chosen(m)} /\ NewPath(s, p, n) = {chosen(n)}
    BY <1>3
  <2>2. m \in Nodes /\ n \in Nodes
    OBVIOUS
  <2> HIDE DEF made, chosen
  <2>3. NewPath(s, p, m) # {} /\ NewPath(s, p, m) = NewPath(s, p, n)
    BY <1>5, <2>1
  <2> QED
    BY <2>2, <2>3, NewPathOneToOne
<1>6. made \in SUBSET Nodes
  OBVIOUS
<1> HIDE DEF chosen
<1>7. ASSUME NEW q \in Path
      PROVE  /\ node(q) \in Node /\ node(q).st = "live" /\ node(q).scope = s.epoch
             /\ node(q).path = q /\ (node(q).dir => node(q).hash = NoHash)
             /\ (q # p => node(q).dir)
  BY ServerTypes DEF MadeNode, Node, Hash
<1> HIDE DEF node
<1>8. ns \in [Nodes -> Node]
  <2>1. \A n \in made : node(chosen(n)) \in Node
    BY <1>2, <1>3, <1>7
  <2> HIDE DEF made
  <2> QED
    BY <2>1, ServerTypes
<1>9. \A n \in made : ns[n] = node(chosen(n))
  BY <1>6
<1>10. \A n \in Nodes : n \notin made => ns[n] = s.nodes[n]
  OBVIOUS
<1> HIDE DEF ns, made
<1>11. ASSUME NEW n \in made
       PROVE  /\ ns[n].st = "live" /\ ns[n].scope = s.epoch /\ ns[n].path = chosen(n)
              /\ chosen(n) \in Path /\ (ns[n].dir => ns[n].hash = NoHash)
              /\ (chosen(n) # p => ns[n].dir) /\ s.nodes[n].st = "free"
  <2>1. chosen(n) \in Path /\ s.nodes[n].st = "free"
    BY <1>2, <1>3 DEF Free
  <2> QED
    BY <1>7, <1>9, <2>1
<1>12. ASSUME NEW n \in Nodes, n \notin made, NEW m \in made, SamePlace(ns[n], ns[m])
       PROVE  FALSE
  <2>1. s.nodes[n].st = "live" /\ s.nodes[n].scope = s.epoch /\ s.nodes[n].path = chosen(m)
    BY <1>10, <1>11, <1>12 DEF SamePlace
  <2>2. ~Taken(s, chosen(m))
    BY <1>2, <1>3
  <2> QED
    BY <2>1, <2>2 DEF Taken, LiveAt, Visible
<1>13. OnePerPath(ns)
  <2> SUFFICES ASSUME NEW k \in Nodes, NEW m \in Nodes, SamePlace(ns[k], ns[m])
               PROVE  k = m
    BY DEF OnePerPath
  <2>1. CASE k \notin made /\ m \notin made
    BY <1>10, <2>1 DEF InOrder, OnePerPath
  <2>2. CASE k \in made /\ m \in made
    BY <1>5, <1>11, <2>2 DEF SamePlace
  <2>3. CASE k \notin made /\ m \in made
    BY <1>12, <2>3
  <2>4. CASE k \in made /\ m \notin made
    <3>1. SamePlace(ns[m], ns[k])
      BY DEF SamePlace
    <3> QED
      BY <1>12, <2>4, <3>1
  <2> QED
    BY <2>1, <2>2, <2>3, <2>4
<1>14. NoHashes(ns)
  BY <1>10, <1>11 DEF InOrder, NoHashes
<1>15. ASSUME NEW k \in made, NEW q \in Path, Within(q, chosen(k)), q # chosen(k)
       PROVE  \E m \in Nodes : Above(ns, m, q, k)
  <2>1. q \in Seq(Names) /\ chosen(k) \in Seq(Names) /\ Within(chosen(k), p)
    BY <1>2, <1>3, PathIsSeq
  <2>2. Within(q, p) /\ q # p
    BY <1>2, <1>15, <2>1, WithinOrder DEF Within
  <2>3. CASE Taken(s, q)
    <3>1. PICK m \in Nodes : Visible(s, m) /\ s.nodes[m].path = q
      BY <2>3 DEF Taken, LiveAt
    <3>2. s.nodes[m].dir
      BY <2>2, <3>1 DEF CanMake, FileAt, LiveAt
    <3>3. m \notin made
      BY <1>11, <3>1 DEF Visible
    <3> QED
      BY <1>10, <1>11, <3>1, <3>2, <3>3 DEF Above, Visible
  <2>4. CASE ~Taken(s, q)
    <3>1. PICK m \in made : chosen(m) = q
      BY <1>4, <2>2, <2>4 DEF Missing
    <3> QED
      BY <1>6, <1>11, <2>2, <3>1 DEF Above
  <2> QED
    BY <2>3, <2>4
<1>16. ASSUME NEW k \in Nodes, ns[k].st = "live"
       PROVE  /\ ns[k].path \in Path
              /\ \A q \in Path : Within(q, ns[k].path) /\ q # ns[k].path =>
                    \E m \in Nodes : /\ Above(ns, m, q, k)
                                     /\ m \in made => k \in made
                                     /\ k \in made \/ Older(s, m, k)
  <2>1. CASE k \in made
    BY <1>11, <1>15, <2>1
  <2>2. CASE k \notin made
    <3>1. ns[k] = s.nodes[k] /\ s.nodes[k].st = "live" /\ s.nodes[k].path \in Path
      BY <1>10, <1>16, <2>2, LivePaths
    <3>2. ASSUME NEW q \in Path, Within(q, ns[k].path), q # ns[k].path
          PROVE  \E m \in Nodes : m \notin made /\ Above(ns, m, q, k) /\ Older(s, m, k)
      <4>1. PICK m \in Nodes : Above(s.nodes, m, q, k) /\ Older(s, m, k)
        BY <3>1, <3>2, InFoldersUp
      <4>2. m \notin made
        BY <1>11, <4>1 DEF Above
      <4> QED
        BY <1>10, <3>1, <4>1, <4>2 DEF Above
    <3> QED
      BY <2>2, <3>1, <3>2
  <2> QED
    BY <2>1, <2>2
<1>17. PlacesKept(s, ns, made)
  BY <1>10, <1>11, <1>13, <1>14, <1>16 DEF PlacesKept
<1>18. InOrder(t) /\ Advance(s, t) /\ \A n \in made : Fresh(s, t, n)
  BY <1>1, <1>6, <1>8, <1>17, PublishKeepsOrder
<1>19. t.nodes = ns /\ t.epoch = s.epoch
  BY <1>1, <1>6, <1>8, PublishParts
<1>20. ASSUME NEW n \in LiveAt(t, p)
       PROVE  n \in made /\ t.nodes[n] = node(p)
  <2>1. n \in Nodes /\ ns[n].st = "live" /\ ns[n].scope = s.epoch /\ ns[n].path = p
    BY <1>19 DEF LiveAt, Visible
  <2>2. n \in made
    BY <1>2, <1>10, <2>1 DEF Taken, LiveAt, Visible
  <2> QED
    BY <1>9, <1>11, <1>19, <2>1, <2>2
<1> QED
  BY <1>18, <1>20 DEF node

-----------------------------------------------------------------------------
(* The requests.                                                           *)

Continues(s, t) == t \in Server /\ InOrder(t) /\ Advance(s, t)

LEMMA ContinuesSame ==
    ASSUME NEW s \in Server, InOrder(s)
    PROVE  Continues(s, s)
  BY AdvanceReflexive DEF Continues

\* POST /sync/dir: the answer is the folder.
LEMMA EnsureDirKeepsOrder ==
    ASSUME NEW s \in Server, InOrder(s), NEW p \in Path, NEW a \in EnsureDir(s, p)
    PROVE  /\ Continues(s, a.srv) /\ a.node \in LiveAt(a.srv, p)
           /\ a.srv.nodes[a.node].dir /\ a.srv.nodes[a.node].hash = NoHash
<1>1. p # Root
  BY PathIsSeq, RootIsSeq
<1>2. CASE DirAt(s, p)
  <2>1. PICK n \in LiveAt(s, p) : a = Result(s, n, FALSE)
    BY <1>2 DEF EnsureDir
  <2>2. PICK m \in LiveAt(s, p) : s.nodes[m].dir
    BY <1>1, <1>2 DEF DirAt
  <2>3. s.nodes[n].dir /\ n \in Nodes
    BY <2>2, LivePaths DEF LiveAt
  <2>4. s.nodes[n].hash = NoHash
    BY <2>3 DEF InOrder, NoHashes
  <2> QED
    BY <2>1, <2>3, <2>4, ContinuesSame DEF Result
<1>3. CASE ~DirAt(s, p)
  <2> DEFINE t == Make(s, p, NoHash)
  <2>1. CanMake(s, p)
    BY <1>3 DEF EnsureDir
  <2>2. \E n \in LiveAt(t, p) : a = Result(t, n, FALSE)
    BY <1>3 DEF EnsureDir
  <2>3. NoHash \in Hash
    BY DEF Hash
  <2>4. t \in Server
    BY <2>3, MakeScope DEF SameScope
  <2> HIDE DEF t
  <2>5. InOrder(t) /\ Advance(s, t) /\ \A n \in LiveAt(t, p) : t.nodes[n] = MadeNode(s, p, NoHash, p)
    BY <2>1, <2>3, MakeKeepsOrder DEF t
  <2>6. PICK n \in LiveAt(t, p) : a = Result(t, n, FALSE)
    BY <2>2
  <2>7. a.srv = t /\ a.node = n
    BY <2>6 DEF Result
  <2>8. t.nodes[n].dir /\ t.nodes[n].hash = NoHash
    <3>1. t.nodes[n] = MadeNode(s, p, NoHash, p)
      BY <2>5
    <3>2. MadeNode(s, p, NoHash, p).dir /\ MadeNode(s, p, NoHash, p).hash = NoHash
      BY DEF MadeNode
    <3> QED
      BY <3>1, <3>2
  <2> QED
    BY <2>4, <2>5, <2>7, <2>8 DEF Continues
<1> QED
  BY <1>2, <1>3

\* PUT /sync/file: unless it answers with a conflict, its entry is a new one.
LEMMA PushFileKeepsOrder ==
    ASSUME NEW s \in Server, InOrder(s), NEW p \in Path, NEW base, NEW h \in Contents,
           NEW a \in PushFile(s, p, base, h)
    PROVE  Continues(s, a.srv) /\ (~a.conflicted => Fresh(s, a.srv, a.node))
<1>1. h \in Hash
  BY DEF Hash
<1> DEFINE copy     == CopyPath(s, p)
           accepted == {Result(Write(s, n, h), n, FALSE) : n \in LiveAt(s, p)}
           copied   == IF ~CanCopy(s, p) THEN {}
                       ELSE {Result(Make(s, copy, h), n, TRUE) :
                               n \in LiveAt(Make(s, copy, h), copy)}
           created  == {Result(Make(s, p, h), n, FALSE) : n \in LiveAt(Make(s, p, h), p)}
<1>2. \/ FileAt(s, p) /\ a \in accepted
      \/ a \in copied
      \/ ~Taken(s, p) /\ CanMake(s, p) /\ a \in created
  BY DEF PushFile
<1>3. CASE FileAt(s, p) /\ a \in accepted
  <2>1. PICK n \in LiveAt(s, p) : a = Result(Write(s, n, h), n, FALSE)
    BY <1>3
  <2>2. Visible(s, n) /\ ~s.nodes[n].dir /\ n \in Nodes
    BY <1>3, LivePaths DEF FileAt, LiveAt
  <2> DEFINE t == Write(s, n, h)
  <2>3. t \in Server
    BY <1>1, <2>2, WriteScope DEF SameScope
  <2>4. InOrder(t) /\ Advance(s, t) /\ Fresh(s, t, n)
    BY <1>1, <2>2, WriteKeepsOrder
  <2> QED
    BY <2>1, <2>3, <2>4 DEF Continues, Result
<1>4. CASE a \in copied
  <2>1. CanCopy(s, p)
    BY <1>4
  <2>2. copy \in Path /\ CanMake(s, copy)
    BY <2>1, CopyPathType DEF CanCopy
  <2> DEFINE t == Make(s, copy, h)
  <2>3. t \in Server
    BY <1>1, <2>2, MakeScope DEF SameScope
  <2>4. InOrder(t) /\ Advance(s, t)
    BY <1>1, <2>2, MakeKeepsOrder
  <2>5. a.srv = t /\ a.conflicted
    BY <1>4, <2>1 DEF Result
  <2> QED
    BY <2>3, <2>4, <2>5 DEF Continues
<1>5. CASE CanMake(s, p) /\ a \in created
  <2> DEFINE t == Make(s, p, h)
  <2>1. PICK n \in LiveAt(t, p) : a = Result(t, n, FALSE)
    BY <1>5
  <2>3. t \in Server
    BY <1>1, MakeScope DEF SameScope
  <2>4. InOrder(t) /\ Advance(s, t) /\ Fresh(s, t, n)
    BY <1>1, <1>5, MakeKeepsOrder
  <2> QED
    BY <2>1, <2>3, <2>4 DEF Continues, Result
<1> QED
  BY <1>2, <1>3, <1>4, <1>5

\* DELETE /sync/file: what was at the path has a new entry.
LEMMA DeleteRemoteKeepsOrder ==
    ASSUME NEW s \in Server, InOrder(s), NEW p, NEW t \in DeleteRemote(s, p)
    PROVE  Continues(s, t) /\ \A n \in LiveAt(s, p) : Fresh(s, t, n)
<1>1. CASE ~Taken(s, p)
  BY <1>1, ContinuesSame DEF DeleteRemote, Taken
<1>2. CASE Taken(s, p)
  <2>1. PICK n \in LiveAt(s, p) : t = Remove(s, n)
    BY <1>2 DEF DeleteRemote
  <2>2. Visible(s, n) /\ n \in Nodes
    BY DEF LiveAt
  <2>3. InOrder(t) /\ Advance(s, t) /\ Fresh(s, t, n)
    BY <2>1, <2>2, RemoveKeepsOrder
  <2>4. t \in Server
    BY <2>1, <2>2, RemoveScope DEF SameScope
  <2>5. \A m \in LiveAt(s, p) : m = n
    BY LivePaths
  <2> QED
    BY <2>3, <2>4, <2>5 DEF Continues
<1> QED
  BY <1>1, <1>2

\* PATCH /files/{id}/move and /rename: a node that is not there yet has a new entry.
LEMMA MoveToKeepsOrder ==
    ASSUME NEW s \in Server, InOrder(s), NEW n \in Nodes, NEW new \in Path,
           NEW t \in MoveTo(s, n, new)
    PROVE  Continues(s, t) /\ (s.nodes[n].path # new => Fresh(s, t, n))
<1>1. CASE Visible(s, n) /\ s.nodes[n].path = new
  BY <1>1, ContinuesSame DEF MoveTo
<1>2. CASE ~(Visible(s, n) /\ s.nodes[n].path = new)
  <2>1. CanRelocate(s, n, new) /\ t = Relocate(s, n, new)
    BY <1>2 DEF MoveTo
  <2>2. InOrder(t) /\ Advance(s, t) /\ Fresh(s, t, n)
    BY <2>1, RelocateKeepsOrder
  <2>3. t \in Server
    BY <2>1, RelocateScope DEF SameScope
  <2> QED
    BY <2>2, <2>3 DEF Continues
<1> QED
  BY <1>1, <1>2

-----------------------------------------------------------------------------
(* What the server has stored.                                             *)

\* The server has every content a node or an entry is of.
Stored(s) == /\ \A n \in Nodes : s.nodes[n].hash \in s.history \cup {NoHash}
             /\ \A e \in s.feed : e.hash \in s.history \cup {NoHash}

\* It forgets none.
StoresOn(s, t) == Stored(t) /\ s.history \subseteq t.history

LEMMA PublishStores ==
    ASSUME NEW s \in Server, Stored(s), NEW ns \in [Nodes -> Node],
           NEW changed \in SUBSET Nodes,
           \A n \in Nodes : n \notin changed => ns[n] = s.nodes[n],
           NEW t, t = Publish(s, ns, changed)
    PROVE  StoresOn(s, t)
<1> DEFINE feed == {e \in s.feed : Compacted => e.node \notin changed}
                   \cup {EntryOf(s, ns, changed, n) : n \in changed}
           history == s.history \cup ({ns[n].hash : n \in changed} \ {NoHash})
<1>1. t = [s EXCEPT !.nodes = ns, !.feed = feed, !.head = @ + Cardinality(changed),
                    !.history = history]
  BY DEF Publish, EntryOf, SeqOf
<1>2. \A n \in changed : EntryOf(s, ns, changed, n).hash = ns[n].hash
  BY DEF EntryOf
<1>3. ASSUME NEW e \in feed
      PROVE  e.hash \in history \cup {NoHash}
  BY <1>2 DEF Stored
<1>4. ASSUME NEW n \in Nodes
      PROVE  ns[n].hash \in history \cup {NoHash}
  BY DEF Stored
<1>5. s.history \subseteq history
  OBVIOUS
<1> HIDE DEF feed, history
<1>6. t.nodes = ns /\ t.feed = feed /\ t.history = history
  BY <1>1 DEF Server
<1> QED
  BY <1>3, <1>4, <1>5, <1>6 DEF Stored, StoresOn

LEMMA MakeStores ==
    ASSUME NEW s \in Server, Stored(s), NEW p \in Path, NEW h \in Hash
    PROVE  StoresOn(s, Make(s, p, h))
<1> DEFINE made == {n \in Nodes : NewPath(s, p, n) # {}}
           chosen(n) == CHOOSE q \in NewPath(s, p, n) : TRUE
           ns == [n \in Nodes |-> IF n \in made THEN MadeNode(s, p, h, chosen(n))
                                  ELSE s.nodes[n]]
<1>1. Make(s, p, h) = Publish(s, ns, made)
  BY Zenon DEF Make, MadeNode
<1>2. ASSUME NEW n \in made
      PROVE  MadeNode(s, p, h, chosen(n)) \in Node
  <2>1. chosen(n) \in NewPath(s, p, n)
    OBVIOUS
  <2> HIDE DEF chosen
  <2>2. chosen(n) \in Path
    BY <2>1 DEF NewPath, Missing
  <2> QED
    BY <2>2, ServerTypes DEF MadeNode, Node, Hash
<1>3. ns \in [Nodes -> Node]
  <2> HIDE DEF chosen
  <2> QED
    BY <1>2, ServerTypes
<1>4. \A n \in Nodes : n \notin made => ns[n] = s.nodes[n]
  OBVIOUS
<1>5. made \in SUBSET Nodes
  OBVIOUS
<1> HIDE DEF ns, made
<1> QED
  BY <1>1, <1>3, <1>4, <1>5, PublishStores

LEMMA WriteStores ==
    ASSUME NEW s \in Server, Stored(s), NEW n \in Nodes, NEW h \in Contents
    PROVE  StoresOn(s, Write(s, n, h)) /\ h \in Write(s, n, h).history
<1> DEFINE ns == [s.nodes EXCEPT ![n].ver = @ + 1, ![n].hash = h]
           t == Write(s, n, h)
<1>1. ns \in [Nodes -> Node] /\ ns[n].hash = h
  BY DEF Server, Node, Hash
<1>2. \A m \in Nodes : m \notin {n} => ns[m] = s.nodes[m]
  BY DEF Server
<1>3. t = Publish(s, ns, {n})
  BY DEF Write
<1> HIDE DEF ns, t
<1>4. StoresOn(s, t)
  BY <1>1, <1>2, <1>3, PublishStores
<1>5. t.nodes = ns
  BY <1>1, <1>3, PublishParts
<1>6. h \in t.history
  BY <1>1, <1>4, <1>5, ContentsAssumption DEF StoresOn, Stored
<1> QED
  BY <1>4, <1>6 DEF t

LEMMA RemoveStores ==
    ASSUME NEW s \in Server, Stored(s), NEW n \in Nodes
    PROVE  StoresOn(s, Remove(s, n))
<1> DEFINE ns == [m \in Nodes |-> IF m \in Subtree(s, n) THEN Dead(s.nodes[m])
                                  ELSE s.nodes[m]]
<1>1. ns \in [Nodes -> Node]
  <2>1. \A m \in Nodes : Dead(s.nodes[m]) \in Node
    BY ServerTypes, DeadNode
  <2> QED
    BY <2>1, ServerTypes
<1>2. \A m \in Nodes : m \notin Subtree(s, n) => ns[m] = s.nodes[m]
  OBVIOUS
<1>3. Remove(s, n) = Publish(s, ns, Subtree(s, n))
  BY DEF Remove, Dead
<1>4. Subtree(s, n) \in SUBSET Nodes
  BY DEF Subtree
<1> HIDE DEF ns
<1> QED
  BY <1>1, <1>2, <1>3, <1>4, PublishStores

LEMMA RelocateStores ==
    ASSUME NEW s \in Server, Stored(s), NEW n \in Nodes, NEW new \in Path,
           CanRelocate(s, n, new)
    PROVE  StoresOn(s, Relocate(s, n, new))
<1> DEFINE to(m) == Graft(s.nodes[n].path, new, s.nodes[m].path)
           ns == [m \in Nodes |-> IF m \in Subtree(s, n) THEN Moved(s.nodes[m], to(m))
                                  ELSE s.nodes[m]]
<1>1. Subtree(s, n) \in SUBSET Nodes
  BY DEF Subtree
<1>2. ASSUME NEW m \in Subtree(s, n)
      PROVE  Moved(s.nodes[m], to(m)) \in Node
  <2>1. s.nodes[m] \in Node /\ to(m) \in Path
    BY <1>1, ServerTypes DEF CanRelocate
  <2> HIDE DEF to
  <2> QED
    BY <2>1, MovedNode
<1>3. Relocate(s, n, new) = Publish(s, ns, Subtree(s, n))
  BY Zenon, ServerTypes DEF Relocate, Moved
<1>4. ns \in [Nodes -> Node]
  BY <1>1, <1>2, ServerTypes
<1>5. \A m \in Nodes : m \notin Subtree(s, n) => ns[m] = s.nodes[m]
  OBVIOUS
<1> HIDE DEF ns
<1> QED
  BY <1>1, <1>3, <1>4, <1>5, PublishStores

\* The requests.
LEMMA EnsureDirStores ==
    ASSUME NEW s \in Server, Stored(s), NEW p \in Path, NEW a \in EnsureDir(s, p)
    PROVE  StoresOn(s, a.srv)
<1>1. StoresOn(s, Make(s, p, NoHash))
  BY MakeStores DEF Hash
<1> DEFINE t == Make(s, p, NoHash)
<1>2. a.srv \in {s, t}
  <2> HIDE DEF t
  <2>1. (\E n \in LiveAt(s, p) : a = Result(s, n, FALSE)) \/ \E n \in LiveAt(t, p) : a = Result(t, n, FALSE)
    BY DEF EnsureDir, t
  <2> QED
    BY <2>1 DEF Result
<1> QED
  BY <1>1, <1>2 DEF StoresOn

\* The content that is sent is stored, whatever the answer.
LEMMA PushFileStores ==
    ASSUME NEW s \in Server, Stored(s), InOrder(s), NEW p \in Path, NEW base,
           NEW h \in Contents, NEW a \in PushFile(s, p, base, h)
    PROVE  StoresOn(s, a.srv) /\ h \in a.srv.history
<1>1. h \in Hash /\ h # NoHash
  BY ContentsAssumption DEF Hash
<1>2. ASSUME NEW q \in Path, CanMake(s, q), NEW n \in LiveAt(Make(s, q, h), q)
      PROVE  StoresOn(s, Make(s, q, h)) /\ h \in Make(s, q, h).history
  <2> DEFINE t == Make(s, q, h)
  <2>1. StoresOn(s, t)
    BY <1>1, MakeStores
  <2> HIDE DEF t
  <2>2. n \in LiveAt(t, q) /\ n \in Nodes
    BY DEF t, LiveAt
  <2>3. t.nodes[n] = MadeNode(s, q, h, q)
    BY <1>1, <1>2, <2>2, MakeKeepsOrder DEF t
  <2>4. t.nodes[n].hash = h
    BY <2>3 DEF MadeNode
  <2>5. h \in t.history
    BY <1>1, <2>1, <2>2, <2>4 DEF StoresOn, Stored
  <2> QED
    BY <2>1, <2>5 DEF t
<1> DEFINE copy     == CopyPath(s, p)
           accepted == {Result(Write(s, n, h), n, FALSE) : n \in LiveAt(s, p)}
           copied   == IF ~CanCopy(s, p) THEN {}
                       ELSE {Result(Make(s, copy, h), n, TRUE) :
                               n \in LiveAt(Make(s, copy, h), copy)}
           created  == {Result(Make(s, p, h), n, FALSE) : n \in LiveAt(Make(s, p, h), p)}
<1>3. a \in accepted \/ a \in copied \/ (CanMake(s, p) /\ a \in created)
  BY DEF PushFile
<1>4. CASE a \in accepted
  BY <1>4, WriteStores DEF Result, LiveAt
<1>5. CASE a \in copied
  <2>1. CanCopy(s, p)
    BY <1>5
  <2>2. copy \in Path /\ CanMake(s, copy)
    BY <2>1, CopyPathType DEF CanCopy
  <2> HIDE DEF copy
  <2>3. PICK n \in LiveAt(Make(s, copy, h), copy) : a = Result(Make(s, copy, h), n, TRUE)
    BY <1>5, <2>1
  <2> QED
    BY <1>2, <2>2, <2>3 DEF Result
<1>6. CASE CanMake(s, p) /\ a \in created
  <2>1. PICK n \in LiveAt(Make(s, p, h), p) : a = Result(Make(s, p, h), n, FALSE)
    BY <1>6
  <2> QED
    BY <1>2, <1>6, <2>1 DEF Result
<1> QED
  BY <1>3, <1>4, <1>5, <1>6

LEMMA DeleteRemoteStores ==
    ASSUME NEW s \in Server, Stored(s), NEW p, NEW t \in DeleteRemote(s, p)
    PROVE  StoresOn(s, t)
  BY RemoveStores DEF DeleteRemote, LiveAt, StoresOn

LEMMA MoveToStores ==
    ASSUME NEW s \in Server, Stored(s), NEW n \in Nodes, NEW new \in Path,
           NEW t \in MoveTo(s, n, new)
    PROVE  StoresOn(s, t)
  BY RelocateStores DEF MoveTo, StoresOn

=============================================================================
