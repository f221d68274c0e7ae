----------------------------- MODULE Controller -----------------------------
(***************************************************************************)
(* Browsing on demand: the desktop Controller (internal/desktop) behind    *)
(* the bindings of the Wails App, and the mobile Browser (mobile).  The    *)
(* change feed is pulled into the index without content; a file is         *)
(* downloaded when it is opened or pinned, and the table "local" of the    *)
(* index records the copy and the version it is of.                        *)
(*                                                                         *)
(* Files are at the top of the tree.  The server is external; the version  *)
(* of a node is the sequence number of the change that made it, so that    *)
(* only the order of versions is kept.                                     *)
(***************************************************************************)
EXTENDS Naturals

CONSTANTS
    Nodes, Paths, None,
    Workers,      \* goroutines: every call from the user interface has one
    MaxVersion    \* bound on the changes of the server

ASSUME NoneAssumption == None \notin Nodes \cup Paths
ASSUME BoundAssumption == MaxVersion \in Nat

VARIABLES
    app,       \* which program this is: "desktop" or "mobile"
    srv,       \* the server's nodes; the path None: deleted or not there yet
    head,      \* the last sequence number
    rows,      \* table nodes
    cursor,    \* the stored cursor
    local,     \* table local
    disk,      \* the files under contentDir
    call,      \* the call each worker is in
    handle,    \* where the file it has open is now
    pull,      \* the page of Refresh it works on
    seen,      \* history: the last version of each node that was put in the index
    overtaken, \* history: nodes whose row was replaced by one of an older version
    raced,     \* history: a refresh has begun while another one was under way
    spoiled    \* history: nodes whose copy two calls worked on at once, whose old
               \* copy was marked, or whose path was another one's

history == <<seen, overtaken, raced, spoiled>>
vars == <<app, srv, head, rows, cursor, local, disk, call, handle, pull, history>>

Row == [path : Paths \cup {None}, ver : Nat]
NoRow == [path |-> None, ver |-> 0]

\* Version 0: no record.  Unpin can make a record with an empty path, None.
\* (Whether a copy is "cached" or "pinned" changes nothing else.)
Local == [ver : Nat, path : Paths \cup {None}]
NoLocal == [ver |-> 0, path |-> None]

\* What a file holds: the content of a node at a version; None: part of one.
File == [node : Nodes \cup {None}, ver : Nat]
Torn == [node |-> None, ver |-> 0]
NoFile == [node |-> None, ver |-> 1]

\* "opening" to "recording" belong to Open, Pin, Unpin; "forgetting" to
\* RemoveLocal; the others to Refresh.
Stages == {"idle", "getting", "creating", "downloading", "recording", "forgetting",
           "asking", "applying", "relocating", "dropping", "putting", "marking"}

Call == [stage : Stages, node : Nodes \cup {None}, ver : Nat, path : Paths \cup {None}]
Between(stage) == [stage |-> stage, node |-> None, ver |-> 0, path |-> None]
Idle == Between("idle")

\* since, and for a page: the entries not applied yet, its cursor, hasMore.
\* asked: head when the call began.
Change == [node : Nodes, path : Paths \cup {None}, ver : Nat]
Pull == [since : Nat, page : SUBSET Change, next : Nat, more : BOOLEAN, asked : Nat]
NoPull == [since |-> 0, page |-> {}, next |-> 0, more |-> FALSE, asked |-> 0]

TypeOK ==
    /\ app \in {"desktop", "mobile"}
    /\ srv \in [Nodes -> Row] /\ head \in Nat
    /\ rows \in [Nodes -> Row] /\ cursor \in Nat
    /\ local \in [Nodes -> Local] /\ disk \in [Paths -> File]
    /\ call \in [Workers -> Call] /\ handle \in [Workers -> Paths \cup {None}]
    /\ pull \in [Workers -> Pull]
    /\ seen \in [Nodes -> Nat] /\ overtaken \subseteq Nodes
    /\ raced \in BOOLEAN /\ spoiled \subseteq Nodes
    /\ \A w \in Workers : call[w].stage \notin {"idle", "asking", "applying"}
                            => call[w].node \in Nodes
    /\ \A w \in Workers : call[w].stage \in {"creating", "downloading", "relocating"}
                            => call[w].path \in Paths

Init ==
    /\ app \in {"desktop", "mobile"}
    /\ srv = [n \in Nodes |-> NoRow] /\ head = 0
    /\ rows = [n \in Nodes |-> NoRow] /\ cursor = 0
    /\ local = [n \in Nodes |-> NoLocal] /\ disk = [p \in Paths |-> NoFile]
    /\ call = [w \in Workers |-> Idle] /\ handle = [w \in Workers |-> None]
    /\ pull = [w \in Workers |-> NoPull]
    /\ seen = [n \in Nodes |-> 0] /\ overtaken = {} /\ raced = FALSE /\ spoiled = {}

Known(n)     == rows[n].path # None
HasFile(p)   == p # None /\ disk[p] # NoFile
Copied(n)    == local[n].ver > 0
\* LocalStatus
IsFresh(n)   == Copied(n) /\ local[n].ver >= rows[n].ver

At(w, stage) == call[w].stage = stage
Enter(w, c)  == call' = [call EXCEPT ![w] = c]
Copying(w, n, stage, ver, path) ==
    Enter(w, [stage |-> stage, node |-> n, ver |-> ver, path |-> path])
To(w, stage) == Copying(w, call[w].node, stage, call[w].ver, call[w].path)
Return(w)    == Enter(w, Idle) /\ handle' = [handle EXCEPT ![w] = None]
                /\ pull' = [pull EXCEPT ![w] = NoPull]

SetPull(w, since, page, next, more, asked) ==
    pull' = [pull EXCEPT ![w] = [since |-> since, page |-> page, next |-> next,
                                 more |-> more, asked |-> asked]]

\* Nothing in the code keeps calls from overlapping, on one node or in Refresh.
Busy(n)       == \E w \in Workers : call[w].node = n
Spoil(ns)     == spoiled' = spoiled \cup ns /\ UNCHANGED <<seen, overtaken, raced>>

-----------------------------------------------------------------------------
(* The server                                                              *)

\* The server or the client knows node n by the path p, or has its file open there.
Claims(n, p) ==
    \/ srv[n].path = p \/ rows[n].path = p \/ local[n].path = p
    \/ \E w \in Workers : \/ call[w].node = n /\ p \in {call[w].path, handle[w]}
                         \/ \E e \in pull[w].page : e.node = n /\ e.path = p

\* Node n is created at p or put back there, written to (p is its path),
\* renamed or moved to p, or deleted (p is None).
Publish(n, p) ==
    /\ head < MaxVersion
    /\ p = None => srv[n].path # None
    /\ p # None => \A m \in Nodes \ {n} : srv[m].path # p
    /\ srv' = [srv EXCEPT ![n] = [path |-> p, ver |-> head + 1]]
    /\ head' = head + 1

\* The nodes that share a path from then on.
Sharing(n, p) == LET others == {m \in Nodes \ {n} : p # None /\ Claims(m, p)}
                 IN  IF others = {} THEN {} ELSE others \cup {n}

Remote == /\ \E n \in Nodes, p \in Paths \cup {None} : Publish(n, p) /\ Spoil(Sharing(n, p))
          /\ UNCHANGED <<app, rows, cursor, local, disk, call, handle, pull>>

-----------------------------------------------------------------------------
(* Files                                                                   *)

Store(p, f)   == disk' = [disk EXCEPT ![p] = f]
\* A file that is open stays open when it is renamed, and is lost when it is
\* removed or replaced.
Unlink(p)     == /\ Store(p, NoFile)
                 /\ handle' = [v \in Workers |-> IF handle[v] = p THEN None ELSE handle[v]]
Rename(p, q)  == /\ disk' = [r \in Paths |-> IF r = q THEN disk[p]
                                             ELSE IF r = p THEN NoFile ELSE disk[r]]
                 /\ handle' = [v \in Workers |-> IF handle[v] = p THEN q
                                                 ELSE IF handle[v] = q THEN None
                                                 ELSE handle[v]]

\* os.Remove succeeds, finds no file, or fails.
Removed(p)    == IF HasFile(p) THEN Unlink(p) ELSE UNCHANGED <<disk, handle>>
NotRemoved(p) == HasFile(p) /\ UNCHANGED <<disk, handle>>

-----------------------------------------------------------------------------
(* Open, Pin, Unpin, RemoveLocal; the mobile Download and Pin              *)

\* Open and Pin of the desktop when the copy is not fresh (Open takes a fresh one
\* as it is); Download and Pin of the mobile Browser in any case.
Fetch(w, n) ==
    /\ At(w, "idle") /\ Known(n)
    /\ ~(app = "desktop" /\ IsFresh(n))
    /\ Copying(w, n, "getting", 0, None)
    /\ Spoil({m \in {n} : Busy(n)})
    /\ UNCHANGED <<app, srv, head, rows, cursor, local, disk, handle, pull>>

\* Pin of a fresh copy on the desktop; Unpin, which looks at neither the copy nor
\* its version.
Mark(w, n) ==
    /\ At(w, "idle") /\ Known(n)
    /\ Copying(w, n, "recording", rows[n].ver, local[n].path)
    /\ Spoil({m \in {n} : Busy(n) \/ ~IsFresh(n)})
    /\ UNCHANGED <<app, srv, head, rows, cursor, local, disk, handle, pull>>

RemoveLocal(w, n) ==
    /\ At(w, "idle") /\ Copied(n)
    /\ \/ Removed(local[n].path)
       \/ app = "mobile" /\ NotRemoved(local[n].path)
    /\ Copying(w, n, "forgetting", 0, None)
    /\ Spoil({m \in {n} : Busy(n)})
    /\ UNCHANGED <<app, srv, head, rows, cursor, local, pull>>

GetRow(w) ==
    /\ At(w, "getting")
    /\ LET c == call[w]
       IN  IF Known(c.node)
             THEN Copying(w, c.node, "creating", rows[c.node].ver, rows[c.node].path)
             ELSE Enter(w, Idle)
    /\ UNCHANGED <<app, srv, head, rows, cursor, local, disk, handle, pull, history>>

\* os.Create empties the file that is there.
CreateFile(w) ==
    /\ At(w, "creating")
    /\ Store(call[w].path, Torn)
    /\ handle' = [handle EXCEPT ![w] = call[w].path]
    /\ To(w, "downloading")
    /\ UNCHANGED <<app, srv, head, rows, cursor, local, pull, history>>

\* Mutant: fetch records the copy of a download that broke off.
DownloadUnchecked(w) ==
    /\ At(w, "downloading")
    /\ handle' = [handle EXCEPT ![w] = None]
    /\ To(w, "recording")
    /\ UNCHANGED <<app, srv, head, rows, cursor, local, disk, pull, history>>

\* The server sends what it has now; the version recorded is the row's.
Download(w) ==
    /\ At(w, "downloading")
    /\ srv[call[w].node].path # None
    /\ IF handle[w] = None THEN UNCHANGED disk
       ELSE Store(handle[w], [node |-> call[w].node, ver |-> srv[call[w].node].ver])
    /\ handle' = [handle EXCEPT ![w] = None]
    /\ To(w, "recording")
    /\ UNCHANGED <<app, srv, head, rows, cursor, local, pull, history>>

SetLocal(w) ==
    /\ At(w, "recording")
    /\ local' = [local EXCEPT ![call[w].node] =
                   [ver |-> call[w].ver, path |-> call[w].path]]
    /\ Enter(w, Idle)
    /\ UNCHANGED <<app, srv, head, rows, cursor, disk, handle, pull, history>>

DeleteLocal(w) ==
    /\ At(w, "forgetting")
    /\ local' = [local EXCEPT ![call[w].node] = NoLocal]
    /\ Enter(w, Idle)
    /\ UNCHANGED <<app, srv, head, rows, cursor, disk, handle, pull, history>>

-----------------------------------------------------------------------------
(* Refresh, pullChanges                                                    *)

RefreshStages == {"asking", "applying", "relocating", "dropping", "putting", "marking"}

Refreshing(w, asked) ==
    /\ Enter(w, Between("asking"))
    /\ SetPull(w, cursor, {}, 0, FALSE, asked)
    /\ raced' = (raced \/ \E v \in Workers : call[v].stage \in RefreshStages)
    /\ UNCHANGED <<seen, overtaken>>

Refresh(w) ==
    /\ At(w, "idle")
    /\ Refreshing(w, head)
    /\ UNCHANGED <<app, srv, head, rows, cursor, local, disk, handle, spoiled>>

\* Mkdir, Upload, Rename, Move and Delete of the mobile Browser refresh when the
\* server has done it.  (Those of the desktop only send the request: Remote.)
Mutate(w) ==
    /\ app = "mobile" /\ At(w, "idle")
    /\ \E n \in Nodes, p \in Paths \cup {None} : /\ Publish(n, p)
                                                /\ spoiled' = spoiled \cup Sharing(n, p)
    /\ Refreshing(w, head + 1)
    /\ UNCHANGED <<app, rows, cursor, local, disk, handle>>

\* A page has the changes up to some change, in the order of sequence numbers.
Ends(w) == LET later == {n \in Nodes : srv[n].ver > pull[w].since}
           IN  IF later = {} THEN {pull[w].since} ELSE {srv[n].ver : n \in later}

PageTo(w, next) == {[node |-> n, path |-> srv[n].path, ver |-> srv[n].ver] :
                       n \in {m \in Nodes : /\ srv[m].ver > pull[w].since
                                            /\ srv[m].ver =< next}}

Answer(w, next) == SetPull(w, pull[w].since, PageTo(w, next), next,
                           \E n \in Nodes : srv[n].ver > next, pull[w].asked)

\* Mutant: the cursor is stored with the page, before its entries are in the index.
GetPageStores(w) ==
    /\ At(w, "asking")
    /\ \E next \in Ends(w) : Answer(w, next) /\ cursor' = next
    /\ To(w, "applying")
    /\ UNCHANGED <<app, srv, head, rows, local, disk, handle, history>>

GetPage(w) ==
    /\ At(w, "asking")
    /\ \E next \in Ends(w) : Answer(w, next)
    /\ To(w, "applying")
    /\ UNCHANGED <<app, srv, head, rows, cursor, local, disk, handle, history>>

\* The entry's node leaves its copy behind, if the desktop knows of one.
Gone(e)  == app = "desktop" /\ e.path = None

\* Mutant: a deletion is taken for a move.
MovedOrGone(e) == /\ app = "desktop"
                  /\ Known(e.node) /\ rows[e.node].path # e.path
                  /\ local[e.node].path \notin {None, e.path}

Moved(e) == /\ app = "desktop" /\ e.path # None
            /\ Known(e.node) /\ rows[e.node].path # e.path
            /\ local[e.node].path \notin {None, e.path}

\* reconcileLocalRelPath, and RemoveLocal for a deleted node; the copy is removed
\* when it cannot be moved.
Apply(w) ==
    /\ At(w, "applying")
    /\ \E e \in pull[w].page :
         /\ \A f \in pull[w].page : e.ver =< f.ver
         /\ Spoil({m \in {e.node} : Busy(m)})
         /\ \E stage \in {"relocating", "dropping", "putting"} :
              /\ Copying(w, e.node, stage, e.ver, e.path)
              /\ CASE stage = "relocating" -> /\ Moved(e) /\ HasFile(local[e.node].path)
                                              /\ Rename(local[e.node].path, e.path)
                   [] stage = "dropping"   -> /\ Gone(e) \/ Moved(e)
                                              /\ Removed(local[e.node].path)
                   [] stage = "putting"    -> IF Gone(e) \/ Moved(e)
                                              THEN NotRemoved(local[e.node].path)
                                              ELSE UNCHANGED <<disk, handle>>
    /\ UNCHANGED <<app, srv, head, rows, cursor, local, pull>>

\* RelocateLocal or DeleteLocal, whose errors Refresh ignores.
MendLocal(w) ==
    LET n == call[w].node
    IN  /\ \/ At(w, "relocating") /\ Copied(n)
                /\ local' = [local EXCEPT ![n] = [ver |-> local[n].ver, path |-> call[w].path]]
           \/ At(w, "dropping") /\ local' = [local EXCEPT ![n] = NoLocal]
           \/ (At(w, "relocating") \/ At(w, "dropping")) /\ UNCHANGED local
        /\ To(w, "putting")
        /\ UNCHANGED <<app, srv, head, rows, cursor, disk, handle, pull, history>>

\* Put, or Delete.
PutRow(w) ==
    LET c == call[w]
        p == pull[w]
    IN  /\ At(w, "putting")
        /\ rows' = [rows EXCEPT ![c.node] =
                       IF c.path = None THEN NoRow ELSE [path |-> c.path, ver |-> c.ver]]
        /\ SetPull(w, p.since, {e \in p.page : e.node # c.node}, p.next, p.more, p.asked)
        /\ IF app = "mobile" THEN To(w, "marking")
           ELSE Enter(w, Between("applying"))
        /\ IF c.ver < seen[c.node]
             THEN overtaken' = overtaken \cup {c.node} /\ UNCHANGED seen
             ELSE /\ overtaken' = overtaken \ {c.node}
                  /\ seen' = [seen EXCEPT ![c.node] = c.ver]
        /\ UNCHANGED <<app, srv, head, cursor, local, disk, handle, raced, spoiled>>

\* The mobile Browser stores the cursor after every entry.
StoreCursor(w) ==
    /\ At(w, "marking")
    /\ cursor' = call[w].ver
    /\ Enter(w, Between("applying"))
    /\ UNCHANGED <<app, srv, head, rows, local, disk, handle, pull, history>>

\* Mutant: Refresh takes one page only.
EndPageFirst(w) ==
    LET p == pull[w]
    IN  /\ At(w, "applying") /\ p.page = {}
        /\ cursor' = IF app = "desktop" /\ p.next > p.since THEN p.next ELSE cursor
        /\ pull' = [pull EXCEPT ![w] = NoPull]
        /\ Enter(w, Idle)
        /\ UNCHANGED <<app, srv, head, rows, local, disk, handle, history>>

\* The desktop stores it after the page; it stops also when it did not advance.
EndPage(w) ==
    LET p == pull[w]
    IN  /\ At(w, "applying") /\ p.page = {}
        /\ cursor' = IF app = "desktop" /\ p.next > p.since THEN p.next ELSE cursor
        /\ IF p.more /\ (app = "mobile" \/ p.next > p.since)
             THEN /\ SetPull(w, p.next, {}, p.next, p.more, p.asked)
                  /\ To(w, "asking")
             ELSE /\ pull' = [pull EXCEPT ![w] = NoPull]
                  /\ Enter(w, Idle)
        /\ UNCHANGED <<app, srv, head, rows, local, disk, handle, history>>

-----------------------------------------------------------------------------
(* Errors                                                                  *)

\* A call ends at its first error, and when the program does.
Fail(w) ==
    /\ ~At(w, "idle")
    /\ Return(w)
    /\ UNCHANGED <<app, srv, head, rows, cursor, local, disk, history>>

Start(w) ==
    \/ \E n \in Nodes : Fetch(w, n) \/ Mark(w, n) \/ RemoveLocal(w, n)
    \/ Refresh(w) \/ Mutate(w)

Work(w) ==
    \/ GetRow(w) \/ CreateFile(w) \/ Download(w) \/ SetLocal(w) \/ DeleteLocal(w)
    \/ GetPage(w) \/ Apply(w) \/ MendLocal(w) \/ PutRow(w) \/ StoreCursor(w) \/ EndPage(w)

Next == \/ Remote
        \/ \E w \in Workers : Start(w) \/ Work(w) \/ Fail(w)

Spec == Init /\ [][Next]_vars

-----------------------------------------------------------------------------
(* Properties                                                              *)

\* The copy of n holds all of its content, of the version recorded or later.
IsCurrent(n) == /\ disk[local[n].path].node = n
                /\ disk[local[n].path].ver >= local[n].ver

\* Of two refreshes at once the slower one has put an older row over that of n.
Overwritten(n) == raced /\ n \in overtaken

\* What the list shows as a fresh copy, and Open hands out without asking the
\* server, is current, whatever calls on other nodes and refreshes go on and break
\* off, unless two calls have worked on the copy at once, Unpin has marked an old
\* copy, the path was another node's in the client's eyes, or the row is too old.
FreshIsCurrent ==
    app = "desktop" => \A n \in Nodes \ spoiled :
        Known(n) /\ IsFresh(n) /\ HasFile(local[n].path) => IsCurrent(n) \/ Overwritten(n)

\* The same without exception.
NoStaleCopy ==
    app = "desktop" => \A n \in Nodes :
        Known(n) /\ IsFresh(n) /\ HasFile(local[n].path) => IsCurrent(n)

InIndex(n) == IF srv[n].path = None THEN ~Known(n) ELSE rows[n] = srv[n]

\* The cursor is never past a change the index does not have, wherever a Refresh
\* is broken off (what it passes it never asks for again), unless of two refreshes
\* at once the slower one has put an older row over it.
CursorCoversIndex == \A n \in Nodes : srv[n].ver =< cursor => InIndex(n) \/ Overwritten(n)

\* The same without exception.
NothingSkipped == \A n \in Nodes : srv[n].ver =< cursor => InIndex(n)

\* A Refresh that returns without an error has every change made before it was
\* called, with the same exception; for the mobile Browser, the one the same call
\* has just made.
RefreshIsComplete ==
    [][\A w \in Workers : EndPage(w) /\ At(w, "idle")' =>
          \A n \in Nodes : srv[n].ver =< pull[w].asked => InIndex(n) \/ Overwritten(n)]_vars
=============================================================================
