----------------------------- MODULE SyncServer -----------------------------
(***************************************************************************)
(* The DiscoDrive server as the daemon's sync API uses it: the /sync/*     *)
(* and /files/* endpoints of internal/protocol/client.go.  The server is   *)
(* not part of this repository, so everything here is external: what the   *)
(* requests and responses of the client, and the fixtures of its tests,    *)
(* say a server does.                                                      *)
(*                                                                         *)
(* A server state s is a record:                                           *)
(*   nodes    what is stored under each node id,                           *)
(*   feed     the change feed, entries with distinct sequence numbers,     *)
(*   head     the last sequence number given out,                          *)
(*   epoch    the scope epoch; the scope of epoch e is a folder of its     *)
(*            own, whose nodes have scope = e,                             *)
(*   history  every content ever stored (the server keeps versions).       *)
(***************************************************************************)
EXTENDS SyncTree, FiniteSets

CONSTANTS
    Nodes,      \* node ids
    CopyNames,  \* the names the server gives to conflict copies
    Compacted   \* the feed keeps only the last entry of a node (a feed read
                \* from the nodes table) or all of them (a change log)

ASSUME NodesAssumption     == Nodes \subseteq Nat \ {0} /\ IsFiniteSet(Nodes)
ASSUME CopyNamesAssumption == CopyNames \subseteq Names
ASSUME CompactedAssumption == Compacted \in BOOLEAN

Node == [st : {"free", "live", "dead"}, scope : Nat, path : Path \cup {Root},
         dir : BOOLEAN, ver : Nat, hash : Hash]

\* One entry of GET /sync/changes: the node as the change left it.
Change == [seq : Nat, node : Nodes, path : Path \cup {Root}, dir : BOOLEAN,
           ver : Nat, hash : Hash, deleted : BOOLEAN]

Server == [nodes : [Nodes -> Node], feed : SUBSET Change, head : Nat,
           epoch : Nat, history : SUBSET Contents]

Visible(s, n) == s.nodes[n].st = "live" /\ s.nodes[n].scope = s.epoch
LiveAt(s, p)  == {n \in Nodes : Visible(s, n) /\ s.nodes[n].path = p}
Taken(s, p)   == LiveAt(s, p) # {}
FileAt(s, p)  == \E n \in LiveAt(s, p) : ~s.nodes[n].dir
DirAt(s, p)   == p = Root \/ \E n \in LiveAt(s, p) : s.nodes[n].dir
Subtree(s, n) == {m \in Nodes : Visible(s, m)
                                /\ Within(s.nodes[n].path, s.nodes[m].path)}
Free(s)       == {n \in Nodes : s.nodes[n].st = "free"}

\* The changed nodes take the next sequence numbers, folders before what is
\* in them.
Before(ns, m, n) == \/ Len(ns[m].path) < Len(ns[n].path)
                    \/ Len(ns[m].path) = Len(ns[n].path) /\ m < n

Publish(s, ns, changed) ==
    LET seqOf(n) == s.head + 1 + Cardinality({m \in changed : Before(ns, m, n)})
        entry(n) == [seq |-> seqOf(n), node |-> n, path |-> ns[n].path,
                     dir |-> ns[n].dir, ver |-> ns[n].ver, hash |-> ns[n].hash,
                     deleted |-> ns[n].st = "dead"]
        kept     == {e \in s.feed : Compacted => e.node \notin changed}
    IN  [s EXCEPT !.nodes = ns,
                  !.feed = kept \cup {entry(n) : n \in changed},
                  !.head = @ + Cardinality(changed),
                  !.history = @ \cup ({ns[n].hash : n \in changed} \ {NoHash})]

\* Creating p creates the folders missing above it, with the lowest free ids.
Missing(s, p) == {q \in Path : Within(q, p) /\ ~Taken(s, q)}

NewPath(s, p, n) ==
    {q \in Missing(s, p) :
        /\ n \in Free(s)
        /\ Cardinality({m \in Free(s) : m < n})
             = Cardinality({r \in Missing(s, p) : Len(r) < Len(q)})}

CanMake(s, p) ==
    /\ ~Taken(s, p)
    /\ \A q \in Path : Within(q, p) => ~FileAt(s, q)
    /\ Cardinality(Missing(s, p)) =< Cardinality(Free(s))

Make(s, p, h) ==
    LET made == {n \in Nodes : NewPath(s, p, n) # {}}
        node(q) == [st |-> "live", scope |-> s.epoch, path |-> q,
                    dir |-> q # p \/ h = NoHash, ver |-> 1,
                    hash |-> IF q = p THEN h ELSE NoHash]
    IN  Publish(s, [n \in Nodes |-> IF n \in made
                                    THEN node(CHOOSE q \in NewPath(s, p, n) : TRUE)
                                    ELSE s.nodes[n]], made)

Write(s, n, h) ==
    Publish(s, [s.nodes EXCEPT ![n].ver = @ + 1, ![n].hash = h], {n})

\* Deleting a folder deletes everything in it.
Remove(s, n) ==
    Publish(s, [m \in Nodes |-> IF m \in Subtree(s, n)
                                THEN [s.nodes[m] EXCEPT !.st = "dead", !.ver = @ + 1]
                                ELSE s.nodes[m]], Subtree(s, n))

\* Moving or renaming a folder changes the path of everything in it.
CanRelocate(s, n, new) ==
    /\ Visible(s, n)
    /\ ~Taken(s, new)
    /\ DirAt(s, Parent(new))
    /\ ~Within(s.nodes[n].path, new)
    /\ \A m \in Subtree(s, n) : Graft(s.nodes[n].path, new, s.nodes[m].path) \in Path

Relocate(s, n, new) ==
    Publish(s, [m \in Nodes |->
                    IF m \in Subtree(s, n)
                    THEN [s.nodes[m] EXCEPT !.path = Graft(s.nodes[n].path, new, @),
                                            !.ver = @ + 1]
                    ELSE s.nodes[m]], Subtree(s, n))

-----------------------------------------------------------------------------
(***************************************************************************)
(* The requests of the sync client.  Each is the set of the results        *)
(* [srv, node, conflicted] the server may give; the empty set is a refusal *)
(* (an HTTP error).                                                        *)
(***************************************************************************)
Result(s, n, conflicted) == [srv |-> s, node |-> n, conflicted |-> conflicted]

\* POST /sync/dir: idempotent, answers with the folder's node.
EnsureDir(s, p) ==
    IF DirAt(s, p)
    THEN {Result(s, n, FALSE) : n \in LiveAt(s, p)}
    ELSE IF CanMake(s, p)
         THEN LET t == Make(s, p, NoHash)
              IN  {Result(t, n, FALSE) : n \in LiveAt(t, p)}
         ELSE {}

\* A free name for a conflict copy of p, beside it.
CopyPath(s, p) ==
    Append(Parent(p), CHOOSE x \in CopyNames : ~Taken(s, Append(Parent(p), x)))

CanCopy(s, p) ==
    \E x \in CopyNames : ~Taken(s, Append(Parent(p), x)) /\ CanMake(s, CopyPath(s, p))

\* PUT /sync/file with X-Base-Version: accepted when base is the current
\* version, else kept as a conflict copy.  Without a base (0) the client's own
\* uses differ: the vault overwrites that way, so either answer is possible.
PushFile(s, p, base, h) ==
    LET accepted == {Result(Write(s, n, h), n, FALSE) : n \in LiveAt(s, p)}
        copied   == IF ~CanCopy(s, p) THEN {}
                    ELSE LET t == Make(s, CopyPath(s, p), h)
                         IN  {Result(t, n, TRUE) : n \in LiveAt(t, CopyPath(s, p))}
        current  == {s.nodes[n].ver : n \in LiveAt(s, p)}
    IN  CASE FileAt(s, p) /\ base \in current -> accepted
          [] FileAt(s, p) /\ base = 0         -> accepted \cup copied
          [] FileAt(s, p) /\ base \notin current \cup {0} -> copied
          [] ~Taken(s, p) /\ CanMake(s, p) ->
                LET t == Make(s, p, h)
                IN  {Result(t, n, FALSE) : n \in LiveAt(t, p)}
          [] OTHER -> {}

\* DELETE /sync/file?path=p: no base version; a path that is already gone is
\* not an error.
DeleteRemote(s, p) ==
    IF Taken(s, p) THEN {Remove(s, n) : n \in LiveAt(s, p)} ELSE {s}

\* PATCH /files/{id}/move and /rename.  Moving a node to where it is already
\* changes nothing.
MoveTo(s, n, new) ==
    IF Visible(s, n) /\ s.nodes[n].path = new
    THEN {s}
    ELSE IF CanRelocate(s, n, new) THEN {Relocate(s, n, new)} ELSE {}

\* GET /sync/changes?since=&limit=: the next entries of the current scope.
Pending(s, since) ==
    {e \in s.feed : e.seq > since /\ s.nodes[e.node].scope = s.epoch}

=============================================================================
