-------------------------- MODULE ControllerProofs --------------------------
(***************************************************************************)
(* Proofs about Controller, for any numbers of nodes, names and changes.   *)
(***************************************************************************)
EXTENDS Controller, TLAPS

-----------------------------------------------------------------------------
(* Types.                                                                  *)

LEMMA SetPullType ==
  ASSUME pull \in [Workers -> Pull],
         NEW w \in Workers, NEW since \in Nat, NEW page \in SUBSET Change, NEW next \in Nat,
         NEW more \in BOOLEAN, NEW asked \in Nat, SetPull(w, since, page, next, more, asked)
  PROVE  pull' \in [Workers -> Pull]
<1>1. [since |-> since, page |-> page, next |-> next, more |-> more, asked |-> asked] \in Pull
  BY Zenon DEF Pull
<1> QED
  BY <1>1 DEF SetPull

LEMMA NoPullType ==
  ASSUME pull \in [Workers -> Pull], NEW w \in Workers, pull' = [pull EXCEPT ![w] = NoPull]
  PROVE  pull' \in [Workers -> Pull]
<1>1. NoPull \in Pull
  BY Zenon DEF Pull, NoPull
<1> QED
  BY <1>1

CoreTypes ==
    /\ app \in {"desktop", "mobile"}
    /\ srv \in [Nodes -> Row] /\ head \in Nat
    /\ rows \in [Nodes -> Row] /\ cursor \in Nat
    /\ local \in [Nodes -> Local] /\ disk \in [Paths -> File]
    /\ call \in [Workers -> Call] /\ handle \in [Workers -> Paths \cup {None}]
    /\ pull \in [Workers -> Pull]
    /\ \A w \in Workers : call[w].stage \notin {"idle", "asking", "applying"}
                            => call[w].node \in Nodes
    /\ \A w \in Workers : call[w].stage \in {"creating", "downloading", "relocating"}
                            => call[w].path \in Paths

HistoryTypes == /\ seen \in [Nodes -> Nat] /\ overtaken \subseteq Nodes
                /\ raced \in BOOLEAN /\ spoiled \subseteq Nodes

LEMMA CoreStep ==
  ASSUME CoreTypes, [Next]_vars
  PROVE  CoreTypes'
<1> USE NoneAssumption, BoundAssumption
    DEF CoreTypes, Row, Local, File, Stages, Call, Between, Idle,
        NoRow, NoLocal, NoFile, Torn
<1> DEFINE CallOK == /\ call \in [Workers -> Call]
                     /\ \A w \in Workers : call[w].stage \notin {"idle", "asking", "applying"}
                                            => call[w].node \in Nodes
                     /\ \A w \in Workers : call[w].stage \in {"creating", "downloading", "relocating"}
                                            => call[w].path \in Paths
<1>1. ASSUME NEW n \in Nodes, NEW p \in Paths \cup {None}, Publish(n, p)
      PROVE  srv' \in [Nodes -> Row] /\ head' \in Nat
  BY <1>1 DEF Publish
<1>2. ASSUME NEW w \in Workers, NEW n \in Nodes, NEW stage \in Stages, NEW ver \in Nat,
             NEW path \in Paths \cup {None}, Copying(w, n, stage, ver, path),
             stage \in {"creating", "downloading", "relocating"} => path \in Paths
      PROVE  CallOK'
  BY <1>2 DEF Copying, Enter
<1>3. ASSUME NEW w \in Workers, NEW stage \in {"idle", "asking", "applying"}, Enter(w, Between(stage))
      PROVE  CallOK'
  BY <1>3 DEF Enter
<1>4. ASSUME NEW w \in Workers, NEW stage \in Stages, To(w, stage), call[w].node \in Nodes,
             stage \in {"creating", "downloading", "relocating"} => call[w].path \in Paths
      PROVE  CallOK'
  BY <1>2, <1>4 DEF To
<1>5. pull \in [Workers -> Pull] /\ 0 \in Nat /\ FALSE \in BOOLEAN /\ {} \in SUBSET Change
  OBVIOUS
<1>6. ASSUME NEW p \in Paths, NEW f \in File, Store(p, f)
      PROVE  disk' \in [Paths -> File]
  BY <1>6 DEF Store
<1>7. ASSUME NEW p \in Paths \cup {None}, Removed(p) \/ NotRemoved(p)
      PROVE  disk' \in [Paths -> File] /\ handle' \in [Workers -> Paths \cup {None}]
  <2>1. CASE HasFile(p) /\ Unlink(p)
    <3>1. Store(p, NoFile) /\ p \in Paths /\ NoFile \in File
      BY <2>1 DEF Unlink, HasFile
    <3>2. disk' \in [Paths -> File]
      BY <1>6, <3>1
    <3>3. handle' \in [Workers -> Paths \cup {None}]
      BY <2>1 DEF Unlink
    <3> QED
      BY <3>2, <3>3
  <2>2. CASE UNCHANGED <<disk, handle>>
    BY <2>2
  <2> QED
    BY <1>7, <2>1, <2>2 DEF Removed, NotRemoved
<1>8. ASSUME NEW w \in Workers, NEW n \in Nodes, Fetch(w, n) \/ Mark(w, n)
      PROVE  CoreTypes'
  <2>1. CallOK'
    BY <1>2, <1>8 DEF Fetch, Mark
  <2> QED
    BY <1>8, <2>1 DEF Fetch, Mark
<1>9. ASSUME NEW w \in Workers, NEW n \in Nodes, RemoveLocal(w, n)
      PROVE  CoreTypes'
  <2>1. CallOK'
    BY <1>2, <1>9 DEF RemoveLocal
  <2> QED
    BY <1>7, <1>9, <2>1 DEF RemoveLocal
<1>10. ASSUME NEW w \in Workers, Refresh(w)
       PROVE  CoreTypes'
  <2>1. CallOK'
    BY <1>3, <1>10 DEF Refresh, Refreshing
  <2>2. SetPull(w, cursor, {}, 0, FALSE, head)
    BY <1>10, Zenon DEF Refresh, Refreshing
  <2>3. pull' \in [Workers -> Pull]
    BY <1>5, <2>2, SetPullType, Zenon
  <2> QED
    BY <1>10, <2>1, <2>3 DEF Refresh
<1>11. ASSUME NEW w \in Workers, Mutate(w)
       PROVE  CoreTypes'
  <2>1. srv' \in [Nodes -> Row] /\ head' \in Nat
    BY <1>1, <1>11 DEF Mutate
  <2>2. CallOK'
    BY <1>3, <1>11 DEF Mutate, Refreshing
  <2>3. SetPull(w, cursor, {}, 0, FALSE, head + 1)
    BY <1>11, Zenon DEF Mutate, Refreshing
  <2>5. cursor \in Nat /\ head + 1 \in Nat
    OBVIOUS
  <2>4. pull' \in [Workers -> Pull]
    BY <1>5, <2>3, <2>5, SetPullType, Zenon
  <2> QED
    BY <1>11, <2>1, <2>2, <2>4 DEF Mutate
<1>12. ASSUME NEW w \in Workers, GetRow(w)
       PROVE  CoreTypes'
  <2>1. CallOK'
    BY <1>2, <1>3, <1>12 DEF GetRow, At, Known
  <2> QED
    BY <1>12, <2>1 DEF GetRow
<1>13. ASSUME NEW w \in Workers, CreateFile(w)
       PROVE  CoreTypes'
  <2>1. call[w].path \in Paths /\ call[w].node \in Nodes
    BY <1>13 DEF CreateFile, At
  <2>2. CallOK'
    BY <1>4, <1>13, <2>1 DEF CreateFile
  <2> QED
    BY <1>6, <1>13, <2>1, <2>2 DEF CreateFile
<1>14. ASSUME NEW w \in Workers, Download(w)
       PROVE  CoreTypes'
  <2>1. call[w].node \in Nodes
    BY <1>14 DEF Download, At
  <2>2. CallOK'
    BY <1>4, <1>14, <2>1 DEF Download
  <2>3. disk' \in [Paths -> File]
    BY <1>6, <1>14, <2>1 DEF Download
  <2> QED
    BY <1>14, <2>2, <2>3 DEF Download
<1>15. ASSUME NEW w \in Workers, SetLocal(w) \/ DeleteLocal(w)
       PROVE  CoreTypes'
  <2>1. CallOK'
    BY <1>3, <1>15 DEF SetLocal, DeleteLocal
  <2>2. call[w].node \in Nodes /\ call[w] \in Call
    BY <1>15 DEF SetLocal, DeleteLocal, At
  <2>3. [ver |-> call[w].ver, path |-> call[w].path] \in Local /\ NoLocal \in Local
    BY <2>2
  <2>4. \/ local' = [local EXCEPT ![call[w].node] = [ver |-> call[w].ver, path |-> call[w].path]]
        \/ local' = [local EXCEPT ![call[w].node] = NoLocal]
    BY <1>15 DEF SetLocal, DeleteLocal
  <2>5. local' \in [Nodes -> Local]
    BY <2>2, <2>3, <2>4
  <2> QED
    BY <1>15, <2>1, <2>5 DEF SetLocal, DeleteLocal
<1>16. ASSUME NEW w \in Workers, GetPage(w)
       PROVE  CoreTypes'
  <2>1. PICK next \in Ends(w) : Answer(w, next)
    BY <1>16 DEF GetPage
  <2>2. next \in Nat
    BY DEF Ends, Pull
  <2>3. PageTo(w, next) \in SUBSET Change
    BY DEF PageTo, Change
  <2>6. \E more \in BOOLEAN : SetPull(w, pull[w].since, PageTo(w, next), next, more, pull[w].asked)
    BY <2>1, Zenon DEF Answer
  <2>7. pull[w].since \in Nat /\ pull[w].asked \in Nat
    BY DEF Pull
  <2>4. pull' \in [Workers -> Pull]
    <3>1. PICK more \in BOOLEAN : SetPull(w, pull[w].since, PageTo(w, next), next, more, pull[w].asked)
      BY <2>6
    <3>2. [since |-> pull[w].since, page |-> PageTo(w, next), next |-> next,
           more |-> more, asked |-> pull[w].asked] \in Pull
      BY <2>2, <2>3, <2>7, Zenon DEF Pull
    <3> QED
      BY <3>1, <3>2 DEF SetPull
  <2>5. CallOK'
    BY <1>16, Zenon DEF GetPage, At, To, Copying, Enter
  <2> QED
    BY <1>16, <2>4, <2>5 DEF GetPage
<1>17. ASSUME NEW w \in Workers, Apply(w)
       PROVE  CoreTypes'
  <2>1. PICK e \in pull[w].page, stage \in {"relocating", "dropping", "putting"} :
          /\ Copying(w, e.node, stage, e.ver, e.path)
          /\ \/ /\ stage = "relocating" /\ Moved(e) /\ HasFile(local[e.node].path)
                /\ Rename(local[e.node].path, e.path)
             \/ /\ stage # "relocating"
                /\ Removed(local[e.node].path) \/ NotRemoved(local[e.node].path)
                   \/ UNCHANGED <<disk, handle>>
    BY <1>17 DEF Apply
  <2>2. e \in Change /\ local[e.node].path \in Paths \cup {None}
    BY DEF Change, Pull
  <2>3. stage = "relocating" => e.path \in Paths
    BY <2>1, <2>2 DEF Moved, Change
  <2>4. CallOK'
    BY <1>2, <2>1, <2>2, <2>3 DEF Change
  <2>5. ASSUME NEW p \in Paths \cup {None}, NEW q \in Paths, HasFile(p), Rename(p, q)
        PROVE  disk' \in [Paths -> File] /\ handle' \in [Workers -> Paths \cup {None}]
    BY <2>5 DEF HasFile, Rename
  <2>6. disk' \in [Paths -> File] /\ handle' \in [Workers -> Paths \cup {None}]
    BY <1>7, <2>1, <2>2, <2>3, <2>5 DEF Change
  <2> QED
    BY <1>17, <2>4, <2>6 DEF Apply
<1>18. ASSUME NEW w \in Workers, MendLocal(w)
       PROVE  CoreTypes'
  <2>1. call[w].node \in Nodes
    BY <1>18 DEF MendLocal, At
  <2>2. CallOK'
    BY <1>4, <1>18, <2>1 DEF MendLocal
  <2>3. local' \in [Nodes -> Local]
    BY <1>18, <2>1 DEF MendLocal
  <2> QED
    BY <1>18, <2>2, <2>3 DEF MendLocal
<1>19. ASSUME NEW w \in Workers, PutRow(w)
       PROVE  CoreTypes'
  <2>1. call[w].node \in Nodes /\ call[w] \in Call /\ pull[w] \in Pull
    BY <1>19 DEF PutRow, At
  <2>2. rows' \in [Nodes -> Row]
    BY <1>19, <2>1 DEF PutRow
  <2>3. {e \in pull[w].page : e.node # call[w].node} \in SUBSET Change
    BY <2>1 DEF Pull
  <2>5. pull' \in [Workers -> Pull]
    <3>1. pull[w].since \in Nat /\ pull[w].next \in Nat /\ pull[w].asked \in Nat
          /\ pull[w].more \in BOOLEAN
      BY <2>1 DEF Pull
    <3>2. SetPull(w, pull[w].since, {e \in pull[w].page : e.node # call[w].node},
                  pull[w].next, pull[w].more, pull[w].asked)
      BY <1>19, Zenon DEF PutRow
    <3>3. [since |-> pull[w].since, page |-> {e \in pull[w].page : e.node # call[w].node},
           next |-> pull[w].next, more |-> pull[w].more, asked |-> pull[w].asked] \in Pull
      BY <2>3, <3>1, Zenon DEF Pull
    <3> QED
      BY <3>2, <3>3 DEF SetPull
  <2>4. CallOK'
    BY <1>3, <1>4, <1>19, <2>1 DEF PutRow
  <2> QED
    BY <1>19, <2>2, <2>4, <2>5 DEF PutRow
<1>20. ASSUME NEW w \in Workers, StoreCursor(w)
       PROVE  CoreTypes'
  BY <1>3, <1>20 DEF StoreCursor
<1>21. ASSUME NEW w \in Workers, EndPage(w)
       PROVE  CoreTypes'
  <2>1. pull[w] \in Pull
    OBVIOUS
  <2>2. cursor' \in Nat
    BY <1>21, <2>1 DEF EndPage, Pull
  <2>3. \/ SetPull(w, pull[w].next, {}, pull[w].next, pull[w].more, pull[w].asked)
              /\ To(w, "asking")
        \/ pull' = [pull EXCEPT ![w] = NoPull] /\ Enter(w, Idle)
    BY <1>21, Zenon DEF EndPage
  <2>4. pull' \in [Workers -> Pull]
    <3>1. pull[w].next \in Nat /\ pull[w].asked \in Nat /\ pull[w].more \in BOOLEAN
      BY <2>1 DEF Pull
    <3>2. CASE SetPull(w, pull[w].next, {}, pull[w].next, pull[w].more, pull[w].asked)
      <4>1. [since |-> pull[w].next, page |-> {}, next |-> pull[w].next,
             more |-> pull[w].more, asked |-> pull[w].asked] \in Pull
        BY <1>5, <3>1, Zenon DEF Pull
      <4> QED
        BY <3>2, <4>1 DEF SetPull
    <3>3. CASE pull' = [pull EXCEPT ![w] = NoPull]
      BY <1>5, <3>3, NoPullType
    <3> QED
      BY <2>3, <3>2, <3>3
  <2>5. CallOK'
    <3>1. CASE To(w, "asking")
      BY <3>1 DEF To, Copying, Enter
    <3>2. CASE Enter(w, Idle)
      BY <1>3, <3>2
    <3> QED
      BY <2>3, <3>1, <3>2
  <2> QED
    BY <1>21, <2>2, <2>4, <2>5 DEF EndPage
<1>22. ASSUME NEW w \in Workers, Fail(w)
       PROVE  CoreTypes'
  <2>1. CallOK'
    BY <1>3, <1>22 DEF Fail, Return
  <2>2. pull' \in [Workers -> Pull]
    BY <1>5, <1>22, NoPullType DEF Fail, Return
  <2> QED
    BY <1>22, <2>1, <2>2 DEF Fail, Return
<1>23. CASE Remote
  BY <1>1, <1>23 DEF Remote
<1>24. CASE UNCHANGED vars
  BY <1>24 DEF vars
<1> QED
  BY <1>8, <1>9, <1>10, <1>11, <1>12, <1>13, <1>14, <1>15, <1>16, <1>17, <1>18, <1>19,
     <1>20, <1>21, <1>22, <1>23, <1>24 DEF Next, Start, Work

\* The history variables: only PutRow, the beginnings of calls and Apply change them.
LEMMA HistoryStep ==
  ASSUME TypeOK, [Next]_vars
  PROVE  HistoryTypes'
<1>0. seen \in [Nodes -> Nat] /\ overtaken \subseteq Nodes /\ raced \in BOOLEAN /\ spoiled \subseteq Nodes
  BY DEF TypeOK
<1> USE DEF HistoryTypes
<1>1. ASSUME NEW ns \in SUBSET Nodes, Spoil(ns) PROVE HistoryTypes'
  BY <1>0, <1>1 DEF Spoil
<1>2. ASSUME UNCHANGED history PROVE HistoryTypes'
  BY <1>0, <1>2 DEF history
<1>3. ASSUME NEW n \in Nodes, NEW p PROVE Sharing(n, p) \in SUBSET Nodes
  BY DEF Sharing
<1>4. ASSUME NEW w \in Workers, NEW n \in Nodes, Fetch(w, n) \/ Mark(w, n) \/ RemoveLocal(w, n)
      PROVE  HistoryTypes'
  <2>1. \E ns \in SUBSET Nodes : Spoil(ns)
    BY <1>4 DEF Fetch, Mark, RemoveLocal
  <2> QED
    BY <1>1, <2>1
<1>5. ASSUME NEW w \in Workers, Refresh(w) PROVE HistoryTypes'
  BY <1>0, <1>5 DEF Refresh, Refreshing
<1>6. ASSUME NEW w \in Workers, Mutate(w) PROVE HistoryTypes'
  <2>1. \E ns \in SUBSET Nodes : spoiled' = spoiled \cup ns
    BY <1>3, <1>6 DEF Mutate
  <2>2. raced' \in BOOLEAN /\ UNCHANGED <<seen, overtaken>>
    BY <1>6 DEF Mutate, Refreshing
  <2> QED
    BY <1>0, <2>1, <2>2
<1>7. ASSUME NEW w \in Workers, Apply(w) PROVE HistoryTypes'
  <2>1. PICK e \in pull[w].page : Spoil({m \in {e.node} : Busy(m)})
    BY <1>7 DEF Apply
  <2>2. e.node \in Nodes
    BY DEF TypeOK, Pull, Change
  <2> QED
    BY <1>1, <2>1, <2>2
<1>8. ASSUME NEW w \in Workers, PutRow(w) PROVE HistoryTypes'
  <2>1. call[w].node \in Nodes /\ call[w].ver \in Nat
    BY <1>8 DEF PutRow, At, TypeOK, Call
  <2>2. UNCHANGED <<raced, spoiled>> /\ (seen' = seen \/ seen' = [seen EXCEPT ![call[w].node] = call[w].ver])
        /\ overtaken' \subseteq overtaken \cup {call[w].node}
    BY <1>8 DEF PutRow
  <2> QED
    BY <1>0, <2>1, <2>2
<1>9. ASSUME NEW w \in Workers,
             GetRow(w) \/ CreateFile(w) \/ Download(w) \/ SetLocal(w) \/ DeleteLocal(w) \/ GetPage(w)
             \/ MendLocal(w) \/ StoreCursor(w) \/ EndPage(w) \/ Fail(w)
      PROVE  HistoryTypes'
  BY <1>2, <1>9 DEF GetRow, CreateFile, Download, SetLocal, DeleteLocal, GetPage, MendLocal,
     StoreCursor, EndPage, Fail
<1>10. CASE Remote
  <2>1. PICK n \in Nodes, p \in Paths \cup {None} : Spoil(Sharing(n, p))
    BY <1>10 DEF Remote
  <2> QED
    BY <1>1, <1>3, <2>1
<1>11. CASE UNCHANGED vars
  BY <1>2, <1>11 DEF vars
<1> QED
  BY <1>4, <1>5, <1>6, <1>7, <1>8, <1>9, <1>10, <1>11 DEF Next, Start, Work

LEMMA TypeStep ==
  ASSUME TypeOK, [Next]_vars
  PROVE  TypeOK'
<1>1. CoreTypes' /\ HistoryTypes'
  <2>1. CoreTypes
    BY DEF CoreTypes, TypeOK
  <2> QED
    BY <2>1, CoreStep, HistoryStep
<1> QED
  BY <1>1 DEF CoreTypes, HistoryTypes, TypeOK

LEMMA InitTypes == ASSUME Init PROVE TypeOK
<1>1. CoreTypes
  BY NoneAssumption DEF Init, CoreTypes, Row, Local, File, Stages, Call, Pull, Change, Between,
     Idle, NoRow, NoLocal, NoFile, NoPull
<1>2. HistoryTypes
  BY DEF Init, HistoryTypes
<1> QED
  BY <1>1, <1>2 DEF CoreTypes, HistoryTypes, TypeOK

\* Types: whatever calls overlap, fail and are broken off.
THEOREM ControllerTypes == Spec => []TypeOK
<1>1. Init => TypeOK
  BY InitTypes
<1> QED
  BY <1>1, TypeStep, PTL DEF Spec

-----------------------------------------------------------------------------
(* Versions, and the pages of Refresh.                                     *)

InPage(w)  == call[w].stage \in {"applying", "relocating", "dropping", "putting", "marking"}
InEntry(w) == call[w].stage \in {"relocating", "dropping", "putting"}
EntryOf(w) == [node |-> call[w].node, path |-> call[w].path, ver |-> call[w].ver]

VersionsInOrder ==
    /\ cursor =< head
    /\ \A n \in Nodes : /\ srv[n].ver =< head /\ local[n].ver =< head
                         /\ rows[n].ver =< srv[n].ver
    /\ \A m, n \in Nodes : srv[m].ver = srv[n].ver => m = n \/ srv[m].ver = 0
    /\ \A w \in Workers : /\ call[w].ver =< head /\ pull[w].since =< head
                           /\ pull[w].next =< head /\ pull[w].asked =< head

\* An entry of the page is its node as it is, or the node has changed since.
EntriesOK(w) ==
    \A e \in pull[w].page :
        /\ 0 < e.ver /\ e.ver =< pull[w].next /\ e.ver =< srv[e.node].ver
        /\ srv[e.node].ver =< pull[w].next
              => e.ver = srv[e.node].ver /\ e.path = srv[e.node].path
        /\ \A f \in pull[w].page : e.node = f.node \/ e.ver = f.ver => e = f

PageOK(w) ==
    /\ ~InPage(w) => pull[w].page = {}
    /\ InPage(w) => /\ pull[w].since =< pull[w].next
                    /\ pull[w].since = pull[w].next => ~pull[w].more
                    /\ ~pull[w].more => \A n \in Nodes : srv[n].ver =< pull[w].asked
                                                           => srv[n].ver =< pull[w].next
    /\ InEntry(w) => /\ EntryOf(w) \in pull[w].page
                     /\ \A f \in pull[w].page : call[w].ver =< f.ver
    /\ EntriesOK(w)

PagesInOrder == \A w \in Workers : PageOK(w)

CopyStages == {"idle", "getting", "creating", "downloading", "recording", "forgetting"}

CopyAction(w) ==
    \/ \E n \in Nodes : Fetch(w, n) \/ Mark(w, n) \/ RemoveLocal(w, n)
    \/ GetRow(w) \/ CreateFile(w) \/ Download(w) \/ SetLocal(w) \/ DeleteLocal(w)

\* The calls that are not Refresh leave the server, the rows and the pages alone.
LEMMA CopyStep ==
  ASSUME TypeOK, NEW w \in Workers, CopyAction(w)
  PROVE  /\ call[w].stage \in CopyStages
         /\ \E c \in Call : /\ call' = [call EXCEPT ![w] = c] /\ c.stage \in CopyStages
                            /\ \/ c.ver = 0 \/ c.ver = call[w].ver
                               \/ \E m \in Nodes : c.ver = rows[m].ver
         /\ UNCHANGED <<app, srv, head, rows, cursor, pull>>
<1> USE NoneAssumption DEF TypeOK, Call, Stages, CopyStages, Between, Idle, At, Row, Local
<1>1. ASSUME NEW m \in Nodes, NEW stage \in CopyStages, NEW ver \in Nat, NEW path \in Paths \cup {None},
             Copying(w, m, stage, ver, path),
             ver = 0 \/ ver = call[w].ver \/ \E k \in Nodes : ver = rows[k].ver
      PROVE  \E c \in Call : /\ call' = [call EXCEPT ![w] = c] /\ c.stage \in CopyStages
                            /\ \/ c.ver = 0 \/ c.ver = call[w].ver
                               \/ \E k \in Nodes : c.ver = rows[k].ver
  <2> DEFINE c == [stage |-> stage, node |-> m, ver |-> ver, path |-> path]
  <2>1. c \in Call /\ c.stage = stage /\ c.ver = ver
    OBVIOUS
  <2>2. call' = [call EXCEPT ![w] = c]
    BY <1>1 DEF Copying, Enter
  <2> QED
    BY <1>1, <2>1, <2>2
<1>2. ASSUME Enter(w, Idle)
      PROVE  \E c \in Call : /\ call' = [call EXCEPT ![w] = c] /\ c.stage \in CopyStages
                            /\ \/ c.ver = 0 \/ c.ver = call[w].ver
                               \/ \E m \in Nodes : c.ver = rows[m].ver
  <2>1. Idle \in Call /\ Idle.stage \in CopyStages /\ Idle.ver = 0
    OBVIOUS
  <2> QED
    BY <1>2, <2>1 DEF Enter
<1>3. ASSUME NEW n \in Nodes, Fetch(w, n) \/ Mark(w, n) \/ RemoveLocal(w, n)
      PROVE  /\ call[w].stage \in CopyStages
             /\ \E c \in Call : /\ call' = [call EXCEPT ![w] = c] /\ c.stage \in CopyStages
                                /\ \/ c.ver = 0 \/ c.ver = call[w].ver
                                   \/ \E m \in Nodes : c.ver = rows[m].ver
             /\ UNCHANGED <<app, srv, head, rows, cursor, pull>>
  <2>1. rows[n].ver \in Nat /\ local[n].path \in Paths \cup {None} /\ 0 \in Nat
    OBVIOUS
  <2>2. \E stage \in CopyStages, ver \in {0, rows[n].ver}, path \in Paths \cup {None} :
           Copying(w, n, stage, ver, path)
    BY <1>3, <2>1 DEF Fetch, Mark, RemoveLocal
  <2>3. call[w].stage \in CopyStages
    BY <1>3 DEF Fetch, Mark, RemoveLocal
  <2> QED
    BY <1>1, <1>3, <2>1, <2>2, <2>3 DEF Fetch, Mark, RemoveLocal
<1>4. CASE GetRow(w)
  <2>1. call[w].node \in Nodes
    BY <1>4 DEF GetRow
  <2>2. rows[call[w].node].ver \in Nat /\ rows[call[w].node].path \in Paths \cup {None}
    BY <2>1
  <2>3. \/ Copying(w, call[w].node, "creating", rows[call[w].node].ver, rows[call[w].node].path)
        \/ Enter(w, Idle)
    BY <1>4 DEF GetRow
  <2> QED
    BY <1>1, <1>2, <1>4, <2>1, <2>2, <2>3 DEF GetRow
<1>5. CASE CreateFile(w) \/ Download(w)
  <2>1. call[w].node \in Nodes /\ call[w].ver \in Nat /\ call[w].path \in Paths \cup {None}
    BY <1>5 DEF CreateFile, Download
  <2>2. \E stage \in CopyStages : Copying(w, call[w].node, stage, call[w].ver, call[w].path)
    BY <1>5 DEF CreateFile, Download, To
  <2> QED
    BY <1>1, <1>5, <2>1, <2>2 DEF CreateFile, Download
<1>6. CASE SetLocal(w) \/ DeleteLocal(w)
  BY <1>2, <1>6 DEF SetLocal, DeleteLocal
<1> QED
  BY <1>3, <1>4, <1>5, <1>6 DEF CopyAction

LEMMA VersionsStep ==
  ASSUME TypeOK, VersionsInOrder, PagesInOrder, [Next]_vars
  PROVE  VersionsInOrder'
<1> USE DEF Between, Idle, NoRow, NoLocal, NoPull
<1>0. /\ srv \in [Nodes -> Row] /\ rows \in [Nodes -> Row] /\ local \in [Nodes -> Local]
      /\ call \in [Workers -> Call] /\ pull \in [Workers -> Pull]
  BY DEF TypeOK
<1>N. /\ head \in Nat /\ cursor \in Nat
      /\ \A m \in Nodes : srv[m].ver \in Nat /\ rows[m].ver \in Nat /\ local[m].ver \in Nat
      /\ \A v \in Workers : /\ call[v].ver \in Nat /\ pull[v].since \in Nat
                             /\ pull[v].next \in Nat /\ pull[v].asked \in Nat
                             /\ \A e \in pull[v].page : e.ver \in Nat /\ e.node \in Nodes
  BY DEF TypeOK, Row, Local, Call, Pull, Change
<1>1. ASSUME NEW n \in Nodes, NEW p \in Paths \cup {None}, Publish(n, p)
      PROVE  /\ head' = head + 1
             /\ \A m \in Nodes : srv'[m].ver = IF m = n THEN head' ELSE srv[m].ver
  BY <1>0, <1>N, <1>1 DEF Publish
<1>2. ASSUME UNCHANGED <<srv, head>>,
             cursor' =< head,
             \A m \in Nodes : local'[m].ver =< head /\ rows'[m].ver =< srv[m].ver,
             \A v \in Workers : /\ call'[v].ver =< head /\ pull'[v].since =< head
                                /\ pull'[v].next =< head /\ pull'[v].asked =< head
      PROVE  VersionsInOrder'
  BY <1>0, <1>N, <1>2 DEF VersionsInOrder
<1>3. ASSUME NEW n \in Nodes, NEW p \in Paths \cup {None}, Publish(n, p),
             UNCHANGED <<cursor, local, rows>>,
             \A v \in Workers : /\ call'[v].ver =< head + 1 /\ pull'[v].since =< head + 1
                                /\ pull'[v].next =< head + 1 /\ pull'[v].asked =< head + 1
      PROVE  VersionsInOrder'
  <2> QED
    BY <1>0, <1>N, <1>1, <1>3 DEF VersionsInOrder
<1>4. ASSUME NEW w \in Workers, CopyAction(w)
      PROVE  VersionsInOrder'
  <2>1. PICK c \in Call : /\ call' = [call EXCEPT ![w] = c]
                         /\ \/ c.ver = 0 \/ c.ver = call[w].ver
                            \/ \E m \in Nodes : c.ver = rows[m].ver
    BY <1>0, <1>N, <1>4, CopyStep
  <2>2. UNCHANGED <<srv, head, rows, cursor, pull>>
    BY <1>0, <1>N, <1>4, CopyStep
  <2>3. c.ver =< head
    BY <1>0, <1>N, <2>1 DEF VersionsInOrder
  <2>4. \A m \in Nodes : local'[m].ver =< head
    <3>1. \A m \in Nodes : local'[m].ver \in {local[m].ver, call[w].ver, 0}
      <4>1. CASE local' = local
        BY <4>1
      <4>2. CASE SetLocal(w) \/ DeleteLocal(w)
        BY <1>0, <4>2 DEF SetLocal, DeleteLocal
      <4> QED
        BY <1>4, <4>1, <4>2 DEF CopyAction, Fetch, Mark, RemoveLocal, GetRow, CreateFile, Download
    <3> QED
      BY <1>0, <1>N, <3>1 DEF VersionsInOrder
  <2>5. \A v \in Workers : call'[v].ver =< head
    BY <1>0, <1>N, <2>1, <2>3 DEF VersionsInOrder
  <2> QED
    BY <1>0, <1>N, <1>2, <2>2, <2>4, <2>5 DEF VersionsInOrder
<1>5. ASSUME NEW w \in Workers, NEW asked \in Nat, Refreshing(w, asked)
      PROVE  \A v \in Workers : /\ call'[v].ver \in {call[v].ver, 0}
                                /\ pull'[v].since \in {pull[v].since, cursor}
                                /\ pull'[v].next \in {pull[v].next, 0}
                                /\ pull'[v].asked \in {pull[v].asked, asked}
  BY <1>0, <1>N, <1>5 DEF Refreshing, Enter, SetPull
<1>6. ASSUME NEW w \in Workers, Refresh(w) PROVE VersionsInOrder'
  <2>1. Refreshing(w, head) /\ UNCHANGED <<srv, head, rows, cursor, local>>
    BY <1>0, <1>N, <1>6 DEF Refresh
  <2> QED
    BY <1>0, <1>N, <1>2, <1>5, <2>1 DEF VersionsInOrder
<1>7. ASSUME NEW w \in Workers, Mutate(w) PROVE VersionsInOrder'
  <2>1. PICK n \in Nodes, p \in Paths \cup {None} : Publish(n, p)
    BY <1>0, <1>N, <1>7 DEF Mutate
  <2>2. Refreshing(w, head + 1) /\ UNCHANGED <<rows, cursor, local>>
    BY <1>0, <1>N, <1>7 DEF Mutate
  <2>3. head + 1 \in Nat
    BY <1>N
  <2>4. \A v \in Workers : /\ call'[v].ver \in {call[v].ver, 0}
                           /\ pull'[v].since \in {pull[v].since, cursor}
                           /\ pull'[v].next \in {pull[v].next, 0}
                           /\ pull'[v].asked \in {pull[v].asked, head + 1}
    BY <1>0, <1>N, <1>5, <2>2, <2>3
  <2>5. \A v \in Workers : /\ call'[v].ver =< head + 1 /\ pull'[v].since =< head + 1
                           /\ pull'[v].next =< head + 1 /\ pull'[v].asked =< head + 1
    BY <1>0, <1>N, <2>4 DEF VersionsInOrder
  <2> QED
    BY <1>0, <1>N, <1>3, <2>1, <2>2, <2>5
<1>8. ASSUME NEW w \in Workers, GetPage(w) PROVE VersionsInOrder'
  <2>1. PICK next \in Ends(w) : Answer(w, next)
    BY <1>0, <1>N, <1>8 DEF GetPage
  <2>2. next =< head
    BY <1>0, <1>N DEF Ends, VersionsInOrder
  <2>3. \A v \in Workers : /\ call'[v].ver = call[v].ver /\ pull'[v].since = pull[v].since
                           /\ pull'[v].next \in {pull[v].next, next}
                           /\ pull'[v].asked = pull[v].asked
    BY <1>0, <1>N, <1>8, <2>1 DEF GetPage, Answer, SetPull, To, Copying, Enter
  <2>4. UNCHANGED <<srv, head, rows, cursor, local>>
    BY <1>0, <1>N, <1>8 DEF GetPage
  <2> QED
    BY <1>0, <1>N, <1>2, <2>2, <2>3, <2>4 DEF VersionsInOrder
<1>9. ASSUME NEW w \in Workers, Apply(w) PROVE VersionsInOrder'
  <2>1. PICK e \in pull[w].page, stage \in Stages : Copying(w, e.node, stage, e.ver, e.path)
    BY <1>0, <1>N, <1>9 DEF Apply, Stages
  <2>2. e.ver =< head
    <3>1. e.ver =< srv[e.node].ver /\ e.node \in Nodes /\ e.ver \in Nat
      BY <1>0, <1>N DEF PagesInOrder, PageOK, EntriesOK
    <3> QED
      BY <1>0, <1>N, <3>1 DEF VersionsInOrder
  <2>3. \A v \in Workers : call'[v].ver \in {call[v].ver, e.ver}
    BY <1>0, <1>N, <2>1 DEF Copying, Enter
  <2>4. UNCHANGED <<srv, head, rows, cursor, local, pull>>
    BY <1>0, <1>N, <1>9 DEF Apply
  <2> QED
    BY <1>0, <1>N, <1>2, <2>2, <2>3, <2>4 DEF VersionsInOrder
<1>10. ASSUME NEW w \in Workers, MendLocal(w) PROVE VersionsInOrder'
  <2>1. \A m \in Nodes : local'[m].ver \in {local[m].ver, 0}
    BY <1>0, <1>N, <1>10 DEF MendLocal
  <2>2. \A v \in Workers : call'[v].ver = call[v].ver
    BY <1>0, <1>N, <1>10 DEF MendLocal, To, Copying, Enter
  <2>3. UNCHANGED <<srv, head, rows, cursor, pull>>
    BY <1>0, <1>N, <1>10 DEF MendLocal
  <2> QED
    BY <1>0, <1>N, <1>2, <2>1, <2>2, <2>3 DEF VersionsInOrder
<1>11. ASSUME NEW w \in Workers, PutRow(w) PROVE VersionsInOrder'
  <2>1. \A m \in Nodes : rows'[m].ver =< srv[m].ver
    <3>1. EntryOf(w) \in pull[w].page
      BY <1>0, <1>N, <1>11 DEF PutRow, At, PagesInOrder, PageOK, InEntry
    <3>2. EntryOf(w).node = call[w].node /\ EntryOf(w).ver = call[w].ver
      BY DEF EntryOf
    <3>3. call[w].ver =< srv[call[w].node].ver
      BY <1>0, <1>N, <3>1, <3>2 DEF PagesInOrder, PageOK, EntriesOK
    <3>4. \A m \in Nodes : \/ rows'[m].ver = rows[m].ver \/ rows'[m].ver = 0
                           \/ m = call[w].node /\ rows'[m].ver = call[w].ver
      BY <1>0, <1>N, <1>11 DEF PutRow
    <3> QED
      BY <1>0, <1>N, <3>3, <3>4 DEF VersionsInOrder
  <2>2. \A v \in Workers : call'[v].ver \in {call[v].ver, 0}
    BY <1>0, <1>N, <1>11 DEF PutRow, To, Copying, Enter
  <2>3. \A v \in Workers : /\ pull'[v].since = pull[v].since /\ pull'[v].next = pull[v].next
                           /\ pull'[v].asked = pull[v].asked
    BY <1>0, <1>N, <1>11 DEF PutRow, SetPull
  <2>4. UNCHANGED <<srv, head, cursor, local>>
    BY <1>0, <1>N, <1>11 DEF PutRow
  <2> QED
    BY <1>0, <1>N, <1>2, <2>1, <2>2, <2>3, <2>4 DEF VersionsInOrder
<1>12. ASSUME NEW w \in Workers, StoreCursor(w) PROVE VersionsInOrder'
  <2>1. \A v \in Workers : call'[v].ver \in {call[v].ver, 0}
    BY <1>0, <1>N, <1>12 DEF StoreCursor, Enter
  <2>2. UNCHANGED <<srv, head, rows, local, pull>> /\ cursor' = call[w].ver
    BY <1>0, <1>N, <1>12 DEF StoreCursor
  <2> QED
    BY <1>0, <1>N, <1>2, <2>1, <2>2 DEF VersionsInOrder
<1>13. ASSUME NEW w \in Workers, EndPage(w) PROVE VersionsInOrder'
  <2>1. cursor' \in {cursor, pull[w].next}
    BY <1>0, <1>N, <1>13 DEF EndPage
  <2>2. \A v \in Workers : call'[v].ver \in {call[v].ver, 0}
    BY <1>0, <1>N, <1>13 DEF EndPage, To, Copying, Enter
  <2>3. \A v \in Workers : /\ pull'[v].since \in {pull[v].since, pull[v].next, 0}
                           /\ pull'[v].next \in {pull[v].next, 0}
                           /\ pull'[v].asked \in {pull[v].asked, 0}
    BY <1>0, <1>N, <1>13 DEF EndPage, SetPull
  <2>4. UNCHANGED <<srv, head, rows, local>>
    BY <1>0, <1>N, <1>13 DEF EndPage
  <2>5. cursor' =< head
    BY <1>N, <2>1 DEF VersionsInOrder
  <2>6. \A v \in Workers : /\ call'[v].ver =< head /\ pull'[v].since =< head
                           /\ pull'[v].next =< head /\ pull'[v].asked =< head
    BY <1>N, <2>2, <2>3 DEF VersionsInOrder
  <2>7. \A m \in Nodes : local'[m].ver =< head /\ rows'[m].ver =< srv[m].ver
    BY <2>4 DEF VersionsInOrder
  <2> QED
    BY <1>2, <2>4, <2>5, <2>6, <2>7
<1>14. ASSUME NEW w \in Workers, Fail(w) PROVE VersionsInOrder'
  <2>1. \A v \in Workers : /\ call'[v].ver \in {call[v].ver, 0}
                           /\ pull'[v].since \in {pull[v].since, 0}
                           /\ pull'[v].next \in {pull[v].next, 0}
                           /\ pull'[v].asked \in {pull[v].asked, 0}
    BY <1>0, <1>N, <1>14 DEF Fail, Return, Enter
  <2>2. UNCHANGED <<srv, head, rows, cursor, local>>
    BY <1>0, <1>N, <1>14 DEF Fail
  <2> QED
    BY <1>0, <1>N, <1>2, <2>1, <2>2 DEF VersionsInOrder
<1>15. CASE Remote
  <2>1. PICK n \in Nodes, p \in Paths \cup {None} : Publish(n, p)
    BY <1>0, <1>N, <1>15 DEF Remote
  <2>2. UNCHANGED <<rows, cursor, local, call, pull>>
    BY <1>0, <1>N, <1>15 DEF Remote
  <2> QED
    BY <1>0, <1>N, <1>3, <2>1, <2>2 DEF VersionsInOrder
<1>16. CASE UNCHANGED vars
  BY <1>0, <1>N, <1>16 DEF vars, VersionsInOrder
<1> QED
  BY <1>4, <1>6, <1>7, <1>8, <1>9, <1>10, <1>11, <1>12, <1>13, <1>14, <1>15, <1>16
     DEF Next, Start, Work, CopyAction

LEMMA PagesStep ==
  ASSUME TypeOK, VersionsInOrder, PagesInOrder, [Next]_vars
  PROVE  PagesInOrder'
<1> USE DEF Between, Idle, NoPull
<1>0. /\ srv \in [Nodes -> Row] /\ call \in [Workers -> Call] /\ pull \in [Workers -> Pull]
  BY DEF TypeOK
<1>N. /\ head \in Nat
      /\ \A m \in Nodes : srv[m].ver \in Nat
      /\ \A v \in Workers : /\ call[v].ver \in Nat /\ pull[v].since \in Nat
                             /\ pull[v].next \in Nat /\ pull[v].asked \in Nat
                             /\ \A e \in pull[v].page : e \in Change /\ e.ver \in Nat /\ e.node \in Nodes
  BY DEF TypeOK, Row, Call, Pull, Change
<1>1. ASSUME NEW v \in Workers, call'[v] = call[v], pull'[v] = pull[v], srv' = srv
      PROVE  PageOK(v)'
  BY <1>1 DEF PagesInOrder, PageOK, EntriesOK, InPage, InEntry, EntryOf
<1>2. ASSUME NEW v \in Workers, ~InPage(v)', pull'[v].page = {}
      PROVE  PageOK(v)'
  BY <1>2 DEF PageOK, EntriesOK, InPage, InEntry
<1>3. ASSUME NEW n \in Nodes, NEW p \in Paths \cup {None}, Publish(n, p), NEW v \in Workers,
             call'[v] = call[v], pull'[v] = pull[v]
      PROVE  PageOK(v)'
  <2>1. /\ srv'[n].ver = head + 1
        /\ \A m \in Nodes : m # n => srv'[m] = srv[m]
        /\ \A m \in Nodes : srv[m].ver =< srv'[m].ver
    BY <1>0, <1>N, <1>3 DEF Publish, VersionsInOrder
  <2>2. pull[v].next =< head /\ pull[v].asked =< head
    BY DEF VersionsInOrder
  <2>3. EntriesOK(v)'
    <3> SUFFICES ASSUME NEW e \in pull[v].page
                 PROVE  /\ 0 < e.ver /\ e.ver =< pull[v].next /\ e.ver =< srv'[e.node].ver
                        /\ srv'[e.node].ver =< pull[v].next
                             => e.ver = srv'[e.node].ver /\ e.path = srv'[e.node].path
                        /\ \A f \in pull[v].page : e.node = f.node \/ e.ver = f.ver => e = f
      BY <1>3 DEF EntriesOK
    <3>1. srv[e.node].ver =< srv'[e.node].ver /\ srv[e.node].ver \in Nat /\ srv'[e.node].ver \in Nat
      BY <1>N, <2>1
    <3>2. EntriesOK(v)
      BY DEF PagesInOrder, PageOK
    <3> QED
      BY <1>N, <2>1, <2>2, <3>1, <3>2 DEF EntriesOK
  <2> QED
    BY <1>N, <1>3, <2>1, <2>2, <2>3 DEF PagesInOrder, PageOK, InPage, InEntry, EntryOf
<1>4. ASSUME NEW w \in Workers, CopyAction(w) PROVE PagesInOrder'
  <2>1. PICK c \in Call : call' = [call EXCEPT ![w] = c] /\ c.stage \in CopyStages
    BY <1>4, CopyStep
  <2>2. call[w].stage \in CopyStages /\ UNCHANGED <<srv, pull>>
    BY <1>4, CopyStep
  <2>3. pull[w].page = {} /\ ~InPage(w)'
    BY <1>0, <2>1, <2>2 DEF PagesInOrder, PageOK, InPage, CopyStages
  <2>4. PageOK(w)'
    BY <1>2, <2>2, <2>3
  <2> QED
    BY <1>0, <1>1, <2>1, <2>2, <2>4 DEF PagesInOrder
<1>5. ASSUME NEW w \in Workers, NEW asked, Refreshing(w, asked)
      PROVE  /\ PageOK(w)'
             /\ \A v \in Workers : v # w => call'[v] = call[v] /\ pull'[v] = pull[v]
  <2>1. pull'[w].page = {} /\ call'[w].stage = "asking"
        /\ \A v \in Workers : v # w => call'[v] = call[v] /\ pull'[v] = pull[v]
    BY <1>0, <1>5 DEF Refreshing, Enter, SetPull
  <2> QED
    BY <1>2, <2>1 DEF InPage
<1>6. ASSUME NEW w \in Workers, Refresh(w) PROVE PagesInOrder'
  BY <1>1, <1>5, <1>6 DEF Refresh, PagesInOrder
<1>7. ASSUME NEW w \in Workers, Mutate(w) PROVE PagesInOrder'
  <2>1. PICK n \in Nodes, p \in Paths \cup {None} : Publish(n, p)
    BY <1>7 DEF Mutate
  <2>2. Refreshing(w, head + 1)
    BY <1>7 DEF Mutate
  <2> QED
    BY <1>3, <1>5, <2>1, <2>2 DEF PagesInOrder
<1>8. ASSUME NEW w \in Workers, GetPage(w) PROVE PagesInOrder'
  <2>1. PICK next \in Ends(w) : Answer(w, next)
    BY <1>8 DEF GetPage
  <2>2. /\ call'[w].stage = "applying" /\ srv' = srv
        /\ \A v \in Workers : v # w => call'[v] = call[v] /\ pull'[v] = pull[v]
        /\ pull'[w] = [since |-> pull[w].since, page |-> PageTo(w, next), next |-> next,
                       more |-> (\E n \in Nodes : srv[n].ver > next), asked |-> pull[w].asked]
    BY <1>0, <1>8, <2>1 DEF GetPage, Answer, SetPull, To, Copying, Enter
  <2>3. /\ pull[w].since =< next /\ next \in Nat
        /\ next = pull[w].since => ~ \E n \in Nodes : srv[n].ver > next
    BY <1>N DEF Ends
  <2>4. ASSUME NEW e \in PageTo(w, next)
        PROVE  /\ e.node \in Nodes /\ e = [node |-> e.node, path |-> srv[e.node].path, ver |-> srv[e.node].ver]
               /\ srv[e.node].ver > pull[w].since /\ srv[e.node].ver =< next
    BY <2>4 DEF PageTo
  <2>5. EntriesOK(w)'
    <3>1. ASSUME NEW e \in PageTo(w, next), NEW f \in PageTo(w, next), e.node = f.node \/ e.ver = f.ver
          PROVE  e = f
      <4>1. e.ver = srv[e.node].ver /\ f.ver = srv[f.node].ver /\ e.ver > 0
        BY <1>N, <2>4
      <4>2. e.node = f.node
        BY <3>1, <4>1, <2>4 DEF VersionsInOrder
      <4> QED
        BY <2>4, <4>2
    <3>2. ASSUME NEW e \in PageTo(w, next)
          PROVE  0 < e.ver /\ e.ver =< next /\ e.ver = srv[e.node].ver /\ e.path = srv[e.node].path
      BY <1>N, <2>4
    <3>3. pull'[w].page = PageTo(w, next) /\ pull'[w].next = next
      BY <2>2
    <3> QED
      BY <1>N, <2>2, <2>4, <3>1, <3>2, <3>3 DEF EntriesOK
  <2>6. PageOK(w)'
    <3>1. ~InEntry(w)' /\ InPage(w)'
      BY <2>2 DEF InEntry, InPage
    <3>2. pull'[w].since = pull[w].since /\ pull'[w].next = next /\ pull'[w].asked = pull[w].asked
      BY <2>2
    <3>3. pull'[w].more = (\E n \in Nodes : srv[n].ver > next)
      BY <2>2
    <3> QED
      BY <1>N, <2>2, <2>3, <2>5, <3>1, <3>2, <3>3 DEF PageOK
  <2> QED
    BY <1>1, <2>2, <2>6 DEF PagesInOrder
<1>9. ASSUME NEW w \in Workers, Apply(w) PROVE PagesInOrder'
  <2>1. PICK e \in pull[w].page, stage \in {"relocating", "dropping", "putting"} :
           Copying(w, e.node, stage, e.ver, e.path) /\ \A f \in pull[w].page : e.ver =< f.ver
    BY <1>9 DEF Apply
  <2>2. /\ call'[w] = [stage |-> stage, node |-> e.node, ver |-> e.ver, path |-> e.path]
        /\ \A v \in Workers : v # w => call'[v] = call[v]
        /\ pull' = pull /\ srv' = srv
    BY <1>0, <1>9, <2>1 DEF Apply, Copying, Enter
  <2>3. EntryOf(w)' = e
    BY <1>N, <2>2 DEF EntryOf, Change
  <2>4. InPage(w) /\ PageOK(w)
    BY <1>9 DEF Apply, At, InPage, PagesInOrder
  <2>5. PageOK(w)'
    BY <2>1, <2>2, <2>3, <2>4 DEF PageOK, EntriesOK, InPage, InEntry
  <2> QED
    BY <1>1, <2>2, <2>5 DEF PagesInOrder
<1>10. ASSUME NEW w \in Workers, MendLocal(w) PROVE PagesInOrder'
  <2>1. /\ call'[w] = [stage |-> "putting", node |-> call[w].node, ver |-> call[w].ver, path |-> call[w].path]
        /\ \A v \in Workers : v # w => call'[v] = call[v]
        /\ pull' = pull /\ srv' = srv /\ InEntry(w) /\ InPage(w)
    BY <1>0, <1>10 DEF MendLocal, To, Copying, Enter, At, InEntry, InPage
  <2>2. EntryOf(w)' = EntryOf(w) /\ PageOK(w)
    BY <2>1 DEF EntryOf, PagesInOrder
  <2>3. PageOK(w)'
    BY <2>1, <2>2 DEF PageOK, EntriesOK, InPage, InEntry
  <2> QED
    BY <1>1, <2>1, <2>3 DEF PagesInOrder
<1>11. ASSUME NEW w \in Workers, PutRow(w) PROVE PagesInOrder'
  <2>1. /\ call'[w].stage \in {"marking", "applying"}
        /\ \A v \in Workers : v # w => call'[v] = call[v] /\ pull'[v] = pull[v]
        /\ srv' = srv /\ InPage(w)
    BY <1>0, <1>11 DEF PutRow, To, Copying, Enter, At, InPage, SetPull
  <2>2. SetPull(w, pull[w].since, {e \in pull[w].page : e.node # call[w].node},
                pull[w].next, pull[w].more, pull[w].asked)
    BY <1>11, Zenon DEF PutRow
  <2>3. pull'[w] = [since |-> pull[w].since, page |-> {e \in pull[w].page : e.node # call[w].node},
                    next |-> pull[w].next, more |-> pull[w].more, asked |-> pull[w].asked]
    BY <1>0, <2>2 DEF SetPull
  <2>4. /\ pull'[w].since = pull[w].since /\ pull'[w].next = pull[w].next
        /\ pull'[w].more = pull[w].more /\ pull'[w].asked = pull[w].asked
        /\ pull'[w].page \subseteq pull[w].page
    BY <2>3
  <2>5. PageOK(w)
    BY DEF PagesInOrder
  <2>6. EntriesOK(w)'
    BY <2>1, <2>4, <2>5 DEF PageOK, EntriesOK
  <2>7. PageOK(w)'
    BY <2>1, <2>4, <2>5, <2>6 DEF PageOK, InPage, InEntry
  <2> QED
    BY <1>1, <2>1, <2>7 DEF PagesInOrder
<1>12. ASSUME NEW w \in Workers, StoreCursor(w) PROVE PagesInOrder'
  <2>1. /\ call'[w].stage = "applying" /\ InPage(w)
        /\ \A v \in Workers : v # w => call'[v] = call[v]
        /\ pull' = pull /\ srv' = srv
    BY <1>0, <1>12 DEF StoreCursor, Enter, At, InPage
  <2>2. PageOK(w)'
    BY <2>1 DEF PagesInOrder, PageOK, EntriesOK, InPage, InEntry
  <2> QED
    BY <1>1, <2>1, <2>2 DEF PagesInOrder
<1>13. ASSUME NEW w \in Workers, EndPage(w) PROVE PagesInOrder'
  <2>1. /\ call'[w].stage \in {"asking", "idle"} /\ pull'[w].page = {} /\ srv' = srv
        /\ \A v \in Workers : v # w => call'[v] = call[v] /\ pull'[v] = pull[v]
    BY <1>0, <1>13 DEF EndPage, To, Copying, Enter, SetPull
  <2> QED
    BY <1>1, <1>2, <2>1 DEF PagesInOrder, InPage
<1>14. ASSUME NEW w \in Workers, Fail(w) PROVE PagesInOrder'
  <2>1. /\ call'[w].stage = "idle" /\ pull'[w].page = {} /\ srv' = srv
        /\ \A v \in Workers : v # w => call'[v] = call[v] /\ pull'[v] = pull[v]
    BY <1>0, <1>14 DEF Fail, Return, Enter
  <2> QED
    BY <1>1, <1>2, <2>1 DEF PagesInOrder, InPage
<1>15. CASE Remote
  BY <1>3, <1>15 DEF Remote, PagesInOrder
<1>16. CASE UNCHANGED vars
  BY <1>1, <1>16 DEF vars, PagesInOrder
<1> QED
  BY <1>4, <1>6, <1>7, <1>8, <1>9, <1>10, <1>11, <1>12, <1>13, <1>14, <1>15, <1>16
     DEF Next, Start, Work, CopyAction

-----------------------------------------------------------------------------
(* What the cursor and the pages cover, however many refreshes overlap.    *)

\* The last version of n has been put in the index (and perhaps overtaken).
Arrived(n) == seen[n] = srv[n].ver

RowsKept ==
    \A n \in Nodes : /\ seen[n] =< srv[n].ver
                     /\ Arrived(n) /\ n \notin overtaken => InIndex(n)
                     /\ Known(n) => /\ rows[n].ver =< seen[n]
                                    /\ n \notin overtaken => rows[n].ver = seen[n]

ArrivedTo(ver) == \A n \in Nodes : srv[n].ver =< ver => Arrived(n)

\* Each refresh by itself: what it asked for has arrived, or is in its page.
CoversPull(w) ==
    /\ At(w, "asking") => ArrivedTo(pull[w].since)
    /\ InPage(w) => \A n \in Nodes : srv[n].ver =< pull[w].next
                                       => Arrived(n) \/ \E e \in pull[w].page : e.node = n
    /\ At(w, "marking") => ArrivedTo(call[w].ver)

Covered == RowsKept /\ ArrivedTo(cursor) /\ \A w \in Workers : CoversPull(w)

InRefresh(w) == call[w].stage \in RefreshStages

\* A row is overtaken only when two refreshes have overlapped.
OneRefresh ==
    ~raced => /\ overtaken = {}
              /\ \A v, w \in Workers : InRefresh(v) /\ InRefresh(w) => v = w
              /\ \A w \in Workers : \A e \in pull[w].page : seen[e.node] =< e.ver

LEMMA OneWorker ==
  ASSUME TypeOK, NEW w \in Workers, Start(w) \/ Work(w) \/ Fail(w)
  PROVE  \A v \in Workers : v # w => call'[v] = call[v] /\ pull'[v] = pull[v]
<1>0. call \in [Workers -> Call] /\ pull \in [Workers -> Pull]
  BY DEF TypeOK
<1> USE DEF At, To, Copying, Enter, SetPull
<1>1. CASE Start(w)
  BY <1>0, <1>1 DEF Start, Fetch, Mark, RemoveLocal, Refresh, Mutate, Refreshing
<1>2. CASE GetRow(w) \/ CreateFile(w) \/ Download(w) \/ SetLocal(w) \/ DeleteLocal(w)
  BY <1>0, <1>2 DEF GetRow, CreateFile, Download, SetLocal, DeleteLocal
<1>3. CASE GetPage(w) \/ Apply(w) \/ MendLocal(w) \/ PutRow(w) \/ StoreCursor(w) \/ EndPage(w)
  BY <1>0, <1>3 DEF GetPage, Answer, Apply, MendLocal, PutRow, StoreCursor, EndPage
<1>4. CASE Fail(w)
  BY <1>0, <1>4 DEF Fail, Return
<1> QED
  BY <1>1, <1>2, <1>3, <1>4 DEF Work

\* What PutRow does, and what it knows of its entry.
LEMMA PutStep ==
  ASSUME TypeOK, PagesInOrder, NEW w \in Workers, PutRow(w),
         NEW n \in Nodes, n = call[w].node
  PROVE  /\ \A m \in Nodes : m # n => /\ rows'[m] = rows[m] /\ seen'[m] = seen[m]
                                      /\ m \in overtaken' <=> m \in overtaken
         /\ rows'[n] = IF call[w].path = None THEN NoRow
                       ELSE [path |-> call[w].path, ver |-> call[w].ver]
         /\ \/ call[w].ver < seen[n] /\ seen'[n] = seen[n] /\ n \in overtaken'
            \/ seen[n] =< call[w].ver /\ seen'[n] = call[w].ver /\ n \notin overtaken'
         /\ call[w].ver =< srv[n].ver
         /\ srv[n].ver =< pull[w].next => call[w].ver = srv[n].ver
         /\ call[w].ver = srv[n].ver => call[w].path = srv[n].path
         /\ srv' = srv
<1>0. /\ rows \in [Nodes -> Row] /\ seen \in [Nodes -> Nat] /\ call \in [Workers -> Call]
      /\ pull \in [Workers -> Pull] /\ pull[w].next \in Nat /\ srv[n].ver \in Nat
      /\ call[w].ver \in Nat
  BY DEF TypeOK, Pull, Row, Call
<1>1. InEntry(w) /\ InPage(w)
  BY DEF PutRow, At, InEntry, InPage
<1>2. EntryOf(w) \in pull[w].page /\ EntriesOK(w)
  BY <1>1 DEF PagesInOrder, PageOK
<1>3. EntryOf(w).node = n /\ EntryOf(w).path = call[w].path /\ EntryOf(w).ver = call[w].ver
  BY DEF EntryOf
<1>4. /\ call[w].ver =< pull[w].next /\ call[w].ver =< srv[n].ver
      /\ srv[n].ver =< pull[w].next => call[w].ver = srv[n].ver /\ call[w].path = srv[n].path
  BY <1>2, <1>3 DEF EntriesOK
<1>8. /\ \A m \in Nodes : m # n => rows'[m] = rows[m]
      /\ rows'[n] = IF call[w].path = None THEN NoRow
                    ELSE [path |-> call[w].path, ver |-> call[w].ver]
      /\ srv' = srv
  BY <1>0 DEF PutRow
<1>9. /\ \A m \in Nodes : m # n => seen'[m] = seen[m] /\ (m \in overtaken' <=> m \in overtaken)
      /\ \/ call[w].ver < seen[n] /\ seen'[n] = seen[n] /\ n \in overtaken'
         \/ seen[n] =< call[w].ver /\ seen'[n] = call[w].ver /\ n \notin overtaken'
  <2>1. seen[n] \in Nat
    BY <1>0
  <2>2. CASE call[w].ver < seen[n]
    BY <1>0, <2>1, <2>2 DEF PutRow
  <2>3. CASE ~(call[w].ver < seen[n])
    BY <1>0, <2>1, <2>3 DEF PutRow
  <2> QED
    BY <2>2, <2>3
<1> QED
  BY <1>0, <1>4, <1>8, <1>9

\* The same, of the page.
LEMMA PutPageStep ==
  ASSUME TypeOK, PagesInOrder, NEW w \in Workers, PutRow(w)
  PROVE  /\ InEntry(w) /\ InPage(w) /\ EntryOf(w) \in pull[w].page
         /\ pull'[w].page = {e \in pull[w].page : e.node # call[w].node}
         /\ pull'[w].next = pull[w].next
         /\ call'[w].stage \in {"applying", "marking"}
         /\ call'[w].stage = "marking" => call'[w].ver = call[w].ver
         /\ UNCHANGED <<srv, cursor, local, disk, handle, raced, spoiled>>
<1>0. call \in [Workers -> Call] /\ pull \in [Workers -> Pull]
  BY DEF TypeOK
<1>1. InEntry(w) /\ InPage(w)
  BY DEF PutRow, At, InEntry, InPage
<1>2. EntryOf(w) \in pull[w].page
  BY <1>1 DEF PagesInOrder, PageOK
<1>5. SetPull(w, pull[w].since, {e \in pull[w].page : e.node # call[w].node},
              pull[w].next, pull[w].more, pull[w].asked)
  BY Zenon DEF PutRow
<1>6. /\ pull'[w].page = {e \in pull[w].page : e.node # call[w].node}
      /\ pull'[w].next = pull[w].next
  BY <1>0, <1>5 DEF SetPull
<1>7. /\ call'[w].stage \in {"applying", "marking"}
      /\ call'[w].stage = "marking" => call'[w].ver = call[w].ver
  BY <1>0 DEF PutRow, To, Copying, Enter, Between
<1>8. UNCHANGED <<srv, cursor, local, disk, handle, raced, spoiled>>
  BY DEF PutRow
<1> QED
  BY <1>1, <1>2, <1>6, <1>7, <1>8

LEMMA SeenGrows ==
  ASSUME TypeOK, NEW w \in Workers, PutRow(w), NEW n \in Nodes
  PROVE  seen[n] =< seen'[n]
<1>1. seen \in [Nodes -> Nat] /\ call[w].ver \in Nat /\ call[w].node \in Nodes
  BY DEF TypeOK, Call, PutRow, At
<1>2. CASE call[w].ver < seen[call[w].node]
  BY <1>1, <1>2 DEF PutRow
<1>3. CASE ~(call[w].ver < seen[call[w].node])
  BY <1>1, <1>3 DEF PutRow
<1> QED
  BY <1>2, <1>3

LEMMA PutNode == ASSUME TypeOK, NEW w \in Workers, PutRow(w) PROVE call[w].node \in Nodes
  BY DEF TypeOK, PutRow, At

\* Only PutRow changes the rows; only the server, and Mutate, what the server has.
LEMMA IndexUntouched ==
  ASSUME [Next]_vars
  PROVE  /\ UNCHANGED <<rows, seen, overtaken>> \/ \E w \in Workers : PutRow(w)
         /\ srv' = srv \/ \E n \in Nodes, p \in Paths \cup {None} : Publish(n, p)
<1>1. ASSUME NEW w \in Workers, CopyAction(w) PROVE UNCHANGED <<srv, rows, seen, overtaken>>
  BY <1>1 DEF CopyAction, Fetch, Mark, RemoveLocal, GetRow, CreateFile, Download, SetLocal,
     DeleteLocal, Spoil, history
<1>2. ASSUME NEW w \in Workers, Refresh(w) PROVE UNCHANGED <<srv, rows, seen, overtaken>>
  BY <1>2 DEF Refresh, Refreshing
<1>3. ASSUME NEW w \in Workers, Mutate(w)
      PROVE  /\ UNCHANGED <<rows, seen, overtaken>>
             /\ \E n \in Nodes, p \in Paths \cup {None} : Publish(n, p)
  BY <1>3 DEF Mutate, Refreshing
<1>4. ASSUME NEW w \in Workers,
             GetPage(w) \/ Apply(w) \/ MendLocal(w) \/ StoreCursor(w) \/ EndPage(w) \/ Fail(w)
      PROVE  UNCHANGED <<srv, rows, seen, overtaken>>
  BY <1>4 DEF GetPage, Apply, MendLocal, StoreCursor, EndPage, Fail, Spoil, history
<1>5. ASSUME NEW w \in Workers, PutRow(w) PROVE srv' = srv
  BY <1>5 DEF PutRow
<1>6. CASE Remote
  BY <1>6 DEF Remote, Spoil
<1>7. CASE UNCHANGED vars
  BY <1>7 DEF vars, history
<1> QED
  BY <1>1, <1>2, <1>3, <1>4, <1>5, <1>6, <1>7 DEF Next, Start, Work, CopyAction

LEMMA PublishStep ==
  ASSUME TypeOK, VersionsInOrder, NEW n \in Nodes, NEW p \in Paths \cup {None}, Publish(n, p)
  PROVE  srv'[n].ver = head + 1 /\ \A m \in Nodes : m # n => srv'[m] = srv[m]
  BY DEF TypeOK, Publish

LEMMA RowsKeptStep ==
  ASSUME TypeOK, VersionsInOrder, PagesInOrder, RowsKept, [Next]_vars
  PROVE  RowsKept'
<1>0. /\ \A n \in Nodes : srv[n].ver \in Nat /\ rows[n].ver \in Nat /\ seen[n] \in Nat
      /\ head \in Nat /\ srv \in [Nodes -> Row]
  BY DEF TypeOK, Row
<1> DEFINE Kept(n) == /\ seen[n] =< srv[n].ver
                      /\ Arrived(n) /\ n \notin overtaken => InIndex(n)
                      /\ Known(n) => /\ rows[n].ver =< seen[n]
                                     /\ n \notin overtaken => rows[n].ver = seen[n]
<1>1. \A n \in Nodes : Kept(n)
  BY DEF RowsKept
<1>2. ASSUME NEW n \in Nodes, srv'[n] = srv[n], rows'[n] = rows[n], seen'[n] = seen[n],
             n \in overtaken' <=> n \in overtaken
      PROVE  Kept(n)'
  BY <1>1, <1>2 DEF Arrived, InIndex, Known
<1>3. CASE UNCHANGED <<rows, seen, overtaken>>
  <2>1. ASSUME NEW k \in Nodes, NEW p \in Paths \cup {None}, Publish(k, p), NEW n \in Nodes
        PROVE  Kept(n)'
    <3>1. srv'[k].ver = head + 1 /\ \A m \in Nodes : m # k => srv'[m] = srv[m]
      BY <2>1, PublishStep
    <3>2. CASE n = k
      <4>1. seen[n] < srv'[n].ver
        BY <1>0, <1>1, <3>1, <3>2 DEF VersionsInOrder
      <4>2. seen[n] # srv'[n].ver /\ seen[n] =< srv'[n].ver
        BY <1>0, <3>1, <3>2, <4>1
      <4> QED
        BY <1>1, <1>3, <4>2 DEF Arrived, Known
    <3>3. CASE n # k
      BY <1>2, <1>3, <3>1, <3>3
    <3> QED
      BY <3>2, <3>3
  <2>2. CASE srv' = srv
    BY <1>2, <1>3, <2>2 DEF RowsKept
  <2> HIDE DEF Kept
  <2>3. \A n \in Nodes : Kept(n)'
    BY <1>2, <1>3, <2>1, IndexUntouched
  <2> QED
    BY <2>3 DEF RowsKept, Kept
<1>4. ASSUME NEW w \in Workers, PutRow(w) PROVE RowsKept'
  <2>0. PICK n \in Nodes : n = call[w].node
    BY <1>4, PutNode
  <2> DEFINE c == call[w]
  <2>1. /\ \A m \in Nodes : m # n => /\ rows'[m] = rows[m] /\ seen'[m] = seen[m]
                                     /\ m \in overtaken' <=> m \in overtaken
        /\ rows'[n] = IF c.path = None THEN NoRow ELSE [path |-> c.path, ver |-> c.ver]
        /\ \/ c.ver < seen[n] /\ seen'[n] = seen[n] /\ n \in overtaken'
           \/ seen[n] =< c.ver /\ seen'[n] = c.ver /\ n \notin overtaken'
        /\ c.ver =< srv[n].ver /\ srv' = srv
        /\ c.ver = srv[n].ver => c.path = srv[n].path
    BY <1>4, <2>0, PutStep
  <2>2. Kept(n)'
    <3>1. seen'[n] =< srv'[n].ver
      BY <1>0, <1>1, <2>1
    <3>2. Known(n)' => rows'[n].ver =< seen'[n] /\ (n \notin overtaken' => rows'[n].ver = seen'[n])
      <4>0. c.ver \in Nat
        BY DEF TypeOK, Call
      <4>1. Known(n)' => rows'[n].ver = c.ver
        BY <2>1 DEF Known, NoRow
      <4> QED
        BY <1>0, <2>1, <4>0, <4>1
    <3>3. seen'[n] = srv'[n].ver /\ n \notin overtaken' => InIndex(n)'
      <4> SUFFICES ASSUME c.ver = srv[n].ver PROVE InIndex(n)'
        BY <2>1
      <4>1. srv[n] = [path |-> srv[n].path, ver |-> srv[n].ver]
        BY <1>0 DEF Row
      <4> QED
        BY <2>1, <4>1 DEF InIndex, Known, NoRow
    <3> QED
      BY <3>1, <3>2, <3>3 DEF Arrived
  <2>3. \A m \in Nodes : Kept(m)'
    BY <1>2, <2>1, <2>2
  <2> QED
    BY <2>3 DEF RowsKept
<1> QED
  BY <1>3, <1>4, IndexUntouched

\* What has arrived has arrived, until the server changes it.
LEMMA ArrivedStays ==
  ASSUME TypeOK, VersionsInOrder, PagesInOrder, RowsKept, [Next]_vars, NEW n \in Nodes,
         srv'[n].ver =< head
  PROVE  srv'[n] = srv[n] /\ (Arrived(n) => Arrived(n)')
<1>0. head \in Nat /\ srv[n].ver \in Nat /\ seen[n] \in Nat
  BY DEF TypeOK, Row
<1>1. srv'[n] = srv[n]
  <2>1. ASSUME NEW k \in Nodes, NEW p \in Paths \cup {None}, Publish(k, p)
        PROVE  srv'[n] = srv[n]
    BY <1>0, <2>1, PublishStep
  <2> QED
    BY <2>1, IndexUntouched
<1>2. seen[n] =< seen'[n]
  <2>1. ASSUME NEW w \in Workers, PutRow(w) PROVE seen[n] =< seen'[n]
    BY <2>1, SeenGrows
  <2> QED
    BY <1>0, <2>1, IndexUntouched
<1>3. seen'[n] =< srv'[n].ver /\ seen'[n] \in Nat
  BY RowsKeptStep, TypeStep DEF RowsKept, TypeOK
<1> QED
  BY <1>0, <1>1, <1>2, <1>3 DEF Arrived

LEMMA ArrivedToStays ==
  ASSUME TypeOK, VersionsInOrder, PagesInOrder, RowsKept, [Next]_vars, NEW ver \in Nat,
         ver =< head, ArrivedTo(ver)
  PROVE  ArrivedTo(ver)'
<1> SUFFICES ASSUME NEW n \in Nodes, srv'[n].ver =< ver PROVE Arrived(n)'
  BY DEF ArrivedTo
<1>0. srv'[n].ver \in Nat /\ head \in Nat
  <2>1. TypeOK'
    BY TypeStep
  <2> QED
    BY <2>1 DEF TypeOK, Row
<1>1. srv'[n].ver =< head
  BY <1>0
<1>2. srv'[n] = srv[n] /\ (Arrived(n) => Arrived(n)')
  BY <1>1, ArrivedStays
<1> QED
  BY <1>2 DEF ArrivedTo

LEMMA CoveredStep ==
  ASSUME TypeOK, VersionsInOrder, PagesInOrder, Covered, [Next]_vars
  PROVE  Covered'
<1> USE DEF Between, Idle, NoPull
<1>0. /\ srv \in [Nodes -> Row] /\ rows \in [Nodes -> Row]
      /\ call \in [Workers -> Call] /\ pull \in [Workers -> Pull]
  BY DEF TypeOK
<1>N. /\ head \in Nat /\ cursor \in Nat
      /\ \A m \in Nodes : srv[m].ver \in Nat /\ srv'[m].ver \in Nat
      /\ \A v \in Workers : /\ call[v].ver \in Nat /\ pull[v].since \in Nat
                             /\ pull[v].next \in Nat
                             /\ \A e \in pull[v].page : e \in Change /\ e.ver \in Nat /\ e.node \in Nodes
  <2>1. TypeOK'
    BY TypeStep
  <2> QED
    BY <2>1 DEF TypeOK, Row, Call, Pull, Change
<1>C. RowsKept /\ ArrivedTo(cursor) /\ \A w \in Workers : CoversPull(w)
  BY DEF Covered
<1>K. RowsKept'
  BY <1>C, RowsKeptStep
<1>V. \A v \in Workers : call[v].ver =< head /\ pull[v].since =< head /\ pull[v].next =< head
  BY DEF VersionsInOrder
<1>A. ASSUME NEW ver \in Nat, ver =< head, ArrivedTo(ver) PROVE ArrivedTo(ver)'
  BY <1>A, <1>C, ArrivedToStays
<1>B. ASSUME NEW v \in Workers, pull'[v].next = pull[v].next, pull'[v].page = pull[v].page, InPage(v),
             NEW n \in Nodes, srv'[n].ver =< pull[v].next
      PROVE  Arrived(n)' \/ \E e \in pull'[v].page : e.node = n
  <2>1. srv'[n].ver =< head
    BY <1>B, <1>N, <1>V
  <2>2. srv'[n] = srv[n] /\ (Arrived(n) => Arrived(n)')
    BY <1>C, <2>1, ArrivedStays
  <2> QED
    BY <1>B, <1>C, <2>2 DEF CoversPull
<1>1. ASSUME NEW v \in Workers, call'[v] = call[v], pull'[v] = pull[v] PROVE CoversPull(v)'
  <2>1. At(v, "asking")' => ArrivedTo(pull[v].since)'
    BY <1>1, <1>A, <1>C, <1>N, <1>V DEF CoversPull, At
  <2>2. At(v, "marking")' => ArrivedTo(call[v].ver)'
    BY <1>1, <1>A, <1>C, <1>N, <1>V DEF CoversPull, At
  <2>3. InPage(v)' => \A n \in Nodes : srv'[n].ver =< pull'[v].next
                        => Arrived(n)' \/ \E e \in pull'[v].page : e.node = n
    BY <1>1, <1>B DEF InPage
  <2> QED
    BY <1>1, <2>1, <2>2, <2>3 DEF CoversPull, ArrivedTo, Arrived
<1>2. ASSUME NEW v \in Workers, ~At(v, "asking")', ~InPage(v)' PROVE CoversPull(v)'
  BY <1>2 DEF CoversPull, At, InPage
<1>3. ArrivedTo(cursor)' \/ cursor' # cursor
  BY <1>A, <1>C, <1>N DEF VersionsInOrder, ArrivedTo, Arrived
<1>4. ASSUME NEW w \in Workers, Start(w) \/ Work(w) \/ Fail(w), ArrivedTo(cursor)', CoversPull(w)'
      PROVE  Covered'
  <2>1. \A v \in Workers : CoversPull(v)'
    BY <1>1, <1>4, OneWorker
  <2> QED
    BY <1>4, <1>K, <2>1 DEF Covered
<1>6. ASSUME NEW w \in Workers, CopyAction(w) PROVE ArrivedTo(cursor)' /\ CoversPull(w)'
  <2>1. PICK c \in Call : call' = [call EXCEPT ![w] = c] /\ c.stage \in CopyStages
    BY <1>6, CopyStep
  <2>2. cursor' = cursor
    BY <1>6, CopyStep
  <2>3. ~At(w, "asking")' /\ ~InPage(w)'
    BY <1>0, <2>1 DEF At, InPage, CopyStages
  <2> QED
    BY <1>2, <1>3, <2>2, <2>3
<1>7. ASSUME NEW w \in Workers, Refresh(w) \/ Mutate(w) PROVE ArrivedTo(cursor)' /\ CoversPull(w)'
  <2>1. \E asked \in {head, head + 1} : Refreshing(w, asked)
    BY <1>7, Zenon DEF Refresh, Mutate
  <2>2. cursor' = cursor
    BY <1>7 DEF Refresh, Mutate
  <2>3. call'[w].stage = "asking" /\ pull'[w].since = cursor
    BY <1>0, <2>1 DEF Refreshing, Enter, SetPull
  <2>4. ArrivedTo(cursor)'
    BY <1>3, <2>2
  <2> QED
    BY <2>2, <2>3, <2>4 DEF CoversPull, At, InPage, ArrivedTo, Arrived
<1>10. ASSUME NEW w \in Workers, GetPage(w) PROVE ArrivedTo(cursor)' /\ CoversPull(w)'
  <2>1. PICK next \in Ends(w) : Answer(w, next)
    BY <1>10 DEF GetPage
  <2>2. /\ call'[w].stage = "applying" /\ UNCHANGED <<srv, rows, cursor, seen>> /\ At(w, "asking")
        /\ pull'[w].page = PageTo(w, next) /\ pull'[w].next = next
    BY <1>0, <1>10, <2>1 DEF GetPage, Answer, SetPull, To, Copying, Enter, history
  <2>3. next \in Nat
    BY <1>N DEF Ends
  <2>4. \A n \in Nodes : srv[n].ver =< next => Arrived(n) \/ \E e \in PageTo(w, next) : e.node = n
    <3> SUFFICES ASSUME NEW n \in Nodes, srv[n].ver =< next, srv[n].ver > pull[w].since
                 PROVE  \E e \in PageTo(w, next) : e.node = n
      BY <1>N, <1>C, <2>2 DEF CoversPull, ArrivedTo
    <3>1. [node |-> n, path |-> srv[n].path, ver |-> srv[n].ver] \in PageTo(w, next)
      BY DEF PageTo
    <3> QED
      BY <3>1
  <2>5. CoversPull(w)'
    BY <2>2, <2>4 DEF CoversPull, At, InPage, Arrived
  <2> QED
    BY <1>3, <2>2, <2>5
<1>12. ASSUME NEW w \in Workers, Apply(w) \/ MendLocal(w) PROVE ArrivedTo(cursor)' /\ CoversPull(w)'
  <2>1. InPage(w) /\ call'[w].stage \in {"applying", "relocating", "dropping", "putting"}
        /\ UNCHANGED <<cursor, pull>>
    <3>1. CASE Apply(w)
      BY <1>0, <3>1 DEF Apply, At, InPage, Copying, Enter
    <3>2. CASE MendLocal(w)
      BY <1>0, <3>2 DEF MendLocal, At, InPage, To, Copying, Enter
    <3> QED
      BY <1>12, <3>1, <3>2
  <2>2. \A n \in Nodes : srv'[n].ver =< pull'[w].next
                        => Arrived(n)' \/ \E e \in pull'[w].page : e.node = n
    BY <1>B, <2>1
  <2> QED
    BY <1>3, <2>1, <2>2 DEF CoversPull, At
<1>13. ASSUME NEW w \in Workers, PutRow(w) PROVE ArrivedTo(cursor)' /\ CoversPull(w)'
  <2> DEFINE c == call[w]
  <2>0. PICK n \in Nodes : n = call[w].node
    BY <1>13, PutNode
  <2>1. /\ InPage(w) /\ InEntry(w) /\ EntryOf(w) \in pull[w].page
        /\ pull'[w].page = {e \in pull[w].page : e.node # n} /\ pull'[w].next = pull[w].next
        /\ call'[w].stage \in {"applying", "marking"}
        /\ call'[w].stage = "marking" => call'[w].ver = c.ver
        /\ UNCHANGED <<srv, cursor>>
    BY <1>13, <2>0, PutPageStep
  <2>2. seen'[n] = IF c.ver < seen[n] THEN seen[n] ELSE c.ver
    BY <1>13, <2>0 DEF PutRow, TypeOK
  <2>3. PageOK(w) /\ \A f \in pull[w].page : c.ver =< f.ver
    BY <2>1 DEF PagesInOrder, PageOK
  <2>4. EntryOf(w).node = n /\ EntryOf(w).ver = c.ver
    BY <2>0 DEF EntryOf
  <2>5. srv[n].ver =< pull[w].next => Arrived(n)'
    <3>1. seen[n] =< srv[n].ver /\ seen[n] \in Nat
      BY <1>C DEF RowsKept, TypeOK
    <3>2. srv[n].ver =< pull[w].next => c.ver = srv[n].ver
      BY <2>1, <2>3, <2>4 DEF PageOK, EntriesOK
    <3>3. c.ver \in Nat /\ srv[n].ver \in Nat
      BY <1>N
    <3> QED
      BY <2>1, <2>2, <3>1, <3>2, <3>3 DEF Arrived
  <2>6. \A m \in Nodes : Arrived(m) => Arrived(m)'
    <3>1. ASSUME NEW m \in Nodes PROVE srv'[m].ver =< head
      BY <2>1 DEF VersionsInOrder
    <3> QED
      BY <1>C, <3>1, ArrivedStays
  <2>9. \A m \in Nodes : srv[m].ver =< pull[w].next
           => Arrived(m)' \/ \E e \in pull'[w].page : e.node = m
    BY <1>C, <2>1, <2>5, <2>6 DEF CoversPull
  <2>10. \A m \in Nodes : srv[m].ver =< c.ver => Arrived(m)'
    <3>1. c.ver =< pull[w].next
      BY <2>1, <2>3, <2>4 DEF PageOK, EntriesOK
    <3>2. ASSUME NEW m \in Nodes, srv[m].ver =< c.ver, m # n PROVE Arrived(m)
      <4>1. srv[m].ver =< pull[w].next
        BY <1>N, <3>1, <3>2
      <4>2. CASE \E e \in pull[w].page : e.node = m
        <5>1. PICK e \in pull[w].page : e.node = m
          BY <4>2
        <5>2. e.ver = srv[m].ver
          BY <2>3, <4>1, <5>1 DEF PageOK, EntriesOK
        <5>3. e.ver = c.ver
          BY <1>N, <2>3, <3>2, <5>1, <5>2
        <5>4. e = EntryOf(w)
          BY <2>1, <2>3, <2>4, <5>1, <5>3 DEF PageOK, EntriesOK
        <5> QED
          BY <2>4, <3>2, <5>1, <5>4
      <4> QED
        BY <1>C, <2>1, <4>1, <4>2 DEF CoversPull
    <3>3. srv[n].ver =< c.ver => srv[n].ver =< pull[w].next
      BY <1>N, <3>1
    <3> QED
      BY <2>5, <2>6, <3>2, <3>3
  <2>11. CoversPull(w)'
    <3>1. /\ ~At(w, "asking")'
          /\ \A m \in Nodes : srv'[m].ver =< pull'[w].next
               => Arrived(m)' \/ \E e \in pull'[w].page : e.node = m
      BY <2>1, <2>9 DEF At
    <3>2. At(w, "marking")' => \A m \in Nodes : srv'[m].ver =< call'[w].ver => Arrived(m)'
      BY <2>1, <2>10 DEF At
    <3> QED
      BY <3>1, <3>2 DEF CoversPull, ArrivedTo
  <2> QED
    BY <1>3, <2>1, <2>11
<1>14. ASSUME NEW w \in Workers, StoreCursor(w) PROVE ArrivedTo(cursor)' /\ CoversPull(w)'
  <2>1. /\ At(w, "marking") /\ InPage(w) /\ call'[w].stage = "applying"
        /\ UNCHANGED <<srv, rows, pull, seen>> /\ cursor' = call[w].ver
    BY <1>0, <1>14 DEF StoreCursor, Enter, At, InPage, history
  <2> QED
    BY <1>C, <2>1 DEF CoversPull, ArrivedTo, Arrived, At, InPage
<1>15. ASSUME NEW w \in Workers, EndPage(w) PROVE ArrivedTo(cursor)' /\ CoversPull(w)'
  <2>1. /\ At(w, "applying") /\ InPage(w) /\ pull[w].page = {} /\ UNCHANGED <<srv, rows, seen>>
        /\ cursor' \in {cursor, pull[w].next}
        /\ \/ call'[w].stage = "idle"
           \/ call'[w].stage = "asking" /\ pull'[w].since = pull[w].next
    BY <1>0, <1>15 DEF EndPage, At, InPage, To, Copying, Enter, SetPull, history
  <2>2. \A n \in Nodes : srv[n].ver =< pull[w].next => Arrived(n)
    BY <1>C, <2>1 DEF CoversPull
  <2>3. ArrivedTo(cursor)'
    BY <1>C, <2>1, <2>2 DEF ArrivedTo, Arrived
  <2>4. CoversPull(w)'
    BY <2>1, <2>2 DEF CoversPull, ArrivedTo, Arrived, At, InPage
  <2> QED
    BY <2>3, <2>4
<1>16. ASSUME NEW w \in Workers, Fail(w) PROVE ArrivedTo(cursor)' /\ CoversPull(w)'
  <2>1. call'[w].stage = "idle" /\ cursor' = cursor
    BY <1>0, <1>16 DEF Fail, Return, Enter
  <2> QED
    BY <1>2, <1>3, <2>1 DEF At, InPage
<1>17. CASE Remote \/ UNCHANGED vars
  <2>1. UNCHANGED <<cursor, call, pull>>
    BY <1>17 DEF Remote, vars
  <2> QED
    BY <1>1, <1>3, <1>K, <2>1 DEF Covered
<1>19. ASSUME NEW w \in Workers, Start(w) \/ Work(w) \/ Fail(w)
       PROVE  ArrivedTo(cursor)' /\ CoversPull(w)'
  BY <1>6, <1>7, <1>10, <1>12, <1>13, <1>14, <1>15, <1>16, <1>19
     DEF Start, Work, CopyAction
<1> QED
  BY <1>4, <1>17, <1>19 DEF Next

LEMMA OneRefreshStep ==
  ASSUME TypeOK, PagesInOrder, RowsKept, OneRefresh, [Next]_vars
  PROVE  OneRefresh'
<1> USE DEF Between, Idle, NoPull, RefreshStages
<1>0. /\ call \in [Workers -> Call] /\ pull \in [Workers -> Pull] /\ raced \in BOOLEAN
      /\ \A n \in Nodes : seen[n] \in Nat /\ srv[n].ver \in Nat
      /\ \A v \in Workers : \A e \in pull[v].page : e.ver \in Nat /\ e.node \in Nodes
  BY DEF TypeOK, Row, Pull, Change
<1>1. \A v \in Workers : ~InRefresh(v) => pull[v].page = {}
  BY DEF PagesInOrder, PageOK, InPage, InRefresh
<1>2. ASSUME raced' = raced, UNCHANGED <<seen, overtaken>>,
             \A v \in Workers : InRefresh(v)' => InRefresh(v),
             \A v \in Workers : \A e \in pull'[v].page :
                e \in pull[v].page \/ (e.node \in Nodes /\ e.ver = srv[e.node].ver)
      PROVE  OneRefresh'
  <2> SUFFICES ASSUME ~raced, NEW v \in Workers, NEW e \in pull'[v].page PROVE seen[e.node] =< e.ver
    BY <1>2 DEF OneRefresh
  <2> QED
    BY <1>2 DEF OneRefresh, RowsKept
<1>3. ASSUME NEW w \in Workers, CopyAction(w) PROVE OneRefresh'
  <2>1. PICK c \in Call : call' = [call EXCEPT ![w] = c] /\ c.stage \in CopyStages
    BY <1>3, CopyStep
  <2>2. pull' = pull
    BY <1>3, CopyStep
  <2>3. UNCHANGED <<seen, overtaken, raced>>
    BY <1>3 DEF CopyAction, Fetch, Mark, RemoveLocal, GetRow, CreateFile, Download, SetLocal,
       DeleteLocal, Spoil, history
  <2>4. \A v \in Workers : InRefresh(v)' => InRefresh(v)
    BY <1>0, <2>1 DEF InRefresh, CopyStages
  <2> QED
    BY <1>2, <2>2, <2>3, <2>4
<1>4. ASSUME NEW w \in Workers, Refresh(w) \/ Mutate(w) PROVE OneRefresh'
  <2>1. PICK asked \in {head, head + 1} : Refreshing(w, asked)
    BY <1>4, Zenon DEF Refresh, Mutate
  <2>2. /\ raced' = (raced \/ \E v \in Workers : InRefresh(v)) /\ UNCHANGED <<seen, overtaken>>
        /\ pull'[w].page = {} /\ \A v \in Workers : v # w => call'[v] = call[v] /\ pull'[v] = pull[v]
    BY <1>0, <2>1 DEF Refreshing, Enter, SetPull, InRefresh
  <2> SUFFICES ASSUME ~raced, \A v \in Workers : ~InRefresh(v) PROVE OneRefresh'
    BY <1>0, <2>2 DEF OneRefresh
  <2>3. \A v \in Workers : v # w => ~InRefresh(v)'
    BY <2>2 DEF InRefresh
  <2>4. \A v \in Workers : pull'[v].page = {}
    BY <1>1, <2>2
  <2> QED
    BY <2>2, <2>3, <2>4 DEF OneRefresh
<1>5. ASSUME NEW w \in Workers, GetPage(w) PROVE OneRefresh'
  <2>1. PICK next \in Ends(w) : Answer(w, next)
    BY <1>5 DEF GetPage
  <2>2. \A v \in Workers : pull'[v] = pull[v] \/ pull'[v].page = PageTo(w, next)
    BY <1>0, <2>1 DEF Answer, SetPull
  <2>3. UNCHANGED <<seen, overtaken, raced>> /\ \A v \in Workers : InRefresh(v)' => InRefresh(v)
    BY <1>0, <1>5 DEF GetPage, history, InRefresh, At, To, Copying, Enter
  <2>4. \A e \in PageTo(w, next) : e.node \in Nodes /\ e.ver = srv[e.node].ver
    BY DEF PageTo
  <2>5. \A v \in Workers : \A e \in pull'[v].page :
           e \in pull[v].page \/ (e.node \in Nodes /\ e.ver = srv[e.node].ver)
    BY <2>2, <2>4
  <2> QED
    BY <1>2, <2>3, <2>5
<1>6. ASSUME NEW w \in Workers, Apply(w) PROVE OneRefresh'
  <2>1. UNCHANGED <<seen, overtaken, raced, pull>>
    BY <1>6 DEF Apply, Spoil
  <2>2. \A v \in Workers : InRefresh(v)' => InRefresh(v)
    BY <1>0, <1>6 DEF Apply, InRefresh, At, Copying, Enter
  <2> QED
    BY <1>2, <2>1, <2>2
<1>7. ASSUME NEW w \in Workers, MendLocal(w) \/ StoreCursor(w) PROVE OneRefresh'
  <2>1. UNCHANGED <<seen, overtaken, raced, pull>>
    BY <1>7 DEF MendLocal, StoreCursor, history
  <2>2. \A v \in Workers : InRefresh(v)' => InRefresh(v)
    BY <1>0, <1>7 DEF MendLocal, StoreCursor, InRefresh, At, To, Copying, Enter
  <2> QED
    BY <1>2, <2>1, <2>2
<1>8. ASSUME NEW w \in Workers, EndPage(w) \/ Fail(w) PROVE OneRefresh'
  <2>1. UNCHANGED <<seen, overtaken, raced>>
    BY <1>8 DEF EndPage, Fail, history
  <2>2. \A v \in Workers : InRefresh(v)' => InRefresh(v)
    <3>1. CASE EndPage(w)
      BY <1>0, <3>1 DEF EndPage, InRefresh, At, To, Copying, Enter
    <3>2. CASE Fail(w)
      BY <1>0, <3>2 DEF Fail, Return, InRefresh, Enter
    <3> QED
      BY <1>8, <3>1, <3>2
  <2>3. \A v \in Workers : pull'[v].page \subseteq pull[v].page
    <3>1. CASE EndPage(w)
      BY <1>0, <3>1 DEF EndPage, SetPull
    <3>2. CASE Fail(w)
      BY <1>0, <3>2 DEF Fail, Return
    <3> QED
      BY <1>8, <3>1, <3>2
  <2> QED
    BY <1>2, <2>1, <2>2, <2>3
<1>9. ASSUME NEW w \in Workers, PutRow(w) PROVE OneRefresh'
  <2>0. PICK n \in Nodes : n = call[w].node
    BY <1>9, PutNode
  <2>1. /\ InEntry(w) /\ EntryOf(w) \in pull[w].page
        /\ pull'[w].page = {e \in pull[w].page : e.node # n}
        /\ call'[w].stage \in {"applying", "marking"} /\ raced' = raced
    BY <1>9, <2>0, PutPageStep
  <2>2. /\ \A m \in Nodes : m # n => /\ rows'[m] = rows[m] /\ seen'[m] = seen[m]
                                     /\ m \in overtaken' <=> m \in overtaken
        /\ \/ call[w].ver < seen[n] /\ seen'[n] = seen[n] /\ n \in overtaken'
           \/ seen[n] =< call[w].ver /\ seen'[n] = call[w].ver /\ n \notin overtaken'
    <3>1. /\ \A m \in Nodes : m # n => rows'[m] = rows[m]
          /\ \A m \in Nodes : m # n => seen'[m] = seen[m] /\ (m \in overtaken' <=> m \in overtaken)
      BY <1>9, <2>0 DEF PutRow, TypeOK
    <3>2. call[w].ver < seen[n] => seen'[n] = seen[n] /\ n \in overtaken'
      BY <1>9, <2>0 DEF PutRow
    <3>3. ~(call[w].ver < seen[n]) => seen'[n] = call[w].ver /\ n \notin overtaken'
      BY <1>9, <2>0 DEF PutRow, TypeOK
    <3>4. call[w].ver \in Nat /\ seen[n] \in Nat
      BY <1>0 DEF TypeOK, Call
    <3> QED
      BY <3>1, <3>2, <3>3, <3>4
  <2>3. \A v \in Workers : v # w => call'[v] = call[v] /\ pull'[v] = pull[v]
    BY <1>9, OneWorker DEF Work
  <2> SUFFICES ASSUME ~raced PROVE OneRefresh'
    BY <2>1 DEF OneRefresh
  <2>4. /\ overtaken = {} /\ \A v \in Workers : \A e \in pull[v].page : seen[e.node] =< e.ver
        /\ \A v, u \in Workers : InRefresh(v) /\ InRefresh(u) => v = u
    BY DEF OneRefresh
  <2>5. seen[n] =< call[w].ver
    BY <2>0, <2>1, <2>4 DEF EntryOf
  <2>6. n \notin overtaken'
    <3>1. call[w].ver \in Nat /\ seen[n] \in Nat
      BY <1>0 DEF Call
    <3> QED
      BY <2>2, <2>5, <3>1
  <2>7. overtaken' = {}
    <3>1. overtaken' \subseteq Nodes
      BY TypeStep DEF TypeOK
    <3> QED
      BY <2>2, <2>4, <2>6, <3>1
  <2>8. InRefresh(w)
    BY <2>1 DEF InEntry, InRefresh
  <2>9. \A v \in Workers : v # w => pull'[v].page = {} /\ ~InRefresh(v)'
    BY <1>1, <2>3, <2>4, <2>8 DEF InRefresh
  <2>10. \A e \in pull'[w].page : seen'[e.node] =< e.ver
    BY <1>0, <2>1, <2>2, <2>4
  <2> QED
    BY <2>7, <2>9, <2>10 DEF OneRefresh
<1>10. CASE Remote
  BY <1>2, <1>10 DEF Remote, Spoil, InRefresh
<1>11. CASE UNCHANGED vars
  BY <1>2, <1>11 DEF vars, history, InRefresh
<1> QED
  BY <1>3, <1>4, <1>5, <1>6, <1>7, <1>8, <1>9, <1>10, <1>11 DEF Next, Start, Work, CopyAction

\* The inductive invariant of the theorems below.
IndexInv == TypeOK /\ VersionsInOrder /\ PagesInOrder /\ Covered /\ OneRefresh

LEMMA IndexInvHolds == Spec => []IndexInv
<1>1. Init => IndexInv
  <2> SUFFICES ASSUME Init PROVE IndexInv
    OBVIOUS
  <2>1. TypeOK
    BY InitTypes
  <2> USE DEF Init
  <2>2. VersionsInOrder
    BY DEF VersionsInOrder, NoRow, NoLocal, Idle, Between, NoPull
  <2>3. PagesInOrder
    BY DEF PagesInOrder, PageOK, EntriesOK, InPage, InEntry, Idle, Between, NoPull
  <2>4. Covered
    BY DEF Covered, CoversPull, RowsKept, ArrivedTo, Arrived, InIndex, Known, At, InPage,
       Idle, Between, NoRow
  <2>5. OneRefresh
    BY DEF OneRefresh, InRefresh, RefreshStages, Idle, Between, NoPull
  <2> QED
    BY <2>1, <2>2, <2>3, <2>4, <2>5 DEF IndexInv
<1>2. IndexInv /\ [Next]_vars => IndexInv'
  BY TypeStep, VersionsStep, PagesStep, CoveredStep, OneRefreshStep DEF IndexInv, Covered
<1> QED
  BY <1>1, <1>2, PTL DEF Spec

LEMMA ArrivedInIndex ==
  ASSUME IndexInv, NEW n \in Nodes, Arrived(n)
  PROVE  InIndex(n) \/ Overwritten(n)
  BY DEF IndexInv, Covered, RowsKept, OneRefresh, Overwritten

\* The cursor passes no change that is not in the index, however many refreshes
\* overlap and wherever they are broken off, except where a slower refresh has put
\* an older row over a newer one.
THEOREM IndexCovered == Spec => []CursorCoversIndex
<1>1. IndexInv => CursorCoversIndex
  BY ArrivedInIndex DEF IndexInv, Covered, ArrivedTo, CursorCoversIndex
<1> QED
  BY <1>1, IndexInvHolds, PTL

\* ... and, with the same exception, a Refresh that ends well leaves nothing out
\* that was there when it began.
THEOREM RefreshesAreComplete == Spec => RefreshIsComplete
<1> DEFINE Ended(w) == \A n \in Nodes : srv[n].ver =< pull[w].asked => InIndex(n) \/ Overwritten(n)
<1>1. IndexInv => [\A w \in Workers : EndPage(w) /\ At(w, "idle")' => Ended(w)]_vars
  <2> SUFFICES ASSUME IndexInv, NEW w \in Workers, EndPage(w), At(w, "idle")' PROVE Ended(w)
    OBVIOUS
  <2>1. call \in [Workers -> Call] /\ At(w, "applying") /\ InPage(w) /\ pull[w].page = {}
    BY DEF IndexInv, TypeOK, EndPage, At, InPage
  <2>2. ~(pull[w].more /\ (app = "mobile" \/ pull[w].next > pull[w].since))
    BY <2>1 DEF EndPage, At, To, Copying, Enter
  <2>3. /\ pull[w].since \in Nat /\ pull[w].next \in Nat /\ pull[w].since =< pull[w].next
        /\ pull[w].since = pull[w].next => ~pull[w].more
        /\ ~pull[w].more => \A n \in Nodes : srv[n].ver =< pull[w].asked => srv[n].ver =< pull[w].next
    BY <2>1 DEF IndexInv, TypeOK, Pull, PagesInOrder, PageOK
  <2>4. ~pull[w].more
    BY <2>2, <2>3
  <2>5. \A n \in Nodes : srv[n].ver =< pull[w].next => Arrived(n)
    BY <2>1 DEF IndexInv, Covered, CoversPull
  <2> QED
    BY <2>3, <2>4, <2>5, ArrivedInIndex
<1> QED
  BY <1>1, IndexInvHolds, PTL DEF RefreshIsComplete

-----------------------------------------------------------------------------
(* The copies on the desktop, node by node: nothing is said of those that  *)
(* are spoiled.                                                            *)

\* Two nodes known by one path are both spoiled.
OneOwner == \A m, n \in Nodes, p \in Paths :
               Claims(m, p) /\ Claims(n, p) => m = n \/ {m, n} \subseteq spoiled

\* One call at a time works on a node, and only a download has a file open.
OneHand == \A n \in Nodes \ spoiled : \A v, w \in Workers :
              call[v].node = n /\ call[w].node = n => v = w
Handles == \A w \in Workers : handle[w] # None => At(w, "downloading")

Holds(p, n, v) == HasFile(p) => disk[p].node = n /\ disk[p].ver >= v

\* A copy of the last version that was in the index is what a fresh row is about.
Trusted(n) == Copied(n) /\ local[n].ver = seen[n]

FilesHold == \A n \in Nodes \ spoiled :
                /\ local[n].ver =< seen[n]
                /\ Trusted(n) => Holds(local[n].path, n, local[n].ver)

\* What a call at work on a copy knows of it.
CopyInHand(w) ==
    LET c == call[w]
    IN  /\ c.stage \in {"getting", "creating", "downloading"} => ~Trusted(c.node)
        /\ c.stage \in {"creating", "downloading", "recording"} => c.ver =< seen[c.node]
        /\ c.stage = "downloading" => handle[w] = c.path
        /\ c.stage = "recording" /\ c.ver = seen[c.node] => Holds(c.path, c.node, c.ver)
        /\ c.stage = "relocating" /\ Trusted(c.node) => Holds(c.path, c.node, local[c.node].ver)

InHand == \A w \in Workers : call[w].node \notin spoiled => CopyInHand(w)

CopiesInOrder == app = "desktop" => OneOwner /\ OneHand /\ Handles /\ FilesHold /\ InHand

DeskInv == app = "desktop" /\ IndexInv /\ OneOwner /\ OneHand /\ Handles /\ FilesHold /\ InHand

LEMMA DeskTypes ==
  ASSUME TypeOK
  PROVE  /\ srv \in [Nodes -> Row] /\ rows \in [Nodes -> Row] /\ local \in [Nodes -> Local]
         /\ disk \in [Paths -> File] /\ call \in [Workers -> Call] /\ pull \in [Workers -> Pull]
         /\ handle \in [Workers -> Paths \cup {None}]
         /\ \A n \in Nodes : /\ srv[n].ver \in Nat /\ rows[n].ver \in Nat /\ local[n].ver \in Nat
                             /\ srv[n].path \in Paths \cup {None}
                             /\ rows[n].path \in Paths \cup {None}
                             /\ local[n].path \in Paths \cup {None}
         /\ \A w \in Workers : /\ call[w].path \in Paths \cup {None} /\ call[w].ver \in Nat
                               /\ \A e \in pull[w].page : /\ e.node \in Nodes /\ e.ver \in Nat
                                                          /\ e.path \in Paths \cup {None}
         /\ \A p \in Paths : disk[p].ver \in Nat
         /\ seen \in [Nodes -> Nat] /\ spoiled \subseteq Nodes
         /\ None \notin Paths /\ None \notin Nodes
  BY NoneAssumption DEF TypeOK, Row, Local, File, Call, Pull, Change

LEMMA SpoiledGrows == ASSUME [Next]_vars PROVE spoiled \subseteq spoiled'
<1>1. ASSUME NEW w \in Workers, Start(w) PROVE spoiled \subseteq spoiled'
  BY <1>1 DEF Start, Fetch, Mark, RemoveLocal, Refresh, Mutate, Spoil
<1>2. ASSUME NEW w \in Workers, Work(w) \/ Fail(w) PROVE spoiled \subseteq spoiled'
  <2>1. CASE Apply(w)
    BY <2>1 DEF Apply, Spoil
  <2>2. CASE GetRow(w) \/ CreateFile(w) \/ Download(w) \/ SetLocal(w) \/ DeleteLocal(w) \/ GetPage(w)
             \/ MendLocal(w) \/ PutRow(w) \/ StoreCursor(w) \/ EndPage(w) \/ Fail(w)
    BY <2>2 DEF GetRow, CreateFile, Download, SetLocal, DeleteLocal, GetPage, MendLocal, PutRow,
       StoreCursor, EndPage, Fail, history
  <2> QED
    BY <1>2, <2>1, <2>2 DEF Work
<1>3. CASE Remote
  BY <1>3 DEF Remote, Spoil
<1>4. CASE UNCHANGED vars
  BY <1>4 DEF vars, history
<1> QED
  BY <1>1, <1>2, <1>3, <1>4 DEF Next

\* Which steps change what, on the desktop.
LEMMA Untouched ==
  ASSUME TypeOK, app = "desktop", [Next]_vars
  PROVE  /\ app' = "desktop"
         /\ srv' = srv \/ Remote
         /\ rows' = rows \/ \E w \in Workers : PutRow(w)
         /\ local' = local \/ \E w \in Workers : SetLocal(w) \/ DeleteLocal(w) \/ MendLocal(w)
         /\ (\A v \in Workers : pull'[v].page \subseteq pull[v].page)
              \/ \E w \in Workers : GetPage(w)
<1> USE DEF NoPull
<1>0. pull \in [Workers -> Pull] /\ call \in [Workers -> Call]
  BY DeskTypes
<1> DEFINE Fewer == \A v \in Workers : pull'[v].page \subseteq pull[v].page
<1>1. ASSUME NEW w \in Workers, CopyAction(w)
      PROVE  /\ app' = app /\ srv' = srv /\ rows' = rows /\ Fewer
             /\ local' = local \/ SetLocal(w) \/ DeleteLocal(w)
  BY <1>1 DEF CopyAction, Fetch, Mark, RemoveLocal, GetRow, CreateFile, Download, SetLocal, DeleteLocal
<1>2. ASSUME NEW w \in Workers, Refresh(w)
      PROVE  app' = app /\ srv' = srv /\ rows' = rows /\ local' = local /\ Fewer
  BY <1>0, <1>2 DEF Refresh, Refreshing, SetPull
<1>3. ASSUME NEW w \in Workers, Mutate(w)
      PROVE  FALSE
  BY <1>3 DEF Mutate
<1>4. ASSUME NEW w \in Workers, GetPage(w)
      PROVE  app' = app /\ srv' = srv /\ rows' = rows /\ local' = local
  BY <1>4 DEF GetPage
<1>5. ASSUME NEW w \in Workers, Apply(w)
      PROVE  app' = app /\ srv' = srv /\ rows' = rows /\ local' = local /\ Fewer
  BY <1>5 DEF Apply
<1>6. ASSUME NEW w \in Workers, MendLocal(w)
      PROVE  app' = app /\ srv' = srv /\ rows' = rows /\ Fewer
  BY <1>6 DEF MendLocal
<1>7. ASSUME NEW w \in Workers, PutRow(w)
      PROVE  app' = app /\ srv' = srv /\ local' = local /\ Fewer
  BY <1>0, <1>7 DEF PutRow, SetPull
<1>8. ASSUME NEW w \in Workers, StoreCursor(w) \/ EndPage(w) \/ Fail(w)
      PROVE  app' = app /\ srv' = srv /\ rows' = rows /\ local' = local /\ Fewer
  BY <1>0, <1>8 DEF StoreCursor, EndPage, Fail, Return, SetPull
<1>9. CASE Remote
  BY <1>9 DEF Remote
<1>10. CASE UNCHANGED vars
  BY <1>10 DEF vars
<1> HIDE DEF Fewer
<1>11. ASSUME NEW w \in Workers, Start(w) \/ Work(w) \/ Fail(w)
       PROVE  /\ app' = app /\ srv' = srv
              /\ rows' = rows \/ PutRow(w)
              /\ local' = local \/ SetLocal(w) \/ DeleteLocal(w) \/ MendLocal(w)
              /\ Fewer \/ GetPage(w)
  BY <1>1, <1>2, <1>3, <1>4, <1>5, <1>6, <1>7, <1>8, <1>11 DEF Start, Work, CopyAction
<1> QED
  BY <1>9, <1>10, <1>11 DEF Next, Fewer

\* The path a call works on is the one its node is known by.
CallKnows(v) ==
    \/ call'[v].path = None
    \/ call'[v].node = call[v].node /\ call'[v].path = call[v].path
    \/ \E n \in Nodes : /\ call'[v].node = n
                        /\ call'[v].path = rows[n].path \/ call'[v].path = local[n].path
    \/ \E e \in pull[v].page : call'[v].node = e.node /\ call'[v].path = e.path

LEMMA CallPaths ==
  ASSUME TypeOK, [Next]_vars, NEW v \in Workers
  PROVE  CallKnows(v)
<1>0. call \in [Workers -> Call] /\ \A w \in Workers : call[w].stage \notin {"idle", "asking", "applying"}
                                                        => call[w].node \in Nodes
  BY DEF TypeOK
<1> USE <1>0 DEF Copying, To, Enter, At, Between, Idle, CallKnows
<1>1. CASE call'[v] = call[v]
  BY <1>1
<1>2. ASSUME NEW w \in Workers, Start(w) \/ Work(w) \/ Fail(w), v # w
      PROVE  CallKnows(v)
  BY <1>1, <1>2, OneWorker
<1>3. ASSUME NEW n \in Nodes, Fetch(v, n) \/ Mark(v, n) \/ RemoveLocal(v, n)
      PROVE  CallKnows(v)
  BY <1>3 DEF Fetch, Mark, RemoveLocal
<1>4. CASE Refresh(v) \/ Mutate(v)
  <2>1. \E asked \in Nat \cup {head, head + 1} : Refreshing(v, asked)
    BY <1>4, Zenon DEF Refresh, Mutate
  <2>2. call'[v].path = None
    BY <2>1 DEF Refreshing
  <2> QED
    BY <2>2
<1>5. CASE GetRow(v)
  BY <1>5 DEF GetRow
<1>6. CASE CreateFile(v) \/ Download(v) \/ SetLocal(v) \/ DeleteLocal(v)
  BY <1>6 DEF CreateFile, Download, SetLocal, DeleteLocal
<1>7. CASE GetPage(v) \/ MendLocal(v) \/ PutRow(v) \/ StoreCursor(v) \/ EndPage(v)
  BY <1>7 DEF GetPage, MendLocal, PutRow, StoreCursor, EndPage
<1>8. CASE Apply(v)
  BY <1>8 DEF Apply
<1>9. CASE Fail(v)
  BY <1>9 DEF Fail, Return
<1>10. CASE Remote \/ UNCHANGED vars
  BY <1>1, <1>10 DEF Remote, vars
<1>11. CASE Start(v) \/ Work(v) \/ Fail(v)
  BY <1>3, <1>4, <1>5, <1>6, <1>7, <1>8, <1>9, <1>11 DEF Start, Work
<1> QED
  BY <1>2, <1>10, <1>11 DEF Next

\* Where the open files go.
LEMMA HandleStep ==
  ASSUME TypeOK, Handles, [Next]_vars, NEW v \in Workers, handle'[v] # None
  PROVE  \/ CreateFile(v) /\ handle'[v] = call[v].path
         \/ At(v, "downloading") /\ call'[v] = call[v] /\ handle'[v] = handle[v]
         \/ /\ At(v, "downloading") /\ call'[v] = call[v]
            /\ \E w \in Workers : \E e \in pull[w].page :
                  /\ handle[v] = local[e.node].path /\ handle[v] # None
                  /\ handle'[v] = e.path
<1>0. /\ handle \in [Workers -> Paths \cup {None}]
      /\ \A n \in Nodes : local[n].path \in Paths \cup {None}
  BY DeskTypes
<1>H. handle[v] # None => At(v, "downloading")
  BY DEF Handles
<1> DEFINE Kept == At(v, "downloading") /\ call'[v] = call[v] /\ handle'[v] = handle[v]
<1>1. ASSUME NEW w \in Workers, Start(w) \/ Work(w) \/ Fail(w), w # v \/ ~At(w, "downloading"),
             handle'[v] = handle[v]
      PROVE  Kept
  <2>1. At(v, "downloading")
    BY <1>1, <1>H
  <2>2. w # v
    BY <1>1, <2>1
  <2> QED
    BY <1>1, <2>1, <2>2, OneWorker
<1>2. ASSUME NEW w \in Workers, Download(w) \/ Fail(w) PROVE Kept
  <2>1. handle' = [handle EXCEPT ![w] = None]
    BY <1>2 DEF Download, Fail, Return
  <2>2. w # v /\ handle'[v] = handle[v]
    BY <1>0, <2>1
  <2> QED
    BY <1>1, <1>2, <2>2 DEF Work
<1>3. ASSUME NEW w \in Workers, CreateFile(w)
      PROVE  Kept \/ (CreateFile(v) /\ handle'[v] = call[v].path)
  <2>1. handle' = [handle EXCEPT ![w] = call[w].path]
    BY <1>3 DEF CreateFile
  <2>2. CASE v = w
    BY <1>0, <1>3, <2>1, <2>2
  <2>3. CASE v # w
    <3>1. handle'[v] = handle[v]
      BY <1>0, <2>1, <2>3
    <3>2. Work(w)
      BY <1>3 DEF Work
    <3>3. Kept
      BY <1>1, <2>3, <3>1, <3>2
    <3> QED
      BY <3>3
  <2> QED
    BY <2>2, <2>3
<1>4. ASSUME NEW p, Removed(p) \/ NotRemoved(p) \/ UNCHANGED <<disk, handle>>
      PROVE  handle'[v] = handle[v]
  BY <1>0, <1>4 DEF Removed, NotRemoved, Unlink
<1>5. ASSUME NEW w \in Workers, NEW n \in Nodes, RemoveLocal(w, n) PROVE Kept
  <2>1. handle'[v] = handle[v] /\ ~At(w, "downloading")
    BY <1>4, <1>5 DEF RemoveLocal, At
  <2> QED
    BY <1>1, <1>5, <2>1 DEF Start
<1>6. ASSUME NEW w \in Workers, Apply(w)
      PROVE  \/ Kept
             \/ /\ At(v, "downloading") /\ call'[v] = call[v]
                /\ \E e \in pull[w].page : /\ handle[v] = local[e.node].path /\ handle[v] # None
                                            /\ handle'[v] = e.path
  <2>1. PICK e \in pull[w].page :
          \/ HasFile(local[e.node].path) /\ Rename(local[e.node].path, e.path)
          \/ Removed(local[e.node].path) \/ NotRemoved(local[e.node].path) \/ UNCHANGED <<disk, handle>>
    BY <1>6 DEF Apply
  <2>2. ~At(w, "downloading")
    BY <1>6 DEF Apply, At
  <2>3. CASE handle'[v] = handle[v]
    BY <1>1, <1>6, <2>2, <2>3 DEF Work
  <2>4. CASE HasFile(local[e.node].path) /\ Rename(local[e.node].path, e.path) /\ handle'[v] # handle[v]
    <3>1. handle[v] = local[e.node].path /\ handle'[v] = e.path /\ handle[v] # None
      BY <1>0, <2>4 DEF Rename, HasFile
    <3>2. At(v, "downloading")
      BY <1>H, <3>1
    <3>3. w # v
      BY <2>2, <3>2
    <3>4. call'[v] = call[v]
      BY <1>6, <3>3, OneWorker DEF Work
    <3> QED
      BY <3>1, <3>2, <3>4
  <2> QED
    BY <1>4, <2>1, <2>3, <2>4
<1>7. ASSUME NEW w \in Workers, Start(w) \/ Work(w), \A n \in Nodes : ~RemoveLocal(w, n),
             ~CreateFile(w), ~Download(w), ~Apply(w)
      PROVE  Kept
  <2>1. handle'[v] = handle[v]
    BY <1>7 DEF Start, Work, Fetch, Mark, GetRow, SetLocal, DeleteLocal, Refresh, Mutate, GetPage,
       MendLocal, PutRow, StoreCursor, EndPage
  <2>2. ~At(w, "downloading")
    BY <1>7 DEF Start, Work, Fetch, Mark, GetRow, SetLocal, DeleteLocal, Refresh, Mutate, GetPage,
       MendLocal, PutRow, StoreCursor, EndPage, At
  <2> QED
    BY <1>1, <1>7, <2>1, <2>2
<1>8. CASE Remote \/ UNCHANGED vars
  <2>1. call' = call /\ handle' = handle
    BY <1>8 DEF Remote, vars
  <2> QED
    BY <1>H, <2>1
<1> HIDE DEF Kept
<1>9. ASSUME NEW w \in Workers, Start(w) \/ Work(w) \/ Fail(w)
      PROVE  \/ Kept \/ (CreateFile(v) /\ handle'[v] = call[v].path)
             \/ /\ At(v, "downloading") /\ call'[v] = call[v]
                /\ \E e \in pull[w].page : /\ handle[v] = local[e.node].path /\ handle[v] # None
                                            /\ handle'[v] = e.path
  <2>1. CASE CreateFile(w)
    BY <1>3, <2>1
  <2>2. CASE Download(w) \/ Fail(w)
    BY <1>2, <2>2
  <2>3. CASE \E n \in Nodes : RemoveLocal(w, n)
    BY <1>5, <2>3
  <2>4. CASE Apply(w)
    BY <1>6, <2>4
  <2>5. CASE (Start(w) \/ Work(w)) /\ ~CreateFile(w) /\ ~Download(w) /\ ~Apply(w)
             /\ \A n \in Nodes : ~RemoveLocal(w, n)
    BY <1>7, <2>5
  <2> QED
    BY <1>9, <2>1, <2>2, <2>3, <2>4, <2>5
<1> QED
  BY <1>8, <1>9 DEF Next, Kept

LEMMA HandlesStep ==
  ASSUME TypeOK, Handles, [Next]_vars
  PROVE  Handles'
<1> SUFFICES ASSUME NEW v \in Workers, handle'[v] # None PROVE At(v, "downloading")'
  BY DEF Handles
<1>1. CASE CreateFile(v)
  BY <1>1 DEF CreateFile, To, Copying, Enter, At, TypeOK
<1>2. CASE At(v, "downloading") /\ call'[v] = call[v]
  BY <1>2 DEF At
<1> QED
  BY <1>1, <1>2, HandleStep

LEMMA OneOwnerStep ==
  ASSUME TypeOK, app = "desktop", OneOwner, Handles, [Next]_vars
  PROVE  OneOwner'
<1> USE DeskTypes
<1>0. \A w \in Workers : call[w].stage \notin {"idle", "asking", "applying"} => call[w].node \in Nodes
  BY DEF TypeOK
<1>1. ASSUME NEW n \in Nodes, NEW p \in Paths, rows'[n].path = p
      PROVE  Claims(n, p)
  <2>1. CASE rows' = rows
    BY <1>1, <2>1 DEF Claims
  <2>2. ASSUME NEW w \in Workers, PutRow(w)
        PROVE  Claims(n, p)
    BY <1>0, <1>1, <2>2 DEF PutRow, At, Claims, NoRow
  <2> QED
    BY <2>1, <2>2, Untouched
<1>2. ASSUME NEW n \in Nodes, NEW p \in Paths, local'[n].path = p
      PROVE  Claims(n, p)
  <2>1. CASE local' = local
    BY <1>2, <2>1 DEF Claims
  <2>2. ASSUME NEW w \in Workers, SetLocal(w) \/ DeleteLocal(w) \/ MendLocal(w)
        PROVE  Claims(n, p)
    BY <1>0, <1>2, <2>2 DEF SetLocal, DeleteLocal, MendLocal, At, Claims, NoLocal
  <2> QED
    BY <2>1, <2>2, Untouched
<1>3. ASSUME NEW v \in Workers, NEW n \in Nodes, NEW p \in Paths,
             call'[v].node = n, call'[v].path = p
      PROVE  Claims(n, p)
  BY <1>3, CallPaths DEF Claims, CallKnows
<1>4. ASSUME NEW v \in Workers, NEW n \in Nodes, NEW p \in Paths,
             NEW e \in pull'[v].page, e.node = n, e.path = p
      PROVE  Claims(n, p)
  <2>1. CASE pull'[v].page \subseteq pull[v].page
    BY <1>4, <2>1 DEF Claims
  <2>2. ASSUME NEW w \in Workers, GetPage(w)
        PROVE  Claims(n, p)
    <3>1. PICK next \in Ends(w) : Answer(w, next)
      BY <2>2 DEF GetPage
    <3>2. pull'[v] = pull[v] \/ pull'[v].page = PageTo(w, next)
      BY <3>1 DEF Answer, SetPull
    <3> QED
      BY <1>4, <3>2 DEF PageTo, Claims
  <2> QED
    BY <2>1, <2>2, Untouched
<1> DEFINE Inherits(n, p) == Claims(n, p) \/ \E m \in Nodes : Claims(m, p) /\ {m, n} \subseteq spoiled
<1>5. ASSUME NEW v \in Workers, NEW n \in Nodes, NEW p \in Paths, call'[v].node = n, handle'[v] = p
      PROVE  Inherits(n, p)
  <2>0. handle'[v] # None
    BY <1>5
  <2>1. CASE CreateFile(v) /\ handle'[v] = call[v].path
    BY <1>5, <2>1 DEF CreateFile, To, Copying, Enter, Claims
  <2>2. CASE call'[v] = call[v] /\ handle'[v] = handle[v]
    BY <1>5, <2>2 DEF Claims
  <2>3. ASSUME NEW w \in Workers, NEW e \in pull[w].page, call'[v] = call[v],
               handle[v] = local[e.node].path, handle[v] # None, handle'[v] = e.path
        PROVE  Inherits(n, p)
    <3> DEFINE m == e.node
    <3>1. m \in Nodes /\ Claims(m, p)
      BY <1>5, <2>3 DEF Claims
    <3>2. local[m].path \in Paths
      BY <2>3, <3>1
    <3>3. Claims(m, local[m].path) /\ Claims(n, local[m].path)
      BY <1>5, <2>3 DEF Claims
    <3>4. m = n \/ {m, n} \subseteq spoiled
      BY <3>1, <3>2, <3>3 DEF OneOwner
    <3> QED
      BY <3>1, <3>4
  <2> QED
    BY <2>0, <2>1, <2>2, <2>3, HandleStep
<1>6. ASSUME NEW n \in Nodes, NEW p \in Paths, Claims(n, p)', srv'[n].path # p
      PROVE  Inherits(n, p)
  <2>1. \/ rows'[n].path = p \/ local'[n].path = p
        \/ \E v \in Workers : \/ call'[v].node = n /\ (call'[v].path = p \/ handle'[v] = p)
                              \/ \E e \in pull'[v].page : e.node = n /\ e.path = p
    BY <1>6 DEF Claims
  <2> QED
    BY <1>1, <1>2, <1>3, <1>4, <1>5, <2>1
<1>G. spoiled \subseteq spoiled'
  BY SpoiledGrows
<1>7. ASSUME NEW m \in Nodes, NEW n \in Nodes, NEW p \in Paths, Inherits(m, p), Inherits(n, p)
      PROVE  m = n \/ {m, n} \subseteq spoiled
  BY <1>7 DEF OneOwner
<1> HIDE DEF Inherits
<1>8. CASE srv' = srv
  <2>1. \A n \in Nodes, p \in Paths : Claims(n, p)' => Inherits(n, p)
    <3> SUFFICES ASSUME NEW n \in Nodes, NEW p \in Paths, Claims(n, p)', srv'[n].path = p
                 PROVE  Inherits(n, p)
      BY <1>6
    <3> QED
      BY <1>8 DEF Claims, Inherits
  <2> QED
    BY <1>7, <1>G, <2>1 DEF OneOwner
<1>9. CASE Remote
  <2>1. PICK k \in Nodes, q \in Paths \cup {None} : Publish(k, q) /\ Spoil(Sharing(k, q))
    BY <1>9 DEF Remote
  <2>2. /\ \A n \in Nodes : n # k => srv'[n] = srv[n]
        /\ srv'[k].path = q
    BY <2>1 DEF Publish
  <2>3. ASSUME NEW n \in Nodes, NEW p \in Paths, Claims(n, p)'
        PROVE  Inherits(n, p) \/ (n = k /\ p = q)
    <3>1. CASE srv'[n].path = p
      BY <2>2, <3>1 DEF Claims, Inherits
    <3> QED
      BY <1>6, <2>3, <3>1
  <2>4. \A m \in Nodes : m # k /\ q # None /\ Claims(m, q) => {m, k} \subseteq spoiled'
    BY <2>1 DEF Spoil, Sharing
  <2>5. ASSUME NEW m \in Nodes, m # k, q # None, Inherits(m, q) PROVE {m, k} \subseteq spoiled'
    <3>1. CASE Claims(m, q)
      BY <2>4, <2>5, <3>1
    <3>2. ASSUME NEW x \in Nodes, Claims(x, q), {x, m} \subseteq spoiled
          PROVE  {m, k} \subseteq spoiled'
      BY <1>G, <2>4, <2>5, <3>2
    <3> QED
      BY <2>5, <3>1, <3>2 DEF Inherits
  <2> SUFFICES ASSUME NEW m \in Nodes, NEW n \in Nodes, NEW p \in Paths, Claims(m, p)', Claims(n, p)', m # n
               PROVE  {m, n} \subseteq spoiled'
    BY DEF OneOwner
  <2>6. CASE Inherits(m, p) /\ Inherits(n, p)
    BY <1>7, <1>G, <2>6
  <2>7. CASE m = k /\ p = q
    BY <2>3, <2>5, <2>7
  <2>8. CASE n = k /\ p = q
    BY <2>3, <2>5, <2>8
  <2> QED
    BY <2>3, <2>6, <2>7, <2>8
<1> QED
  BY <1>8, <1>9, Untouched

LEMMA OneHandStep ==
  ASSUME TypeOK, OneHand, [Next]_vars
  PROVE  OneHand'
<1> USE NoneAssumption
<1>0. call \in [Workers -> Call] /\ spoiled \subseteq spoiled'
      /\ \A v \in Workers : \A e \in pull[v].page : e.node \in Nodes
  BY SpoiledGrows DEF TypeOK, Pull, Change
<1>1. ASSUME \A v \in Workers : call'[v].node \in {call[v].node, None}
      PROVE  OneHand'
  BY <1>0, <1>1 DEF OneHand
<1>2. ASSUME NEW w \in Workers, NEW n \in Nodes, Busy(n) => n \in spoiled', call'[w].node = n,
             \A v \in Workers : v # w => call'[v] = call[v]
      PROVE  OneHand'
  BY <1>0, <1>2 DEF OneHand, Busy
<1>3. ASSUME NEW w \in Workers, NEW n \in Nodes, Fetch(w, n) \/ Mark(w, n) \/ RemoveLocal(w, n)
      PROVE  OneHand'
  <2>1. Busy(n) => n \in spoiled'
    BY <1>3 DEF Fetch, Mark, RemoveLocal, Spoil
  <2>2. call'[w].node = n
    BY <1>0, <1>3 DEF Fetch, Mark, RemoveLocal, Copying, Enter
  <2> QED
    BY <1>2, <1>3, <2>1, <2>2, OneWorker DEF Start
<1>4. ASSUME NEW w \in Workers, Apply(w) PROVE OneHand'
  <2>1. PICK e \in pull[w].page, stage \in {"relocating", "dropping", "putting"} :
           Spoil({m \in {e.node} : Busy(m)}) /\ Copying(w, e.node, stage, e.ver, e.path)
    BY <1>4 DEF Apply
  <2>2. (Busy(e.node) => e.node \in spoiled') /\ call'[w].node = e.node /\ e.node \in Nodes
    BY <1>0, <2>1 DEF Spoil, Copying, Enter
  <2> QED
    BY <1>2, <1>4, <2>2, OneWorker DEF Work
<1>5. ASSUME NEW w \in Workers, call'[w].node \in {call[w].node, None}, Start(w) \/ Work(w) \/ Fail(w)
      PROVE  OneHand'
  BY <1>1, <1>5, OneWorker
<1>6. ASSUME NEW w \in Workers,
             \/ GetRow(w) \/ CreateFile(w) \/ Download(w) \/ SetLocal(w) \/ DeleteLocal(w)
             \/ GetPage(w) \/ MendLocal(w) \/ PutRow(w) \/ StoreCursor(w) \/ EndPage(w) \/ Fail(w)
      PROVE  OneHand'
  <2> USE <1>0 DEF To, Copying, Enter, Idle, Between
  <2>1. CASE GetRow(w) \/ CreateFile(w) \/ Download(w)
    BY <1>5, <2>1 DEF GetRow, CreateFile, Download, Work
  <2>2. CASE SetLocal(w) \/ DeleteLocal(w) \/ GetPage(w)
    BY <1>5, <2>2 DEF SetLocal, DeleteLocal, GetPage, Work
  <2>3. CASE MendLocal(w) \/ StoreCursor(w)
    BY <1>5, <2>3 DEF MendLocal, StoreCursor, Work
  <2>6. CASE PutRow(w)
    <3>1. call'[w].node \in {call[w].node, None}
      BY <2>6 DEF PutRow
    <3> QED
      BY <1>5, <2>6, <3>1 DEF Work
  <2>4. CASE EndPage(w)
    BY <1>5, <2>4 DEF EndPage, Work
  <2>5. CASE Fail(w)
    BY <1>5, <2>5 DEF Fail, Return
  <2> QED
    BY <1>6, <2>1, <2>2, <2>3, <2>4, <2>5, <2>6
<1>7. ASSUME NEW w \in Workers, Refresh(w) \/ Mutate(w) PROVE OneHand'
  <2>1. call' = [call EXCEPT ![w] = Between("asking")]
    BY <1>7 DEF Refresh, Mutate, Refreshing, Enter
  <2> QED
    BY <1>0, <1>5, <1>7, <2>1 DEF Start, Between
<1>8. CASE Remote \/ UNCHANGED vars
  BY <1>1, <1>8 DEF Remote, vars
<1> QED
  BY <1>3, <1>4, <1>6, <1>7, <1>8 DEF Next, Start, Work

\* A step that leaves the copies alone.
LEMMA Still ==
  ASSUME DeskInv, spoiled \subseteq spoiled', UNCHANGED <<local, seen, disk>>,
         \A v \in Workers : \/ call'[v] = call[v] /\ handle'[v] = handle[v]
                            \/ call'[v].node \notin spoiled' => CopyInHand(v)'
  PROVE  FilesHold' /\ InHand'
<1> USE DEF DeskInv
<1>1. FilesHold'
  BY DEF FilesHold, Trusted, Copied, Holds, HasFile
<1>2. ASSUME NEW v \in Workers, call'[v] = call[v], handle'[v] = handle[v], call[v].node \notin spoiled
      PROVE  CopyInHand(v)'
  BY <1>2 DEF InHand, CopyInHand, Trusted, Copied, Holds, HasFile
<1> QED
  BY <1>1, <1>2 DEF InHand

\* A step of worker w about node n.
LEMMA Frame ==
  ASSUME DeskInv, NEW w \in Workers, NEW n \in Nodes, spoiled \subseteq spoiled',
         \A m \in Nodes : m # n => local'[m] = local[m] /\ seen'[m] = seen[m],
         \A p \in Paths : disk'[p] = disk[p] \/ Claims(n, p),
         \A v \in Workers : v # w =>
            /\ call'[v] = call[v]
            /\ handle'[v] = handle[v] \/ (handle[v] \in Paths /\ Claims(n, handle[v]))
            /\ call[v].node = n => n \in spoiled',
         n \notin spoiled' => /\ local'[n].ver =< seen'[n]
                              /\ Trusted(n)' => Holds(local[n].path, n, local[n].ver)',
         call'[w].node \notin spoiled' => CopyInHand(w)'
  PROVE  FilesHold' /\ InHand'
<1> USE DEF DeskInv, IndexInv
<1>0. /\ \A m \in Nodes : local[m].path \in Paths \cup {None}
      /\ \A v \in Workers : call[v].path \in Paths \cup {None}
      /\ None \notin Paths
  BY DeskTypes
<1>1. ASSUME NEW m \in Nodes, m # n, m \notin spoiled', NEW p \in Paths, Claims(m, p)
      PROVE  disk'[p] = disk[p] /\ ~Claims(n, p)
  BY <1>1 DEF OneOwner
<1>2. ASSUME NEW m \in Nodes, m # n, m \notin spoiled', NEW p \in Paths \cup {None}, NEW ver,
             p \in Paths => Claims(m, p), Holds(p, m, ver)
      PROVE  Holds(p, m, ver)'
  BY <1>0, <1>1, <1>2 DEF Holds, HasFile
<1>3. ASSUME NEW m \in Nodes, m \notin spoiled'
      PROVE  local'[m].ver =< seen'[m] /\ (Trusted(m)' => Holds(local[m].path, m, local[m].ver)')
  <2>1. CASE m = n
    BY <1>3, <2>1
  <2>2. CASE m # n
    <3>1. local'[m] = local[m] /\ seen'[m] = seen[m] /\ m \notin spoiled
      BY <1>3, <2>2
    <3>2. local[m].ver =< seen[m] /\ (Trusted(m) => Holds(local[m].path, m, local[m].ver))
      BY <3>1 DEF FilesHold
    <3>3. Trusted(m)' => Trusted(m)
      BY <3>1 DEF Trusted, Copied
    <3>4. Claims(m, local[m].path)
      BY DEF Claims
    <3>5. Trusted(m) => /\ HasFile(local[m].path)'
                            => disk'[local[m].path].node = m /\ disk'[local[m].path].ver >= local[m].ver
      BY <1>0, <1>1, <1>3, <2>2, <3>1, <3>2, <3>4 DEF Holds, HasFile
    <3> QED
      BY <3>1, <3>2, <3>3, <3>5 DEF Holds, HasFile
  <2> QED
    BY <2>1, <2>2
<1>4. ASSUME NEW v \in Workers, v # w, call'[v].node \notin spoiled'
      PROVE  CopyInHand(v)'
  <2>0. PICK m : m = call[v].node
    OBVIOUS
  <2>1. call'[v] = call[v] /\ call[v].node = m /\ m # n /\ m \notin spoiled /\ m \notin spoiled'
        /\ CopyInHand(v)
    BY <1>4, <2>0 DEF InHand
  <2>2. CASE call[v].stage \notin {"getting", "creating", "downloading", "recording", "relocating"}
    BY <2>1, <2>2 DEF CopyInHand
  <2>3. CASE call[v].stage \in {"getting", "creating", "downloading", "recording", "relocating"}
    <3>1. m \in Nodes
      BY <2>1, <2>3 DEF TypeOK
    <3>2. local'[m] = local[m] /\ seen'[m] = seen[m] /\ Claims(m, call[v].path)
      BY <2>1, <3>1 DEF Claims
    <3>3. Trusted(m)' <=> Trusted(m)
      BY <3>2 DEF Trusted, Copied
    <3>4. call[v].stage = "downloading" => handle'[v] = handle[v]
      <4>1. Claims(m, handle[v])
        BY <2>1 DEF Claims
      <4> QED
        BY <1>1, <1>4, <2>1, <3>1, <4>1
    <3>5. disk'[call[v].path] = disk[call[v].path] \/ call[v].path = None
      BY <1>0, <1>1, <1>4, <2>1, <3>1, <3>2
    <3>6. HasFile(call[v].path)' <=> HasFile(call[v].path)
      BY <2>1, <3>5 DEF HasFile
    <3>7. Holds(call[v].path, m, call[v].ver) => Holds(call[v].path, m, call[v].ver)'
      BY <2>1, <3>5, <3>6 DEF Holds, HasFile
    <3>8. Holds(call[v].path, m, local[m].ver) => Holds(call[v].path, m, local[m].ver)'
      BY <2>1, <3>2, <3>5, <3>6 DEF Holds, HasFile
    <3>9. /\ call[v].stage \in {"getting", "creating", "downloading"} => ~Trusted(m)'
          /\ call[v].stage \in {"creating", "downloading", "recording"} => call[v].ver =< seen'[m]
          /\ call[v].stage = "downloading" => handle'[v] = call[v].path
      BY <2>1, <3>2, <3>3, <3>4 DEF CopyInHand
    <3>10. /\ call[v].stage = "recording" /\ call[v].ver = seen'[m]
                => Holds(call[v].path, m, call[v].ver)'
           /\ call[v].stage = "relocating" /\ Trusted(m)' => Holds(call[v].path, m, local[m].ver)'
      BY <2>1, <3>2, <3>3, <3>7, <3>8 DEF CopyInHand
    <3> QED
      BY <2>1, <3>9, <3>10 DEF CopyInHand, Trusted, Copied, Holds, HasFile
  <2> QED
    BY <2>2, <2>3
<1>5. FilesHold'
  BY <1>3 DEF FilesHold
<1> QED
  BY <1>4, <1>5 DEF InHand

LEMMA DeskStep ==
  ASSUME DeskInv, [Next]_vars
  PROVE  FilesHold' /\ InHand'
<1> USE DEF DeskInv, IndexInv
<1>0. /\ local \in [Nodes -> Local] /\ disk \in [Paths -> File] /\ call \in [Workers -> Call]
      /\ handle \in [Workers -> Paths \cup {None}] /\ None \notin Paths
      /\ \A n \in Nodes : /\ local[n].path \in Paths \cup {None} /\ rows[n].path \in Paths \cup {None}
                          /\ local[n].ver \in Nat /\ rows[n].ver \in Nat /\ srv[n].ver \in Nat
                          /\ seen[n] \in Nat
      /\ \A p \in Paths : disk[p].ver \in Nat
      /\ \A v \in Workers : call[v].ver \in Nat
  BY DeskTypes DEF TypeOK
<1>T. \A w \in Workers : /\ call[w].stage \notin {"idle", "asking", "applying"} => call[w].node \in Nodes
                         /\ call[w].stage \in {"creating", "downloading", "relocating"}
                               => call[w].path \in Paths
  BY DEF TypeOK
<1>G. spoiled \subseteq spoiled'
  BY SpoiledGrows
<1>S. \A n \in Nodes : (Known(n) => rows[n].ver =< seen[n]) /\ seen[n] =< srv[n].ver
  BY DEF Covered, RowsKept
<1>O. ASSUME NEW w \in Workers, Start(w) \/ Work(w) \/ Fail(w)
      PROVE  \A v \in Workers : v # w => call'[v] = call[v]
  BY <1>O, OneWorker
<1>A. ASSUME NEW w \in Workers, NEW v \in Workers, v # w, call[v].node = call[w].node, call[w].node \in Nodes
      PROVE  call[w].node \in spoiled'
  BY <1>A, <1>G DEF OneHand
<1>U. ASSUME NEW n \in Nodes, NEW p, p = local[n].path, Removed(p) \/ NotRemoved(p) \/ UNCHANGED <<disk, handle>>
      PROVE  /\ \A q \in Paths : disk'[q] = disk[q] \/ (q = p /\ disk'[q] = NoFile)
             /\ \A v \in Workers : handle'[v] = handle[v] \/ (handle[v] = p /\ p \in Paths)
  <2>1. CASE HasFile(p) /\ Unlink(p)
    <3>1. p \in Paths
      BY <1>0, <1>U, <2>1 DEF HasFile
    <3>2. disk' = [disk EXCEPT ![p] = NoFile]
      BY <2>1 DEF Unlink, Store
    <3>3. \A v \in Workers : handle'[v] = IF handle[v] = p THEN None ELSE handle[v]
      BY <2>1 DEF Unlink
    <3> QED
      BY <1>0, <3>1, <3>2, <3>3
  <2>2. CASE UNCHANGED <<disk, handle>>
    BY <2>2
  <2> QED
    BY <1>U, <2>1, <2>2 DEF Removed, NotRemoved
<1>3. ASSUME NEW w \in Workers, NEW n \in Nodes, Fetch(w, n)
      PROVE  FilesHold' /\ InHand'
  <2>1. /\ call'[w].stage = "getting" /\ call'[w].node = n /\ Known(n) /\ ~IsFresh(n)
        /\ UNCHANGED <<local, disk, seen, handle>>
    BY <1>0, <1>3 DEF Fetch, Copying, Enter, Spoil
  <2>2. ~Trusted(n)
    BY <1>0, <1>S, <2>1 DEF Trusted, IsFresh, Copied
  <2>3. CopyInHand(w)'
    BY <2>1, <2>2 DEF CopyInHand, Trusted, Copied
  <2> QED
    BY <1>3, <1>G, <1>O, <2>1, <2>3, Still DEF Start
<1>4. ASSUME NEW w \in Workers, NEW n \in Nodes, Mark(w, n)
      PROVE  FilesHold' /\ InHand'
  <2>1. /\ call'[w] = [stage |-> "recording", node |-> n, ver |-> rows[n].ver, path |-> local[n].path]
        /\ Known(n) /\ UNCHANGED <<local, disk, seen, handle>>
    BY <1>0, <1>4 DEF Mark, Copying, Enter, Spoil
  <2>2. n \notin spoiled' => IsFresh(n) /\ n \notin spoiled
    BY <1>4, <1>G DEF Mark, Spoil
  <2>3. n \notin spoiled' => /\ rows[n].ver =< seen[n]
                             /\ rows[n].ver = seen[n] => Holds(local[n].path, n, rows[n].ver)
    <3> SUFFICES ASSUME IsFresh(n), n \notin spoiled
                 PROVE  /\ rows[n].ver =< seen[n]
                        /\ rows[n].ver = seen[n] => Holds(local[n].path, n, rows[n].ver)
      BY <2>2
    <3>1. rows[n].ver =< seen[n] /\ local[n].ver =< seen[n]
      BY <1>S, <2>1 DEF FilesHold
    <3>2. rows[n].ver = seen[n] => local[n].ver = rows[n].ver /\ Trusted(n)
      <4>1. local[n].ver \in Nat /\ rows[n].ver \in Nat
        BY <1>0
      <4>2. local[n].ver > 0 /\ local[n].ver >= rows[n].ver
        BY DEF IsFresh, Copied
      <4> QED
        BY <3>1, <4>1, <4>2 DEF Trusted, Copied
    <3> QED
      BY <3>1, <3>2 DEF FilesHold
  <2>4. n \notin spoiled' => CopyInHand(w)'
    BY <2>1, <2>3 DEF CopyInHand, Holds, HasFile
  <2>5. call'[w].node = n
    BY <2>1
  <2> QED
    BY <1>4, <1>G, <1>O, <2>1, <2>4, <2>5, Still DEF Start
<1>5. ASSUME NEW w \in Workers, NEW n \in Nodes, RemoveLocal(w, n)
      PROVE  FilesHold' /\ InHand'
  <2>1. /\ call'[w].stage = "forgetting" /\ UNCHANGED <<local, seen>>
        /\ Removed(local[n].path) \/ NotRemoved(local[n].path)
        /\ Busy(n) => n \in spoiled'
    BY <1>0, <1>5 DEF RemoveLocal, Copying, Enter, Spoil
  <2>2. CopyInHand(w)'
    BY <2>1 DEF CopyInHand
  <2>3. /\ \A q \in Paths : disk'[q] = disk[q] \/ (q = local[n].path /\ disk'[q] = NoFile)
        /\ \A v \in Workers : handle'[v] = handle[v] \/ (handle[v] = local[n].path /\ local[n].path \in Paths)
    BY <1>U, <2>1
  <2>4. Claims(n, local[n].path)
    BY DEF Claims
  <2>5. n \notin spoiled' => /\ local'[n].ver =< seen'[n]
                             /\ Trusted(n)' => Holds(local[n].path, n, local[n].ver)'
    <3> SUFFICES ASSUME n \notin spoiled
                 PROVE  /\ local[n].ver =< seen[n]
                        /\ Trusted(n)' => Holds(local[n].path, n, local[n].ver)'
      BY <1>G, <2>1
    <3>1. local[n].ver =< seen[n] /\ (Trusted(n) => Holds(local[n].path, n, local[n].ver))
      BY DEF FilesHold
    <3>2. Trusted(n)' <=> Trusted(n)
      BY <2>1 DEF Trusted, Copied
    <3>3. Holds(local[n].path, n, local[n].ver) => Holds(local[n].path, n, local[n].ver)'
      BY <1>0, <2>1, <2>3 DEF Holds, HasFile
    <3> QED
      BY <3>1, <3>2, <3>3
  <2>6. \A v \in Workers : v # w => call'[v] = call[v] /\ (call[v].node = n => n \in spoiled')
    BY <1>5, <1>O, <2>1 DEF Start, Busy
  <2> QED
    BY <1>G, <2>1, <2>2, <2>3, <2>4, <2>5, <2>6, Frame
<1>6. ASSUME NEW w \in Workers, GetRow(w)
      PROVE  FilesHold' /\ InHand'
  <2> DEFINE n == call[w].node
  <2>1. /\ \/ call'[w].stage = "idle"
           \/ /\ call'[w] = [stage |-> "creating", node |-> n, ver |-> rows[n].ver, path |-> rows[n].path]
              /\ Known(n)
        /\ UNCHANGED <<local, disk, seen, handle>>
    BY <1>0, <1>6 DEF GetRow, Copying, Enter, Idle, Between, history
  <2>2. n \in Nodes /\ (n \notin spoiled => ~Trusted(n))
    BY <1>6, <1>T DEF GetRow, At, InHand, CopyInHand
  <2>4. call'[w].node \notin spoiled' => CopyInHand(w)'
    BY <1>G, <1>S, <2>1, <2>2 DEF CopyInHand, Trusted, Copied
  <2> QED
    BY <1>6, <1>G, <1>O, <2>1, <2>4, Still DEF Work
<1>7. ASSUME NEW w \in Workers, CreateFile(w)
      PROVE  FilesHold' /\ InHand'
  <2> DEFINE n == call[w].node
             p == call[w].path
  <2>1. /\ call'[w] = [stage |-> "downloading", node |-> n, ver |-> call[w].ver, path |-> p]
        /\ UNCHANGED <<local, seen>> /\ disk' = [disk EXCEPT ![p] = Torn]
        /\ handle' = [handle EXCEPT ![w] = p]
    BY <1>0, <1>7 DEF CreateFile, To, Copying, Enter, Store, history
  <2>2. n \in Nodes /\ p \in Paths /\ Claims(n, p)
        /\ (n \notin spoiled => ~Trusted(n) /\ call[w].ver =< seen[n])
    BY <1>7, <1>T DEF CreateFile, At, InHand, CopyInHand, Claims
  <2>3. n \notin spoiled' => CopyInHand(w)'
    <3> SUFFICES ASSUME n \notin spoiled PROVE CopyInHand(w)'
      BY <1>G
    <3>1. handle'[w] = p
      BY <1>0, <2>1
    <3> QED
      BY <2>1, <2>2, <3>1 DEF CopyInHand, Trusted, Copied
  <2>4. \A q \in Paths : disk'[q] = disk[q] \/ q = p
    BY <1>0, <2>1
  <2>5. n \notin spoiled' => local'[n].ver =< seen'[n] /\ ~Trusted(n)'
    BY <1>G, <2>1, <2>2 DEF FilesHold, Trusted, Copied
  <2>6. \A v \in Workers : v # w => /\ call'[v] = call[v] /\ handle'[v] = handle[v]
                                    /\ call[v].node = n => n \in spoiled'
    BY <1>0, <1>7, <1>A, <1>O, <2>1, <2>2 DEF Work
  <2>7. call'[w].node = n
    BY <2>1
  <2> QED
    BY <1>G, <2>1, <2>2, <2>3, <2>4, <2>5, <2>6, <2>7, Frame
<1>8. ASSUME NEW w \in Workers, Download(w)
      PROVE  FilesHold' /\ InHand'
  <2> DEFINE n == call[w].node
             p == call[w].path
             f == [node |-> n, ver |-> srv[n].ver]
  <2>1. n \in Nodes /\ p \in Paths
        /\ (n \notin spoiled => ~Trusted(n) /\ call[w].ver =< seen[n] /\ handle[w] = p)
    BY <1>8, <1>T DEF Download, At, InHand, CopyInHand
  <2>2. /\ call'[w] = [stage |-> "recording", node |-> n, ver |-> call[w].ver, path |-> p]
        /\ UNCHANGED <<local, seen>> /\ handle' = [handle EXCEPT ![w] = None]
        /\ IF handle[w] = None THEN disk' = disk ELSE disk' = [disk EXCEPT ![handle[w]] = f]
    BY <1>0, <1>8 DEF Download, To, Copying, Enter, Store, history
  <2>3. \A q \in Paths : disk'[q] = disk[q] \/ Claims(n, q)
    <3>1. Claims(n, handle[w])
      BY DEF Claims
    <3> QED
      BY <1>0, <2>2, <3>1
  <2>4. n \notin spoiled' => CopyInHand(w)'
    <3> SUFFICES ASSUME n \notin spoiled PROVE CopyInHand(w)'
      BY <1>G
    <3>1. disk'[p] = f
      BY <1>0, <2>1, <2>2
    <3>2. disk'[p].node = n /\ disk'[p].ver >= call[w].ver
      BY <1>0, <1>S, <2>1, <3>1
    <3> QED
      BY <2>1, <2>2, <3>2 DEF CopyInHand, Holds
  <2>5. n \notin spoiled' => local'[n].ver =< seen'[n] /\ ~Trusted(n)'
    BY <1>G, <2>1, <2>2 DEF FilesHold, Trusted, Copied
  <2>6. \A v \in Workers : v # w => /\ call'[v] = call[v] /\ handle'[v] = handle[v]
                                    /\ call[v].node = n => n \in spoiled'
    BY <1>0, <1>8, <1>A, <1>O, <2>1, <2>2 DEF Work
  <2>7. call'[w].node = n
    BY <2>2
  <2> QED
    BY <1>G, <2>1, <2>2, <2>3, <2>4, <2>5, <2>6, <2>7, Frame
<1>9. ASSUME NEW w \in Workers, SetLocal(w)
      PROVE  FilesHold' /\ InHand'
  <2>P. PICK n : n = call[w].node
    OBVIOUS
  <2>1. n \in Nodes /\ (n \notin spoiled => /\ call[w].ver =< seen[n]
                                            /\ call[w].ver = seen[n] => Holds(call[w].path, n, call[w].ver))
    BY <1>9, <1>T, <2>P DEF SetLocal, At, InHand, CopyInHand
  <2>2. /\ call'[w].stage = "idle" /\ UNCHANGED <<seen, disk, handle>>
        /\ \A m \in Nodes : m # n => local'[m] = local[m]
        /\ local'[n] = [ver |-> call[w].ver, path |-> call[w].path]
    BY <1>0, <1>9, <2>P, <2>1 DEF SetLocal, Enter, Idle, Between, history
  <2>3. CopyInHand(w)'
    BY <2>2 DEF CopyInHand
  <2>4. n \notin spoiled' => /\ local'[n].ver =< seen'[n]
                             /\ Trusted(n)' => Holds(local[n].path, n, local[n].ver)'
    BY <1>G, <2>1, <2>2 DEF Trusted, Holds, HasFile
  <2>5. \A v \in Workers : v # w => /\ call'[v] = call[v] /\ (call[v].node = n => n \in spoiled')
    BY <1>9, <1>A, <1>O, <2>P, <2>1 DEF Work
  <2> QED
    BY <1>G, <2>1, <2>2, <2>3, <2>4, <2>5, Frame
<1>10. ASSUME NEW w \in Workers, DeleteLocal(w)
       PROVE  FilesHold' /\ InHand'
  <2>0. PICK n \in Nodes : n = call[w].node
    BY <1>10, <1>T DEF DeleteLocal, At
  <2>1. /\ call'[w].stage = "idle" /\ UNCHANGED <<seen, disk, handle>>
        /\ \A m \in Nodes : m # n => local'[m] = local[m]
        /\ local'[n].ver = 0
    BY <1>0, <1>10, <2>0 DEF DeleteLocal, Enter, Idle, Between, NoLocal, history
  <2>2. CopyInHand(w)'
    BY <2>1 DEF CopyInHand
  <2>3. local'[n].ver =< seen'[n] /\ ~Trusted(n)'
    BY <1>0, <2>0, <2>1 DEF Trusted, Copied
  <2>4. \A v \in Workers : v # w => /\ call'[v] = call[v] /\ (call[v].node = n => n \in spoiled')
    BY <1>10, <1>A, <1>O, <2>0 DEF Work
  <2> QED
    BY <1>G, <2>0, <2>1, <2>2, <2>3, <2>4, Frame
<1>11. ASSUME NEW w \in Workers, Apply(w)
       PROVE  FilesHold' /\ InHand'
  <2>1. PICK e \in pull[w].page, stage \in {"relocating", "dropping", "putting"} :
          /\ Copying(w, e.node, stage, e.ver, e.path)
          /\ Spoil({m \in {e.node} : Busy(m)})
          /\ \/ /\ stage = "relocating" /\ Moved(e) /\ HasFile(local[e.node].path)
                /\ Rename(local[e.node].path, e.path)
             \/ /\ stage # "relocating"
                /\ \/ Removed(local[e.node].path) \/ NotRemoved(local[e.node].path)
                   \/ UNCHANGED <<disk, handle>>
    BY <1>11 DEF Apply
  <2> DEFINE n == e.node
             p == local[n].path
             q == e.path
  <2>2. /\ call'[w] = [stage |-> stage, node |-> n, ver |-> e.ver, path |-> q]
        /\ UNCHANGED <<local, seen>> /\ (Busy(n) => n \in spoiled')
    BY <1>0, <1>11, <2>1 DEF Apply, Copying, Enter, Spoil
  <2>3. n \in Nodes /\ q \in Paths \cup {None}
    BY DeskTypes
  <2>4. Claims(n, p) /\ Claims(n, q)
    BY <2>3 DEF Claims
  <2>5. \A v \in Workers : v # w => call'[v] = call[v] /\ (call[v].node = n => n \in spoiled')
    BY <1>11, <1>O, <2>2 DEF Work, Busy
  <2>6. n \notin spoiled => local[n].ver =< seen[n] /\ (Trusted(n) => Holds(p, n, local[n].ver))
    BY <2>3 DEF FilesHold
  <2>7. Trusted(n)' <=> Trusted(n)
    BY <2>2 DEF Trusted, Copied
  <2>8. call'[w].node = n
    BY <2>2
  <2>9. CASE stage # "relocating"
    <3>1. CopyInHand(w)'
      BY <2>2, <2>9 DEF CopyInHand
    <3>2. /\ \A r \in Paths : disk'[r] = disk[r] \/ (r = p /\ disk'[r] = NoFile)
          /\ \A v \in Workers : handle'[v] = handle[v] \/ (handle[v] = p /\ p \in Paths)
      BY <1>U, <2>1, <2>3, <2>9
    <3>3. Holds(p, n, local[n].ver) => Holds(local[n].path, n, local[n].ver)'
      BY <1>0, <2>2, <2>3, <3>2 DEF Holds, HasFile
    <3>4. n \notin spoiled' => /\ local'[n].ver =< seen'[n]
                               /\ Trusted(n)' => Holds(local[n].path, n, local[n].ver)'
      BY <1>G, <2>2, <2>6, <2>7, <3>3
    <3> QED
      BY <1>G, <2>2, <2>3, <2>4, <2>5, <3>1, <3>2, <3>4, Frame
  <2>10. CASE stage = "relocating"
    <3>1. p \in Paths /\ q \in Paths /\ p # q /\ Rename(p, q)
      BY <1>0, <2>1, <2>3, <2>10 DEF Moved, HasFile
    <3>2. disk'[q] = disk[p] /\ disk'[p] = NoFile /\ \A r \in Paths : r # p /\ r # q => disk'[r] = disk[r]
      BY <1>0, <3>1 DEF Rename
    <3>3. \A v \in Workers : handle'[v] = handle[v] \/ (handle[v] \in Paths /\ Claims(n, handle[v]))
      <4>1. \A v \in Workers : handle'[v] = IF handle[v] = p THEN q
                                             ELSE IF handle[v] = q THEN None ELSE handle[v]
        BY <3>1 DEF Rename
      <4> QED
        BY <2>4, <3>1, <4>1
    <3>4. Holds(local[n].path, n, local[n].ver)'
      BY <2>2, <3>2 DEF Holds, HasFile
    <3>5. Holds(p, n, local[n].ver) => Holds(q, n, local[n].ver)'
      BY <2>2, <3>1, <3>2, NoneAssumption DEF Holds, HasFile
    <3>6. n \notin spoiled' => CopyInHand(w)'
      <4>1. n \notin spoiled' /\ Trusted(n)' => Holds(q, n, local[n].ver)'
        BY <1>G, <2>6, <2>7, <3>5
      <4> QED
        BY <2>2, <2>10, <4>1 DEF CopyInHand, Holds, HasFile, Trusted, Copied
    <3>7. n \notin spoiled' => /\ local'[n].ver =< seen'[n]
                               /\ Trusted(n)' => Holds(local[n].path, n, local[n].ver)'
      BY <1>G, <2>2, <2>6, <3>4
    <3>8. \A r \in Paths : disk'[r] = disk[r] \/ Claims(n, r)
      BY <2>4, <3>2
    <3> QED
      BY <1>G, <2>2, <2>3, <2>5, <2>8, <3>3, <3>6, <3>7, <3>8, Frame
  <2> QED
    BY <2>9, <2>10
<1>12. ASSUME NEW w \in Workers, MendLocal(w)
       PROVE  FilesHold' /\ InHand'
  <2>1. PICK n \in Nodes : n = call[w].node
    BY <1>12, <1>T DEF MendLocal, At
  <2>2. /\ call'[w].stage = "putting" /\ UNCHANGED <<seen, disk, handle>>
        /\ \A m \in Nodes : m # n => local'[m] = local[m]
        /\ \/ local'[n] = local[n] \/ local'[n].ver = 0
           \/ /\ call[w].stage = "relocating"
              /\ local'[n] = [ver |-> local[n].ver, path |-> call[w].path]
    BY <1>0, <1>12, <2>1 DEF MendLocal, To, Copying, Enter, NoLocal, At, history
  <2>3. CopyInHand(w)'
    BY <2>2 DEF CopyInHand
  <2>4. n \notin spoiled' => /\ local'[n].ver =< seen'[n]
                             /\ Trusted(n)' => Holds(local[n].path, n, local[n].ver)'
    <3> SUFFICES ASSUME n \notin spoiled
                 PROVE  /\ local'[n].ver =< seen[n]
                        /\ Trusted(n)' => Holds(local[n].path, n, local[n].ver)'
      BY <1>G, <2>2
    <3>1. local[n].ver =< seen[n] /\ (Trusted(n) => Holds(local[n].path, n, local[n].ver))
      BY <2>1 DEF FilesHold
    <3>2. CASE local'[n] = local[n]
      BY <2>2, <3>1, <3>2 DEF Trusted, Copied, Holds, HasFile
    <3>3. CASE local'[n].ver = 0
      BY <1>0, <2>1, <3>3 DEF Trusted, Copied
    <3>4. CASE /\ call[w].stage = "relocating"
               /\ local'[n] = [ver |-> local[n].ver, path |-> call[w].path]
      <4>1. Trusted(n) => Holds(call[w].path, n, local[n].ver)
        BY <2>1, <3>4 DEF InHand, CopyInHand
      <4>2. Trusted(n)' => Trusted(n)
        BY <2>2, <3>4 DEF Trusted, Copied
      <4> QED
        BY <2>2, <3>1, <3>4, <4>1, <4>2 DEF Holds, HasFile
    <3> QED
      BY <2>2, <3>2, <3>3, <3>4
  <2>5. \A v \in Workers : v # w => /\ call'[v] = call[v] /\ (call[v].node = n => n \in spoiled')
    BY <1>12, <1>A, <1>O, <2>1 DEF Work
  <2> QED
    BY <1>G, <2>1, <2>2, <2>3, <2>4, <2>5, Frame
<1>13. ASSUME NEW w \in Workers, PutRow(w)
       PROVE  FilesHold' /\ InHand'
  <2>0. PICK n \in Nodes : n = call[w].node
    BY <1>13, PutNode
  <2>1. /\ call'[w].stage \in {"marking", "applying"} /\ UNCHANGED <<local, disk, handle>>
    BY <1>13, PutPageStep
  <2>2. \A m \in Nodes : (m # n => seen'[m] = seen[m]) /\ seen[m] =< seen'[m] /\ seen'[m] \in Nat
    <3>1. \A m \in Nodes : m # n => seen'[m] = seen[m]
      BY <1>13, <2>0 DEF PutRow, TypeOK
    <3>2. \A m \in Nodes : seen'[m] \in Nat
      BY TypeStep DEF TypeOK
    <3> QED
      BY <1>13, <3>1, <3>2, SeenGrows
  <2>3. CopyInHand(w)'
    BY <2>1 DEF CopyInHand
  <2>4. n \notin spoiled' => /\ local'[n].ver =< seen'[n]
                             /\ Trusted(n)' => Holds(local[n].path, n, local[n].ver)'
    <3> SUFFICES ASSUME n \notin spoiled
                 PROVE  /\ local[n].ver =< seen'[n]
                        /\ Trusted(n)' => Holds(local[n].path, n, local[n].ver)'
      BY <1>G, <2>1
    <3>1. local[n].ver =< seen[n] /\ (Trusted(n) => Holds(local[n].path, n, local[n].ver))
      BY DEF FilesHold
    <3>2. local[n].ver =< seen'[n] /\ (local[n].ver = seen'[n] => local[n].ver = seen[n])
      <4>1. local[n].ver \in Nat /\ seen[n] \in Nat /\ seen'[n] \in Nat /\ seen[n] =< seen'[n]
        BY <1>0, <2>2
      <4> QED
        BY <3>1, <4>1
    <3>3. Trusted(n)' => Trusted(n)
      BY <2>1, <3>2 DEF Trusted, Copied
    <3> QED
      BY <2>1, <3>1, <3>2, <3>3 DEF Holds, HasFile
  <2>5. \A v \in Workers : v # w => /\ call'[v] = call[v] /\ (call[v].node = n => n \in spoiled')
    BY <1>13, <1>A, <1>O, <2>0 DEF Work
  <2> QED
    BY <1>G, <2>1, <2>2, <2>3, <2>4, <2>5, Frame
<1>14. ASSUME NEW w \in Workers, Refresh(w) \/ GetPage(w) \/ StoreCursor(w) \/ EndPage(w) \/ Fail(w)
       PROVE  FilesHold' /\ InHand'
  <2>1. UNCHANGED <<local, disk, seen>> /\ \A v \in Workers : v # w => handle'[v] = handle[v]
    BY <1>0, <1>14 DEF Refresh, Refreshing, GetPage, StoreCursor, EndPage, Fail, Return, history
  <2>2. call'[w].stage \in {"idle", "asking", "applying"}
    <3>1. CASE Refresh(w)
      <4>1. Enter(w, Between("asking"))
        BY <3>1 DEF Refresh, Refreshing
      <4> QED
        BY <1>0, <4>1 DEF Enter, Between
    <3>2. CASE GetPage(w)
      BY <1>0, <3>2 DEF GetPage, To, Copying, Enter
    <3>3. CASE StoreCursor(w)
      BY <1>0, <3>3 DEF StoreCursor, Enter, Between
    <3>4. CASE EndPage(w)
      <4>1. To(w, "asking") \/ Enter(w, Idle)
        BY <3>4, Zenon DEF EndPage
      <4> QED
        BY <1>0, <4>1 DEF To, Copying, Enter, Idle, Between
    <3>5. CASE Fail(w)
      BY <1>0, <3>5 DEF Fail, Return, Enter, Idle, Between
    <3> QED
      BY <1>14, <3>1, <3>2, <3>3, <3>4, <3>5
  <2>3. CopyInHand(w)'
    BY <2>2 DEF CopyInHand
  <2> QED
    BY <1>14, <1>G, <1>O, <2>1, <2>3, Still DEF Start, Work
<1>15. CASE UNCHANGED <<local, disk, seen, call, handle>>
  BY <1>15, <1>G, Still
<1>16. CASE Remote \/ UNCHANGED vars
  BY <1>15, <1>16 DEF Remote, Spoil, vars, history
<1>17. ASSUME NEW w \in Workers PROVE ~Mutate(w)
  BY DEF Mutate
<1>18. ASSUME NEW w \in Workers, Start(w) \/ Work(w) \/ Fail(w)
       PROVE  FilesHold' /\ InHand'
  BY <1>3, <1>4, <1>5, <1>6, <1>7, <1>8, <1>9, <1>10, <1>11, <1>12, <1>13, <1>14, <1>17, <1>18
     DEF Start, Work
<1> QED
  BY <1>16, <1>18 DEF Next

LEMMA AppKept == ASSUME [Next]_vars PROVE app' = app
<1>1. ASSUME NEW w \in Workers, Start(w) \/ Work(w) \/ Fail(w) PROVE app' = app
  BY <1>1 DEF Start, Fetch, Mark, RemoveLocal, Refresh, Mutate, Work, GetRow, CreateFile, Download,
     SetLocal, DeleteLocal, GetPage, Apply, MendLocal, PutRow, StoreCursor, EndPage, Fail
<1> QED
  BY <1>1 DEF Next, Remote, vars

\* On the desktop a fresh copy holds its node's content, whatever calls on other
\* nodes and however many refreshes overlap, and wherever a call breaks off.  The
\* exceptions are FreshIsCurrent's: a node two calls have worked on at once, whose
\* old copy Unpin has marked, or whose path was another one's, and a row that a
\* slower refresh has put back.
THEOREM CopiesAreCurrent == Spec => []FreshIsCurrent
<1>1. Init => CopiesInOrder
  <2> SUFFICES ASSUME Init PROVE CopiesInOrder
    OBVIOUS
  <2>1. OneOwner /\ OneHand /\ Handles
    BY NoneAssumption DEF Init, OneOwner, OneHand, Handles, Claims, NoRow, NoLocal, NoPull, Idle, Between
  <2>2. FilesHold
    <3> SUFFICES ASSUME NEW n \in Nodes \ spoiled
                 PROVE  /\ local[n].ver =< seen[n]
                        /\ Trusted(n) => Holds(local[n].path, n, local[n].ver)
      BY Zenon DEF FilesHold
    <3> QED
      <4>1. local[n] = NoLocal /\ seen[n] = 0
        BY DEF Init
      <4>2. local[n].ver = 0
        BY <4>1 DEF NoLocal
      <4> QED
        BY <4>1, <4>2 DEF Trusted, Copied
  <2>4. InHand
    BY DEF Init, InHand, CopyInHand, Idle, Between
  <2> QED
    BY <2>1, <2>2, <2>4 DEF CopiesInOrder
<1>2. IndexInv /\ CopiesInOrder /\ [Next]_vars => CopiesInOrder'
  <2> SUFFICES ASSUME IndexInv, CopiesInOrder, [Next]_vars, app' = "desktop" PROVE CopiesInOrder'
    BY DEF CopiesInOrder
  <2>1. app = "desktop"
    BY AppKept
  <2>2. DeskInv
    BY <2>1 DEF DeskInv, CopiesInOrder
  <2>3. OneOwner' /\ OneHand' /\ Handles'
    BY <2>2, OneOwnerStep, OneHandStep, HandlesStep DEF DeskInv, IndexInv
  <2> QED
    BY <2>2, <2>3, DeskStep DEF CopiesInOrder
<1>3. IndexInv /\ CopiesInOrder => FreshIsCurrent
  <2> SUFFICES ASSUME IndexInv, CopiesInOrder, app = "desktop", NEW n \in Nodes \ spoiled,
                      Known(n), IsFresh(n), HasFile(local[n].path), ~Overwritten(n)
               PROVE  IsCurrent(n)
    BY DEF FreshIsCurrent
  <2>1. n \notin overtaken
    BY DEF IndexInv, OneRefresh, Overwritten
  <2>2. rows[n].ver = seen[n] /\ local[n].ver =< seen[n]
    BY <2>1 DEF IndexInv, Covered, RowsKept, CopiesInOrder, FilesHold
  <2>3. local[n].ver \in Nat /\ rows[n].ver \in Nat
    BY DeskTypes DEF IndexInv
  <2>4. Trusted(n)
    BY <2>2, <2>3 DEF Trusted, IsFresh
  <2> QED
    BY <2>4 DEF CopiesInOrder, FilesHold, Holds, IsCurrent
<1> QED
  BY <1>1, <1>2, <1>3, IndexInvHolds, PTL DEF Spec

=============================================================================
