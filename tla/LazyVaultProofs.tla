-------------------------- MODULE LazyVaultProofs --------------------------
(***************************************************************************)
(* Proofs about LazyVault: for any devices, names and identifiers and any  *)
(* number of calls, that the vault stays well formed, that files get out   *)
(* of reach only below what was left behind, that a call that returns has  *)
(* done what it says and that a session keeps its files.                   *)
(*                                                                         *)
(* Under, the folders below a folder, is the least set that is closed      *)
(* under the entries, so that what is said of it is proved by naming a     *)
(* closed set; no induction is needed.                                     *)
(***************************************************************************)
EXTENDS LazyVault, FiniteSetTheorems, TLAPS

-----------------------------------------------------------------------------
(* The folders below a folder.                                             *)

Tree == [Dirs -> [Names -> Entry]]

\* No entry of a folder of the set leads out of it.
ClosedUnder(es, S) == \A k \in S, n \in Names : es[k][n].id \in S \cup {None}

LEMMA UnderIn ==
  ASSUME NEW es, NEW R \in SUBSET Dirs
  PROVE  Under(es, R) \in SUBSET Dirs /\ R \subseteq Under(es, R)
  BY DEF Under

LEMMA UnderLeast ==
  ASSUME NEW es, NEW R \in SUBSET Dirs, NEW S \in SUBSET Dirs, R \subseteq S, ClosedUnder(es, S)
  PROVE  Under(es, R) \subseteq S
  BY DEF Under, ClosedUnder

LEMMA UnderClosed ==
  ASSUME NEW es \in Tree, NEW R \in SUBSET Dirs
  PROVE  ClosedUnder(es, Under(es, R))
<1> SUFFICES ASSUME NEW k \in Under(es, R), NEW n \in Names, es[k][n].id # None
             PROVE  es[k][n].id \in Under(es, R)
  BY DEF ClosedUnder
<1> DEFINE i == es[k][n].id
<1>1. k \in Dirs
  BY UnderIn
<1>2. i \in Dirs
  BY <1>1 DEF Tree, Entry, Dirs
<1>3. ASSUME NEW S \in SUBSET Dirs, R \subseteq S, ClosedUnder(es, S) PROVE i \in S
  <2>1. k \in S
    BY <1>3, UnderLeast
  <2> QED BY <2>1, <1>3 DEF ClosedUnder
<1> QED BY <1>2, <1>3 DEF Under, ClosedUnder

\* What was found from R is found from Q when R is, and so is every folder that is no
\* longer where it was.
LEMMA UnderKept ==
  ASSUME NEW es \in Tree, NEW gs \in Tree, NEW R \in SUBSET Dirs, NEW Q \in SUBSET Dirs,
         R \subseteq Under(gs, Q),
         \A k \in Dirs, n \in Names :
            es[k][n].id \in {None, gs[k][n].id} \/ es[k][n].id \in Under(gs, Q)
  PROVE  Under(es, R) \subseteq Under(gs, Q)
<1>1. ClosedUnder(gs, Under(gs, Q)) /\ Under(gs, Q) \in SUBSET Dirs
  BY UnderClosed, UnderIn
<1>2. ClosedUnder(es, Under(gs, Q))
  BY <1>1 DEF ClosedUnder
<1> HIDE DEF Tree
<1> QED BY <1>1, <1>2, UnderLeast

-----------------------------------------------------------------------------
(* Types: with what a call has left to send, and what a plan can contain.  *)

\* What is left of the requests of a MakeDir, and of a WriteFile.
MakeLeft(n) ==
    {<<"id", "store">>, <<"store">>, <<>>}
    \cup IF n \in Long THEN {<<"folder", "named", "id", "store">>, <<"named", "id", "store">>}
                       ELSE {<<"folder", "id", "store">>}

WriteLeft(n) ==
    {<<"body">>, <<>>}
    \cup IF n \in Long THEN {<<"folder", "named", "body">>, <<"named", "body">>} ELSE {}

CallInOrder(k) ==
    \/ k = Idle
    \/ k.do = "make" /\ k.id \in Ids /\ k.todo \in MakeLeft(k.name)
    \/ k.do = "write" /\ k.body \in Bodies /\ k.todo \in WriteLeft(k.name)
    \/ k.do = "remove" /\ k.todo \in {<<"gone">>, <<>>}

\* What is uploaded removes nothing, and has the identifiers of the folders it makes.
PlanInOrder(plan) ==
    \A r \in plan : r.part # "gone" /\ (r.part \in {"store", "id"} => r.id \in Ids)

\* A folder with an entry has a storage directory, and a shortened entry is a folder.
EntriesInOrder ==
    \A d \in Dirs, n \in Names :
        /\ entries[d][n] # NoEntry => d \in stored
        /\ n \in Long /\ entries[d][n].body # None => entries[d][n].folder

TInv ==
    /\ TypeOK
    /\ \A c \in Clients : CallInOrder(call[c])
    /\ PlanInOrder(session.plan) /\ session.todo \subseteq session.plan
    /\ EntriesInOrder

\* A request and what the entry becomes, part by part.
WrittenParts(r, e) ==
    LET w == Written(r, e)
    IN  /\ w \in Entry
        /\ r.part \in {"folder", "named", "id"} => w.folder
        /\ r.part = "body" => (r.name \in Long => w.folder) /\ w.body = r.body
        /\ r.part = "body" => (r.name \notin Long => ~w.folder)
        /\ r.part \notin {"body", "gone"} => w.body = e.body
        /\ r.part = "id" => w.id = r.id
        /\ r.part \notin {"id", "gone"} => w.id = e.id
        /\ r.part = "named" => w.named
        /\ r.part \notin {"named", "gone"} => w.named = e.named
        /\ r.part = "gone" => w = NoEntry
        /\ r.part = "store" => w = e

LEMMA WrittenIs ==
  ASSUME NEW r \in Request, NEW e \in Entry
  PROVE  WrittenParts(r, e)
<1> USE DEF WrittenParts, Written, Entry, NoEntry
<1>1. CASE r.part = "folder"
  BY <1>1
<1>2. CASE r.part = "named"
  <2>1. Written(r, e) = [folder |-> TRUE, named |-> TRUE, id |-> e.id, body |-> e.body]
    BY <1>2
  <2> QED BY <1>2, <2>1
<1>3. CASE r.part = "id"
  <2>1. Written(r, e) = [folder |-> TRUE, named |-> e.named, id |-> r.id, body |-> e.body]
    BY <1>3
  <2>2. r.id \in Ids \cup {None}
    BY DEF Request
  <2> QED BY <1>3, <2>1, <2>2
<1>4. CASE r.part = "body"
  <2>1. r.body \in Bodies \cup {None}
    BY DEF Request
  <2>2. CASE r.name \in Long
    <3>1. Written(r, e) = [folder |-> TRUE, named |-> e.named, id |-> e.id, body |-> r.body]
      BY <1>4, <2>2
    <3> QED BY <1>4, <2>1, <2>2, <3>1
  <2>3. CASE r.name \notin Long
    <3> DEFINE f == r.name \in Long
    <3>1. f = FALSE
      BY <2>3
    <3> HIDE DEF f
    <3>2. Written(r, e) = [folder |-> f, named |-> e.named, id |-> e.id, body |-> r.body]
      <4>1. Written(r, e) = [e EXCEPT !.folder = f, !.body = r.body]
        BY <1>4 DEF f
      <4> QED BY <4>1
    <3> QED BY <1>4, <2>1, <2>3, <3>1, <3>2
  <2> QED BY <2>2, <2>3
<1>5. CASE r.part = "gone"
  BY <1>5
<1>6. CASE r.part = "store"
  BY <1>6
<1> QED BY <1>1, <1>2, <1>3, <1>4, <1>5, <1>6 DEF Request, Parts

LEMMA WrittenType ==
  ASSUME NEW r \in Request, NEW e \in Entry,
         e.id # None \/ e.named => e.folder,
         r.part = "body" /\ r.name \notin Long => ~e.folder
  PROVE  /\ Written(r, e) \in Entry
         /\ Written(r, e).id # None \/ Written(r, e).named => Written(r, e).folder
<1> DEFINE w == Written(r, e)
<1>1. WrittenParts(r, e)
  BY WrittenIs
<1>2. CASE r.part \in {"folder", "named", "id"}
  BY <1>1, <1>2 DEF WrittenParts
<1>3. CASE r.part = "body"
  BY <1>1, <1>3 DEF WrittenParts
<1>4. CASE r.part = "gone"
  BY <1>1, <1>4 DEF WrittenParts, NoEntry
<1>5. CASE r.part = "store"
  BY <1>1, <1>5 DEF WrittenParts
<1> QED BY <1>2, <1>3, <1>4, <1>5 DEF Request, Parts

\* A request writes one entry, and nothing changes below what it leaves alone.
LEMMA SendType ==
  ASSUME TypeOK, EntriesInOrder, NEW r \in Request, Send(r),
         r.part = "store" => r.id \in Ids
  PROVE  /\ entries' \in Tree /\ stored' \subseteq Dirs /\ left' \subseteq Ids
         /\ entries'[r.dir][r.name] = Written(r, entries[r.dir][r.name])
         /\ \A d \in Dirs, n \in Names :
               <<d, n>> # <<r.dir, r.name>> => entries'[d][n] = entries[d][n]
         /\ \A d \in Dirs, n \in Names :
               entries'[d][n].id # None \/ entries'[d][n].named => entries'[d][n].folder
         /\ EntriesInOrder'
<1> DEFINE e == entries[r.dir][r.name]
<1>1. r.dir \in Dirs /\ r.name \in Names /\ e \in Entry
  BY DEF TypeOK, Request
<1>2. /\ Written(r, e) \in Entry
      /\ Written(r, e).id # None \/ Written(r, e).named => Written(r, e).folder
  <2>1. e.id # None \/ e.named => e.folder
    BY <1>1 DEF TypeOK
  <2>2. r.part = "body" /\ r.name \notin Long => ~e.folder
    BY DEF Send, Accepts
  <2> QED BY <1>1, <2>1, <2>2, WrittenType
<1>3. entries' = [entries EXCEPT ![r.dir] = [entries[r.dir] EXCEPT ![r.name] = Written(r, e)]]
  BY DEF Send
<1>4. entries' \in Tree
  BY <1>1, <1>2, <1>3 DEF TypeOK, Tree
<1>5. entries'[r.dir][r.name] = Written(r, e)
  BY <1>1, <1>3 DEF TypeOK
<1>6. \A d \in Dirs, n \in Names :
         <<d, n>> # <<r.dir, r.name>> => entries'[d][n] = entries[d][n]
  BY <1>1, <1>3 DEF TypeOK
<1>7. \A d \in Dirs, n \in Names :
         entries'[d][n].id # None \/ entries'[d][n].named => entries'[d][n].folder
  BY <1>2, <1>5, <1>6 DEF TypeOK
<1>8. stored' \subseteq Dirs /\ stored \subseteq stored'
  BY <1>1 DEF Send, TypeOK, Dirs
<1>9. left' \subseteq Ids
  <2>1. e.id \in Ids \cup {None}
    BY <1>1 DEF Entry
  <2> QED BY <2>1 DEF Send, TypeOK
<1>10. EntriesInOrder'
  <2> SUFFICES ASSUME NEW d \in Dirs, NEW n \in Names
               PROVE  /\ entries'[d][n] # NoEntry => d \in stored'
                      /\ n \in Long /\ entries'[d][n].body # None => entries'[d][n].folder
    BY DEF EntriesInOrder
  <2>1. CASE <<d, n>> # <<r.dir, r.name>>
    BY <2>1, <1>6, <1>8 DEF EntriesInOrder
  <2>2. CASE d = r.dir /\ n = r.name
    <3>1. entries'[d][n] # NoEntry => d \in stored'
      BY <2>2, <1>5, <1>8 DEF EntriesInOrder, Send, Written
    <3>2. n \in Long /\ e.body # None => e.folder
      BY <2>2, <1>1 DEF EntriesInOrder
    <3>3. n \in Long /\ Written(r, e).body # None => Written(r, e).folder
      <4>1. WrittenParts(r, e)
        BY <1>1, WrittenIs
      <4> QED BY <2>2, <3>2, <4>1 DEF WrittenParts, NoEntry, Request, Parts
    <3> QED BY <3>1, <3>3, <2>2, <1>5
  <2> QED BY <2>1, <2>2
<1> QED BY <1>4, <1>5, <1>6, <1>7, <1>8, <1>9, <1>10

-----------------------------------------------------------------------------
(* The requests of a call, in their order.                                 *)

\* What a call sends next, and what it has left then.
Sends(k, p, rest) == Head(k.todo) = p /\ Tail(k.todo) = rest

LEMMA MakeSends ==
  ASSUME NEW k \in Call, k.todo \in MakeLeft(k.name), k.todo # <<>>
  PROVE  \/ Sends(k, "folder", <<"named", "id", "store">>) /\ k.name \in Long
         \/ Sends(k, "named", <<"id", "store">>) /\ k.name \in Long
         \/ Sends(k, "folder", <<"id", "store">>) /\ k.name \notin Long
         \/ Sends(k, "id", <<"store">>) /\ k.todo = <<"id", "store">>
         \/ Sends(k, "store", <<>>) /\ k.todo = <<"store">>
<1> USE DEF Sends
<1>1. CASE k.todo = <<"folder", "named", "id", "store">> /\ k.name \in Long
  BY <1>1
<1>2. CASE k.todo = <<"named", "id", "store">> /\ k.name \in Long
  BY <1>2
<1>3. CASE k.todo = <<"folder", "id", "store">> /\ k.name \notin Long
  BY <1>3
<1>4. CASE k.todo = <<"id", "store">>
  BY <1>4
<1>5. CASE k.todo = <<"store">>
  BY <1>5
<1> QED BY <1>1, <1>2, <1>3, <1>4, <1>5 DEF MakeLeft

LEMMA WriteSends ==
  ASSUME NEW k \in Call, k.todo \in WriteLeft(k.name), k.todo # <<>>
  PROVE  \/ Sends(k, "folder", <<"named", "body">>) /\ k.name \in Long
         \/ Sends(k, "named", <<"body">>) /\ k.name \in Long
         \/ Sends(k, "body", <<>>) /\ k.todo = <<"body">>
<1> USE DEF Sends
<1>1. CASE k.todo = <<"folder", "named", "body">> /\ k.name \in Long
  BY <1>1
<1>2. CASE k.todo = <<"named", "body">> /\ k.name \in Long
  BY <1>2
<1>3. CASE k.todo = <<"body">>
  BY <1>3
<1> QED BY <1>1, <1>2, <1>3 DEF WriteLeft

LEMMA RemoveSends ==
  ASSUME NEW k \in Call, k.todo \in {<<"gone">>, <<>>}, k.todo # <<>>
  PROVE  Sends(k, "gone", <<>>)
<1>1. k.todo = <<"gone">>
  OBVIOUS
<1> QED BY <1>1 DEF Sends

LEMMA LeftParts ==
  ASSUME NEW n
  PROVE  /\ MakeLeft(n) \subseteq Seq(Parts) /\ WriteLeft(n) \subseteq Seq(Parts)
         /\ <<>> \in Seq(Parts)
<1>1. /\ <<"folder", "named", "id", "store">> \in Seq(Parts) /\ <<"named", "id", "store">> \in Seq(Parts)
      /\ <<"folder", "id", "store">> \in Seq(Parts) /\ <<"id", "store">> \in Seq(Parts)
      /\ <<"store">> \in Seq(Parts) /\ <<>> \in Seq(Parts)
  BY DEF Parts
<1>2. /\ <<"folder", "named", "body">> \in Seq(Parts) /\ <<"named", "body">> \in Seq(Parts)
      /\ <<"body">> \in Seq(Parts)
  BY DEF Parts
<1> QED BY <1>1, <1>2 DEF MakeLeft, WriteLeft

\* What a call begins with.
LEMMA PartsLeft ==
  ASSUME NEW n
  PROVE  DirParts(n) \in MakeLeft(n) /\ FileParts(n) \in WriteLeft(n)
  BY DEF DirParts, MakeLeft, WriteLeft, FileParts

\* A call goes from one of the lists to the next.
LEMMA StepInOrder ==
  ASSUME NEW k \in Call, CallInOrder(k), k.todo # <<>>
  PROVE  /\ k.do # "idle" /\ Ask(k).part \in Parts
         /\ Ask(k).part = "store" => Ask(k).id \in Ids
         /\ [k EXCEPT !.todo = Tail(k.todo)] \in Call
         /\ CallInOrder([k EXCEPT !.todo = Tail(k.todo)])
<1> DEFINE t == Tail(k.todo)
<1>1. k # Idle
  BY DEF Idle
<1>2. CASE k.do = "make" /\ k.id \in Ids /\ k.todo \in MakeLeft(k.name)
  <2>1. Head(k.todo) \in Parts /\ t \in MakeLeft(k.name)
    BY <1>2, MakeSends DEF Sends, MakeLeft, Parts
  <2>2. t \in Seq(Parts)
    BY <2>1, LeftParts
  <2> HIDE DEF t
  <2> QED BY <1>2, <2>1, <2>2 DEF Ask, Call, CallInOrder, t
<1>3. CASE k.do = "write" /\ k.body \in Bodies /\ k.todo \in WriteLeft(k.name)
  <2>1. Head(k.todo) \in Parts \ {"store"} /\ t \in WriteLeft(k.name)
    BY <1>3, WriteSends DEF Sends, WriteLeft, Parts
  <2>2. t \in Seq(Parts)
    BY <2>1, LeftParts
  <2> HIDE DEF t
  <2> QED BY <1>3, <2>1, <2>2 DEF Ask, Call, CallInOrder, t
<1>4. CASE k.do = "remove" /\ k.todo \in {<<"gone">>, <<>>}
  <2>1. Head(k.todo) \in Parts \ {"store"} /\ t = <<>>
    BY <1>4, RemoveSends DEF Sends, Parts
  <2> HIDE DEF t
  <2> QED BY <1>4, <2>1, LeftParts DEF Ask, Call, CallInOrder, t
<1> QED BY <1>1, <1>2, <1>3, <1>4 DEF CallInOrder

\* A request of somebody else changes what a call knows of its entry only.
LEMMA NoticeIs ==
  ASSUME NEW r \in Request, NEW k \in Call
  PROVE  /\ Notice(r, k) \in Call
         /\ Notice(r, k).do = k.do /\ Notice(r, k).dir = k.dir /\ Notice(r, k).name = k.name
         /\ Notice(r, k).id = k.id /\ Notice(r, k).body = k.body /\ Notice(r, k).todo = k.todo
         /\ Notice(r, k).met = (k.met \/ Meets(r, k))
         /\ k = Idle => Notice(r, k) = Idle
         /\ CallInOrder(k) => CallInOrder(Notice(r, k))
<1> DEFINE m == k.met \/ Meets(r, k)
<1>1. m \in BOOLEAN
  BY DEF Call, Meets
<1>2. Notice(r, k) = [k EXCEPT !.met = m]
  BY DEF Notice
<1> HIDE DEF m
<1>3. /\ Notice(r, k) \in Call
      /\ Notice(r, k).do = k.do /\ Notice(r, k).dir = k.dir /\ Notice(r, k).name = k.name
      /\ Notice(r, k).id = k.id /\ Notice(r, k).body = k.body /\ Notice(r, k).todo = k.todo
      /\ Notice(r, k).met = m
  BY <1>1, <1>2 DEF Call
<1>4. k = Idle => Notice(r, k) = Idle
  <2> SUFFICES ASSUME k = Idle PROVE Notice(r, k) = Idle
    OBVIOUS
  <2>1. m = FALSE
    BY <1>1, ConstantAssumption DEF m, Meets, Idle, Request
  <2> QED BY <1>2, <2>1 DEF Idle
<1>5. CallInOrder(k) => CallInOrder(Notice(r, k))
  BY <1>3, <1>4 DEF CallInOrder
<1> QED BY <1>3, <1>4, <1>5 DEF m

\* A step of a call sends its next request, which the others notice.
LEMMA StepSends ==
  ASSUME TInv, NEW c \in Clients, Step(c)
  PROVE  /\ call[c] \in Call /\ call[c] # Idle /\ call[c].do # "idle" /\ call[c].todo # <<>>
         /\ call[c].name \in Names /\ call[c].dir \in known[c]
         /\ Ask(call[c]) \in Request /\ Send(Ask(call[c]))
         /\ Ask(call[c]).part = "store" => Ask(call[c]).id \in Ids
         /\ call' \in [Clients -> Call]
         /\ call'[c] = [call[c] EXCEPT !.todo = Tail(call[c].todo)]
         /\ call'[c] \in Call /\ CallInOrder(call'[c])
         /\ \A k \in Clients : k # c => call'[k] = Notice(Ask(call[c]), call[k])
         /\ \/ session' = session /\ (session.stage = "none" \/ Ask(call[c]).part = "store")
            \/ session' = [session EXCEPT !.met = @ \cup {<<call[c].dir, call[c].name>>}]
         /\ UNCHANGED <<known, begun>>
<1>0. PICK k : k = call[c]
  OBVIOUS
<1>1. k \in Call /\ k.todo # <<>> /\ CallInOrder(k) /\ k # Idle
  BY <1>0 DEF TInv, TypeOK, Step, Idle
<1>2. /\ k.do # "idle" /\ Ask(k).part \in Parts
      /\ Ask(k).part = "store" => Ask(k).id \in Ids
      /\ [k EXCEPT !.todo = Tail(k.todo)] \in Call
      /\ CallInOrder([k EXCEPT !.todo = Tail(k.todo)])
  BY <1>1, StepInOrder
<1>3. k.name \in Names /\ k.dir \in known[c]
  BY <1>0, <1>1 DEF TInv, TypeOK
<1>4. Ask(k) \in Request /\ Ask(k).dir = k.dir /\ Ask(k).name = k.name
  BY <1>1, <1>2, <1>3 DEF Ask, Request, Call
<1>5. Send(Ask(k)) /\ UNCHANGED <<known, begun>>
  BY <1>0 DEF Step
<1>6. call' = [j \in Clients |-> IF j = c THEN [k EXCEPT !.todo = Tail(k.todo)]
                                 ELSE Notice(Ask(k), call[j])]
  BY <1>0 DEF Step
<1>7. /\ call'[c] = [k EXCEPT !.todo = Tail(k.todo)]
      /\ \A j \in Clients : j # c => call'[j] = Notice(Ask(k), call[j])
  BY <1>6
<1>8. call' \in [Clients -> Call]
  BY <1>2, <1>4, <1>6, NoticeIs DEF TInv, TypeOK
<1>9. \/ session' = session /\ (session.stage = "none" \/ Ask(k).part = "store")
      \/ session' = [session EXCEPT !.met = @ \cup {<<k.dir, k.name>>}]
  BY <1>0, <1>4 DEF Step
<1> QED BY <1>0, <1>1, <1>2, <1>3, <1>4, <1>5, <1>7, <1>8, <1>9

-----------------------------------------------------------------------------
(* What CloseVault will upload.                                            *)

At(new, d) == IF d = Root THEN Root ELSE new[d]

Copy(new, d, n, p) ==
    [part |-> p, dir |-> At(new, d), name |-> n,
     id |-> IF entries[d][n].id = None THEN None ELSE new[entries[d][n].id],
     body |-> entries[d][n].body]

AnyName == CHOOSE m \in Names : TRUE

Store(new, d) == [part |-> "store", dir |-> Root, name |-> AnyName, id |-> new[d], body |-> None]

LEMMA EncryptedIs ==
  ASSUME NEW new, NEW r
  PROVE  r \in Encrypted(new) <=>
           \/ \E d \in Reachable, n \in Names : \E p \in PartsOf(d, n) : r = Copy(new, d, n, p)
           \/ \E d \in Reachable \ {Root} : r = Store(new, d)
<1> DEFINE copies == UNION {UNION {{Copy(new, d, n, p) : p \in PartsOf(d, n)} : n \in Names} : d \in Reachable}
           stores == {Store(new, d) : d \in Reachable \ {Root}}
<1>1. Encrypted(new) = copies \cup stores
  BY DEF Encrypted, Copy, Store, At, AnyName
<1>2. r \in copies <=> \E d \in Reachable, n \in Names : \E p \in PartsOf(d, n) : r = Copy(new, d, n, p)
  OBVIOUS
<1>3. r \in stores <=> \E d \in Reachable \ {Root} : r = Store(new, d)
  OBVIOUS
<1> HIDE DEF copies, stores
<1> QED BY <1>1, <1>2, <1>3

\* The new identifiers of the folders that are found.
Renaming(new) ==
    /\ new \in [Reachable \ {Root} -> {i \in Ids : Unused(i)}]
    /\ \A c, d \in DOMAIN new : new[c] = new[d] => c = d

LEMMA ReachableTree ==
  ASSUME TInv
  PROVE  /\ entries \in Tree /\ Root \in Dirs
         /\ Reachable \subseteq Dirs /\ Root \in Reachable /\ ClosedUnder(entries, Reachable)
         /\ Names = {} => Reachable = {Root}
<1>1. entries \in Tree /\ Root \in Dirs
  BY DEF TInv, TypeOK, Tree, Dirs
<1>2. Reachable \subseteq Dirs /\ Root \in Reachable /\ ClosedUnder(entries, Reachable)
  BY <1>1, UnderIn, UnderClosed DEF Reachable
<1>3. ASSUME Names = {} PROVE Reachable \subseteq {Root}
  <2>1. ClosedUnder(entries, {Root})
    BY <1>3 DEF ClosedUnder
  <2> QED BY <2>1, <1>1, UnderLeast DEF Reachable
<1> QED BY <1>1, <1>2, <1>3

LEMMA AtType ==
  ASSUME TInv, NEW new, Renaming(new), NEW d \in Reachable
  PROVE  /\ At(new, d) \in Dirs
         /\ d # Root => At(new, d) = new[d] /\ new[d] \in Ids /\ Unused(new[d])
         /\ d = Root => At(new, d) = Root
  BY DEF At, Renaming, Dirs

LEMMA CopyType ==
  ASSUME TInv, NEW new, Renaming(new), NEW d \in Reachable, NEW n \in Names,
         NEW p \in PartsOf(d, n)
  PROVE  /\ Copy(new, d, n, p) \in Request /\ p \in {"folder", "named", "id", "body"}
         /\ Copy(new, d, n, p).part = p /\ Copy(new, d, n, p).dir = At(new, d)
         /\ Copy(new, d, n, p).name = n /\ Copy(new, d, n, p).body = entries[d][n].body
         /\ entries[d][n].id # None => /\ entries[d][n].id \in Reachable \ {Root}
                                       /\ Copy(new, d, n, p).id = new[entries[d][n].id]
                                       /\ Copy(new, d, n, p).id \in Ids
         /\ p = "id" => entries[d][n].id # None
<1> DEFINE e == entries[d][n]
<1>1. e \in Entry /\ d \in Dirs
  BY ReachableTree DEF Tree
<1>2. p \in {"folder", "named", "id", "body"} /\ (p = "id" => e.id # None)
  BY DEF PartsOf
<1>3. e.id # None => e.id \in Reachable \ {Root}
  BY <1>1, ReachableTree, ConstantAssumption DEF ClosedUnder, Entry
<1>4. At(new, d) \in Dirs
  BY AtType
<1>5. e.id # None => new[e.id] \in Ids
  BY <1>3, AtType
<1>6. (IF e.id = None THEN None ELSE new[e.id]) \in Ids \cup {None} /\ e.body \in Bodies \cup {None}
  BY <1>1, <1>5 DEF Entry
<1>7. Copy(new, d, n, p) \in Request
  BY <1>2, <1>4, <1>6 DEF Copy, Request, Parts
<1> QED BY <1>2, <1>3, <1>5, <1>7 DEF Copy

LEMMA StoreType ==
  ASSUME TInv, NEW new, Renaming(new), NEW d \in Reachable \ {Root}
  PROVE  /\ Store(new, d) \in Request /\ new[d] \in Ids
         /\ Store(new, d).part = "store" /\ Store(new, d).id = new[d] /\ Store(new, d).dir = Root
<1>1. AnyName \in Names
  BY ReachableTree DEF AnyName
<1>2. new[d] \in Ids
  BY AtType
<1>3. Root \in Dirs
  BY DEF Dirs
<1> QED BY <1>1, <1>2, <1>3 DEF Store, Request, Parts

LEMMA EncryptedType ==
  ASSUME TInv, NEW new, Renaming(new)
  PROVE  Encrypted(new) \subseteq Request /\ PlanInOrder(Encrypted(new))
<1> SUFFICES ASSUME NEW r \in Encrypted(new)
             PROVE  /\ r \in Request /\ r.part # "gone"
                    /\ r.part \in {"store", "id"} => r.id \in Ids
  BY DEF PlanInOrder
<1>1. ASSUME NEW d \in Reachable, NEW n \in Names, NEW p \in PartsOf(d, n), r = Copy(new, d, n, p)
      PROVE  r \in Request /\ r.part # "gone" /\ (r.part \in {"store", "id"} => r.id \in Ids)
  BY <1>1, CopyType
<1>2. ASSUME NEW d \in Reachable \ {Root}, r = Store(new, d)
      PROVE  r \in Request /\ r.part # "gone" /\ (r.part \in {"store", "id"} => r.id \in Ids)
  BY <1>2, StoreType
<1> QED BY <1>1, <1>2, EncryptedIs

-----------------------------------------------------------------------------
(* The invariant of the types.                                             *)

LEMMA IdleCall == Idle \in Call
<1>1. <<>> \in Seq(Parts)
  BY LeftParts
<1> QED BY <1>1 DEF Idle, Call, Dirs

LEMMA TInit == Init => TInv
<1> SUFFICES ASSUME Init PROVE TInv
  OBVIOUS
<1>1. entries \in [Dirs -> [Names -> Entry]]
  BY DEF Init, NoEntry, Entry
<1>2. call \in [Clients -> Call]
  BY IdleCall DEF Init
<1>3. stored \subseteq Dirs /\ known \in [Clients -> SUBSET Dirs]
  BY DEF Init, Dirs
<1>4. session \in Session
  BY DEF Init, NoSession, Session
<1>5. begun \in 0 .. MaxCalls
  BY ConstantAssumption DEF Init
<1>6. \A c \in Clients : call[c] = Idle
  BY DEF Init
<1>7. \A d \in Dirs, n \in Names : entries[d][n] = NoEntry
  BY DEF Init
<1>8. PlanInOrder(session.plan) /\ session.todo \subseteq session.plan
  BY DEF Init, NoSession, PlanInOrder
<1> QED BY <1>1, <1>2, <1>3, <1>4, <1>5, <1>6, <1>7, <1>8
        DEF TInv, TypeOK, Init, CallInOrder, EntriesInOrder, NoEntry

\* What the others notice is no new work for them.
LEMMA NoticedCalls ==
  ASSUME TInv, NEW r \in Request, NEW k \in Clients, call'[k] = Notice(r, call[k])
  PROVE  /\ call'[k] # Idle => call'[k].dir \in known[k] /\ call'[k].name \in Names
         /\ CallInOrder(call'[k])
<1>1. call[k] \in Call /\ CallInOrder(call[k])
  BY DEF TInv, TypeOK
<1>2. /\ call'[k].dir = call[k].dir /\ call'[k].name = call[k].name
      /\ call[k] = Idle => call'[k] = Idle
      /\ CallInOrder(call'[k])
  BY <1>1, NoticeIs
<1> QED BY <1>2 DEF TInv, TypeOK

LEMMA TStepCall ==
  ASSUME TInv, NEW c \in Clients, Step(c)
  PROVE  TInv'
<1>0. PICK r : r = Ask(call[c])
  OBVIOUS
<1>1. r \in Request /\ Send(r) /\ (r.part = "store" => r.id \in Ids)
  BY <1>0, StepSends
<1>2. /\ entries' \in Tree /\ stored' \subseteq Dirs /\ left' \subseteq Ids
      /\ \A d \in Dirs, n \in Names :
            entries'[d][n].id # None \/ entries'[d][n].named => entries'[d][n].folder
      /\ EntriesInOrder'
  BY <1>1, SendType DEF TInv
<1>3. /\ call' \in [Clients -> Call]
      /\ call'[c] = [call[c] EXCEPT !.todo = Tail(call[c].todo)]
      /\ call'[c] \in Call /\ CallInOrder(call'[c])
      /\ call[c].name \in Names /\ call[c].dir \in known[c] /\ call[c] \in Call
      /\ \A k \in Clients : k # c => call'[k] = Notice(r, call[k])
      /\ UNCHANGED <<known, begun>>
  BY <1>0, StepSends
<1>4. call'[c].dir \in known'[c] /\ call'[c].name \in Names
  BY <1>3 DEF Call
<1>5. \A k \in Clients : /\ call'[k] # Idle => call'[k].dir \in known'[k] /\ call'[k].name \in Names
                         /\ CallInOrder(call'[k])
  BY <1>1, <1>3, <1>4, NoticedCalls
<1>6. /\ session' \in Session /\ PlanInOrder(session'.plan) /\ session'.todo \subseteq session'.plan
  <2>1. <<call[c].dir, call[c].name>> \in Places
    BY <1>3 DEF TInv, TypeOK, Places
  <2>2. CASE session' = session
    BY <2>2 DEF TInv, TypeOK
  <2>3. CASE session' = [session EXCEPT !.met = @ \cup {<<call[c].dir, call[c].name>>}]
    BY <2>1, <2>3 DEF TInv, TypeOK, Session
  <2> QED BY <2>2, <2>3, StepSends
<1> QED BY <1>2, <1>3, <1>5, <1>6 DEF TInv, TypeOK, Tree

LEMMA TBegin ==
  ASSUME TInv, NEW c \in Clients, NEW d \in Dirs, NEW n \in Names,
         NEW do \in {"make", "write", "remove"}, NEW id \in Ids \cup {None},
         NEW body \in Bodies \cup {None}, NEW todo \in Seq(Parts),
         Begin(c, do, d, n, id, body, todo),
         \A m : CallInOrder([do |-> do, dir |-> d, name |-> n, id |-> id, body |-> body,
                             todo |-> todo, met |-> m])
  PROVE  TInv'
<1> DEFINE m == do = "write" /\ n \in Long /\ entries[d][n].id # None
           k == [do |-> do, dir |-> d, name |-> n, id |-> id, body |-> body, todo |-> todo,
                 met |-> m]
<1>0. m \in BOOLEAN
  OBVIOUS
<1>1. k \in Call /\ CallInOrder(k) /\ k.dir \in known[c] /\ k.name \in Names
  BY <1>0 DEF Call, Begin
<1>2. call' = [call EXCEPT ![c] = k]
  BY DEF Begin
<1> HIDE DEF k, m
<1>3. call' \in [Clients -> Call] /\ call'[c] = k /\ \A j \in Clients : j # c => call'[j] = call[j]
  BY <1>1, <1>2 DEF TInv, TypeOK
<1>4. begun' \in 0 .. MaxCalls
  BY ConstantAssumption DEF TInv, TypeOK, Begin
<1>5. \A j \in Clients : call'[j] # Idle => call'[j].dir \in known[j] /\ call'[j].name \in Names
  BY <1>1, <1>3 DEF TInv, TypeOK
<1>6. \A j \in Clients : CallInOrder(call'[j])
  BY <1>1, <1>3 DEF TInv
<1>7. UNCHANGED <<entries, stored, left, known, session>>
  BY DEF Begin
<1> QED BY <1>3, <1>4, <1>5, <1>6, <1>7 DEF TInv, TypeOK, EntriesInOrder, PlanInOrder

\* A call that ends leaves what its client knows, and adds to it at most a folder it made.
LEMMA TEnd ==
  ASSUME TInv, NEW c \in Clients, call' = [call EXCEPT ![c] = Idle],
         NEW S \in SUBSET Dirs, known' = [known EXCEPT ![c] = @ \cup S],
         UNCHANGED <<entries, stored, left, session, begun>>
  PROVE  TInv'
<1>1. /\ call' \in [Clients -> Call] /\ call'[c] = Idle
      /\ \A j \in Clients : j # c => call'[j] = call[j]
  BY IdleCall DEF TInv, TypeOK
<1>2. /\ known' \in [Clients -> SUBSET Dirs]
      /\ \A j \in Clients : known[j] \subseteq known'[j]
  BY DEF TInv, TypeOK
<1>3. \A j \in Clients : call'[j] # Idle => call'[j].dir \in known'[j] /\ call'[j].name \in Names
  BY <1>1, <1>2 DEF TInv, TypeOK
<1>4. \A j \in Clients : CallInOrder(call'[j])
  BY <1>1 DEF TInv, CallInOrder
<1> QED BY <1>1, <1>2, <1>3, <1>4 DEF TInv, TypeOK, EntriesInOrder, PlanInOrder

\* What a session does without sending a request.
LEMMA TSession ==
  ASSUME TInv, session' \in Session, PlanInOrder(session'.plan), session'.todo \subseteq session'.plan,
         left' \subseteq Ids, begun' \in 0 .. MaxCalls,
         UNCHANGED <<entries, stored, known, call>>
  PROVE  TInv'
  BY DEF TInv, TypeOK, EntriesInOrder

LEMMA UploadSends ==
  ASSUME TInv, Upload, NEW r \in session.todo, session' = [session EXCEPT !.todo = @ \ {r}],
         call' = [k \in Clients |-> Notice(r, call[k])]
  PROVE  /\ r \in Request /\ (r.part = "store" => r.id \in Ids)
         /\ call' \in [Clients -> Call] /\ \A k \in Clients : call'[k] = Notice(r, call[k])
         /\ session' \in Session /\ session'.plan = session.plan
         /\ session'.todo = session.todo \ {r} /\ session'.stage = "closing"
         /\ session'.met = session.met /\ session'.copied = session.copied
<1>1. r \in Request /\ (r.part = "store" => r.id \in Ids)
  BY DEF TInv, TypeOK, Session, PlanInOrder
<1>2. call' \in [Clients -> Call]
  BY <1>1, NoticeIs DEF TInv, TypeOK
<1>3. session \in Session /\ session.stage = "closing"
  BY DEF TInv, TypeOK, Upload
<1> QED BY <1>1, <1>2, <1>3 DEF Session

LEMMA TUpload ==
  ASSUME TInv, Upload
  PROVE  TInv'
<1>1. PICK r \in session.todo : /\ Send(r) /\ session' = [session EXCEPT !.todo = @ \ {r}]
                                /\ call' = [k \in Clients |-> Notice(r, call[k])]
  BY DEF Upload
<1>2. /\ r \in Request /\ (r.part = "store" => r.id \in Ids)
      /\ call' \in [Clients -> Call] /\ \A k \in Clients : call'[k] = Notice(r, call[k])
      /\ session' \in Session /\ session'.plan = session.plan
      /\ session'.todo = session.todo \ {r}
  BY <1>1, UploadSends
<1>3. /\ entries' \in Tree /\ stored' \subseteq Dirs /\ left' \subseteq Ids
      /\ \A d \in Dirs, n \in Names :
            entries'[d][n].id # None \/ entries'[d][n].named => entries'[d][n].folder
      /\ EntriesInOrder'
  BY <1>1, <1>2, SendType DEF TInv
<1>4. PlanInOrder(session'.plan) /\ session'.todo \subseteq session'.plan
  BY <1>2 DEF TInv
<1>5. UNCHANGED <<known, begun>>
  BY DEF Upload
<1>6. \A k \in Clients : /\ call'[k] # Idle => call'[k].dir \in known'[k] /\ call'[k].name \in Names
                         /\ CallInOrder(call'[k])
  BY <1>2, <1>5, NoticedCalls
<1> QED BY <1>2, <1>3, <1>4, <1>5, <1>6 DEF TInv, TypeOK, Tree

LEMMA TStep == TInv /\ [Next]_vars => TInv'
<1> SUFFICES ASSUME TInv, [Next]_vars PROVE TInv'
  OBVIOUS
<1>1. ASSUME NEW c \in Clients, NEW d \in Dirs, List(c, d) PROVE TInv'
  <2>1. {entries[d][n].id : n \in Names} \ {None} \subseteq Dirs
    BY DEF TInv, TypeOK, Entry, Dirs
  <2>2. /\ known' \in [Clients -> SUBSET Dirs]
        /\ \A j \in Clients : known[j] \subseteq known'[j]
    BY <1>1, <2>1 DEF List, TInv, TypeOK
  <2>3. UNCHANGED <<entries, stored, left, call, session, begun>>
    BY <1>1 DEF List
  <2> QED BY <2>2, <2>3 DEF TInv, TypeOK, EntriesInOrder, PlanInOrder
<1>2. ASSUME NEW c \in Clients, NEW d \in Dirs, NEW n \in Names, MakeDir(c, d, n) PROVE TInv'
  <2>1. PICK i \in Ids : Begin(c, "make", d, n, i, None, DirParts(n))
    BY <1>2 DEF MakeDir
  <2>2. DirParts(n) \in MakeLeft(n)
    BY PartsLeft
  <2>3. DirParts(n) \in Seq(Parts)
    BY <2>2, LeftParts
  <2> QED BY <2>1, <2>2, <2>3, TBegin DEF CallInOrder
<1>3. ASSUME NEW c \in Clients, NEW d \in Dirs, NEW n \in Names, Remove(c, d, n) PROVE TInv'
  <2>1. <<"gone">> \in Seq(Parts)
    BY DEF Parts
  <2> QED BY <1>3, <2>1, TBegin DEF CallInOrder, Remove
<1>4. ASSUME NEW c \in Clients, NEW d \in Dirs, NEW n \in Names, NEW b \in Bodies,
             WriteFile(c, d, n, b) PROVE TInv'
  <2>1. FileParts(n) \in WriteLeft(n)
    BY PartsLeft
  <2>2. FileParts(n) \in Seq(Parts)
    BY <2>1, LeftParts
  <2> QED BY <1>4, <2>1, <2>2, TBegin DEF CallInOrder, WriteFile
<1>5. ASSUME NEW c \in Clients, Step(c) PROVE TInv'
  BY <1>5, TStepCall
<1>6. ASSUME NEW c \in Clients, Return(c) PROVE TInv'
  <2> DEFINE S == IF call[c].do = "make" THEN {call[c].id} ELSE {}
  <2>1. S \in SUBSET Dirs
    BY <1>6 DEF Return, Busy, TInv, CallInOrder, Dirs, Idle
  <2>2. known' = [known EXCEPT ![c] = @ \cup S]
    BY <1>6 DEF Return, TInv, TypeOK
  <2>3. call' = [call EXCEPT ![c] = Idle] /\ UNCHANGED <<entries, stored, left, session, begun>>
    BY <1>6 DEF Return
  <2> HIDE DEF S
  <2> QED BY <2>1, <2>2, <2>3, TEnd
<1>7. ASSUME NEW c \in Clients, BreakOff(c) PROVE TInv'
  <2>1. \E S \in SUBSET Dirs : known' = [known EXCEPT ![c] = @ \cup S]
    <3>1. known' = [known EXCEPT ![c] = @ \cup {}]
      BY <1>7 DEF BreakOff, TInv, TypeOK
    <3> QED BY <3>1
  <2>2. PICK S \in SUBSET Dirs : known' = [known EXCEPT ![c] = @ \cup S]
    BY <2>1
  <2> QED BY <1>7, <2>2, TEnd DEF BreakOff
<1>8. ASSUME OpenVault PROVE TInv'
  <2>1. PICK new : Renaming(new) /\
          session' = [stage |-> "open", plan |-> Encrypted(new), todo |-> {},
                      copied |-> Files, met |-> {}]
    BY <1>8 DEF OpenVault, Renaming
  <2>2. Encrypted(new) \subseteq Request /\ PlanInOrder(Encrypted(new))
    BY <2>1, EncryptedType
  <2>3. Files \subseteq Places
    BY ReachableTree DEF Files, Places
  <2>4. session' \in Session /\ PlanInOrder(session'.plan) /\ session'.todo \subseteq session'.plan
    BY <2>1, <2>2, <2>3 DEF Session
  <2>5. begun' \in 0 .. MaxCalls
    BY <1>8, ConstantAssumption DEF OpenVault, TInv, TypeOK
  <2>6. left' \subseteq Ids /\ UNCHANGED <<entries, stored, known, call>>
    BY <1>8 DEF OpenVault, TInv, TypeOK
  <2> QED BY <2>4, <2>5, <2>6, TSession
<1>9. ASSUME CloseVault PROVE TInv'
  <2>1. session' \in Session /\ PlanInOrder(session'.plan) /\ session'.todo \subseteq session'.plan
    BY <1>9 DEF CloseVault, TInv, TypeOK, Session
  <2> QED BY <1>9, <2>1, TSession DEF CloseVault, TInv, TypeOK
<1>10. ASSUME Upload PROVE TInv'
  BY <1>10, TUpload
<1>11. ASSUME FailUpload PROVE TInv'
  <2>1. session' \in Session /\ PlanInOrder(session'.plan) /\ session'.todo \subseteq session'.plan
    BY <1>11 DEF FailUpload, TInv, TypeOK, Session
  <2> QED BY <1>11, <2>1, TSession DEF FailUpload, TInv, TypeOK
<1>12. ASSUME Quit PROVE TInv'
  <2>1. session' \in Session /\ PlanInOrder(session'.plan) /\ session'.todo \subseteq session'.plan
    BY <1>12 DEF Quit, NoSession, Session, PlanInOrder
  <2>2. left' \subseteq Ids
    BY <1>12 DEF Quit, Adrift, TInv, TypeOK, PlanInOrder
  <2> QED BY <1>12, <2>1, <2>2, TSession DEF Quit, TInv, TypeOK
<1>13. ASSUME Closed PROVE TInv'
  <2>1. session' \in Session /\ PlanInOrder(session'.plan) /\ session'.todo \subseteq session'.plan
    BY <1>13 DEF Closed, NoSession, Session, PlanInOrder
  <2> QED BY <1>13, <2>1, TSession DEF Closed, TInv, TypeOK
<1>14. CASE UNCHANGED vars
  BY <1>14 DEF vars, TInv, TypeOK, EntriesInOrder, PlanInOrder
<1> QED BY <1>1, <1>2, <1>3, <1>4, <1>5, <1>6, <1>7, <1>8, <1>9, <1>10, <1>11, <1>12, <1>13, <1>14
        DEF Next

LEMMA TInvariant == Spec => []TInv
<1>1. TInv /\ [Next]_vars => TInv'
  BY TStep
<1> QED BY TInit, <1>1, PTL DEF Spec

\* Whatever the devices, the session and the faults do, the vault stays well formed: an
\* entry that has an identifier or a name in it is a folder, and a call works in a
\* folder its client has listed or made.
THEOREM LazyVaultTypes == Spec => []TypeOK
<1>1. TInv => TypeOK
  BY DEF TInv
<1> QED BY <1>1, TInvariant, PTL

-----------------------------------------------------------------------------
(* A request and what it leaves of the entries.                            *)

\* w is what r makes of the entry e.
Wrote(r, e, w) ==
    /\ e \in Entry /\ w \in Entry
    /\ r.part \in {"folder", "named", "id"} => w.folder
    /\ r.part = "id" => w.id = r.id
    /\ r.part = "body" => w.body = r.body /\ (r.name \notin Long => w.id = None)
    /\ r.part \notin {"body", "gone"} => w.body = e.body
    /\ r.part \notin {"id", "gone"} => w.id = e.id
    /\ r.part = "named" => w.named
    /\ r.part \notin {"named", "gone"} => w.named = e.named
    /\ r.part = "gone" => w = NoEntry
    /\ r.part = "store" => w = e

LEMMA SendIs ==
  ASSUME TInv, NEW r \in Request, Send(r), r.part = "store" => r.id \in Ids
  PROVE  /\ entries \in Tree /\ entries' \in Tree /\ r.dir \in Dirs /\ r.name \in Names
         /\ \A d \in Dirs, n \in Names :
               d # r.dir \/ n # r.name => entries'[d][n] = entries[d][n]
         /\ Wrote(r, entries[r.dir][r.name], entries'[r.dir][r.name])
         /\ stored \subseteq stored' /\ left \subseteq left'
         /\ r.part = "store" => r.id \in stored'
         /\ \A d \in Dirs, n \in Names :
               entries[d][n].id \in {None, entries'[d][n].id} \cup left'
<1>1. PICK e : e = entries[r.dir][r.name]
  OBVIOUS
<1>2. PICK w : w = entries'[r.dir][r.name]
  OBVIOUS
<1>3. /\ entries' \in Tree /\ w = Written(r, e)
      /\ \A d \in Dirs, n \in Names :
            <<d, n>> # <<r.dir, r.name>> => entries'[d][n] = entries[d][n]
      /\ w.id # None \/ w.named => w.folder
  <2>1. r.dir \in Dirs /\ r.name \in Names
    BY DEF Request
  <2> QED BY <1>1, <1>2, <2>1, SendType DEF TInv
<1>4. r.dir \in Dirs /\ r.name \in Names /\ entries \in Tree /\ e \in Entry
  BY <1>1 DEF Request, TInv, TypeOK, Tree
<1>5. WrittenParts(r, e)
  BY <1>4, WrittenIs
<1>6. Wrote(r, e, w)
  BY <1>3, <1>4, <1>5 DEF WrittenParts, Wrote
<1>7. left' = left \cup ({e.id} \ {None, w.id})
  BY <1>1, <1>3 DEF Send
<1>8. stored \subseteq stored' /\ (r.part = "store" => r.id \in stored')
  BY DEF Send
<1>9. e.id \in {None, w.id} \cup left'
  BY <1>7
<1>10. ASSUME NEW d \in Dirs, NEW n \in Names
       PROVE  entries[d][n].id \in {None, entries'[d][n].id} \cup left'
  <2>1. CASE <<d, n>> # <<r.dir, r.name>>
    BY <1>3, <2>1
  <2>2. CASE d = r.dir /\ n = r.name
    BY <1>1, <1>2, <1>9, <2>2
  <2> QED BY <2>1, <2>2
<1>11. \A d \in Dirs, n \in Names : d # r.dir \/ n # r.name => entries'[d][n] = entries[d][n]
  BY <1>3
<1>12. left \subseteq left'
  BY <1>7
<1> QED BY <1>1, <1>2, <1>3, <1>4, <1>6, <1>8, <1>10, <1>11, <1>12

\* The request of a call, and who notices it.
LEMMA StepIs ==
  ASSUME TInv, NEW c \in Clients, Step(c)
  PROVE  \E r \in Request :
            /\ r = Ask(call[c]) /\ Send(r) /\ (r.part = "store" => r.id \in Ids)
            /\ r.dir = call[c].dir /\ r.name = call[c].name
            /\ r.id = call[c].id /\ r.body = call[c].body
            /\ call'[c].dir = call[c].dir /\ call'[c].name = call[c].name
            /\ call'[c].do = call[c].do /\ call'[c].id = call[c].id
            /\ call'[c].body = call[c].body /\ call'[c].met = call[c].met
            /\ \A k \in Clients \ {c} : call'[k] = Notice(r, call[k])
            /\ session'.stage = session.stage /\ session'.plan = session.plan
            /\ session'.todo = session.todo /\ session'.copied = session.copied
            /\ session.met \subseteq session'.met
            /\ session.stage # "none" /\ r.part # "store" => <<r.dir, r.name>> \in session'.met
<1>1. PICK r : r = Ask(call[c])
  OBVIOUS
<1>2. /\ r.dir = call[c].dir /\ r.name = call[c].name
      /\ r.id = call[c].id /\ r.body = call[c].body
  BY <1>1 DEF Ask
<1>3. /\ r \in Request /\ Send(r) /\ (r.part = "store" => r.id \in Ids)
      /\ call[c] \in Call /\ call'[c] = [call[c] EXCEPT !.todo = Tail(call[c].todo)]
      /\ \A k \in Clients : k # c => call'[k] = Notice(r, call[k])
      /\ \/ session' = session /\ (session.stage = "none" \/ r.part = "store")
         \/ session' = [session EXCEPT !.met = @ \cup {<<r.dir, r.name>>}]
  BY <1>1, <1>2, StepSends
<1>4. /\ call'[c].dir = call[c].dir /\ call'[c].name = call[c].name
      /\ call'[c].do = call[c].do /\ call'[c].id = call[c].id
      /\ call'[c].body = call[c].body /\ call'[c].met = call[c].met
  BY <1>3 DEF Call
<1>5. /\ session'.stage = session.stage /\ session'.plan = session.plan
      /\ session'.todo = session.todo /\ session'.copied = session.copied
      /\ session.met \subseteq session'.met
      /\ session.stage # "none" /\ r.part # "store" => <<r.dir, r.name>> \in session'.met
  <2>1. session \in Session
    BY DEF TInv, TypeOK
  <2>2. CASE session' = session /\ (session.stage = "none" \/ r.part = "store")
    BY <2>2
  <2>3. CASE session' = [session EXCEPT !.met = @ \cup {<<r.dir, r.name>>}]
    BY <2>1, <2>3 DEF Session
  <2> QED BY <1>3, <2>2, <2>3
<1> QED BY <1>1, <1>2, <1>3, <1>4, <1>5

\* The request of an upload, which everybody notices.
LEMMA UploadIs ==
  ASSUME TInv, Upload
  PROVE  \E r \in Request :
            /\ r \in session.todo /\ r \in session.plan /\ Send(r)
            /\ r.part # "gone" /\ (r.part \in {"store", "id"} => r.id \in Ids)
            /\ \A k \in Clients : call'[k] = Notice(r, call[k])
            /\ session.stage = "closing" /\ session'.stage = "closing"
            /\ session'.plan = session.plan /\ session'.todo = session.todo \ {r}
            /\ session'.met = session.met /\ session'.copied = session.copied
            /\ UNCHANGED known
<1>1. PICK r \in session.todo : /\ Send(r) /\ session' = [session EXCEPT !.todo = @ \ {r}]
                                /\ call' = [k \in Clients |-> Notice(r, call[k])]
  BY DEF Upload
<1>2. /\ r \in Request /\ \A k \in Clients : call'[k] = Notice(r, call[k])
      /\ session'.plan = session.plan
      /\ session'.todo = session.todo \ {r} /\ session'.stage = "closing"
      /\ session'.met = session.met /\ session'.copied = session.copied
  BY <1>1, UploadSends
<1>3. r \in session.plan /\ r.part # "gone" /\ (r.part \in {"store", "id"} => r.id \in Ids)
  BY DEF TInv, PlanInOrder
<1>4. session.stage = "closing" /\ UNCHANGED known
  BY DEF Upload
<1> QED BY <1>1, <1>2, <1>3, <1>4

\* What a call sends next, by what it is for.
LEMMA StepKinds ==
  ASSUME TInv, NEW c \in Clients, Step(c)
  PROVE  \/ /\ call[c].do = "make" /\ call[c].id \in Ids
            /\ \/ /\ Ask(call[c]).part = "folder"
                  /\ call'[c].todo \in {<<"named", "id", "store">>, <<"id", "store">>}
                  /\ call[c].name \in Long => call'[c].todo = <<"named", "id", "store">>
                  /\ call[c].todo \notin {<<"id", "store">>, <<"store">>, <<>>}
               \/ /\ Ask(call[c]).part = "named" /\ call'[c].todo = <<"id", "store">>
                  /\ call[c].todo \notin {<<"id", "store">>, <<"store">>, <<>>}
               \/ /\ Ask(call[c]).part = "id" /\ call'[c].todo = <<"store">>
                  /\ call[c].todo = <<"id", "store">>
               \/ /\ Ask(call[c]).part = "store" /\ call'[c].todo = <<>>
                  /\ call[c].todo = <<"store">>
         \/ /\ call[c].do = "write" /\ call[c].body \in Bodies
            /\ \/ /\ Ask(call[c]).part = "folder" /\ call'[c].todo = <<"named", "body">>
               \/ /\ Ask(call[c]).part = "named" /\ call'[c].todo = <<"body">>
               \/ /\ Ask(call[c]).part = "body" /\ call'[c].todo = <<>>
                  /\ call[c].todo = <<"body">>
         \/ /\ call[c].do = "remove" /\ Ask(call[c]).part = "gone" /\ call'[c].todo = <<>>
            /\ call[c].todo # <<>>
<1> DEFINE k == call[c]
<1>1. /\ k \in Call /\ k # Idle /\ k.todo # <<>> /\ CallInOrder(k)
      /\ call'[c] = [k EXCEPT !.todo = Tail(k.todo)]
  BY StepSends DEF TInv
<1>2. Ask(k).part = Head(k.todo) /\ call'[c].todo = Tail(k.todo)
  BY <1>1 DEF Ask, Call
<1>3. CASE k.do = "make" /\ k.id \in Ids /\ k.todo \in MakeLeft(k.name)
  <2>1. \/ Sends(k, "folder", <<"named", "id", "store">>) /\ k.name \in Long
        \/ Sends(k, "named", <<"id", "store">>) /\ k.name \in Long
        \/ Sends(k, "folder", <<"id", "store">>) /\ k.name \notin Long
        \/ Sends(k, "id", <<"store">>) /\ k.todo = <<"id", "store">>
        \/ Sends(k, "store", <<>>) /\ k.todo = <<"store">>
    BY <1>1, <1>3, MakeSends
  <2>2. /\ Head(<<"id", "store">>) = "id" /\ Head(<<"store">>) = "store"
    OBVIOUS
  <2>3. Head(k.todo) \in {"folder", "named"} => k.todo \notin {<<"id", "store">>, <<"store">>, <<>>}
    BY <1>1, <2>2
  <2> HIDE DEF k
  <2> QED BY <1>2, <1>3, <2>1, <2>3 DEF Sends, k
<1>4. CASE k.do = "write" /\ k.body \in Bodies /\ k.todo \in WriteLeft(k.name)
  <2>1. \/ Sends(k, "folder", <<"named", "body">>) /\ k.name \in Long
        \/ Sends(k, "named", <<"body">>) /\ k.name \in Long
        \/ Sends(k, "body", <<>>) /\ k.todo = <<"body">>
    BY <1>1, <1>4, WriteSends
  <2> HIDE DEF k
  <2> QED BY <1>2, <1>4, <2>1 DEF Sends, k
<1>5. CASE k.do = "remove" /\ k.todo \in {<<"gone">>, <<>>}
  BY <1>1, <1>2, <1>5, RemoveSends DEF Sends
<1> QED BY <1>1, <1>3, <1>4, <1>5 DEF CallInOrder

-----------------------------------------------------------------------------
(* Nothing gets out of reach of the root and of what was left behind.      *)

Found == Under(entries, {Root} \cup Adrift)

\* Every set that has the root and what its identifiers lead to has all the folders of
\* the plan: whatever order the requests go in, the last one of them joins it together.
PlanReaches(plan) ==
    \A S \in SUBSET Dirs :
        Root \in S /\ (\A r \in plan : r.part = "id" /\ r.dir \in S => r.id \in S)
        => \A r \in plan : r.dir \in S

\* A folder that is made is in reach as soon as the entry has its identifier.
MadeFound(k) == k.do = "make" /\ k.todo \in {<<"store">>, <<>>} => k.id \in Found

\* An identifier that was uploaded is in its entry, or was left behind since.
SentThere ==
    session.stage \in {"closing", "stuck"} =>
        \A r \in session.plan \ session.todo :
            r.part = "id" => entries[r.dir][r.name].id = r.id \/ r.id \in left

FInv ==
    /\ TInv
    /\ \A c \in Clients : known[c] \subseteq Found /\ MadeFound(call[c])
    /\ \A d \in Dirs, n \in Names : entries[d][n] # NoEntry => d \in Found
    /\ PlanReaches(session.plan)
    /\ SentThere

LEMMA FoundIs ==
  ASSUME TInv
  PROVE  /\ entries \in Tree /\ Adrift \subseteq Ids /\ {Root} \cup Adrift \in SUBSET Dirs
         /\ Found \in SUBSET Dirs /\ Root \in Found /\ Adrift \subseteq Found
         /\ ClosedUnder(entries, Found)
<1>1. entries \in Tree /\ Adrift \subseteq Ids
  BY DEF TInv, TypeOK, Tree, Adrift, PlanInOrder
<1>2. {Root} \cup Adrift \in SUBSET Dirs
  BY <1>1 DEF Dirs
<1> QED BY <1>1, <1>2, UnderIn, UnderClosed DEF Found

\* A step that forgets no identifier loses nothing.
LEMMA FoundKept ==
  ASSUME TInv, TInv', Adrift \subseteq Found',
         \A d \in Dirs, n \in Names : entries[d][n].id \in {None, entries'[d][n].id} \cup left'
  PROVE  Found \subseteq Found'
<1>1. /\ entries \in Tree /\ {Root} \cup Adrift \in SUBSET Dirs
  BY FoundIs
<1>2. PICK A : A = Adrift'
  OBVIOUS
<1>3. /\ entries' \in Tree /\ {Root} \cup A \in SUBSET Dirs /\ Root \in Found' /\ A \subseteq Found'
      /\ left' \subseteq A /\ Found' = Under(entries', {Root} \cup A)
  <2>1. (TInv => /\ entries \in Tree /\ {Root} \cup Adrift \in SUBSET Dirs
                 /\ Root \in Found /\ Adrift \subseteq Found)'
    BY FoundIs, PTL
  <2> QED BY <1>2, <2>1 DEF Found, Adrift
<1>4. \A d \in Dirs, n \in Names :
         entries[d][n].id \in {None, entries'[d][n].id} \/ entries[d][n].id \in Under(entries', {Root} \cup A)
  BY <1>3
<1>5. {Root} \cup Adrift \subseteq Under(entries', {Root} \cup A)
  BY <1>3
<1>6. Under(entries, {Root} \cup Adrift) \subseteq Under(entries', {Root} \cup A)
  BY <1>1, <1>3, <1>4, <1>5, UnderKept
<1> QED BY <1>3, <1>6 DEF Found

\* While it is uploaded every folder of the plan is in reach.
PlanHeld == \A r \in session.plan : r.dir \in Found
PlanWhole == PlanReaches(session.plan)
Uploading == session.stage = "closing"

LEMMA PlanFound ==
  ASSUME TInv, PlanWhole, SentThere, Uploading
  PROVE  PlanHeld
<1>1. /\ Found \in SUBSET Dirs /\ Root \in Found /\ Adrift \subseteq Found
      /\ ClosedUnder(entries, Found)
  BY FoundIs
<1>2. ASSUME NEW r \in session.plan, r.part = "id", r.dir \in Found PROVE r.id \in Found
  <2>1. CASE r \in session.todo
    BY <1>1, <1>2, <2>1 DEF Adrift
  <2>2. CASE r \notin session.todo
    <3>1. r.id \in Ids /\ r.name \in Names
      BY <1>2 DEF TInv, TypeOK, Session, Request, PlanInOrder
    <3>2. entries[r.dir][r.name].id = r.id \/ r.id \in left
      BY <1>2, <2>2 DEF SentThere, Uploading
    <3> QED BY <1>1, <1>2, <3>1, <3>2, ConstantAssumption DEF ClosedUnder, Adrift
  <2> QED BY <2>1, <2>2
<1> QED BY <1>1, <1>2 DEF PlanReaches, PlanWhole, PlanHeld

LEMMA FInit == Init => FInv
<1> SUFFICES ASSUME Init PROVE FInv
  OBVIOUS
<1>1. TInv
  BY TInit
<1>2. Root \in Found
  BY <1>1, FoundIs
<1>3. \A c \in Clients : known[c] \subseteq Found /\ MadeFound(call[c])
  BY <1>2 DEF Init, Idle, MadeFound
<1>4. session.plan = {} /\ session.stage = "none"
  BY DEF Init, NoSession
<1> QED BY <1>1, <1>3, <1>4 DEF FInv, Init, PlanReaches, SentThere

\* What a client writes is in a folder it knows; what it makes is in reach from there.
LEMMA FStepCall ==
  ASSUME FInv, NEW c \in Clients, Step(c), TInv'
  PROVE  FInv'
<1>1. TInv
  BY DEF FInv
<1>2. PICK r \in Request :
         /\ r = Ask(call[c]) /\ Send(r) /\ (r.part = "store" => r.id \in Ids)
         /\ r.dir = call[c].dir /\ r.name = call[c].name
         /\ r.id = call[c].id /\ r.body = call[c].body
         /\ call'[c].dir = call[c].dir /\ call'[c].name = call[c].name
         /\ call'[c].do = call[c].do /\ call'[c].id = call[c].id
         /\ call'[c].body = call[c].body /\ call'[c].met = call[c].met
         /\ \A k \in Clients \ {c} : call'[k] = Notice(r, call[k])
         /\ session'.stage = session.stage /\ session'.plan = session.plan
         /\ session'.todo = session.todo /\ session'.copied = session.copied
         /\ session.met \subseteq session'.met
         /\ session.stage # "none" /\ r.part # "store" => <<r.dir, r.name>> \in session'.met
  BY <1>1, StepIs
<1>3. /\ entries' \in Tree /\ r.dir \in Dirs /\ r.name \in Names
      /\ \A d \in Dirs, n \in Names :
            d # r.dir \/ n # r.name => entries'[d][n] = entries[d][n]
      /\ Wrote(r, entries[r.dir][r.name], entries'[r.dir][r.name])
      /\ left \subseteq left'
      /\ \A d \in Dirs, n \in Names : entries[d][n].id \in {None, entries'[d][n].id} \cup left'
  BY <1>1, <1>2, SendIs
<1>4. UNCHANGED known /\ r.dir \in known[c]
  BY <1>1, <1>2, StepSends
<1>5. /\ Found' \in SUBSET Dirs /\ Adrift' \subseteq Found' /\ ClosedUnder(entries', Found')
      /\ Found \subseteq Found'
  <2>1. (TInv => /\ Found \in SUBSET Dirs /\ Adrift \subseteq Found
                 /\ ClosedUnder(entries, Found))'
    BY FoundIs, PTL
  <2>2. Adrift \subseteq Adrift'
    BY <1>2, <1>3 DEF Adrift
  <2> QED BY <1>1, <1>3, <2>1, <2>2, FoundKept
<1>6. \A d \in Dirs, n \in Names : entries'[d][n] # NoEntry => d \in Found'
  BY <1>3, <1>4, <1>5 DEF FInv
<1>7. ASSUME NEW k \in Clients PROVE MadeFound(call[k])'
  <2>1. CASE k # c
    <3>1. call[k] \in Call /\ call'[k] = Notice(r, call[k])
      BY <1>1, <1>2, <2>1 DEF TInv, TypeOK
    <3>2. call'[k].do = call[k].do /\ call'[k].todo = call[k].todo /\ call'[k].id = call[k].id
      BY <3>1, NoticeIs
    <3> QED BY <1>5, <3>2 DEF FInv, MadeFound
  <2>2. CASE k = c
    <3> SUFFICES ASSUME call[c].do = "make", call'[c].todo \in {<<"store">>, <<>>}
                 PROVE  call[c].id \in Found'
      BY <1>2, <2>2 DEF MadeFound
    <3>1. \/ r.part = "id" /\ call'[c].todo = <<"store">>
          \/ r.part = "store" /\ call[c].todo = <<"store">>
      <4>1. <<"named", "id", "store">> \notin {<<"store">>, <<>>} /\ <<"id", "store">> \notin {<<"store">>, <<>>}
        OBVIOUS
      <4> QED BY <1>1, <1>2, <4>1, StepKinds
    <3>2. CASE r.part = "id"
      <4>1. entries'[r.dir][r.name].id = call[c].id /\ r.dir \in Found'
        BY <1>2, <1>3, <1>4, <1>5, <3>2 DEF Wrote, FInv
      <4>2. call[c].id # None
        BY <1>1, <1>2, <3>2, ConstantAssumption, StepKinds
      <4> QED BY <1>3, <1>5, <4>1, <4>2 DEF ClosedUnder
    <3>3. CASE call[c].todo = <<"store">>
      BY <1>5, <3>3 DEF FInv, MadeFound
    <3> QED BY <3>1, <3>2, <3>3
  <2> QED BY <2>1, <2>2
<1>8. SentThere'
  <2> SUFFICES ASSUME session.stage \in {"closing", "stuck"},
                      NEW s \in session.plan \ session.todo, s.part = "id"
               PROVE  entries'[s.dir][s.name].id = s.id \/ s.id \in left'
    BY <1>2 DEF SentThere
  <2>1. s.dir \in Dirs /\ s.name \in Names /\ s.id # None
    BY <1>1, ConstantAssumption DEF TInv, TypeOK, Session, Request, PlanInOrder
  <2>2. entries[s.dir][s.name].id = s.id \/ s.id \in left
    BY DEF FInv, SentThere
  <2> QED BY <1>3, <2>1, <2>2
<1> QED BY <1>2, <1>4, <1>5, <1>6, <1>7, <1>8 DEF FInv

\* An upload writes into folders of the plan, which are in reach as long as what is
\* still to be uploaded counts as left behind.
LEMMA FUpload ==
  ASSUME FInv, Upload, TInv'
  PROVE  FInv'
<1>1. TInv
  BY DEF FInv
<1>2. PICK r \in Request :
         /\ r \in session.todo /\ r \in session.plan /\ Send(r)
         /\ r.part # "gone" /\ (r.part \in {"store", "id"} => r.id \in Ids)
         /\ \A k \in Clients : call'[k] = Notice(r, call[k])
         /\ session.stage = "closing" /\ session'.stage = "closing"
         /\ session'.plan = session.plan /\ session'.todo = session.todo \ {r}
         /\ session'.met = session.met /\ session'.copied = session.copied
         /\ UNCHANGED known
  BY <1>1, UploadIs
<1>3. /\ entries' \in Tree /\ r.dir \in Dirs /\ r.name \in Names
      /\ \A d \in Dirs, n \in Names :
            d # r.dir \/ n # r.name => entries'[d][n] = entries[d][n]
      /\ Wrote(r, entries[r.dir][r.name], entries'[r.dir][r.name])
      /\ left \subseteq left'
      /\ \A d \in Dirs, n \in Names : entries[d][n].id \in {None, entries'[d][n].id} \cup left'
  BY <1>1, <1>2, SendIs
<1>4. SentThere'
  <2> SUFFICES ASSUME NEW s \in session.plan, s \notin session.todo \ {r}, s.part = "id"
               PROVE  entries'[s.dir][s.name].id = s.id \/ s.id \in left'
    BY <1>2 DEF SentThere
  <2>1. s.dir \in Dirs /\ s.name \in Names /\ s.id # None
    BY <1>1, ConstantAssumption DEF TInv, TypeOK, Session, Request, PlanInOrder
  <2>2. CASE s = r
    BY <1>3, <2>2 DEF Wrote
  <2>3. CASE s # r
    <3>1. entries[s.dir][s.name].id = s.id \/ s.id \in left
      BY <1>2, <2>3 DEF FInv, SentThere
    <3> QED BY <1>3, <2>1, <3>1
  <2> QED BY <2>2, <2>3
<1>5. PlanReaches(session'.plan)
  BY <1>2 DEF FInv
<1>6. /\ Found' \in SUBSET Dirs /\ Root \in Found' /\ Adrift' \subseteq Found'
      /\ ClosedUnder(entries', Found')
      /\ \A s \in session.plan : s.dir \in Found'
  <2>1. (TInv => /\ Found \in SUBSET Dirs /\ Root \in Found /\ Adrift \subseteq Found
                 /\ ClosedUnder(entries, Found))'
    BY FoundIs, PTL
  <2>2. (TInv /\ PlanWhole /\ SentThere /\ Uploading => PlanHeld)'
    BY PlanFound, PTL
  <2> QED BY <1>2, <1>4, <1>5, <2>1, <2>2 DEF PlanWhole, Uploading, PlanHeld
<1>7. Found \subseteq Found'
  <2>1. r.part = "id" => r.id \in Found'
    <3>1. r.part = "id" => entries'[r.dir][r.name].id = r.id /\ r.id # None
      BY <1>2, <1>3, ConstantAssumption DEF Wrote
    <3> QED BY <1>2, <1>3, <1>6, <3>1 DEF ClosedUnder
  <2>2. Adrift \subseteq Adrift' \cup {r.id : s \in {q \in {r} : q.part = "id"}}
    BY <1>2, <1>3 DEF Adrift
  <2>3. Adrift \subseteq Found'
    BY <1>6, <2>1, <2>2
  <2> QED BY <1>1, <1>3, <2>3, FoundKept
<1>8. \A d \in Dirs, n \in Names : entries'[d][n] # NoEntry => d \in Found'
  BY <1>2, <1>3, <1>6, <1>7 DEF FInv
<1>9. \A k \in Clients : known'[k] \subseteq Found' /\ MadeFound(call[k])'
  <2> SUFFICES ASSUME NEW k \in Clients PROVE known'[k] \subseteq Found' /\ MadeFound(call[k])'
    OBVIOUS
  <2>1. call[k] \in Call /\ call'[k] = Notice(r, call[k])
    BY <1>1, <1>2 DEF TInv, TypeOK
  <2>2. call'[k].do = call[k].do /\ call'[k].todo = call[k].todo /\ call'[k].id = call[k].id
    BY <2>1, NoticeIs
  <2> QED BY <1>2, <1>7, <2>2 DEF FInv, MadeFound
<1> QED BY <1>4, <1>5, <1>8, <1>9 DEF FInv

\* Whatever sends no request leaves what is found, or adds to what counts as left.
LEMMA FQuiet ==
  ASSUME FInv, TInv', UNCHANGED entries, Adrift \subseteq Adrift',
         \A k \in Clients : known'[k] \subseteq Found /\ MadeFound(call'[k]),
         PlanReaches(session'.plan), SentThere'
  PROVE  FInv'
<1>1. Adrift' \subseteq Found'
  <2>1. (TInv => Adrift \subseteq Found)'
    BY FoundIs, PTL
  <2> QED BY <2>1
<1>2. Found \subseteq Found'
  BY <1>1, FoundKept DEF FInv
<1>3. \A k \in Clients : known'[k] \subseteq Found' /\ MadeFound(call[k])'
  BY <1>2 DEF MadeFound
<1> QED BY <1>2, <1>3 DEF FInv

\* The plan: what is uploaded to one place agrees, a file is at no folder's place and
\* has its name, and nothing is planned but what the root leads to.
PlanAgrees(plan) ==
    /\ \A r, s \in plan : r.part \in {"id", "body"} /\ s.part = r.part
                          /\ s.dir = r.dir /\ s.name = r.name => s = r
    /\ \A r \in plan : r.part = "body" =>
          /\ r.body # None
          /\ \A s \in plan : s.part = "id" => s.dir # r.dir \/ s.name # r.name
          /\ r.name \in Long => \E s \in plan : s.part = "named" /\ s.dir = r.dir /\ s.name = r.name
    /\ PlanReaches(plan)

LEMMA OpenPlans ==
  ASSUME TInv, Decryptable, NEW new, Renaming(new)
  PROVE  /\ PlanAgrees(Encrypted(new))
         /\ \A r \in Encrypted(new) : r.part = "body" => entries[r.dir][r.name].id = None
<1> DEFINE New == {new[d] : d \in Reachable \ {Root}}
           plan == Encrypted(new)
<1>1. TInv
  OBVIOUS
<1>2. \A d \in Reachable \ {Root} : new[d] \in Ids /\ new[d] \notin stored /\ At(new, d) = new[d]
  BY <1>1, AtType DEF Unused
<1>3. At(new, Root) = Root /\ Root \in Reachable /\ Root \notin Ids /\ None \notin Ids
  BY <1>1, ReachableTree, ConstantAssumption DEF At
<1>4. Reachable \subseteq stored
  BY DEF Decryptable
<1>5. New \in SUBSET Ids /\ New \cap stored = {} /\ New \cap Reachable = {}
  BY <1>2, <1>4
<1>6. \A c, d \in Reachable : At(new, c) = At(new, d) => c = d
  BY <1>2, <1>3 DEF Renaming
<1>7. \A d \in Reachable : At(new, d) \in New \cup {Root}
  BY <1>2, <1>3
<1> HIDE DEF New, plan
\* A request of the plan is the copy of a part, or the storage directory of a folder.
<1>8. ASSUME NEW r \in plan
      PROVE  \/ \E d \in Reachable, n \in Names : \E p \in PartsOf(d, n) :
                   /\ r = Copy(new, d, n, p) /\ r.part = p /\ r.dir = At(new, d) /\ r.name = n
                   /\ r.body = entries[d][n].body
                   /\ p = "id" => r.id \in New /\ entries[d][n].id # None
                   /\ p \in {"folder", "named", "id", "body"}
             \/ r.part = "store" /\ r.id \in New /\ r.dir = Root
  <2>1. ASSUME NEW d \in Reachable, NEW n \in Names, NEW p \in PartsOf(d, n), r = Copy(new, d, n, p)
        PROVE  /\ r.part = p /\ r.dir = At(new, d) /\ r.name = n /\ r.body = entries[d][n].body
               /\ p = "id" => r.id \in New /\ entries[d][n].id # None
               /\ p \in {"folder", "named", "id", "body"}
    BY <1>1, <2>1, CopyType DEF New
  <2>2. ASSUME NEW d \in Reachable \ {Root}, r = Store(new, d)
        PROVE  r.part = "store" /\ r.id \in New /\ r.dir = Root
    BY <1>1, <2>2, StoreType DEF New
  <2> QED BY <2>1, <2>2, EncryptedIs DEF plan
<1>9. \A d \in Reachable, n \in Names : \A p \in PartsOf(d, n) :
         /\ Copy(new, d, n, p) \in plan /\ Copy(new, d, n, p).part = p
         /\ Copy(new, d, n, p).dir = At(new, d) /\ Copy(new, d, n, p).name = n
         /\ entries[d][n].id # None =>
               entries[d][n].id \in Reachable \ {Root} /\ Copy(new, d, n, p).id = new[entries[d][n].id]
  BY <1>1, CopyType, EncryptedIs DEF plan
<1>10. \A d \in Reachable, n \in Names :
          /\ entries[d][n].id # None <=> "id" \in PartsOf(d, n)
          /\ "body" \in PartsOf(d, n) => entries[d][n].id = None /\ entries[d][n].body # None
          /\ entries[d][n].named => "named" \in PartsOf(d, n)
  BY DEF PartsOf
<1>11. ASSUME NEW r \in plan PROVE r.dir \in New \cup {Root} /\ (r.part \in {"id", "store"} => r.id \in New)
  BY <1>7, <1>8
<1>12. ASSUME NEW r \in plan, r.part = "body"
       PROVE  /\ r.body # None
              /\ \A s \in plan : s.part = "id" => s.dir # r.dir \/ s.name # r.name
              /\ r.name \in Long => \E s \in plan : s.part = "named" /\ s.dir = r.dir /\ s.name = r.name
              /\ entries[r.dir][r.name].id = None
  <2>1. PICK d \in Reachable, n \in Names :
           /\ "body" \in PartsOf(d, n) /\ r.dir = At(new, d) /\ r.name = n /\ r.body = entries[d][n].body
    BY <1>8, <1>12
  <2>2. entries[d][n].id = None /\ entries[d][n].body # None
    BY <1>10, <2>1
  <2>3. ASSUME NEW s \in plan, s.part = "id", s.dir = r.dir, s.name = r.name PROVE FALSE
    <3>1. PICK g \in Reachable, m \in Names : s.dir = At(new, g) /\ s.name = m /\ entries[g][m].id # None
      BY <1>8, <2>3
    <3> QED BY <1>6, <2>1, <2>2, <2>3, <3>1
  <2>4. ASSUME n \in Long PROVE \E s \in plan : s.part = "named" /\ s.dir = r.dir /\ s.name = r.name
    <3>1. d \in Dirs
      BY <1>1, ReachableTree
    <3>2. entries[d][n].folder
      BY <1>1, <2>2, <2>4, <3>1 DEF TInv, EntriesInOrder
    <3>3. entries[d][n].named
      BY <2>4, <3>2 DEF Decryptable, Listable
    <3> QED BY <1>9, <1>10, <2>1, <3>3
  <2>5. entries[r.dir][n].id = None
    <3>1. CASE d = Root
      BY <1>3, <2>1, <2>2, <3>1
    <3>2. CASE d # Root
      <4>1. r.dir \notin stored /\ r.dir \in Dirs
        BY <1>2, <2>1, <3>2 DEF Dirs
      <4>2. entries[r.dir][n] = NoEntry
        BY <1>1, <4>1 DEF TInv, EntriesInOrder
      <4> QED BY <4>2 DEF NoEntry
    <3> QED BY <3>1, <3>2
  <2> QED BY <2>1, <2>2, <2>3, <2>4, <2>5
<1>13. ASSUME NEW r \in plan, NEW s \in plan, r.part \in {"id", "body"}, r.part = s.part,
              r.dir = s.dir, r.name = s.name
       PROVE  r = s
  <2>1. PICK d \in Reachable, n \in Names :
           r = Copy(new, d, n, r.part) /\ r.dir = At(new, d) /\ r.name = n
    BY <1>8, <1>13
  <2>2. PICK g \in Reachable, m \in Names :
           s = Copy(new, g, m, s.part) /\ s.dir = At(new, g) /\ s.name = m
    BY <1>8, <1>13
  <2>3. d = g /\ n = m
    BY <1>6, <1>13, <2>1, <2>2
  <2> QED BY <1>13, <2>1, <2>2, <2>3
<1>14. ASSUME NEW S \in SUBSET Dirs, Root \in S,
              \A r \in plan : r.part = "id" /\ r.dir \in S => r.id \in S
       PROVE  New \subseteq S
  <2> DEFINE T == {d \in Reachable : At(new, d) \in S}
  <2>1. Root \in T /\ T \in SUBSET Dirs
    BY <1>1, <1>3, <1>14, ReachableTree
  <2>2. ClosedUnder(entries, T)
    <3> SUFFICES ASSUME NEW d \in T, NEW n \in Names, entries[d][n].id # None
                 PROVE  entries[d][n].id \in T
      BY DEF ClosedUnder
    <3> DEFINE r == Copy(new, d, n, "id")
    <3>1. /\ r \in plan /\ r.part = "id" /\ r.dir = At(new, d)
          /\ entries[d][n].id \in Reachable \ {Root} /\ r.id = new[entries[d][n].id]
      BY <1>9, <1>10
    <3> HIDE DEF r
    <3>2. r.id \in S
      BY <1>14, <3>1
    <3> QED BY <1>2, <3>1, <3>2
  <2>3. Reachable \subseteq T
    <3> HIDE DEF T
    <3> QED BY <2>1, <2>2, <1>1, ReachableTree, UnderLeast DEF Reachable
  <2> QED BY <1>2, <2>3 DEF New
<1>15. PlanReaches(plan)
  BY <1>11, <1>14 DEF PlanReaches
<1>16. PlanAgrees(plan)
  BY <1>12, <1>13, <1>15 DEF PlanAgrees
<1> QED BY <1>12, <1>16 DEF plan

LEMMA FStep == FInv /\ [Next]_vars => FInv'
<1> SUFFICES ASSUME FInv, [Next]_vars PROVE FInv'
  OBVIOUS
<1>1. TInv /\ TInv'
  BY TStep DEF FInv
<1>2. /\ \A k \in Clients : known[k] \subseteq Found /\ MadeFound(call[k])
      /\ PlanReaches(session.plan) /\ SentThere
  BY DEF FInv
<1>3. MadeFound(Idle)
  BY DEF MadeFound, Idle
<1>4. ASSUME NEW c \in Clients, NEW d \in Dirs, List(c, d) PROVE FInv'
  <2>1. d \in Found /\ UNCHANGED <<entries, left, call, session>>
    BY <1>2, <1>4 DEF List
  <2>2. {entries[d][n].id : n \in Names} \ {None} \subseteq Found
    BY <1>1, <2>1, FoundIs DEF ClosedUnder
  <2>3. \A k \in Clients : known'[k] \subseteq Found
    BY <1>1, <1>2, <1>4, <2>2 DEF List, TInv, TypeOK
  <2> QED BY <1>1, <1>2, <2>1, <2>3, FQuiet DEF Adrift, SentThere
<1>5. ASSUME NEW c \in Clients, NEW d \in Dirs, NEW n \in Names, NEW do, NEW i, NEW b, NEW todo,
             todo \notin {<<"store">>, <<>>}, Begin(c, do, d, n, i, b, todo)
      PROVE  FInv'
  <2>1. UNCHANGED <<entries, left, known, session>>
    BY <1>5 DEF Begin
  <2>2. \A k \in Clients : MadeFound(call'[k])
    BY <1>1, <1>2, <1>5 DEF Begin, TInv, TypeOK, MadeFound
  <2> QED BY <1>1, <1>2, <2>1, <2>2, FQuiet DEF Adrift, SentThere
<1>6. ASSUME NEW c \in Clients, NEW d \in Dirs, NEW n \in Names,
             MakeDir(c, d, n) \/ Remove(c, d, n) \/ \E b \in Bodies : WriteFile(c, d, n, b)
      PROVE  FInv'
  <2>1. /\ <<"folder", "named", "id", "store">> \notin {<<"store">>, <<>>}
        /\ <<"folder", "id", "store">> \notin {<<"store">>, <<>>}
        /\ <<"folder", "named", "body">> \notin {<<"store">>, <<>>}
        /\ <<"body">> \notin {<<"store">>, <<>>} /\ <<"gone">> \notin {<<"store">>, <<>>}
    OBVIOUS
  <2>2. DirParts(n) \notin {<<"store">>, <<>>} /\ FileParts(n) \notin {<<"store">>, <<>>}
    BY <2>1 DEF DirParts, FileParts
  <2> HIDE DEF DirParts, FileParts
  <2> QED BY <1>5, <1>6, <2>1, <2>2 DEF MakeDir, Remove, WriteFile
<1>7. ASSUME NEW c \in Clients, Step(c) PROVE FInv'
  BY <1>1, <1>7, FStepCall
<1>8. ASSUME NEW c \in Clients, Return(c) PROVE FInv'
  <2>1. UNCHANGED <<entries, left, session>> /\ call[c].todo = <<>>
    BY <1>8 DEF Return
  <2>2. \A k \in Clients : known'[k] \subseteq Found
    BY <1>1, <1>2, <1>8, <2>1 DEF Return, MadeFound, TInv, TypeOK
  <2>3. \A k \in Clients : MadeFound(call'[k])
    BY <1>1, <1>2, <1>3, <1>8 DEF Return, TInv, TypeOK
  <2> QED BY <1>1, <1>2, <2>1, <2>2, <2>3, FQuiet DEF Adrift, SentThere
<1>9. ASSUME NEW c \in Clients, BreakOff(c) PROVE FInv'
  <2>1. UNCHANGED <<entries, left, known, session>>
    BY <1>9 DEF BreakOff
  <2>2. \A k \in Clients : MadeFound(call'[k])
    BY <1>1, <1>2, <1>3, <1>9 DEF BreakOff, TInv, TypeOK
  <2> QED BY <1>1, <1>2, <2>1, <2>2, FQuiet DEF Adrift, SentThere
<1>10. ASSUME OpenVault PROVE FInv'
  <2>1. PICK new : Renaming(new) /\
          session' = [stage |-> "open", plan |-> Encrypted(new), todo |-> {},
                      copied |-> Files, met |-> {}]
    BY <1>10 DEF OpenVault, Renaming
  <2>2. PlanReaches(Encrypted(new))
    BY <1>1, <1>10, <2>1, OpenPlans DEF PlanAgrees, OpenVault
  <2>3. UNCHANGED <<entries, left, known, call>> /\ session.todo = {}
    BY <1>10 DEF OpenVault, NoSession
  <2>4. PlanReaches(session'.plan) /\ SentThere' /\ session'.todo = {}
    BY <2>1, <2>2 DEF SentThere
  <2> QED BY <1>1, <1>2, <2>3, <2>4, FQuiet DEF Adrift
<1>11. ASSUME CloseVault PROVE FInv'
  <2>1. /\ session'.plan = session.plan /\ session'.todo = session.plan
        /\ UNCHANGED <<entries, left, known, call>>
    BY <1>1, <1>11 DEF CloseVault, TInv, TypeOK, Session
  <2>2. PlanReaches(session'.plan) /\ SentThere' /\ Adrift \subseteq Adrift'
    BY <1>1, <1>2, <2>1 DEF SentThere, Adrift, TInv
  <2> QED BY <1>1, <1>2, <2>1, <2>2, FQuiet
<1>12. ASSUME Upload PROVE FInv'
  BY <1>1, <1>12, FUpload
<1>13. ASSUME FailUpload PROVE FInv'
  <2>1. /\ session'.plan = session.plan /\ session'.todo = session.todo
        /\ session.stage = "closing" /\ UNCHANGED <<entries, left, known, call>>
    BY <1>1, <1>13 DEF FailUpload, TInv, TypeOK, Session
  <2>2. PlanReaches(session'.plan) /\ SentThere' /\ Adrift \subseteq Adrift'
    BY <1>1, <1>2, <2>1 DEF SentThere, Adrift
  <2> QED BY <1>1, <1>2, <2>1, <2>2, FQuiet
<1>14. ASSUME Quit \/ Closed PROVE FInv'
  <2>1. /\ session' = NoSession /\ Adrift \subseteq left'
        /\ UNCHANGED <<entries, known, call>>
    BY <1>14 DEF Quit, Closed, Adrift
  <2>2. PlanReaches(session'.plan) /\ SentThere' /\ Adrift \subseteq Adrift'
    BY <2>1 DEF PlanReaches, SentThere, NoSession, Adrift
  <2> QED BY <1>1, <1>2, <2>1, <2>2, FQuiet
<1>15. CASE UNCHANGED vars
  <2>1. Adrift \subseteq Adrift' /\ SentThere'
    BY <1>2, <1>15 DEF Adrift, SentThere, vars
  <2> QED BY <1>1, <1>2, <1>15, <2>1, FQuiet DEF vars
<1> QED BY <1>4, <1>6, <1>7, <1>8, <1>9, <1>10, <1>11, <1>12, <1>13, <1>14, <1>15 DEF Next

LEMMA FInvariant == Spec => []FInv
<1>1. FInv /\ [Next]_vars => FInv'
  BY FStep
<1> QED BY FInit, <1>1, PTL DEF Spec

\* Whatever devices do to one vault at once, and wherever calls and uploads break off or
\* the program ends, a file can be reached from the root, or from a folder that was left
\* behind: one that was removed, or whose entry got another identifier, or was not
\* uploaded.
THEOREM FilesStayReachable == Spec => []NothingHidden
<1>1. FInv => NothingHidden
  <2> SUFFICES ASSUME FInv, NEW d \in Dirs, NEW n \in Names, FileAt(d, n)
               PROVE  d \in Under(entries, {Root} \cup Adrift)
    BY DEF NothingHidden
  <2>1. entries[d][n] # NoEntry
    BY DEF FileAt, NoEntry
  <2> QED BY <2>1 DEF FInv, Found
<1> QED BY <1>1, FInvariant, PTL

-----------------------------------------------------------------------------
(* What a call has done that nobody has met.                               *)

Making(k) ==
    k.do = "make" /\ ~k.met =>
        LET e == entries[k.dir][k.name]
        IN  /\ k.todo = <<"id", "store">> /\ k.name \in Long => e.named
            /\ k.todo \in {<<"store">>, <<>>} => e.id = k.id /\ (k.name \in Long => e.named)
            /\ k.todo = <<>> => k.id \in stored

\* A long name that was a folder's when the call began counts as met.
Writing(k) ==
    k.do = "write" /\ ~k.met =>
        LET e == entries[k.dir][k.name]
        IN  /\ k.name \in Long => e.id = None
            /\ k.todo = <<"body">> /\ k.name \in Long => e.named
            /\ k.todo = <<>> => e.body = k.body /\ e.id = None /\ (k.name \in Long => e.named)

Removing(k) ==
    k.do = "remove" /\ ~k.met /\ k.todo = <<>> => entries[k.dir][k.name] = NoEntry

Progress(k) == Making(k) /\ Writing(k) /\ Removing(k)

DInv == TInv /\ \A c \in Clients : Progress(call[c])

\* A request of somebody else that is not noticed leaves the entry.
LEMMA OthersProgress ==
  ASSUME TInv, NEW r \in Request, Send(r), r.part = "store" => r.id \in Ids,
         NEW c \in Clients, Progress(call[c]), call'[c] = Notice(r, call[c])
  PROVE  Progress(call[c])'
<1>1. CASE call[c].do = "idle"
  <2>1. call'[c].do = "idle"
    BY <1>1, NoticeIs DEF TInv, TypeOK
  <2> QED BY <2>1 DEF Progress, Making, Writing, Removing
<1>2. CASE call[c].do # "idle"
  <2>1. /\ call[c] \in Call
        /\ call'[c].do = call[c].do /\ call'[c].dir = call[c].dir /\ call'[c].name = call[c].name
        /\ call'[c].id = call[c].id /\ call'[c].body = call[c].body
        /\ call'[c].todo = call[c].todo
        /\ call'[c].met = (call[c].met \/ Meets(r, call[c]))
    BY NoticeIs DEF TInv, TypeOK
  <2>2. call[c].dir \in Dirs /\ call[c].name \in Names
    BY <1>2, <2>1 DEF TInv, TypeOK, Call, Idle
  <2>3. /\ \A d \in Dirs, n \in Names :
              d # r.dir \/ n # r.name => entries'[d][n] = entries[d][n]
        /\ Wrote(r, entries[r.dir][r.name], entries'[r.dir][r.name])
        /\ stored \subseteq stored'
    BY SendIs
  <2>4. ASSUME ~call'[c].met
        PROVE  ~call[c].met /\ entries'[call[c].dir][call[c].name] = entries[call[c].dir][call[c].name]
    BY <2>1, <2>2, <2>3, <2>4 DEF Meets, Wrote
  <2>5. Making(call[c])'
    BY <2>1, <2>3, <2>4 DEF Progress, Making
  <2>6. Writing(call[c])'
    BY <2>1, <2>3, <2>4 DEF Progress, Writing
  <2>7. Removing(call[c])'
    BY <2>1, <2>3, <2>4 DEF Progress, Removing
  <2> QED BY <2>5, <2>6, <2>7 DEF Progress
<1> QED BY <1>1, <1>2

\* The call's own requests, one after another.
LEMMA OwnProgress ==
  ASSUME TInv, NEW c \in Clients, Step(c), Progress(call[c])
  PROVE  Progress(call[c])'
<1>1. PICK r \in Request :
         /\ r = Ask(call[c]) /\ Send(r) /\ (r.part = "store" => r.id \in Ids)
         /\ r.dir = call[c].dir /\ r.name = call[c].name
         /\ r.id = call[c].id /\ r.body = call[c].body
         /\ call'[c].dir = call[c].dir /\ call'[c].name = call[c].name
         /\ call'[c].do = call[c].do /\ call'[c].id = call[c].id
         /\ call'[c].body = call[c].body /\ call'[c].met = call[c].met
  BY StepIs
<1>2. PICK k : k = call[c]
  OBVIOUS
<1>3. PICK e : e = entries[k.dir][k.name]
  OBVIOUS
<1>4. PICK w : w = entries'[k.dir][k.name]
  OBVIOUS
<1>5. PICK t : t = call'[c].todo
  OBVIOUS
<1>6. Wrote(r, e, w) /\ stored \subseteq stored' /\ (r.part = "store" => k.id \in stored')
  BY <1>1, <1>2, <1>3, <1>4, SendIs
<1>7. \/ /\ k.do = "make" /\ k.id \in Ids
         /\ \/ /\ r.part = "folder"
               /\ t \in {<<"named", "id", "store">>, <<"id", "store">>}
               /\ k.name \in Long => t = <<"named", "id", "store">>
            \/ r.part = "named" /\ t = <<"id", "store">>
            \/ r.part = "id" /\ t = <<"store">> /\ k.todo = <<"id", "store">>
            \/ r.part = "store" /\ t = <<>> /\ k.todo = <<"store">>
      \/ /\ k.do = "write" /\ k.body \in Bodies
         /\ \/ r.part = "folder" /\ t = <<"named", "body">>
            \/ r.part = "named" /\ t = <<"body">>
            \/ r.part = "body" /\ t = <<>> /\ k.todo = <<"body">>
      \/ k.do = "remove" /\ r.part = "gone" /\ t = <<>>
  BY <1>1, <1>2, <1>5, StepKinds
<1>8. Making(k) /\ Writing(k) /\ Removing(k)
  BY <1>2 DEF Progress
<1>9. /\ <<"named", "id", "store">> \notin {<<"id", "store">>, <<"store">>, <<>>}
      /\ <<"id", "store">> \notin {<<"store">>, <<>>} /\ <<"store">> \notin {<<"id", "store">>, <<>>}
      /\ <<"named", "body">> \notin {<<"body">>, <<>>} /\ <<"body">> # <<>>
      /\ <<>> \notin {<<"id", "store">>, <<"store">>, <<"body">>}
  OBVIOUS
<1>10. ASSUME k.do = "make", ~k.met
       PROVE  /\ t = <<"id", "store">> /\ k.name \in Long => w.named
              /\ t \in {<<"store">>, <<>>} => w.id = k.id /\ (k.name \in Long => w.named)
              /\ t = <<>> => k.id \in stored'
  <2>1. CASE r.part = "folder" /\ t = <<"named", "id", "store">>
    BY <1>9, <2>1
  <2>2. CASE r.part = "folder" /\ t = <<"id", "store">> /\ k.name \notin Long
    BY <1>9, <2>2
  <2>3. CASE r.part = "named" /\ t = <<"id", "store">>
    BY <1>6, <1>9, <2>3 DEF Wrote
  <2>4. CASE r.part = "id" /\ t = <<"store">> /\ k.todo = <<"id", "store">>
    <3>1. k.name \in Long => e.named
      BY <1>3, <1>8, <1>10, <2>4 DEF Making
    <3> QED BY <1>1, <1>2, <1>6, <1>9, <2>4, <3>1 DEF Wrote
  <2>5. CASE r.part = "store" /\ t = <<>> /\ k.todo = <<"store">>
    <3>1. e.id = k.id /\ (k.name \in Long => e.named)
      BY <1>3, <1>8, <1>10, <2>5 DEF Making
    <3> QED BY <1>6, <1>9, <2>5, <3>1 DEF Wrote
  <2> QED BY <1>7, <1>9, <1>10, <2>1, <2>2, <2>3, <2>4, <2>5
<1>11. ASSUME k.do = "write", ~k.met
       PROVE  /\ k.name \in Long => w.id = None
              /\ t = <<"body">> /\ k.name \in Long => w.named
              /\ t = <<>> => w.body = k.body /\ w.id = None /\ (k.name \in Long => w.named)
  <2>1. k.name \in Long => e.id = None
    BY <1>3, <1>8, <1>11 DEF Writing
  <2>2. CASE r.part = "folder" /\ t = <<"named", "body">>
    BY <1>6, <1>9, <2>1, <2>2 DEF Wrote
  <2>3. CASE r.part = "named" /\ t = <<"body">>
    BY <1>6, <1>9, <2>1, <2>3 DEF Wrote
  <2>4. CASE r.part = "body" /\ t = <<>> /\ k.todo = <<"body">>
    <3>1. k.name \in Long => e.named
      BY <1>3, <1>8, <1>11, <2>4 DEF Writing
    <3> QED BY <1>1, <1>2, <1>6, <1>9, <2>1, <2>4, <3>1 DEF Wrote
  <2> QED BY <1>7, <1>11, <2>2, <2>3, <2>4
<1>12. ASSUME k.do = "remove" PROVE w = NoEntry
  BY <1>6, <1>7, <1>12 DEF Wrote
<1>13. /\ call'[c].dir = k.dir /\ call'[c].name = k.name /\ call'[c].do = k.do
       /\ call'[c].id = k.id /\ call'[c].body = k.body /\ call'[c].met = k.met
  BY <1>1, <1>2
<1>14. Making(call[c])'
  BY <1>4, <1>5, <1>10, <1>13 DEF Making
<1>15. Writing(call[c])'
  BY <1>4, <1>5, <1>11, <1>13 DEF Writing
<1>16. Removing(call[c])'
  BY <1>4, <1>5, <1>12, <1>13 DEF Removing
<1> QED BY <1>14, <1>15, <1>16 DEF Progress

LEMMA DInit == Init => DInv
  BY TInit DEF DInv, Init, Progress, Making, Writing, Removing, Idle

\* A call that begins has everything before it.
LEMMA DBegin ==
  ASSUME DInv, NEW c \in Clients, NEW d \in Dirs, NEW n \in Names, NEW do, NEW id, NEW body, NEW todo,
         Begin(c, do, d, n, id, body, todo),
         \/ do = "make" /\ todo = DirParts(n)
         \/ do = "write" /\ todo = FileParts(n)
         \/ do = "remove" /\ todo = <<"gone">>,
         TInv'
  PROVE  DInv'
<1>1. PICK k : k = [do |-> do, dir |-> d, name |-> n, id |-> id, body |-> body, todo |-> todo,
                    met |-> do = "write" /\ n \in Long /\ entries[d][n].id # None]
  OBVIOUS
<1>2. /\ k.do = do /\ k.dir = d /\ k.name = n /\ k.todo = todo
      /\ do = "write" /\ n \in Long /\ ~k.met => entries[d][n].id = None
  BY <1>1
<1>3. /\ call'[c] = k /\ \A j \in Clients : j # c => call'[j] = call[j]
      /\ UNCHANGED <<entries, stored>>
  BY <1>1 DEF Begin, DInv, TInv, TypeOK
<1>4. /\ <<"folder", "named", "id", "store">> \notin {<<"id", "store">>, <<"store">>, <<>>}
      /\ <<"folder", "id", "store">> \notin {<<"id", "store">>, <<"store">>, <<>>}
      /\ <<"folder", "named", "body">> \notin {<<"body">>, <<>>}
      /\ <<"body">> # <<>> /\ <<"gone">> # <<>>
  OBVIOUS
<1>5. Making(call[c])'
  BY <1>2, <1>3, <1>4 DEF Making, DirParts
<1>6. Writing(call[c])'
  BY <1>2, <1>3, <1>4 DEF Writing, FileParts
<1>7. Removing(call[c])'
  BY <1>2, <1>3, <1>4 DEF Removing
<1>8. ASSUME NEW j \in Clients, j # c PROVE Progress(call[j])'
  BY <1>3, <1>8 DEF DInv, Progress, Making, Writing, Removing
<1> QED BY <1>5, <1>6, <1>7, <1>8 DEF DInv, Progress

\* Whatever sends no request leaves what the calls have done, or ends one.
LEMMA DQuiet ==
  ASSUME DInv, UNCHANGED <<entries, stored>>, TInv',
         \A c \in Clients : call'[c] \in {call[c], Idle}
  PROVE  DInv'
<1> SUFFICES ASSUME NEW c \in Clients PROVE Progress(call[c])'
  BY DEF DInv
<1>1. CASE call'[c] = Idle
  BY <1>1 DEF Progress, Making, Writing, Removing, Idle
<1>2. CASE call'[c] = call[c]
  BY <1>2 DEF DInv, Progress, Making, Writing, Removing
<1> QED BY <1>1, <1>2

LEMMA DStep == DInv /\ [Next]_vars => DInv'
<1> SUFFICES ASSUME DInv, [Next]_vars PROVE DInv'
  OBVIOUS
<1>1. TInv /\ TInv'
  BY TStep DEF DInv
<1>2. ASSUME NEW c \in Clients, NEW d \in Dirs, NEW n \in Names,
             MakeDir(c, d, n) \/ Remove(c, d, n) \/ \E b \in Bodies : WriteFile(c, d, n, b)
      PROVE  DInv'
  BY <1>1, <1>2, DBegin DEF MakeDir, Remove, WriteFile
<1>3. ASSUME NEW c \in Clients, Step(c) PROVE DInv'
  <2>1. PICK r \in Request :
           /\ r = Ask(call[c]) /\ Send(r) /\ (r.part = "store" => r.id \in Ids)
           /\ \A k \in Clients \ {c} : call'[k] = Notice(r, call[k])
    BY <1>1, <1>3, StepIs
  <2>2. \A k \in Clients : Progress(call[k])'
    BY <1>1, <1>3, <2>1, OthersProgress, OwnProgress DEF DInv
  <2> QED BY <1>1, <2>2 DEF DInv
<1>4. ASSUME NEW c \in Clients, Return(c) \/ BreakOff(c) PROVE DInv'
  BY <1>1, <1>4, DQuiet DEF Return, BreakOff, TInv, TypeOK
<1>5. ASSUME Upload PROVE DInv'
  <2>1. PICK r \in Request :
           /\ Send(r) /\ (r.part = "store" => r.id \in Ids)
           /\ \A k \in Clients : call'[k] = Notice(r, call[k])
    BY <1>1, <1>5, UploadIs
  <2>2. \A k \in Clients : Progress(call[k])'
    BY <1>1, <2>1, OthersProgress DEF DInv
  <2> QED BY <1>1, <2>2 DEF DInv
<1>6. ASSUME \/ OpenVault \/ CloseVault \/ FailUpload \/ Quit \/ Closed \/ UNCHANGED vars
             \/ \E c \in Clients, d \in Dirs : List(c, d)
      PROVE  DInv'
  BY <1>1, <1>6, DQuiet DEF OpenVault, CloseVault, FailUpload, Quit, Closed, List, vars
<1> QED BY <1>2, <1>3, <1>4, <1>5, <1>6 DEF Next

LEMMA DInvariant == Spec => []DInv
<1>1. DInv /\ [Next]_vars => DInv'
  BY DStep
<1> QED BY DInit, <1>1, PTL DEF Spec

\* A call that returns without an error has done what it says: a folder or a file is
\* where ListDir finds it, whole, and what Remove was asked to take is gone, also over
\* what a call that broke off had left there; unless somebody else has written the same
\* entry meanwhile, or a file was written over a folder.
THEOREM ReturnedIsListed == Spec => DoneMeansListed
<1> DEFINE Done(c) == LET k == call[c]
                          e == entries[k.dir][k.name]
                      IN  CASE k.do = "make"   -> e.id = k.id /\ Listable(k.dir, k.name) /\ k.id \in stored
                            [] k.do = "write"  -> FileAt(k.dir, k.name) /\ e.body = k.body
                            [] k.do = "remove" -> e = NoEntry
<1>1. ASSUME DInv, NEW c \in Clients, Return(c), ~call[c].met PROVE Done(c)
  <2> DEFINE k == call[c]
             e == entries[k.dir][k.name]
  <2>1. /\ k # Idle /\ k.todo = <<>> /\ ~k.met /\ Making(k) /\ Writing(k) /\ Removing(k)
        /\ CallInOrder(k) /\ k \in Call /\ k.name \in Names
    BY <1>1 DEF Return, Busy, DInv, Progress, TInv, TypeOK
  <2>2. e \in Entry
    BY <1>1, <2>1 DEF DInv, TInv, TypeOK, Call
  <2>3. \/ k.do = "make" /\ k.id \in Ids
        \/ k.do = "write" /\ k.body \in Bodies
        \/ k.do = "remove"
    BY <2>1 DEF CallInOrder
  <2> HIDE DEF k, e
  <2>4. CASE k.do = "make" /\ k.id \in Ids
    <3>1. /\ e.id = k.id /\ k.id \in stored /\ (k.name \in Long => e.named)
          /\ e.id # None
      BY <2>1, <2>4, ConstantAssumption DEF Making, e
    <3>2. Listable(k.dir, k.name)
      BY <3>1 DEF Listable, e
    <3> QED BY <2>4, <3>1, <3>2 DEF k, e
  <2>5. CASE k.do = "write" /\ k.body \in Bodies
    <3>1. e.id = None /\ e.body = k.body /\ (k.name \in Long => e.named) /\ e.body # None
      BY <2>1, <2>5, ConstantAssumption DEF Writing, e
    <3>2. FileAt(k.dir, k.name)
      BY <3>1 DEF FileAt, e
    <3> QED BY <2>5, <3>1, <3>2 DEF k, e
  <2>6. CASE k.do = "remove"
    <3>1. e = NoEntry
      BY <2>1, <2>6 DEF Removing, e
    <3> QED BY <2>6, <3>1 DEF k, e
  <2> QED BY <2>3, <2>4, <2>5, <2>6
<1>2. DInv => [\A c \in Clients : Return(c) /\ ~call[c].met => Done(c)]_vars
  BY <1>1
<1> QED BY DInvariant, <1>2, PTL DEF DoneMeansListed

-----------------------------------------------------------------------------
(* What a session has uploaded where nobody else has written.              *)

UploadHolds ==
    session.stage \in {"open", "closing"} =>
        \A r \in session.plan : <<r.dir, r.name>> \notin session.met =>
            LET e == entries[r.dir][r.name]
            IN  /\ r.part = "body" => e.id = None
                /\ session.stage = "closing" /\ r \notin session.todo =>
                      /\ r.part = "body" => e.body = r.body
                      /\ r.part = "id" => e.id = r.id
                      /\ r.part = "named" => e.named

KInv == TInv /\ PlanAgrees(session.plan) /\ UploadHolds

LEMMA KInit == Init => KInv
  BY TInit DEF KInv, Init, NoSession, PlanAgrees, PlanReaches, UploadHolds

\* A call's request is noticed, or leaves the entries of the plan.
LEMMA KStepCall ==
  ASSUME KInv, NEW c \in Clients, Step(c), TInv'
  PROVE  KInv'
<1>1. TInv
  BY DEF KInv
<1>2. PICK r \in Request :
         /\ Send(r) /\ (r.part = "store" => r.id \in Ids)
         /\ session'.stage = session.stage /\ session'.plan = session.plan
         /\ session'.todo = session.todo
         /\ session.met \subseteq session'.met
         /\ session.stage # "none" /\ r.part # "store" => <<r.dir, r.name>> \in session'.met
  BY <1>1, StepIs
<1>3. /\ \A d \in Dirs, n \in Names :
            d # r.dir \/ n # r.name => entries'[d][n] = entries[d][n]
      /\ Wrote(r, entries[r.dir][r.name], entries'[r.dir][r.name])
  BY <1>1, <1>2, SendIs
<1>4. UploadHolds'
  <2> SUFFICES ASSUME session.stage \in {"open", "closing"},
                      NEW s \in session.plan, <<s.dir, s.name>> \notin session'.met
               PROVE  /\ entries'[s.dir][s.name] = entries[s.dir][s.name]
                      /\ <<s.dir, s.name>> \notin session.met
    BY <1>2 DEF KInv, UploadHolds
  <2>1. s.dir \in Dirs /\ s.name \in Names
    BY <1>1 DEF TInv, TypeOK, Session, Request
  <2> QED BY <1>2, <1>3, <2>1 DEF Wrote
<1> QED BY <1>2, <1>4 DEF KInv

\* A request of the upload writes nothing of another one at the same place.
LEMMA KUpload ==
  ASSUME KInv, Upload, TInv'
  PROVE  KInv'
<1>1. TInv /\ PlanAgrees(session.plan)
  BY DEF KInv
<1>2. PICK r \in Request :
         /\ r \in session.todo /\ r \in session.plan /\ Send(r)
         /\ r.part # "gone" /\ (r.part \in {"store", "id"} => r.id \in Ids)
         /\ session.stage = "closing" /\ session'.stage = "closing"
         /\ session'.plan = session.plan /\ session'.todo = session.todo \ {r}
         /\ session'.met = session.met
  BY <1>1, UploadIs
<1>3. /\ \A d \in Dirs, n \in Names :
            d # r.dir \/ n # r.name => entries'[d][n] = entries[d][n]
      /\ Wrote(r, entries[r.dir][r.name], entries'[r.dir][r.name])
  BY <1>1, <1>2, SendIs
<1>4. ASSUME NEW s \in session.plan, <<s.dir, s.name>> \notin session.met,
             NEW e, e = entries[s.dir][s.name], NEW w, w = entries'[s.dir][s.name]
      PROVE  /\ s.part = "body" => w.id = None
             /\ s \notin session.todo \ {r} =>
                   /\ s.part = "body" => w.body = s.body
                   /\ s.part = "id" => w.id = s.id
                   /\ s.part = "named" => w.named
  <2>1. s.dir \in Dirs /\ s.name \in Names
    BY <1>1 DEF TInv, TypeOK, Session, Request
  <2>2. /\ s.part = "body" => e.id = None
        /\ s \notin session.todo =>
              /\ s.part = "body" => e.body = s.body
              /\ s.part = "id" => e.id = s.id
              /\ s.part = "named" => e.named
    BY <1>2, <1>4 DEF KInv, UploadHolds
  <2>3. CASE s.dir # r.dir \/ s.name # r.name
    BY <1>3, <1>4, <2>1, <2>2, <2>3
  <2>4. CASE s.dir = r.dir /\ s.name = r.name
    <3>1. Wrote(r, e, w)
      BY <1>3, <1>4, <2>4
    <3>2. s.part \in {"id", "body"} /\ r.part = s.part => s = r
      BY <1>1, <1>2, <2>4 DEF PlanAgrees
    <3>3. s.part = "body" => r.part # "id"
      BY <1>1, <1>2, <2>4 DEF PlanAgrees
    <3>4. s.part = "body" => w.id = None
      BY <1>2, <2>2, <3>1, <3>3 DEF Wrote
    <3>5. ASSUME s.part = "body", s \notin session.todo \ {r} PROVE w.body = s.body
      BY <1>2, <2>2, <3>1, <3>2, <3>5 DEF Wrote
    <3>6. ASSUME s.part = "id", s \notin session.todo \ {r} PROVE w.id = s.id
      BY <1>2, <2>2, <3>1, <3>2, <3>6 DEF Wrote
    <3>7. ASSUME s.part = "named", s \notin session.todo \ {r} PROVE w.named
      BY <1>2, <2>2, <3>1, <3>7 DEF Wrote
    <3> QED BY <3>4, <3>5, <3>6, <3>7
  <2> QED BY <2>3, <2>4
<1>5. UploadHolds'
  BY <1>2, <1>4 DEF UploadHolds
<1> QED BY <1>1, <1>2, <1>5 DEF KInv

LEMMA KStep == KInv /\ [Next]_vars => KInv'
<1> SUFFICES ASSUME KInv, [Next]_vars PROVE KInv'
  OBVIOUS
<1>1. TInv /\ TInv'
  BY TStep DEF KInv
<1>2. ASSUME UNCHANGED <<entries, session>> PROVE KInv'
  BY <1>1, <1>2 DEF KInv, UploadHolds
<1>3. ASSUME NEW c \in Clients, NEW d \in Dirs, List(c, d) PROVE KInv'
  BY <1>2, <1>3 DEF List
<1>4. ASSUME NEW c \in Clients, NEW d \in Dirs, NEW n \in Names,
             MakeDir(c, d, n) \/ Remove(c, d, n) \/ \E b \in Bodies : WriteFile(c, d, n, b)
      PROVE  KInv'
  BY <1>2, <1>4 DEF MakeDir, Remove, WriteFile, Begin
<1>5. ASSUME NEW c \in Clients, Step(c) PROVE KInv'
  BY <1>1, <1>5, KStepCall
<1>6. ASSUME NEW c \in Clients, Return(c) \/ BreakOff(c) PROVE KInv'
  BY <1>2, <1>6 DEF Return, BreakOff
<1>7. ASSUME OpenVault PROVE KInv'
  <2>1. PICK new : Renaming(new) /\
          session' = [stage |-> "open", plan |-> Encrypted(new), todo |-> {},
                      copied |-> Files, met |-> {}]
    BY <1>7 DEF OpenVault, Renaming
  <2>2. /\ PlanAgrees(Encrypted(new))
        /\ \A r \in Encrypted(new) : r.part = "body" => entries[r.dir][r.name].id = None
        /\ UNCHANGED entries
    BY <1>1, <1>7, <2>1, OpenPlans DEF OpenVault
  <2>3. session'.plan = Encrypted(new) /\ session'.stage = "open"
    BY <2>1
  <2>4. UploadHolds'
    BY <2>2, <2>3 DEF UploadHolds
  <2> QED BY <1>1, <2>2, <2>3, <2>4 DEF KInv
<1>8. ASSUME CloseVault PROVE KInv'
  <2>1. /\ session.stage = "open" /\ session'.plan = session.plan /\ session'.todo = session.plan
        /\ session'.met = session.met /\ UNCHANGED entries
    BY <1>1, <1>8 DEF CloseVault, TInv, TypeOK, Session
  <2>2. UploadHolds'
    BY <2>1 DEF UploadHolds, KInv
  <2> QED BY <1>1, <2>1, <2>2 DEF KInv
<1>9. ASSUME Upload PROVE KInv'
  BY <1>1, <1>9, KUpload
<1>10. ASSUME FailUpload PROVE KInv'
  <2>1. session'.plan = session.plan /\ session'.stage = "stuck"
    BY <1>1, <1>10 DEF FailUpload, TInv, TypeOK, Session
  <2> QED BY <1>1, <2>1 DEF KInv, UploadHolds
<1>11. ASSUME Quit \/ Closed PROVE KInv'
  <2>1. session' = NoSession
    BY <1>11 DEF Quit, Closed
  <2> QED BY <1>1, <2>1 DEF KInv, UploadHolds, NoSession, PlanAgrees, PlanReaches
<1>12. ASSUME UNCHANGED vars PROVE KInv'
  BY <1>2, <1>12 DEF vars
<1> QED BY <1>3, <1>4, <1>5, <1>6, <1>7, <1>8, <1>9, <1>10, <1>11, <1>12 DEF Next

LEMMA KInvariant == Spec => []KInv
<1>1. KInv /\ [Next]_vars => KInv'
  BY KStep
<1> QED BY KInit, <1>1, PTL DEF Spec

-----------------------------------------------------------------------------
(* What a session uploads is what it found, file by file.                  *)

FilesOf(plan) == {r \in plan : r.part = "body"}

FilesCounted ==
    session.stage \in {"open", "closing"} =>
        Cardinality(FilesOf(session.plan)) = Cardinality(session.copied)

LEMMA OpenCounts ==
  ASSUME TInv, Decryptable, NEW new, Renaming(new), IsFiniteSet(Ids), IsFiniteSet(Names)
  PROVE  Cardinality(FilesOf(Encrypted(new)))
           = Cardinality(Files)
<1> DEFINE copied == Files
           files == FilesOf(Encrypted(new))
           f == [p \in copied |-> Copy(new, p[1], p[2], "body")]
<1>1. TInv /\ Reachable \subseteq Dirs
  BY ReachableTree
<1>2. IsFiniteSet(copied)
  <2>1. IsFiniteSet(Dirs)
    BY FS_AddElement DEF Dirs
  <2>2. IsFiniteSet(Dirs \X Names)
    BY <2>1, FS_Product
  <2>3. copied \subseteq Dirs \X Names
    BY <1>1 DEF Files
  <2> QED BY <2>2, <2>3, FS_Subset
<1>3. \A d \in Reachable, n \in Names : <<d, n>> \in copied <=> "body" \in PartsOf(d, n)
  <2> SUFFICES ASSUME NEW d \in Reachable, NEW n \in Names
               PROVE  FileAt(d, n) <=> "body" \in PartsOf(d, n)
    BY DEF Files
  <2>1. "body" \in PartsOf(d, n) <=> entries[d][n].id = None /\ entries[d][n].body # None
    BY DEF PartsOf
  <2>2. n \in Long /\ entries[d][n].body # None => entries[d][n].named
    BY <1>1 DEF TInv, EntriesInOrder, Decryptable, Listable
  <2> QED BY <2>1, <2>2 DEF FileAt
<1>4. \A d \in Reachable, n \in Names : "body" \in PartsOf(d, n) =>
         /\ Copy(new, d, n, "body") \in files
         /\ Copy(new, d, n, "body").dir = At(new, d) /\ Copy(new, d, n, "body").name = n
  BY <1>1, CopyType, EncryptedIs DEF FilesOf
<1>5. ASSUME NEW r \in files
      PROVE  \E d \in Reachable, n \in Names : "body" \in PartsOf(d, n) /\ r = Copy(new, d, n, "body")
  <2>1. r \in Encrypted(new) /\ r.part = "body"
    BY DEF FilesOf
  <2>2. \A d \in Reachable \ {Root} : r # Store(new, d)
    BY <1>1, <2>1, StoreType
  <2> QED BY <1>1, <2>1, <2>2, CopyType, EncryptedIs
<1>6. \A c, d \in Reachable : At(new, c) = At(new, d) => c = d
  BY <1>1, AtType, ConstantAssumption DEF Renaming
<1>7. \A p \in copied : p[1] \in Reachable /\ p[2] \in Names /\ p = <<p[1], p[2]>>
  BY DEF Files
<1> HIDE DEF copied, files
<1>8. f \in [copied -> files]
  BY <1>3, <1>4, <1>7
<1>9. ASSUME NEW p \in copied, NEW q \in copied, f[p] = f[q] PROVE p = q
  BY <1>3, <1>4, <1>6, <1>7, <1>9
<1>10. ASSUME NEW r \in files PROVE \E p \in copied : f[p] = r
  <2>1. PICK d \in Reachable, n \in Names : "body" \in PartsOf(d, n) /\ r = Copy(new, d, n, "body")
    BY <1>5
  <2>2. <<d, n>> \in copied
    BY <1>3, <2>1
  <2>3. f[<<d, n>>] = r
    BY <2>1, <2>2
  <2> QED BY <2>2, <2>3
<1> HIDE DEF f
<1>11. f \in Bijection(copied, files)
  BY <1>8, <1>9, <1>10 DEF Bijection, Injection, Surjection, IsInjective
<1>12. Cardinality(files) = Cardinality(copied)
  BY <1>2, <1>11, FS_Bijection DEF ExistsBijection
<1> QED BY <1>12 DEF copied, files

LEMMA CountedStep ==
  ASSUME IsFiniteSet(Ids), IsFiniteSet(Names), TInv, FilesCounted, [Next]_vars
  PROVE  FilesCounted'
<1>1. ASSUME OpenVault PROVE FilesCounted'
  <2>1. PICK new : Renaming(new) /\
          session' = [stage |-> "open", plan |-> Encrypted(new), todo |-> {},
                      copied |-> Files, met |-> {}]
    BY <1>1 DEF OpenVault, Renaming
  <2>2. Decryptable
    BY <1>1 DEF OpenVault
  <2>3. Cardinality(FilesOf(Encrypted(new)))
           = Cardinality(Files)
    BY <2>1, <2>2, OpenCounts
  <2>4. /\ session'.plan = Encrypted(new)
        /\ session'.copied = Files
    BY <2>1
  <2>5. Cardinality(FilesOf(session'.plan)) = Cardinality(session'.copied)
    BY <2>3, <2>4
  <2> QED BY <2>5 DEF FilesCounted
<1>2. ASSUME session'.plan = session.plan, session'.copied = session.copied,
             session'.stage \in {"open", "closing"} => session.stage \in {"open", "closing"}
      PROVE  FilesCounted'
  BY <1>2 DEF FilesCounted
<1>3. ASSUME CloseVault \/ FailUpload \/ Upload PROVE FilesCounted'
  BY <1>2, <1>3 DEF CloseVault, FailUpload, Upload, TInv, TypeOK, Session
<1>4. ASSUME Quit \/ Closed PROVE FilesCounted'
  BY <1>4 DEF Quit, Closed, NoSession, FilesCounted
<1>5. ASSUME UNCHANGED session PROVE FilesCounted'
  BY <1>2, <1>5
<1>6. ASSUME NEW c \in Clients, NEW d \in Dirs, List(c, d) PROVE FilesCounted'
  BY <1>5, <1>6 DEF List
<1>7. ASSUME NEW c \in Clients, NEW d \in Dirs, NEW n \in Names,
             MakeDir(c, d, n) \/ Remove(c, d, n) \/ \E b \in Bodies : WriteFile(c, d, n, b)
      PROVE  FilesCounted'
  BY <1>5, <1>7 DEF MakeDir, Remove, WriteFile, Begin
<1>8. ASSUME NEW c \in Clients, Step(c) \/ Return(c) \/ BreakOff(c) PROVE FilesCounted'
  <2>1. Step(c) => /\ session'.plan = session.plan /\ session'.copied = session.copied
                   /\ session'.stage = session.stage
    BY StepIs
  <2> QED BY <1>2, <1>5, <1>8, <2>1 DEF Return, BreakOff
<1>9. ASSUME UNCHANGED vars PROVE FilesCounted'
  BY <1>5, <1>9 DEF vars
<1> QED BY <1>1, <1>3, <1>4, <1>6, <1>7, <1>8, <1>9 DEF Next

\* When CloseVault returns, as many files as were copied out have been uploaded, each
\* whole where nobody else has written, and, when nobody has, in a folder that can be
\* reached, although every folder has another identifier than before and the requests
\* came in any order.
THEOREM SessionKeeps ==
  ASSUME IsFiniteSet(Ids), IsFiniteSet(Names)
  PROVE  Spec => SessionKeepsFiles
<1> DEFINE files == {r \in session.plan : r.part = "body"}
           Kept == /\ Cardinality(files) = Cardinality(session.copied)
                   /\ \A r \in files :
                         /\ <<r.dir, r.name>> \notin session.met =>
                               FileAt(r.dir, r.name) /\ entries[r.dir][r.name].body = r.body
                         /\ session.met = {} => r.dir \in Reachable
<1>1. Init => FilesCounted
  BY DEF Init, NoSession, FilesCounted
<1>2. TInv /\ FilesCounted /\ [Next]_vars => FilesCounted'
  BY CountedStep
<1>3. Spec => []FilesCounted
  BY TInvariant, <1>1, <1>2, PTL DEF Spec
<1>4. ASSUME KInv, FilesCounted, Closed PROVE Kept
  <2>1. session.stage = "closing" /\ session.todo = {} /\ TInv /\ PlanAgrees(session.plan)
    BY <1>4 DEF Closed, KInv
  <2>2. \A r \in session.plan : <<r.dir, r.name>> \notin session.met =>
           LET e == entries[r.dir][r.name]
           IN  /\ r.part = "body" => e.id = None /\ e.body = r.body
               /\ r.part = "id" => e.id = r.id
               /\ r.part = "named" => e.named
    BY <1>4, <2>1 DEF KInv, UploadHolds
  <2>3. ASSUME NEW r \in files, <<r.dir, r.name>> \notin session.met
        PROVE  FileAt(r.dir, r.name) /\ entries[r.dir][r.name].body = r.body
    <3>1. r.name \in Long => entries[r.dir][r.name].named
      BY <2>1, <2>2, <2>3 DEF PlanAgrees
    <3> QED BY <2>1, <2>2, <2>3, <3>1 DEF FileAt, PlanAgrees
  <2>4. ASSUME session.met = {} PROVE \A r \in files : r.dir \in Reachable
    <3>1. ASSUME NEW r \in session.plan, r.part = "id", r.dir \in Reachable PROVE r.id \in Reachable
      <4>1. entries[r.dir][r.name].id = r.id
        BY <2>2, <2>4, <3>1
      <4>2. r.id \in Ids /\ r.name \in Names
        BY <2>1, <3>1 DEF TInv, TypeOK, Session, Request, PlanInOrder
      <4> QED BY <2>1, <3>1, <4>1, <4>2, ReachableTree, ConstantAssumption DEF ClosedUnder
    <3> QED BY <2>1, <3>1, ReachableTree DEF PlanAgrees, PlanReaches
  <2>5. Cardinality(FilesOf(session.plan)) = Cardinality(session.copied)
    BY <1>4, <2>1 DEF FilesCounted
  <2> QED BY <2>3, <2>4, <2>5 DEF FilesOf
<1>5. KInv /\ FilesCounted => [Closed => Kept]_vars
  BY <1>4
<1> QED BY KInvariant, <1>3, <1>5, PTL DEF SessionKeepsFiles

=============================================================================
