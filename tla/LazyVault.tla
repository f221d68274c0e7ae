------------------------------ MODULE LazyVault ------------------------------
(***************************************************************************)
(* A vault on the server that several devices change without a session of  *)
(* their own: the lazy operations (internal/vault/lazy.go) behind the      *)
(* mobile Vault, each made of several requests, and the desktop session    *)
(* that downloads the whole vault and uploads it again.  Nothing keeps     *)
(* them apart: the code neither locks nor compares versions.               *)
(*                                                                         *)
(* A folder of the vault has an identifier; what it contains is stored     *)
(* under a path that is computed from the identifier, and its entry in the *)
(* folder above holds the identifier.  Encryption keeps names and contents *)
(* apart, so both stand for themselves.  The server is external: a PUT     *)
(* without a base version replaces a file, and the missing folders above   *)
(* it are made.                                                            *)
(***************************************************************************)
EXTENDS Naturals, Sequences, FiniteSets

CONSTANTS
    Clients,      \* devices with a mobile Vault
    Ids,          \* identifiers uuid.NewString can give
    Root, None,
    Names, Long,  \* names, and those whose encrypted form is shortened
    Bodies,       \* contents of files
    MaxCalls      \* bound on calls and sessions

ASSUME ConstantAssumption ==
    /\ Root \notin Ids /\ None \notin Ids \cup Bodies \cup Names \cup {Root}
    /\ Long \subseteq Names /\ MaxCalls \in Nat

VARIABLES
    entries,    \* folder and name -> what is stored there
    stored,     \* the folders that have a storage directory
    left,       \* history: identifiers left behind, whose entry was removed or got
                \* another one, or was still to be uploaded when a session ended
    known,      \* the folders a client has listed or made
    call,       \* the call each client is in
    session,    \* the desktop's session
    begun       \* how many calls and sessions there were

callVars == <<known, call>>
vars == <<entries, stored, left, known, call, session, begun>>

Dirs == Ids \cup {Root}

\* A long name is always a folder (.c9s), with the name in it (name.c9s).
\* dir.c9r in a folder makes it a folder of the vault; otherwise contents.c9r
\* in it, or what stands there instead of a folder, is a file.
Entry == [folder : BOOLEAN, named : BOOLEAN, id : Ids \cup {None}, body : Bodies \cup {None}]
NoEntry == [folder |-> FALSE, named |-> FALSE, id |-> None, body |-> None]

\* One request: the part of the entry it writes; "store" is for the two that make
\* the storage directory of a new folder and the dirid.c9r in it, which nobody reads.
Parts == {"folder", "named", "id", "body", "store", "gone"}
Request == [part : Parts, dir : Dirs, name : Names, id : Ids \cup {None}, body : Bodies \cup {None}]

\* todo: the parts it still has to send.  met: somebody else has written the entry
\* since it began, or it writes a file where a folder is.
Call == [do : {"idle", "make", "write", "remove"}, dir : Dirs, name : Names \cup {None},
         id : Ids \cup {None}, body : Bodies \cup {None}, todo : Seq(Parts), met : BOOLEAN]
Idle == [do |-> "idle", dir |-> Root, name |-> None, id |-> None, body |-> None, todo |-> <<>>,
         met |-> FALSE]

\* plan: what CloseVault has to upload; copied: the places of the files it was copied
\* from; met: the entries that others have written since it was opened.
Places == Dirs \X Names
Session == [stage : {"none", "open", "closing", "stuck"}, plan : SUBSET Request,
            todo : SUBSET Request, copied : SUBSET Places, met : SUBSET Places]
NoSession == [stage |-> "none", plan |-> {}, todo |-> {}, copied |-> {}, met |-> {}]

TypeOK ==
    /\ entries \in [Dirs -> [Names -> Entry]]
    /\ stored \subseteq Dirs
    /\ left \subseteq Ids
    /\ known \in [Clients -> SUBSET Dirs]
    /\ call \in [Clients -> Call]
    /\ session \in Session /\ begun \in 0 .. MaxCalls
    /\ \A c \in Clients : call[c] # Idle => call[c].dir \in known[c] /\ call[c].name \in Names
    /\ \A d \in Dirs, n \in Names :
          entries[d][n].id # None \/ entries[d][n].named => entries[d][n].folder

Init ==
    /\ entries = [d \in Dirs |-> [n \in Names |-> NoEntry]]
    /\ stored = {Root} /\ left = {}
    /\ known = [c \in Clients |-> {Root}]
    /\ call = [c \in Clients |-> Idle]
    /\ session = NoSession /\ begun = 0

-----------------------------------------------------------------------------
(* What is stored                                                          *)

\* The folders of R, and those below them.
Under(es, R) ==
    {i \in Dirs : \A S \in SUBSET Dirs :
        R \subseteq S /\ (\A k \in S, n \in Names : es[k][n].id \in S \cup {None}) => i \in S}

Reachable == Under(entries, {Root})

\* ListDir takes it for a file, ReadFile gives its body.
FileAt(d, n) ==
    LET e == entries[d][n]
    IN  e.body # None /\ e.id = None /\ (n \in Long => e.named)

\* ListDir can tell what it is.
Listable(d, n) ==
    LET e == entries[d][n]
    IN  /\ n \in Long /\ e.folder => e.named /\ (e.id # None \/ e.body # None)
        /\ n \notin Long /\ e.folder => e.id # None

\* No entry, call or session uses the identifier.
Unused(i) ==
    /\ i \notin stored \cup left
    /\ \A d \in Dirs, n \in Names : entries[d][n].id # i
    /\ \A c \in Clients : call[c].id # i /\ i \notin known[c]
    /\ \A r \in session.plan : r.id # i

-----------------------------------------------------------------------------
(* Requests                                                                *)

\* A file is no folder, and a folder no file.
Accepts(r) ==
    LET e == entries[r.dir][r.name]
    IN  CASE r.part \in {"store", "gone"}                -> TRUE
          [] r.part = "body" /\ r.name \notin Long       -> ~e.folder
          [] OTHER                                       -> e.folder \/ e = NoEntry

\* Mutant: Remove of a shortened entry leaves the name that is in its folder.
WrittenHalf(r, e) ==
    CASE r.part = "folder" -> [e EXCEPT !.folder = TRUE]
      [] r.part = "named"  -> [e EXCEPT !.folder = TRUE, !.named = TRUE]
      [] r.part = "id"     -> [e EXCEPT !.folder = TRUE, !.id = r.id]
      [] r.part = "body"   -> [e EXCEPT !.folder = r.name \in Long, !.body = r.body]
      [] r.part = "gone"   -> [NoEntry EXCEPT !.named = e.named]
      [] OTHER             -> e

Written(r, e) ==
    CASE r.part = "folder" -> [e EXCEPT !.folder = TRUE]
      [] r.part = "named"  -> [e EXCEPT !.folder = TRUE, !.named = TRUE]
      [] r.part = "id"     -> [e EXCEPT !.folder = TRUE, !.id = r.id]
      [] r.part = "body"   -> [e EXCEPT !.folder = r.name \in Long, !.body = r.body]
      [] r.part = "gone"   -> NoEntry
      [] OTHER             -> e

Send(r) ==
    /\ Accepts(r)
    /\ entries' = [entries EXCEPT ![r.dir][r.name] = Written(r, @)]
    /\ stored' = CASE r.part = "store" -> stored \cup {r.id}
                   [] r.part = "gone"  -> stored
                   [] OTHER            -> stored \cup {r.dir}
    /\ left' = LET e == entries[r.dir][r.name]
               IN  left \cup ({e.id} \ {None, Written(r, e).id})

\* The request writes the entry that call k is about.
Meets(r, k) == r.part # "store" /\ k.dir = r.dir /\ k.name = r.name
Notice(r, k) == [k EXCEPT !.met = @ \/ Meets(r, k)]

-----------------------------------------------------------------------------
(* The mobile Vault                                                        *)

Busy(c) == call[c] # Idle

Begin(c, do, d, n, id, body, todo) ==
    /\ ~Busy(c) /\ d \in known[c]
    /\ call' = [call EXCEPT ![c] =
                  [do |-> do, dir |-> d, name |-> n, id |-> id, body |-> body, todo |-> todo,
                   met |-> do = "write" /\ n \in Long /\ entries[d][n].id # None]]
    /\ begun < MaxCalls /\ begun' = begun + 1
    /\ UNCHANGED <<entries, stored, left, known, session>>

\* Refresh and List.  (A client may go on with a folder it listed long ago.)
List(c, d) ==
    /\ ~Busy(c) /\ d \in known[c]
    /\ \A n \in Names : Listable(d, n)
    /\ known' = [known EXCEPT ![c] = @ \cup ({entries[d][n].id : n \in Names} \ {None})]
    /\ UNCHANGED <<entries, stored, left, call, session, begun>>

DirParts(n) == IF n \in Long THEN <<"folder", "named", "id", "store">>
                            ELSE <<"folder", "id", "store">>

\* A folder is made whatever is there.
MakeDir(c, d, n) ==
    \E i \in Ids : Unused(i) /\ Begin(c, "make", d, n, i, None, DirParts(n))

\* Mutant: a shortened entry without its name.
FilePartsUnnamed(n) == IF n \in Long THEN <<"folder", "body">> ELSE <<"body">>

FileParts(n) == IF n \in Long THEN <<"folder", "named", "body">> ELSE <<"body">>

WriteFile(c, d, n, b) == Begin(c, "write", d, n, None, b, FileParts(n))

Remove(c, d, n) == Begin(c, "remove", d, n, None, None, <<"gone">>)

\* The next request of a call.
Ask(k) == [part |-> Head(k.todo), dir |-> k.dir, name |-> k.name, id |-> k.id, body |-> k.body]

Step(c) ==
    LET r == Ask(call[c])
    IN  /\ call[c].todo # <<>>
        /\ Send(r)
        /\ call' = [k \in Clients |-> IF k = c THEN [call[c] EXCEPT !.todo = Tail(@)]
                                      ELSE Notice(r, call[k])]
        /\ session' = IF session.stage = "none" \/ r.part = "store" THEN session
                      ELSE [session EXCEPT !.met = @ \cup {<<r.dir, r.name>>}]
        /\ UNCHANGED <<known, begun>>

Return(c) ==
    LET k == call[c]
    IN  /\ Busy(c) /\ k.todo = <<>>
        /\ known' = [known EXCEPT ![c] = IF k.do = "make" THEN @ \cup {k.id} ELSE @]
        /\ call' = [call EXCEPT ![c] = Idle]
        /\ UNCHANGED <<entries, stored, left, session, begun>>

\* Mutant: the error of a request is dropped and Mkdir returns the identifier.
BreakOffUnseen(c) ==
    /\ Busy(c)
    /\ known' = [known EXCEPT ![c] = IF call[c].do = "make" THEN @ \cup {call[c].id} ELSE @]
    /\ call' = [call EXCEPT ![c] = Idle]
    /\ UNCHANGED <<entries, stored, left, session, begun>>

\* A request fails, its answer is lost, or the program ends.
BreakOff(c) ==
    /\ Busy(c)
    /\ call' = [call EXCEPT ![c] = Idle]
    /\ UNCHANGED <<entries, stored, left, known, session, begun>>

-----------------------------------------------------------------------------
(* The desktop session                                                     *)

\* The files that can be reached.
Files == {p \in Reachable \X Names : FileAt(p[1], p[2])}

\* decryptDir fails also when the storage directory of a folder is missing.
Decryptable == /\ Reachable \subseteq stored
               /\ \A d \in Reachable, n \in Names : Listable(d, n)

PartsOf(d, n) ==
    LET e == entries[d][n]
    IN  {p \in {"folder", "named", "id", "body"} :
            CASE p = "folder" -> e.folder [] p = "named" -> e.named
              [] p = "id" -> e.id # None  [] OTHER -> e.id = None /\ e.body # None}

\* Mutant: the walk does not go down into folders.
EncryptedRoot(new) ==
    {[part |-> p, dir |-> Root, name |-> n, id |-> None, body |-> entries[Root][n].body] :
        p \in {"body"}, n \in {m \in Names : FileAt(Root, m)}}

\* encryptDir gives every folder but the root a new identifier.
Encrypted(new) ==
    LET at(d) == IF d = Root THEN Root ELSE new[d]
        id(e) == IF e.id = None THEN None ELSE new[e.id]
    IN  (UNION {UNION {{[part |-> p, dir |-> at(d), name |-> n, id |-> id(entries[d][n]),
                         body |-> entries[d][n].body] : p \in PartsOf(d, n)} : n \in Names}
                 : d \in Reachable})
        \cup {[part |-> "store", dir |-> Root, name |-> CHOOSE n \in Names : TRUE,
               id |-> new[d], body |-> None] : d \in Reachable \ {Root}}

\* OpenVault: the plain copy, and the form CloseVault will give it.
OpenVault ==
    /\ session = NoSession /\ begun < MaxCalls
    /\ Decryptable
    /\ \E new \in [Reachable \ {Root} -> {i \in Ids : Unused(i)}] :
         /\ \A c, d \in DOMAIN new : new[c] = new[d] => c = d
         /\ session' = [stage |-> "open", plan |-> Encrypted(new), todo |-> {},
                        copied |-> Files, met |-> {}]
    /\ begun' = begun + 1
    /\ UNCHANGED <<entries, stored, left, known, call>>

\* The vault is encrypted again, and its keys are forgotten.
CloseVault ==
    /\ session.stage = "open"
    /\ session' = [session EXCEPT !.stage = "closing", !.todo = session.plan]
    /\ UNCHANGED <<entries, stored, left, known, call, begun>>

\* In the order of the encrypted names, which is any order.
Upload ==
    /\ session.stage = "closing"
    /\ \E r \in session.todo : /\ Send(r)
                               /\ session' = [session EXCEPT !.todo = @ \ {r}]
                               /\ call' = [k \in Clients |-> Notice(r, call[k])]
    /\ UNCHANGED <<known, begun>>

\* A request fails, or its answer is lost: the session stays, and no later CloseVault
\* can do without the keys.
FailUpload ==
    /\ session.stage = "closing"
    /\ session' = [session EXCEPT !.stage = "stuck"]
    /\ UNCHANGED <<entries, stored, left, known, call, begun>>

\* Folders whose entries were left behind, or have not been uploaded yet.
Adrift == left \cup {r.id : r \in {s \in session.todo : s.part = "id"}}

\* The program is killed, or QuitApp ends it: what it closes fails when the session is
\* stuck, and the error is ignored.
Quit ==
    /\ session # NoSession
    /\ session' = NoSession
    /\ left' = Adrift
    /\ UNCHANGED <<entries, stored, known, call, begun>>

\* Mutant: the error of an upload is dropped.
ClosedAnyway ==
    /\ session.stage = "closing"
    /\ session' = NoSession
    /\ UNCHANGED <<entries, stored, left, known, call, begun>>

\* CloseVault returns without an error.
Closed ==
    /\ session.stage = "closing" /\ session.todo = {}
    /\ session' = NoSession
    /\ UNCHANGED <<entries, stored, left, known, call, begun>>

Next ==
    \/ \E c \in Clients :
         \/ \E d \in Dirs : \/ List(c, d)
                            \/ \E n \in Names : \/ MakeDir(c, d, n) \/ Remove(c, d, n)
                                                \/ \E b \in Bodies : WriteFile(c, d, n, b)
         \/ Step(c) \/ Return(c) \/ BreakOff(c)
    \/ OpenVault \/ CloseVault \/ Upload \/ FailUpload \/ Quit \/ Closed

Spec == Init /\ [][Next]_vars

-----------------------------------------------------------------------------
(* Properties                                                              *)

\* A call that returns without an error has left what it was asked for, whole and
\* in the place where ListDir finds it, also over what a call that broke off had left,
\* unless another device wrote the same entry meanwhile, or it was a folder and the
\* call writes a file.
DoneMeansListed ==
    [][\A c \in Clients : Return(c) /\ ~call[c].met =>
          LET k == call[c]
              e == entries[k.dir][k.name]
          IN  CASE k.do = "make"   -> e.id = k.id /\ Listable(k.dir, k.name) /\ k.id \in stored
                [] k.do = "write"  -> FileAt(k.dir, k.name) /\ e.body = k.body
                [] k.do = "remove" -> e = NoEntry]_vars

\* Every file that is stored can be reached from the root, or from a folder that was
\* removed or replaced, or whose entry an upload has not written (and never will, if it
\* was broken off), whatever devices do at once and wherever calls and uploads break off.
NothingHidden ==
    \A d \in Dirs, n \in Names : FileAt(d, n) => d \in Under(entries, {Root} \cup Adrift)

\* When CloseVault returns, each file that OpenVault found has been uploaded: it has its
\* entry unless another device has written that meanwhile, and it is in a folder that
\* can be reached, although every folder has another identifier than before, unless
\* other devices have changed the vault.
SessionKeepsFiles ==
    [][Closed =>
          LET files == {r \in session.plan : r.part = "body"}
          IN  /\ Cardinality(files) = Cardinality(session.copied)
              /\ \A r \in files :
                    /\ <<r.dir, r.name>> \notin session.met =>
                          FileAt(r.dir, r.name) /\ entries[r.dir][r.name].body = r.body
                    /\ session.met = {} => r.dir \in Reachable]_vars

\* When no other device has changed the vault, the end of the program, whenever it comes,
\* leaves no fewer files in reach than OpenVault has found.
NoDataLost ==
    [][Quit /\ session.met = {} => Cardinality(Files) >= Cardinality(session.copied)]_vars

\* What an upload puts out of reach is what the session has a copy of.
OrphansAreCopies == [][Upload => Files \ Files' \subseteq session.copied]_vars
=============================================================================
